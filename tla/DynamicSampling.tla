--------------------------- MODULE DynamicSampling ---------------------------
(***************************************************************************)
(* Same-episode dynamic resampling (src/rlff/proxy/dynamic_sampling.py)    *)
(* composed with the proxy agent: arun_episode of the grouped workflow     *)
(* starts GroupSize proxy sessions of the episode, gathers their results,  *)
(* asks the agent for the decision on the group, and starts over with the  *)
(* next attempt number until the agent accepts.                            *)
(*                                                                         *)
(* A key of the agent is an episode and an attempt.  The sessions, the     *)
(* OpenAIProxyWorkflow around every run of the agent, are external: one    *)
(* whose run failed raises or has no result, and one may have no result    *)
(* although its run got rewards.                                           *)
(***************************************************************************)
EXTENDS ProxyGroup

CONSTANTS
  Episode,     \* episodes in flight in this worker
  MaxAttempt   \* bound on the attempts explored

\* Every gather starts GroupSize sessions, and each calls run() once.
ASSUME DynamicSamplingAssumption ==
  /\ MaxAttempt \in Nat
  /\ Key = Episode \X (0 .. MaxAttempt)
  /\ \A k \in Key : IsFiniteSet(RunsOf(k)) /\ Cardinality(RunsOf(k)) = GroupSize

VARIABLES
  attempt,  \* the attempt arun_episode is at
  episode,  \* how arun_episode stands
  result    \* what each session gave to the gather

wrapperVars == <<attempt, episode, result>>
allVars     == <<vars, wrapperVars>>

EpisodeOf(r) == KeyOf[r][1]
AttemptOf(r) == KeyOf[r][2]

\* The sessions of one gather.
Sessions(e, a) == RunsOf(<<e, a>>)
Gathered(e)    == Sessions(e, attempt[e])

SamplingInit ==
  /\ Init
  /\ attempt = [e \in Episode |-> 0]
  /\ episode = [e \in Episode |-> "sampling"]
  /\ result = [r \in Run |-> "none"]

\* The gather has created the sessions of this attempt and earlier ones.
Created(r) == AttemptOf(r) <= attempt[EpisodeOf(r)]

\* A session proceeds, also when its gather raised meanwhile: gather does
\* not cancel the others.
SessionStep(r) ==
  /\ Created(r)
  /\ RunStep(r)
  /\ UNCHANGED wrapperVars

ScoreStep(s) == Score(s) /\ UNCHANGED wrapperVars

\* The session of an ended run leaves its result.
SessionEnds(r) ==
  /\ pc[r] \in Ended
  /\ result[r] = "none"
  /\ \E how \in IF pc[r] \in Returned THEN {"interactions", "empty"}
                                      ELSE {"raised", "empty"} :
       result' = [result EXCEPT ![r] = how]
  /\ UNCHANGED <<vars, attempt, episode>>

\* asyncio.gather raises with the first session that raises, and
\* arun_episode with it.
GatherRaises(e) ==
  /\ episode[e] = "sampling"
  /\ \E r \in Gathered(e) : result[r] = "raised"
  /\ episode' = [episode EXCEPT ![e] = "raised"]
  /\ UNCHANGED <<vars, attempt, result>>

GatherReturns(e) ==
  /\ episode[e] = "sampling"
  /\ \A r \in Gathered(e) : result[r] \in {"interactions", "empty"}

\* Faulty Merge: merges the sessions that have a result.
MergeAvailable(e) ==
  IF \E r \in Gathered(e) : result[r] = "interactions" THEN "batch" ELSE "empty"

\* _merge: a batch of complete groups only.
Merge(e) ==
  IF \A r \in Gathered(e) : result[r] = "interactions" THEN "batch" ELSE "empty"

\* The agent's decision on the gathered group.
Decision(e) == decisions[<<e, attempt[e]>>]

\* Faulty Consume: reads the decision without popping it.
ConsumeByReading(e) == UNCHANGED vars

\* consume_group_sampling_decision pops the decision.
Consume(e) ==
  /\ decisions' = [decisions EXCEPT ![<<e, attempt[e]>>] = "none"]
  /\ UNCHANGED <<runVars, group, table, scoreVars, answer, version>>

\* No decision: the agent raises and arun_episode with it.
DecisionMissing(e) ==
  /\ Dynamic
  /\ GatherReturns(e)
  /\ Decision(e) = "none"
  /\ episode' = [episode EXCEPT ![e] = "raised"]
  /\ UNCHANGED <<vars, attempt, result>>

\* The group was accepted, or there is no dynamic resampling: merge it.
Accepted(e) ==
  /\ GatherReturns(e)
  /\ Dynamic => Decision(e) = "accept"
  /\ Consume(e)
  /\ episode' = [episode EXCEPT ![e] = Merge(e)]
  /\ UNCHANGED <<attempt, result>>

\* Faulty Rejected: samples again whenever the group was not accepted.
RejectedUnlessAccepted(e) ==
  /\ Dynamic
  /\ episode[e] = "sampling"
  /\ \A r \in Gathered(e) : result[r] # "none"
  /\ Decision(e) # "accept"
  /\ attempt[e] < MaxAttempt
  /\ Consume(e)
  /\ attempt' = [attempt EXCEPT ![e] = @ + 1]
  /\ UNCHANGED <<episode, result>>

\* Drop the results and sample the same episode again.
Rejected(e) ==
  /\ Dynamic
  /\ GatherReturns(e)
  /\ Decision(e) = "reject"
  /\ attempt[e] < MaxAttempt
  /\ Consume(e)
  /\ attempt' = [attempt EXCEPT ![e] = @ + 1]
  /\ UNCHANGED <<episode, result>>

Wrapper(e) ==
  \/ GatherRaises(e)
  \/ DecisionMissing(e)
  \/ Accepted(e)
  \/ Rejected(e)

\* Every episode has ended or used up the attempts explored, and nothing runs.
SamplingQuiescent ==
  /\ \A r \in Run : Created(r) => result[r] # "none"
  /\ \A e \in Episode : episode[e] # "sampling" \/ attempt[e] = MaxAttempt
  /\ lockQueue = <<>>
  /\ UNCHANGED allVars

SamplingNext ==
  \/ \E r \in Run : SessionStep(r) \/ SessionEnds(r)
  \/ \E s \in Run : ScoreStep(s)
  \/ \E e \in Episode : Wrapper(e)
  \/ PublishVersion /\ UNCHANGED wrapperVars
  \/ SamplingQuiescent

SamplingSpec == SamplingInit /\ [][SamplingNext]_allVars

\* What makes a created session go on by itself.
SessionProceeds(r) ==
  /\ Created(r)
  /\ \/ VersionAnswered(r)
     \/ Join(r)
     \/ Store(r)
     \/ GenerationFails(r)
     \/ Wake(r)
  /\ UNCHANGED wrapperVars

\* gather schedules all its sessions, the loop resumes what is ready, every
\* request has a timeout, and an armed group timer fires.
SamplingFairness ==
  /\ \A r \in Run :
       /\ WF_allVars(SessionProceeds(r))
       /\ WF_allVars(Timeout(r) /\ UNCHANGED wrapperVars)
       /\ WF_allVars(SessionEnds(r))
       /\ WF_allVars(ScoreStep(r))
  /\ \A e \in Episode : WF_allVars(Wrapper(e))

FairSamplingSpec == SamplingSpec /\ SamplingFairness

(***************************************************************************)
(* Properties.                                                             *)
(***************************************************************************)

SamplingTypeOK ==
  /\ TypeOK
  /\ attempt \in [Episode -> 0 .. MaxAttempt]
  /\ episode \in [Episode -> {"sampling", "batch", "empty", "raised"}]
  /\ result \in [Run -> {"none", "interactions", "empty", "raised"}]

\* A training batch is one whole group of one attempt whose runs all got
\* rewards: no rejected, failed or partial group ever reaches the trainer.
BatchIsOneRewardedGroup ==
  \A e \in Episode : episode[e] = "batch" =>
    \A r, q \in Gathered(e) : pc[r] = "rewarded" /\ member[r] = member[q]

\* The episode is sampled again only when the agent rejected the group: the
\* rewards of an accepted group are never dropped for a new attempt.
OnlyRejectedAreResampled ==
  \A r \in Run : AttemptOf(r) < attempt[EpisodeOf(r)] =>
    /\ pc[r] # "rewarded"
    /\ member[r] # NoState /\ group[member[r]].future # "result"

\* An attempt that is over, rejected or merged, leaves neither a registered
\* group state nor a decision behind in the agent.
FinishedAttemptsLeaveNothing ==
  Dynamic => \A e \in Episode, a \in 0 .. MaxAttempt :
    \/ a < attempt[e]
    \/ a = attempt[e] /\ episode[e] \in {"batch", "empty"}
    => table[<<e, a>>] = NoState /\ decisions[<<e, a>>] = "none"

\* Every attempt comes to an end: the batch, an error, or the next attempt.
\* How many attempts follow is up to the rewards; the code has no limit.
AttemptEnds ==
  \A e \in Episode, a \in 0 .. MaxAttempt - 1 :
    (attempt[e] = a) ~> (episode[e] # "sampling" \/ attempt[e] > a)
=============================================================================
