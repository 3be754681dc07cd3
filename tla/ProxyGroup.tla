----------------------------- MODULE ProxyGroup -----------------------------
(***************************************************************************)
(* The inline proxy agent of RLFF (src/rlff/proxy/agent.py): GroupSize     *)
(* rollouts of one episode enter run(), claim a slot of one group state,   *)
(* generate one trajectory each, and wait on the group's future until a    *)
(* score task has scored the complete group.                               *)
(*                                                                         *)
(* Everything runs on one asyncio loop, so an action is the code between   *)
(* two suspension points.  No critical section under _states_lock awaits   *)
(* anything, so that lock never suspends its caller and is not a variable. *)
(* _reward_schedule_lock is held across reward calls: lockQueue is its     *)
(* FIFO, whose head is the score task that holds it.                       *)
(*                                                                         *)
(* A group state object is created by at most one run, so the run that     *)
(* created it is its identity: group[s] is the state created by run s.     *)
(***************************************************************************)
EXTENDS Integers, Sequences, FiniteSets

CONSTANTS
  Run,              \* calls of run()
  Key,              \* group keys: task id, group id and attempt
  KeyOf,            \* the key of each call
  GroupSize,        \* group_size, the expected number of runs of a group
  Dynamic,          \* dynamic_trajectory_resampling
  UseProxyVersion,  \* the reward step is the rollout model version
  MaxVersion,       \* bound on the versions the trainer publishes
  NoState           \* no group state

ASSUME ProxyGroupAssumption ==
  /\ KeyOf \in [Run -> Key]
  /\ GroupSize \in Nat \ {0}
  /\ Dynamic \in BOOLEAN
  /\ UseProxyVersion \in BOOLEAN
  /\ MaxVersion \in Nat
  /\ NoState \notin Run
  /\ NoState \notin Run \X Nat

VARIABLES
  pc,            \* where each run is, or how it ended
  observed,      \* the reward step a run resolved before joining
  member,        \* the group state a run holds a slot of
  slot,          \* that slot
  group,         \* the group state objects
  table,         \* _states: the registered group state of each key
  score,         \* the progress of each group's score task
  lockQueue,     \* _reward_schedule_lock: holder first, then waiters
  decisions,     \* _sampling_decisions
  answer,        \* what consume_group_sampling_decision told its caller
  scheduleStep,  \* _reward_schedule_step
  version        \* rollout model version, external

runVars   == <<pc, observed, member, slot>>
scoreVars == <<score, lockQueue, scheduleStep>>
vars == <<pc, observed, member, slot, group, table, score, lockQueue,
          decisions, answer, scheduleStep, version>>

Slots == 0 .. GroupSize - 1

Returned == {"rewarded", "rejected"}
Ended    == Returned \cup {"raised", "timedout", "cancelled"}
PC       == {"idle", "version", "generating", "waiting"} \cup Ended
Scored   == {"result", "zeros"}

GroupState ==
  [reward_step   : Nat,
   next_slot     : Nat,
   trajectories  : SUBSET Slots,
   finished_runs : Nat,
   failed        : BOOLEAN,
   future        : {"pending", "error"} \cup Scored]

NewGroup(step) ==
  [reward_step |-> step, next_slot |-> 0, trajectories |-> {},
   finished_runs |-> 0, failed |-> FALSE, future |-> "pending"]

Init ==
  /\ pc = [r \in Run |-> "idle"]
  /\ observed = [r \in Run |-> 0]
  /\ member = [r \in Run |-> NoState]
  /\ slot = [r \in Run |-> 0]
  /\ group = [s \in Run |-> NewGroup(0)]
  /\ table = [k \in Key |-> NoState]
  /\ score = [s \in Run |-> "none"]
  /\ lockQueue = <<>>
  /\ decisions = [k \in Key |-> "none"]
  /\ answer = [k \in Key |-> "none"]
  /\ scheduleStep = 0
  /\ version = 0

(***************************************************************************)
(* Operations on one group state object.                                   *)
(***************************************************************************)

\* Faulty Settle: the future.done() test is missing.
SettleAgain(g, outcome) == [g EXCEPT !.future = outcome]

\* future.set_result, when nobody settled the future before.
Settle(g, outcome) ==
  IF g.future = "pending" THEN [g EXCEPT !.future = outcome] ELSE g

\* Faulty FailState: peers that wait already are not woken.
FailStateQuietly(g) == [g EXCEPT !.failed = TRUE]

\* _fail_state: poison the group and wake the waiting peers.
FailState(g) == Settle([g EXCEPT !.failed = TRUE], "error")

\* The finally block of run(): count the run ...
Finish(g) == [g EXCEPT !.finished_runs = @ + 1]

\* Faulty TableAfter: the state goes when its present runs have finished.
TableAfterPresent(s, g) ==
  IF /\ g.finished_runs >= g.next_slot
     /\ table[KeyOf[s]] = s
  THEN [table EXCEPT ![KeyOf[s]] = NoState]
  ELSE table

\* ... and unregister the state with the last of its runs.
TableAfter(s, g) ==
  IF /\ g.next_slot >= GroupSize
     /\ g.finished_runs >= GroupSize
     /\ table[KeyOf[s]] = s
  THEN [table EXCEPT ![KeyOf[s]] = NoState]
  ELSE table

\* Run r leaves run() with the group state s in condition g.
Leave(r, s, g, how) ==
  /\ pc' = [pc EXCEPT ![r] = how]
  /\ group' = [group EXCEPT ![s] = Finish(g)]
  /\ table' = TableAfter(s, Finish(g))

(***************************************************************************)
(* Resolving the reward step and joining a group.                          *)
(***************************************************************************)

\* The rollout proxy answers get_version; the reply reaches run r later.
VersionAnswered(r) ==
  /\ UseProxyVersion
  /\ pc[r] = "idle"
  /\ pc' = [pc EXCEPT ![r] = "version"]
  /\ observed' = [observed EXCEPT ![r] = version]
  /\ UNCHANGED <<member, slot, group, table, scoreVars, decisions, answer, version>>

\* get_version fails, or the run is cancelled during it, before run() has
\* looked up a group: no group learns of it.
VersionFails(r) ==
  /\ UseProxyVersion
  /\ pc[r] \in {"idle", "version"}
  /\ \E how \in {"raised", "cancelled"} : pc' = [pc EXCEPT ![r] = how]
  /\ UNCHANGED <<observed, member, slot, group, table, scoreVars, decisions, answer, version>>

\* The registered state of r's key, or the one r is about to create.
Target(r) == IF table[KeyOf[r]] = NoState THEN r ELSE table[KeyOf[r]]

TargetGroup(r, step) ==
  IF table[KeyOf[r]] = NoState THEN NewGroup(step) ELSE group[table[KeyOf[r]]]

\* A registered group of another reward step, or one without a free slot:
\* run r fails the group and raises, without having become one of its runs.
Refuse(r, step) ==
  LET s == table[KeyOf[r]] IN
  /\ s # NoState
  /\ \/ group[s].reward_step # step
     \/ group[s].next_slot >= GroupSize
  /\ group' = [group EXCEPT ![s] = FailState(@)]
  /\ pc' = [pc EXCEPT ![r] = "raised"]
  /\ UNCHANGED <<member, slot, table>>

\* Faulty Claim: a run of another reward step gets in.
ClaimAnyStep(r, step) ==
  LET s == Target(r)
      g == TargetGroup(r, step) IN
  /\ g.next_slot < GroupSize
  /\ ~g.failed
  /\ member' = [member EXCEPT ![r] = s]
  /\ slot' = [slot EXCEPT ![r] = g.next_slot]
  /\ pc' = [pc EXCEPT ![r] = "generating"]
  /\ group' = [group EXCEPT ![s] = [g EXCEPT !.next_slot = @ + 1]]
  /\ table' = [table EXCEPT ![KeyOf[r]] = s]

\* Run r claims the next slot and starts to generate, or leaves at once when
\* the group has failed already.
Claim(r, step) ==
  LET s == Target(r)
      g == TargetGroup(r, step)
      claimed == [g EXCEPT !.next_slot = @ + 1] IN
  /\ g.reward_step = step
  /\ g.next_slot < GroupSize
  /\ member' = [member EXCEPT ![r] = s]
  /\ slot' = [slot EXCEPT ![r] = g.next_slot]
  /\ \/ /\ ~g.failed
        /\ pc' = [pc EXCEPT ![r] = "generating"]
        /\ group' = [group EXCEPT ![s] = claimed]
        /\ table' = [table EXCEPT ![KeyOf[r]] = s]
     \/ /\ g.failed
        /\ Leave(r, s, FailState(claimed), "raised")

\* run(), first segment: the step is the local counter, or the version read.
Join(r) ==
  LET step == IF UseProxyVersion THEN observed[r] ELSE scheduleStep IN
  /\ pc[r] = IF UseProxyVersion THEN "version" ELSE "idle"
  /\ observed' = [observed EXCEPT ![r] = step]
  /\ Refuse(r, step) \/ Claim(r, step)
  /\ UNCHANGED <<scoreVars, decisions, answer, version>>

(***************************************************************************)
(* Generating a trajectory and waiting for the group.                      *)
(***************************************************************************)

\* Faulty Store: scores once the runs that came so far are complete.
StoreEarly(r) ==
  LET s == member[r]
      stored == [group[s] EXCEPT !.trajectories = @ \cup {slot[r]}] IN
  /\ pc[r] = "generating"
  /\ ~group[s].failed
  /\ pc' = [pc EXCEPT ![r] = "waiting"]
  /\ group' = [group EXCEPT ![s] = stored]
  /\ IF Cardinality(stored.trajectories) = stored.next_slot
     THEN /\ score' = [score EXCEPT ![s] = "queued"]
          /\ lockQueue' = Append(lockQueue, s)
     ELSE UNCHANGED <<score, lockQueue>>
  /\ UNCHANGED <<observed, member, slot, table, decisions, answer, scheduleStep, version>>

\* The trajectory is complete: store it, and create the score task when it
\* is the last one.  In a failed group the run leaves instead.
Store(r) ==
  LET s == member[r]
      stored == [group[s] EXCEPT !.trajectories = @ \cup {slot[r]}] IN
  /\ pc[r] = "generating"
  /\ \/ /\ ~group[s].failed
        /\ pc' = [pc EXCEPT ![r] = "waiting"]
        /\ group' = [group EXCEPT ![s] = stored]
        /\ IF stored.trajectories = Slots
           THEN /\ score' = [score EXCEPT ![s] = "queued"]
                /\ lockQueue' = Append(lockQueue, s)
           ELSE UNCHANGED <<score, lockQueue>>
        /\ UNCHANGED table
     \/ /\ group[s].failed
        /\ Leave(r, s, FailState(group[s]), "raised")
        /\ UNCHANGED <<score, lockQueue>>
  /\ UNCHANGED <<observed, member, slot, decisions, answer, scheduleStep, version>>

\* Generation raises: request failure or timeout, empty or malformed reply.
GenerationFails(r) ==
  /\ pc[r] = "generating"
  /\ Leave(r, member[r], FailState(group[member[r]]), "raised")
  /\ UNCHANGED <<observed, member, slot, scoreVars, decisions, answer, version>>

\* The future is done and the waiting run resumes with its value.
Wake(r) ==
  LET s == member[r] IN
  /\ pc[r] = "waiting"
  /\ \/ group[s].future = "result" /\ Leave(r, s, group[s], "rewarded")
     \/ group[s].future = "zeros"  /\ Leave(r, s, group[s], "rejected")
     \/ group[s].future = "error"  /\ Leave(r, s, FailState(group[s]), "raised")
  /\ UNCHANGED <<observed, member, slot, scoreVars, decisions, answer, version>>

\* Faulty Timeout: the timer is armed only once the group is complete.
TimeoutOfComplete(r) ==
  /\ pc[r] = "waiting"
  /\ group[member[r]].trajectories = Slots
  /\ Leave(r, member[r], FailState(group[member[r]]), "timedout")
  /\ UNCHANGED <<observed, member, slot, scoreVars, decisions, answer, version>>

\* group_timeout_seconds expires.  The timer may fire in the loop iteration
\* between set_result and the resumption of this run, so a done future does
\* not exclude it.
Timeout(r) ==
  /\ pc[r] = "waiting"
  /\ Leave(r, member[r], FailState(group[member[r]]), "timedout")
  /\ UNCHANGED <<observed, member, slot, scoreVars, decisions, answer, version>>

\* The caller cancels the run.
Cancel(r) ==
  /\ pc[r] \in {"generating", "waiting"}
  /\ Leave(r, member[r], FailState(group[member[r]]), "cancelled")
  /\ UNCHANGED <<observed, member, slot, scoreVars, decisions, answer, version>>

(***************************************************************************)
(* The score task of a complete group.  It never looks at failed: a group  *)
(* that timed out meanwhile is scored all the same.                        *)
(***************************************************************************)

HoldsLock(s) == lockQueue # <<>> /\ Head(lockQueue) = s

\* The end of the score task, which releases the reward-schedule lock.
ScoreEnds(s) ==
  /\ score' = [score EXCEPT ![s] = "done"]
  /\ lockQueue' = Tail(lockQueue)

\* The task gets the lock and requests rewards: trajectory rewards alone
\* when dynamic, both scopes in parallel otherwise.
ScoreStarts(s) ==
  /\ HoldsLock(s)
  /\ score[s] = "queued"
  /\ score' = [score EXCEPT ![s] = "first"]
  /\ UNCHANGED <<runVars, group, table, lockQueue, decisions, answer, scheduleStep, version>>

\* Some character's trajectory reward varies: completion rewards follow.
ScoreInformative(s) ==
  /\ Dynamic
  /\ HoldsLock(s)
  /\ score[s] = "first"
  /\ score' = [score EXCEPT ![s] = "completion"]
  /\ UNCHANGED <<runVars, group, table, lockQueue, decisions, answer, scheduleStep, version>>

\* Faulty ScoreRejects: releases the runs without the decision.
ScoreRejectsSilently(s) ==
  /\ Dynamic
  /\ HoldsLock(s)
  /\ score[s] = "first"
  /\ group' = [group EXCEPT ![s] = Settle(@, "zeros")]
  /\ ScoreEnds(s)
  /\ UNCHANGED <<runVars, table, decisions, answer, scheduleStep, version>>

\* No character's trajectory reward varies: publish the rejection and
\* release the runs with zeros.
ScoreRejects(s) ==
  /\ Dynamic
  /\ HoldsLock(s)
  /\ score[s] = "first"
  /\ decisions[KeyOf[s]] = "none"
  /\ decisions' = [decisions EXCEPT ![KeyOf[s]] = "reject"]
  /\ group' = [group EXCEPT ![s] = Settle(@, "zeros")]
  /\ ScoreEnds(s)
  /\ UNCHANGED <<runVars, table, answer, scheduleStep, version>>

\* All rewards are valid and normalised.  The decision is published whether
\* or not the future is still pending; the step moves only with a result.
ScoreAccepts(s) ==
  /\ HoldsLock(s)
  /\ score[s] = IF Dynamic THEN "completion" ELSE "first"
  /\ Dynamic => decisions[KeyOf[s]] = "none"
  /\ decisions' = IF Dynamic THEN [decisions EXCEPT ![KeyOf[s]] = "accept"]
                             ELSE decisions
  /\ scheduleStep' = IF ~UseProxyVersion /\ group[s].future = "pending"
                     THEN scheduleStep + 1 ELSE scheduleStep
  /\ group' = [group EXCEPT ![s] = Settle(@, "result")]
  /\ ScoreEnds(s)
  /\ UNCHANGED <<runVars, table, answer, version>>

\* Any exception: a reward call that exhausted its retries, malformed or
\* incomplete rewards, or a second decision for the key.
ScoreFails(s) ==
  /\ HoldsLock(s)
  /\ group' = [group EXCEPT ![s] = FailState(@)]
  /\ ScoreEnds(s)
  /\ UNCHANGED <<runVars, table, decisions, answer, scheduleStep, version>>

Score(s) ==
  \/ ScoreStarts(s)
  \/ ScoreInformative(s)
  \/ ScoreRejects(s)
  \/ ScoreAccepts(s)
  \/ ScoreFails(s)

(***************************************************************************)
(* The callers of the agent and the trainer.                               *)
(***************************************************************************)

RunsOf(k) == {r \in Run : KeyOf[r] = k}

\* The grouped workflow has the results of all runs of the attempt and asks
\* once for the decision.
ConsumeDecision(k) ==
  /\ Dynamic
  /\ answer[k] = "none"
  /\ RunsOf(k) # {}
  /\ \A r \in RunsOf(k) : pc[r] \in Returned
  /\ \/ /\ decisions[k] # "none"
        /\ answer' = [answer EXCEPT ![k] = decisions[k]]
        /\ decisions' = [decisions EXCEPT ![k] = "none"]
     \/ /\ decisions[k] = "none"
        /\ answer' = [answer EXCEPT ![k] = "missing"]
        /\ UNCHANGED decisions
  /\ UNCHANGED <<runVars, group, table, scoreVars, version>>

\* The trainer publishes new weights.
PublishVersion ==
  /\ version < MaxVersion
  /\ version' = version + 1
  /\ UNCHANGED <<runVars, group, table, scoreVars, decisions, answer>>

\* Nothing is left to do: every run has ended and no score task runs.
Quiescent ==
  /\ \A r \in Run : pc[r] \in Ended
  /\ lockQueue = <<>>
  /\ UNCHANGED vars

RunStep(r) ==
  \/ VersionAnswered(r)
  \/ VersionFails(r)
  \/ Join(r)
  \/ Store(r)
  \/ GenerationFails(r)
  \/ Wake(r)
  \/ Timeout(r)
  \/ Cancel(r)

Next ==
  \/ \E r \in Run : RunStep(r)
  \/ \E s \in Run : Score(s)
  \/ \E k \in Key : ConsumeDecision(k)
  \/ PublishVersion
  \/ Quiescent

Spec == Init /\ [][Next]_vars

\* The loop resumes what is ready: every trajectory request has a timeout,
\* and every reward call a timeout and a bounded number of attempts.
LoopFairness ==
  /\ \A r \in Run : WF_vars(Store(r) \/ GenerationFails(r))
  /\ \A r \in Run : WF_vars(Wake(r))
  /\ \A s \in Run : WF_vars(Score(s))

FairSpec == Spec /\ LoopFairness

\* An armed group timer fires.
TimersFire == \A r \in Run : WF_vars(Timeout(r))

(***************************************************************************)
(* Properties.                                                             *)
(***************************************************************************)

TypeOK ==
  /\ pc \in [Run -> PC]
  /\ observed \in [Run -> Nat]
  /\ member \in [Run -> Run \cup {NoState}]
  /\ slot \in [Run -> Nat]
  /\ group \in [Run -> GroupState]
  /\ table \in [Key -> Run \cup {NoState}]
  /\ score \in [Run -> {"none", "queued", "first", "completion", "done"}]
  /\ lockQueue \in Seq(Run)
  /\ decisions \in [Key -> {"none", "accept", "reject"}]
  /\ answer \in [Key -> {"none", "accept", "reject", "missing"}]
  /\ scheduleStep \in Nat
  /\ version \in Nat

Members(s) == {r \in Run : member[r] = s}

\* A run gets rewards only from a complete group, all or none: none of its
\* peers raised, or is still generating.  A peer may only have been timed out
\* or cancelled after the group was settled.  (types.py:15)
NoPartialGroup ==
  \A r, q \in Run :
    /\ member[r] # NoState
    /\ member[q] = member[r]
    /\ pc[r] \in Returned
    => pc[q] \in {"waiting", "timedout", "cancelled", pc[r]}

\* All runs of one group resolved the same reward step, so one weighting of
\* the two reward scopes, and one model version, is behind a group's rewards.
AgreedStep ==
  \A r \in Run : member[r] # NoState =>
    observed[r] = group[member[r]].reward_step

\* _states holds a group from its first run to the end of its last one, no
\* shorter and no longer.
RegisteredWhileLive ==
  \A s \in Run : group[s].next_slot > 0 =>
    (table[KeyOf[s]] = s <=>
       \/ group[s].next_slot < GroupSize
       \/ \E r \in Members(s) : pc[r] \notin Ended)

\* When all runs of an attempt returned, its decision is there, and says
\* what the runs' values say: accepted rewards or rejected zeros.
DecisionMatchesRuns ==
  \A k \in Key :
    /\ answer[k] # "missing"
    /\ answer[k] = "accept" => \A r \in RunsOf(k) : pc[r] = "rewarded"
    /\ answer[k] = "reject" => \A r \in RunsOf(k) : pc[r] = "rejected"

\* A group that failed, by a peer, a timer or a cancellation, never gets
\* rewards later, although its score task runs on.
NoRewardAfterFailure ==
  [][\A s \in Run :
       group[s].failed => group'[s].future = group[s].future]_vars

(***************************************************************************)
(* Why a group is all or nothing: the inductive invariant.                 *)
(***************************************************************************)

\* What a run with a slot of group state s owes to it, by where the run is.
MemberOf(r, s) ==
  /\ KeyOf[r] = KeyOf[s]
  /\ pc[r] \notin {"idle", "version"}
  /\ observed[r] = group[s].reward_step
  /\ slot[r] < group[s].next_slot
  /\ \A q \in Run : member[q] = s /\ slot[q] = slot[r] => q = r
  /\ slot[r] \in group[s].trajectories =>
       pc[r] \in {"waiting", "timedout", "cancelled", "raised"} \cup Returned
  /\ pc[r] \in {"waiting", "timedout"} \cup Returned =>
       slot[r] \in group[s].trajectories
  /\ pc[r] = "rewarded" => group[s].future = "result"
  /\ pc[r] = "rejected" => group[s].future = "zeros"
  /\ pc[r] = "raised"   => group[s].future = "error"

MembersInv ==
  \A r \in Run :
    /\ member[r] # NoState => MemberOf(r, member[r])
    /\ pc[r] \in {"generating", "waiting", "timedout"} \cup Returned =>
         member[r] # NoState

\* Trajectories come from claimed slots, scores from complete groups, values
\* from scores, and a failed group is a settled one.
GroupsInv ==
  \A s \in Run :
    /\ group[s].next_slot <= GroupSize
    /\ \A i \in group[s].trajectories : i < group[s].next_slot
    /\ group[s].failed => group[s].future # "pending"
    /\ group[s].future = "error" => group[s].failed
    /\ group[s].future \in Scored => group[s].trajectories = Slots
    /\ score[s] # "none" => group[s].trajectories = Slots
    /\ pc[s] \in {"idle", "version"} =>
         /\ group[s].next_slot = 0
         /\ group[s].future = "pending"

LockInv == \A i \in 1 .. Len(lockQueue) : score[lockQueue[i]] # "none"

TableInv ==
  \A k \in Key : table[k] # NoState =>
    KeyOf[table[k]] = k /\ pc[table[k]] \notin {"idle", "version"}

\* The strengthening of NoPartialGroup and AgreedStep that every step keeps.
IndInv == TypeOK /\ MembersInv /\ GroupsInv /\ LockInv /\ TableInv

(***************************************************************************)
(* The agent implements the barrier it promises.                           *)
(***************************************************************************)

SeatOf == [r \in Run |-> IF member[r] = NoState THEN NoState
                         ELSE <<member[r], slot[r]>>]

ArrivedOf == [s \in Run |-> group[s].trajectories]

Verdict(future) ==
  IF future = "pending" THEN "open"
  ELSE IF future = "error" THEN "broken"
  ELSE IF future = "result" THEN "rewarded" ELSE "rejected"

VerdictOf == [s \in Run |-> Verdict(group[s].future)]

Outcome(where) ==
  IF where \in Returned THEN where
  ELSE IF where \in Ended THEN "failed" ELSE "active"

OutcomeOf == [r \in Run |-> Outcome(pc[r])]

Barrier == INSTANCE GroupBarrier
  WITH Group <- Run, Seat <- Slots, None <- NoState, seat <- SeatOf,
       arrived <- ArrivedOf, verdict <- VerdictOf, outcome <- OutcomeOf

\* The group states, futures and score tasks decide every group as a whole.
ImplementsBarrier == Barrier!Spec

\* Once all slots of a group are taken, all its runs end without any timer:
\* every failure path wakes the peers (agent.py:749).
FullGroupEnds ==
  \A s \in Run :
    (group[s].next_slot = GroupSize) ~> (\A r \in Members(s) : pc[r] \in Ended)

\* With the timer, no run waits forever for peers that never come.
JoinedRunEnds ==
  TimersFire => \A r \in Run : (pc[r] = "generating") ~> (pc[r] \in Ended)

\* A run is refused for its reward step only when the model version changed.
RefusedOnlyAcrossVersions ==
  [][\A r \in Run :
       (pc[r] \in {"idle", "version"} /\ pc'[r] = "raised"
          /\ observed'[r] # group[Target(r)].reward_step
          /\ table[KeyOf[r]] # NoState)
       => version > 0]_vars
=============================================================================
