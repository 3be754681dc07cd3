------------------------ MODULE DynamicSamplingProofs ------------------------
(***************************************************************************)
(* Proofs about DynamicSampling: same-episode resampling composed with the *)
(* proxy agent, for any episodes, number of attempts and group size.       *)
(***************************************************************************)
EXTENDS DynamicSampling, ProxyGroupProofs

(***************************************************************************)
(* The inductive invariant.                                                *)
(***************************************************************************)

\* A result comes from an ended run, and interactions from one that returned;
\* a run whose session is not created yet has not begun.
SessionsInv ==
  \A r \in Run :
    /\ result[r] # "none" => pc[r] \in Ended
    /\ result[r] = "interactions" => pc[r] \in Returned
    /\ ~Created(r) => pc[r] = "idle"

\* Only the end of a score task settles a group with a value, and after it
\* the group is settled.
ScoresInv ==
  \A s \in Run :
    /\ group[s].future \in Scored => score[s] = "done"
    /\ score[s] = "done" => group[s].future # "pending"
    /\ group[s].future = "zeros" => Dynamic

\* A decision is that of a scored group, and says what the group was settled
\* with, unless a failure had settled it before.
DecidedInv ==
  \A k \in Key : decisions[k] # "none" =>
    \E s \in RunsOf(k) :
      /\ score[s] = "done"
      /\ decisions[k] = "accept" => group[s].future # "zeros"
      /\ decisions[k] = "reject" => group[s].future # "result"

\* The agent is through with the runs of a key, and no decision is left.
Closed(k) ==
  /\ decisions[k] = "none"
  /\ \A r \in RunsOf(k) :
       /\ pc[r] \in Ended
       /\ member[r] # NoState
       /\ score[member[r]] = "done"

\* No run of a key has rewards or will get them.
WithoutRewards(k) == \A r \in RunsOf(k) : group[member[r]].future # "result"

\* What an episode has left behind: earlier attempts were rejected, and a
\* merged one is over.
PastInv ==
  \A e \in Episode, a \in 0 .. MaxAttempt :
    /\ a < attempt[e] => Closed(<<e, a>>) /\ WithoutRewards(<<e, a>>)
    /\ a = attempt[e] /\ Dynamic /\ episode[e] \in {"batch", "empty"} => Closed(<<e, a>>)

SamplingInv ==
  /\ IndInv
  /\ TallyInv
  /\ SamplingTypeOK
  /\ SessionsInv
  /\ ScoresInv
  /\ DecidedInv
  /\ PastInv
  /\ BatchIsOneRewardedGroup

(***************************************************************************)
(* Whole groups: GroupSize runs share a key, so a complete group has all   *)
(* of them.                                                                *)
(***************************************************************************)

LEMMA WholeGroup ==
  ASSUME IndInv, CountInv, NEW s \in Run, group[s].trajectories = Slots
  PROVE  /\ RunsOf(KeyOf[s]) = Members(s)
         /\ Members(s) # {}
<1>1. group[s].next_slot = GroupSize /\ GroupSize \in Nat \ {0}
  BY FullGroupLemma, ProxyGroupAssumption DEF IndInv, ProxyGroupAssumption
<1>2. Members(s) \in SUBSET RunsOf(KeyOf[s])
  <2> SUFFICES ASSUME NEW r \in Members(s) PROVE r \in RunsOf(KeyOf[s])
    OBVIOUS
  <2>1. r \in Run /\ member[r] = s /\ s # NoState
    BY ProxyGroupAssumption DEF Members, ProxyGroupAssumption
  <2>2. KeyOf[r] = KeyOf[s]
    BY <2>1 DEF IndInv, MembersInv, MemberOf
  <2>3. QED
    BY <2>1, <2>2 DEF RunsOf
<1>3. KeyOf[s] \in Key
  BY ProxyGroupAssumption DEF ProxyGroupAssumption
<1>4. IsFiniteSet(RunsOf(KeyOf[s])) /\ Cardinality(RunsOf(KeyOf[s])) = GroupSize
  BY <1>3, DynamicSamplingAssumption DEF DynamicSamplingAssumption
<1>5. Cardinality(Members(s)) = GroupSize
  BY <1>1 DEF CountInv
<1>6. RunsOf(KeyOf[s]) = Members(s)
  BY <1>2, <1>4, <1>5, FS_Subset
<1>7. Members(s) # {}
  BY <1>1, <1>5, FS_EmptySet
<1>8. QED
  BY <1>6, <1>7

\* A key is an episode and an attempt.
LEMMA KeysLemma ==
  /\ \A r \in Run : /\ EpisodeOf(r) \in Episode /\ AttemptOf(r) \in 0 .. MaxAttempt
                    /\ KeyOf[r] = <<EpisodeOf(r), AttemptOf(r)>>
  /\ \A e \in Episode, a \in 0 .. MaxAttempt : <<e, a>> \in Key
  /\ MaxAttempt \in Nat
<1>1. KeyOf \in [Run -> Episode \X (0 .. MaxAttempt)]
  BY ProxyGroupAssumption, DynamicSamplingAssumption
     DEF ProxyGroupAssumption, DynamicSamplingAssumption
<1>2. QED
  BY <1>1, DynamicSamplingAssumption DEF DynamicSamplingAssumption, EpisodeOf, AttemptOf

(***************************************************************************)
(* Steps of the agent.                                                     *)
(***************************************************************************)

\* A run only ever creates a score task, for a group that just got complete.
LEMMA RunStepScore ==
  ASSUME IndInv, NEW r \in Run, RunStep(r), NEW s \in Run
  PROVE  \/ score'[s] = score[s]
         \/ /\ score[s] = "none" /\ score'[s] = "queued"
            /\ group[s].future \notin Scored
<1>1. CASE Store(r)
  <2> DEFINE t == member[r]
  <2>1. /\ pc[r] = "generating"
        /\ score' = score \/ score' = [score EXCEPT ![t] = "queued"]
    BY <1>1 DEF Store
  <2>2. t # NoState /\ t \in Run /\ MemberOf(r, t) /\ group[t] \in GroupState
    BY <2>1 DEF IndInv, MembersInv, TypeOK
  <2>3. slot[r] \notin group[t].trajectories /\ slot[r] \in Slots
    BY <2>1, <2>2, ProxyGroupAssumption
       DEF MemberOf, IndInv, GroupsInv, TypeOK, GroupState, Slots, Returned, ProxyGroupAssumption
  <2>4. score[t] = "none" /\ group[t].future \notin Scored
    BY <2>2, <2>3 DEF IndInv, GroupsInv
  <2>5. QED
    BY <2>1, <2>2, <2>4 DEF IndInv, TypeOK
<1>2. CASE ~Store(r)
  BY <1>2 DEF RunStep, VersionAnswered, VersionFails, Join, GenerationFails,
              Wake, Timeout, Cancel, scoreVars
<1>3. QED
  BY <1>1, <1>2

LEMMA RunStepFrame ==
  ASSUME NEW r \in Run, RunStep(r)
  PROVE  UNCHANGED <<decisions, answer, version>>
BY DEF RunStep, VersionAnswered, VersionFails, Join, Store, GenerationFails,
       Wake, Timeout, Cancel

\* What a step does to an ended run, and to the scored group it was in.
Lasting ==
  /\ \A q \in Run : pc[q] \in Ended =>
       /\ pc'[q] = pc[q]
       /\ member'[q] = member[q]
  /\ \A s \in Run : score[s] = "done" =>
       /\ score'[s] = "done"
       /\ group'[s].future = group[s].future

LEMMA RunStepLasting ==
  ASSUME IndInv, TallyInv, ScoresInv, NEW r \in Run, RunStep(r)
  PROVE  Lasting
<1>1. CountStep(r) /\ pc[r] \notin Ended
  BY RunStepCounts DEF CountStep
<1>2. \A q \in Run : q # r => pc'[q] = pc[q] /\ member'[q] = member[q]
  BY <1>1 DEF CountStep, MovesInPlace, Leaves, Enters, IndInv, TypeOK
<1>3. ASSUME NEW s \in Run, score[s] = "done"
      PROVE  score'[s] = "done" /\ group'[s].future = group[s].future
  BY <1>3, RunStepScore, RunStepFuture DEF FutureStep, ScoresInv
<1>4. QED
  BY <1>1, <1>2, <1>3 DEF Lasting

LEMMA ScoreLasting ==
  ASSUME IndInv, ScoresInv, NEW t \in Run, Score(t)
  PROVE  Lasting
<1>1. UNCHANGED <<pc, member>>
  BY DEF Score, ScoreStarts, ScoreInformative, ScoreRejects, ScoreAccepts, ScoreFails, runVars
<1>2. ASSUME NEW s \in Run, score[s] = "done"
      PROVE  score'[s] = "done"
  BY <1>2 DEF Score, ScoreStarts, ScoreInformative, ScoreRejects, ScoreAccepts,
              ScoreFails, ScoreEnds, IndInv, TypeOK
<1>3. [Next]_vars
  BY DEF Next
<1>4. ASSUME NEW s \in Run, score[s] = "done"
      PROVE  group'[s].future = group[s].future
  BY <1>3, <1>4, SettledStays DEF ScoresInv
<1>5. QED
  BY <1>1, <1>2, <1>4 DEF Lasting

\* A step of a run keeps the scores: it only settles with an error.
LEMMA RunStepKeepsScores ==
  ASSUME IndInv, ScoresInv, NEW r \in Run, RunStep(r)
  PROVE  ScoresInv'
<1> SUFFICES ASSUME NEW s \in Run
             PROVE  /\ group'[s].future \in Scored => score'[s] = "done"
                    /\ score'[s] = "done" => group'[s].future # "pending"
                    /\ group'[s].future = "zeros" => Dynamic
  BY DEF ScoresInv
<1>1. FutureStep(s)
  BY RunStepFuture
<1>2. \/ score'[s] = score[s]
      \/ /\ score[s] = "none" /\ score'[s] = "queued"
         /\ group[s].future \notin Scored
  BY RunStepScore
<1>3. QED
  BY <1>1, <1>2 DEF FutureStep, ScoresInv, Scored

\* A score task keeps them: it settles, and ends, in one step.
LEMMA ScoreKeepsScores ==
  ASSUME IndInv, ScoresInv, NEW t \in Run, Score(t)
  PROVE  ScoresInv'
<1> SUFFICES ASSUME NEW s \in Run
             PROVE  /\ group'[s].future \in Scored => score'[s] = "done"
                    /\ score'[s] = "done" => group'[s].future # "pending"
                    /\ group'[s].future = "zeros" => Dynamic
  BY DEF ScoresInv
<1>0. /\ group[t] \in GroupState /\ score \in [Run -> {"none", "queued", "first", "completion", "done"}]
      /\ group[s].future \in Scored => score[s] = "done"
      /\ score[s] = "done" => group[s].future # "pending"
      /\ group[s].future = "zeros" => Dynamic
  BY DEF IndInv, TypeOK, ScoresInv
<1>1. \A h : group' = [group EXCEPT ![t] = h] =>
        group'[t] = h /\ \A q \in Run \ {t} : group'[q] = group[q]
  BY DEF IndInv, TypeOK
<1>2. CASE ScoreStarts(t) \/ ScoreInformative(t)
  <2>1. /\ group' = group
        /\ score[t] # "done"
        /\ \E phase \in {"first", "completion"} : score' = [score EXCEPT ![t] = phase]
    BY <1>2 DEF ScoreStarts, ScoreInformative
  <2>2. QED
    BY <1>0, <2>1
<1>3. ASSUME NEW h,
             group' = [group EXCEPT ![t] = h],
             ScoreEnds(t),
             h.future # "pending",
             h.future = "zeros" => Dynamic
      PROVE  /\ group'[s].future \in Scored => score'[s] = "done"
             /\ score'[s] = "done" => group'[s].future # "pending"
             /\ group'[s].future = "zeros" => Dynamic
  <2>1. CASE s = t
    BY <1>0, <1>1, <1>3, <2>1 DEF ScoreEnds
  <2>2. CASE s # t
    BY <1>0, <1>1, <1>3, <2>2 DEF ScoreEnds
  <2>3. QED
    BY <2>1, <2>2
<1>4. \A outcome \in Scored :
        Settle(group[t], outcome).future =
          IF group[t].future = "pending" THEN outcome ELSE group[t].future
  BY <1>0, SettleLemma
<1>5. group[t].future = "zeros" => Dynamic
  BY DEF ScoresInv
<1>6. CASE ScoreRejects(t)
  <2>1. /\ Dynamic /\ ScoreEnds(t)
        /\ group' = [group EXCEPT ![t] = Settle(group[t], "zeros")]
    BY <1>6 DEF ScoreRejects
  <2>2. QED
    BY <1>3, <1>4, <2>1 DEF Scored
<1>7. CASE ScoreAccepts(t)
  <2>1. ScoreEnds(t) /\ group' = [group EXCEPT ![t] = Settle(group[t], "result")]
    BY <1>7 DEF ScoreAccepts
  <2>2. QED
    BY <1>3, <1>4, <1>5, <2>1 DEF Scored
<1>8. CASE ScoreFails(t)
  <2>1. ScoreEnds(t) /\ group' = [group EXCEPT ![t] = FailState(group[t])]
    BY <1>8 DEF ScoreFails
  <2>2. FailState(group[t]).future = IF group[t].future = "pending" THEN "error" ELSE group[t].future
    BY <1>0, FailStateLemma
  <2>3. QED
    BY <1>3, <1>5, <2>1, <2>2
<1>9. QED
  BY <1>2, <1>6, <1>7, <1>8 DEF Score

\* What has been decided, closed or merged stays so in a step that lasts and
\* touches no decision.
LEMMA LastingKeepsDecided ==
  ASSUME DecidedInv, Lasting, decisions' = decisions
  PROVE  DecidedInv'
<1> SUFFICES ASSUME NEW k \in Key, decisions[k] # "none"
             PROVE  \E s \in RunsOf(k) :
                      /\ score'[s] = "done"
                      /\ decisions[k] = "accept" => group'[s].future # "zeros"
                      /\ decisions[k] = "reject" => group'[s].future # "result"
  BY DEF DecidedInv, RunsOf
<1>1. PICK s \in RunsOf(k) :
        /\ score[s] = "done"
        /\ decisions[k] = "accept" => group[s].future # "zeros"
        /\ decisions[k] = "reject" => group[s].future # "result"
  BY DEF DecidedInv
<1>2. score'[s] = "done" /\ group'[s].future = group[s].future
  BY <1>1 DEF Lasting, RunsOf
<1>3. QED
  BY <1>1, <1>2

LEMMA LastingKeepsClosed ==
  ASSUME TypeOK, Lasting, NEW k, Closed(k), decisions'[k] = "none"
  PROVE  /\ Closed(k)'
         /\ WithoutRewards(k) => WithoutRewards(k)'
<1> SUFFICES ASSUME NEW r \in RunsOf(k)
             PROVE  /\ pc'[r] \in Ended
                    /\ member'[r] # NoState
                    /\ score'[member'[r]] = "done"
                    /\ group[member[r]].future # "result" => group'[member'[r]].future # "result"
  BY DEF Closed, WithoutRewards, RunsOf
<1>1. r \in Run /\ pc[r] \in Ended /\ member[r] \in Run /\ member[r] # NoState /\ score[member[r]] = "done"
  BY DEF Closed, RunsOf, TypeOK
<1>2. /\ pc'[r] = pc[r] /\ member'[r] = member[r]
      /\ score'[member[r]] = "done" /\ group'[member[r]].future = group[member[r]].future
  BY <1>1 DEF Lasting
<1>3. QED
  BY <1>1, <1>2

LEMMA LastingKeepsPast ==
  ASSUME TypeOK, SamplingTypeOK, PastInv, Lasting, UNCHANGED wrapperVars,
         \A k \in Key : Closed(k) => decisions'[k] = "none"
  PROVE  PastInv'
<1> SUFFICES ASSUME NEW e \in Episode, NEW a \in 0 .. MaxAttempt
             PROVE  /\ a < attempt[e] => Closed(<<e, a>>)' /\ WithoutRewards(<<e, a>>)'
                    /\ a = attempt[e] /\ Dynamic /\ episode[e] \in {"batch", "empty"} =>
                         Closed(<<e, a>>)'
  BY DEF PastInv, wrapperVars, Closed, WithoutRewards, RunsOf
<1>1. <<e, a>> \in Key
  BY KeysLemma
<1>2. Closed(<<e, a>>) => Closed(<<e, a>>)' /\ (WithoutRewards(<<e, a>>) => WithoutRewards(<<e, a>>)')
  BY <1>1, LastingKeepsClosed
<1>3. QED
  BY <1>2 DEF PastInv

LEMMA LastingKeepsBatch ==
  ASSUME SamplingTypeOK, BatchIsOneRewardedGroup, Lasting, UNCHANGED wrapperVars
  PROVE  BatchIsOneRewardedGroup'
<1> SUFFICES ASSUME NEW e \in Episode, episode[e] = "batch",
                    NEW r \in Gathered(e), NEW q \in Gathered(e)
             PROVE  pc'[r] = "rewarded" /\ member'[r] = member'[q]
  BY DEF BatchIsOneRewardedGroup, Gathered, Sessions, RunsOf, wrapperVars
<1>1. /\ r \in Run /\ q \in Run
      /\ pc[r] = "rewarded" /\ pc[q] = "rewarded" /\ member[r] = member[q]
  BY DEF BatchIsOneRewardedGroup, Gathered, Sessions, RunsOf
<1>2. QED
  BY <1>1 DEF Lasting, Ended, Returned

(***************************************************************************)
(* Steps of the sessions and of the score tasks.                           *)
(***************************************************************************)

LEMMA SessionStepKeepsInv ==
  ASSUME SamplingInv, NEW r \in Run, SessionStep(r)
  PROVE  SamplingInv'
<1>0. /\ IndInv /\ TallyInv /\ TypeOK /\ SamplingTypeOK /\ SessionsInv /\ ScoresInv
      /\ DecidedInv /\ PastInv /\ BatchIsOneRewardedGroup
  BY DEF SamplingInv, SamplingTypeOK
<1>1. RunStep(r) /\ Created(r) /\ UNCHANGED wrapperVars
  BY DEF SessionStep
<1>2. IndInv' /\ TallyInv'
  BY <1>0, <1>1, NextKeepsIndInv, RunStepKeepsTally DEF Next
<1>3. SamplingTypeOK'
  BY <1>0, <1>1, <1>2 DEF SamplingTypeOK, IndInv, wrapperVars
<1>4. pc[r] \notin Ended /\ \A q \in Run : q # r => pc'[q] = pc[q]
  BY <1>0, <1>1, RunStepCounts DEF CountStep, TypeOK
<1>5. SessionsInv'
  <2> SUFFICES ASSUME NEW q \in Run
               PROVE  /\ result[q] # "none" => pc'[q] \in Ended
                      /\ result[q] = "interactions" => pc'[q] \in Returned
                      /\ ~Created(q) => pc'[q] = "idle"
    BY <1>1 DEF SessionsInv, Created, wrapperVars
  <2>1. CASE q = r
    BY <1>0, <1>1, <1>4, <2>1 DEF SessionsInv
  <2>2. CASE q # r
    BY <1>0, <1>4, <2>2 DEF SessionsInv
  <2>3. QED
    BY <2>1, <2>2
<1>6. ScoresInv'
  BY <1>0, <1>1, RunStepKeepsScores
<1>7. Lasting
  BY <1>0, <1>1, RunStepLasting
<1>8. decisions' = decisions
  BY <1>1, RunStepFrame
<1>9. DecidedInv' /\ PastInv' /\ BatchIsOneRewardedGroup'
  BY <1>0, <1>1, <1>7, <1>8, LastingKeepsDecided, LastingKeepsPast, LastingKeepsBatch DEF Closed
<1>10. QED
  BY <1>2, <1>3, <1>5, <1>6, <1>9 DEF SamplingInv

\* A closed key has no score task left that could publish a decision: all its
\* runs are in the one complete group, whose task is done.
LEMMA ClosedPublishesNothing ==
  ASSUME IndInv, CountInv, NEW t \in Run, HoldsLock(t), score[t] # "done"
  PROVE  ~Closed(KeyOf[t])
<1>1. group[t].trajectories = Slots
  <2>1. lockQueue \in Seq(Run) /\ lockQueue # <<>> /\ t = Head(lockQueue)
    BY DEF IndInv, TypeOK, HoldsLock
  <2>2. t = lockQueue[1] /\ 1 \in 1 .. Len(lockQueue)
    BY <2>1, EmptySeq
  <2>3. QED
    BY <2>2 DEF IndInv, LockInv, GroupsInv
<1>2. PICK r \in Members(t) : r \in RunsOf(KeyOf[t])
  BY <1>1, WholeGroup
<1>3. QED
  BY <1>2 DEF Closed, Members

LEMMA ScoreStepKeepsInv ==
  ASSUME SamplingInv, NEW t \in Run, ScoreStep(t)
  PROVE  SamplingInv'
<1>0. /\ IndInv /\ TallyInv /\ CountInv /\ TypeOK /\ SamplingTypeOK /\ SessionsInv /\ ScoresInv
      /\ DecidedInv /\ PastInv /\ BatchIsOneRewardedGroup
  BY DEF SamplingInv, SamplingTypeOK, TallyInv
<1>1. Score(t) /\ UNCHANGED wrapperVars
  BY DEF ScoreStep
<1>2. IndInv' /\ TallyInv'
  BY <1>0, <1>1, NextKeepsIndInv, NextKeepsTally DEF Next
<1>3. SamplingTypeOK'
  BY <1>0, <1>1, <1>2 DEF SamplingTypeOK, IndInv, wrapperVars
<1>4. pc' = pc /\ HoldsLock(t)
  BY <1>1 DEF Score, ScoreStarts, ScoreInformative, ScoreRejects, ScoreAccepts, ScoreFails, runVars
<1>5. SessionsInv'
  BY <1>0, <1>1, <1>4 DEF SessionsInv, Created, wrapperVars
<1>6. ScoresInv' /\ Lasting
  BY <1>0, <1>1, ScoreKeepsScores, ScoreLasting
<1>7. CASE decisions' = decisions
  <2>1. DecidedInv' /\ PastInv' /\ BatchIsOneRewardedGroup'
    BY <1>0, <1>1, <1>6, <1>7, LastingKeepsDecided, LastingKeepsPast, LastingKeepsBatch DEF Closed
  <2>2. QED
    BY <1>2, <1>3, <1>5, <1>6, <2>1 DEF SamplingInv
<1>8. CASE decisions' # decisions
  <2>1. Dynamic
    BY <1>1, <1>8 DEF Score, ScoreStarts, ScoreInformative, ScoreRejects, ScoreAccepts, ScoreFails
  <2>2. PICK value \in Scored : Publishes(t, value)
    BY <1>0, <1>1, <1>8, <2>1, ScorePublishes
  <2> DEFINE k == KeyOf[t]
  <2>3. /\ k \in Key /\ t \in RunsOf(k)
        /\ decisions' = [decisions EXCEPT ![k] = IF value = "result" THEN "accept" ELSE "reject"]
        /\ score[t] # "done" /\ score'[t] = "done"
        /\ group'[t].future = IF group[t].future = "pending" THEN value ELSE group[t].future
        /\ group[t].future \notin Scored
    BY <1>0, <2>2, ProxyGroupAssumption
       DEF Publishes, RunsOf, ProxyGroupAssumption, TypeOK, ScoresInv
  <2>4. ~Closed(k)
    BY <1>0, <1>4, <2>3, ClosedPublishesNothing
  <2>5. decisions \in [Key -> {"none", "accept", "reject"}]
    BY <1>0 DEF TypeOK
  <2>6. DecidedInv'
    <3> SUFFICES ASSUME NEW j \in Key, decisions'[j] # "none"
                 PROVE  \E s \in RunsOf(j) :
                          /\ score'[s] = "done"
                          /\ decisions'[j] = "accept" => group'[s].future # "zeros"
                          /\ decisions'[j] = "reject" => group'[s].future # "result"
      BY DEF DecidedInv, RunsOf
    <3>1. CASE j = k
      <4>1. /\ decisions'[k] = "accept" => group'[t].future # "zeros"
            /\ decisions'[k] = "reject" => group'[t].future # "result"
        BY <2>3, <2>5 DEF Scored
      <4>2. QED
        BY <2>3, <3>1, <4>1
    <3>2. CASE j # k
      <4>1. decisions'[j] = decisions[j]
        BY <2>3, <2>5, <3>2
      <4>2. PICK s \in RunsOf(j) :
              /\ score[s] = "done"
              /\ decisions[j] = "accept" => group[s].future # "zeros"
              /\ decisions[j] = "reject" => group[s].future # "result"
        BY <1>0, <4>1 DEF DecidedInv
      <4>3. score'[s] = "done" /\ group'[s].future = group[s].future
        BY <1>6, <4>2 DEF Lasting, RunsOf
      <4>4. QED
        BY <4>1, <4>2, <4>3
    <3>3. QED
      BY <3>1, <3>2
  <2>7. \A j \in Key : Closed(j) => decisions'[j] = "none"
    BY <2>3, <2>4, <2>5 DEF Closed
  <2>8. PastInv' /\ BatchIsOneRewardedGroup'
    BY <1>0, <1>1, <1>6, <2>7, LastingKeepsPast, LastingKeepsBatch
  <2>9. QED
    BY <1>2, <1>3, <1>5, <1>6, <2>6, <2>8 DEF SamplingInv
<1>9. QED
  BY <1>7, <1>8

(***************************************************************************)
(* Steps of the wrapper.                                                   *)
(***************************************************************************)

\* The wrapper touches nothing of the agent but its decisions.
LEMMA ConsumeKeepsAgent ==
  ASSUME SamplingInv, NEW e \in Episode, Consume(e) \/ UNCHANGED vars
  PROVE  IndInv' /\ TallyInv' /\ ScoresInv'
<1>0. IndInv /\ TallyInv /\ TypeOK /\ ScoresInv
  BY DEF SamplingInv, IndInv
<1>1. /\ UNCHANGED <<pc, observed, member, slot, group, table, score, lockQueue,
                     scheduleStep, answer, version>>
      /\ decisions' = decisions \/ decisions' = [decisions EXCEPT ![<<e, attempt[e]>>] = "none"]
  BY DEF Consume, vars, runVars, scoreVars
<1>2. decisions' \in [Key -> {"none", "accept", "reject"}]
  BY <1>0, <1>1 DEF TypeOK
<1>3. IndInv'
  BY <1>0, <1>1, <1>2, RestKeepsIndInv DEF TypeOK
<1>4. TallyInv'
  BY <1>0, <1>1, RestKeepsTally DEF SameCounts
<1>5. ScoresInv'
  BY <1>0, <1>1 DEF ScoresInv
<1>6. QED
  BY <1>3, <1>4, <1>5

\* A session that leaves its result, or an episode that raises, decides,
\* closes and merges nothing.
LEMMA QuietKeepsInv ==
  ASSUME SamplingInv, UNCHANGED vars, attempt' = attempt,
         SamplingTypeOK',
         \A r \in Run : result'[r] # result[r] =>
           /\ pc[r] \in Ended
           /\ result'[r] = "interactions" => pc[r] \in Returned,
         \A e \in Episode : episode'[e] \in {"batch", "empty"} => episode'[e] = episode[e]
  PROVE  SamplingInv'
<1>0. /\ IndInv /\ TallyInv /\ TypeOK /\ SamplingTypeOK /\ SessionsInv /\ ScoresInv
      /\ DecidedInv /\ PastInv /\ BatchIsOneRewardedGroup
  BY DEF SamplingInv, SamplingTypeOK
<1>1. UNCHANGED <<pc, observed, member, slot, group, table, score, lockQueue,
                  scheduleStep, decisions, answer, version>>
  BY DEF vars
<1>2. IndInv'
  BY <1>0, <1>1, RestKeepsIndInv DEF TypeOK
<1>3. TallyInv'
  BY <1>0, <1>1, RestKeepsTally DEF SameCounts
<1>4. SessionsInv'
  BY <1>0, <1>1 DEF SessionsInv, Created
<1>5. ScoresInv' /\ DecidedInv'
  BY <1>0, <1>1 DEF ScoresInv, DecidedInv, RunsOf
<1>6. PastInv'
  BY <1>0, <1>1 DEF PastInv, Closed, WithoutRewards, RunsOf
<1>7. BatchIsOneRewardedGroup'
  <2> SUFFICES ASSUME NEW e \in Episode, episode'[e] = "batch"
               PROVE  \A r, q \in RunsOf(<<e, attempt[e]>>) :
                        pc[r] = "rewarded" /\ member[r] = member[q]
    BY <1>1 DEF BatchIsOneRewardedGroup, Gathered, Sessions, RunsOf
  <2>1. QED
    BY <1>0 DEF BatchIsOneRewardedGroup, Gathered, Sessions
<1>8. QED
  BY <1>2, <1>3, <1>4, <1>5, <1>6, <1>7 DEF SamplingInv

LEMMA SessionEndsKeepsInv ==
  ASSUME SamplingInv, NEW r \in Run, SessionEnds(r)
  PROVE  SamplingInv'
<1>0. SamplingTypeOK /\ TypeOK
  BY DEF SamplingInv, SamplingTypeOK
<1>1. PICK how : /\ how \in IF pc[r] \in Returned THEN {"interactions", "empty"}
                                                  ELSE {"raised", "empty"}
                 /\ result' = [result EXCEPT ![r] = how]
  BY DEF SessionEnds
<1>2. pc[r] \in Ended /\ UNCHANGED <<vars, attempt, episode>>
  BY DEF SessionEnds
<1>3. TypeOK'
  BY <1>0, <1>2 DEF TypeOK, vars
<1>4. how \in {"interactions", "empty", "raised"} /\ (how = "interactions" => pc[r] \in Returned)
  BY <1>1
<1>5. SamplingTypeOK'
  BY <1>0, <1>1, <1>2, <1>3, <1>4 DEF SamplingTypeOK
<1>6. \A q \in Run : result'[q] # result[q] =>
        pc[q] \in Ended /\ (result'[q] = "interactions" => pc[q] \in Returned)
  BY <1>0, <1>1, <1>2, <1>4 DEF SamplingTypeOK
<1>7. QED
  BY <1>2, <1>5, <1>6, QuietKeepsInv

LEMMA EpisodeRaisesKeepsInv ==
  ASSUME SamplingInv, NEW e \in Episode, GatherRaises(e) \/ DecisionMissing(e)
  PROVE  SamplingInv'
<1>0. SamplingTypeOK /\ TypeOK
  BY DEF SamplingInv, SamplingTypeOK
<1>1. episode' = [episode EXCEPT ![e] = "raised"] /\ UNCHANGED <<vars, attempt, result>>
  BY DEF GatherRaises, DecisionMissing
<1>2. TypeOK'
  BY <1>0, <1>1 DEF TypeOK, vars
<1>3. SamplingTypeOK'
  BY <1>0, <1>1, <1>2 DEF SamplingTypeOK
<1>4. \A d \in Episode : episode'[d] \in {"batch", "empty"} => episode'[d] = episode[d]
  BY <1>0, <1>1 DEF SamplingTypeOK
<1>5. QED
  BY <1>1, <1>3, <1>4, QuietKeepsInv

\* When all sessions of an attempt left a result and the agent decided on it,
\* they are the runs of one scored group.
LEMMA GatheredDecided ==
  ASSUME SamplingInv, NEW e \in Episode, GatherReturns(e), Decision(e) # "none"
  PROVE  \E s \in Run :
           /\ score[s] = "done"
           /\ Decision(e) = "accept" => group[s].future # "zeros"
           /\ Decision(e) = "reject" => group[s].future # "result"
           /\ \A r \in Gathered(e) : pc[r] \in Ended /\ member[r] = s
<1>0. /\ IndInv /\ CountInv /\ TypeOK /\ SamplingTypeOK /\ SessionsInv /\ DecidedInv
  BY DEF SamplingInv, SamplingTypeOK, TallyInv
<1>1. <<e, attempt[e]>> \in Key
  BY <1>0, KeysLemma DEF SamplingTypeOK
<1>2. PICK s \in RunsOf(<<e, attempt[e]>>) :
        /\ score[s] = "done"
        /\ Decision(e) = "accept" => group[s].future # "zeros"
        /\ Decision(e) = "reject" => group[s].future # "result"
  BY <1>0, <1>1 DEF DecidedInv, Decision
<1>3. s \in Run /\ KeyOf[s] = <<e, attempt[e]>>
  BY DEF RunsOf
<1>4. group[s].trajectories = Slots
  BY <1>0, <1>2, <1>3 DEF IndInv, GroupsInv
<1>5. Gathered(e) = Members(s)
  BY <1>0, <1>3, <1>4, WholeGroup DEF Gathered, Sessions
<1>6. ASSUME NEW r \in Gathered(e)
      PROVE  pc[r] \in Ended /\ member[r] = s
  <2>1. r \in Run /\ member[r] = s
    BY <1>5 DEF Members
  <2>2. result[r] # "none"
    BY DEF GatherReturns
  <2>3. QED
    BY <1>0, <2>1, <2>2 DEF SessionsInv
<1>7. QED
  BY <1>2, <1>3, <1>6

\* Consuming a decision reopens no key that was closed.
LEMMA ConsumeKeepsClosed ==
  ASSUME TypeOK, NEW e \in Episode, NEW k \in Key,
         decisions' = [decisions EXCEPT ![<<e, attempt[e]>>] = "none"],
         UNCHANGED <<pc, member, group, score>>
  PROVE  /\ Closed(k) => Closed(k)'
         /\ WithoutRewards(k) => WithoutRewards(k)'
<1>1. decisions[k] = "none" => decisions'[k] = "none"
  BY DEF TypeOK
<1>2. QED
  BY <1>1 DEF Closed, WithoutRewards, RunsOf

\* What Accepted and Rejected have in common: the attempt the episode was at
\* is closed now when the agent had decided on it.
LEMMA ConsumeCloses ==
  ASSUME SamplingInv, NEW e \in Episode, GatherReturns(e), Consume(e),
         NEW a, a = attempt[e]
  PROVE  /\ UNCHANGED <<pc, member, group, score>>
         /\ decisions' = [decisions EXCEPT ![<<e, attempt[e]>>] = "none"]
         /\ <<e, a>> \in Key
         /\ Decision(e) # "none" => Closed(<<e, a>>)'
         /\ Decision(e) = "reject" => WithoutRewards(<<e, a>>)'
<1>0. TypeOK /\ SamplingTypeOK
  BY DEF SamplingInv, SamplingTypeOK
<1>1. /\ UNCHANGED <<pc, member, group, score>>
      /\ decisions' = [decisions EXCEPT ![<<e, attempt[e]>>] = "none"]
  BY DEF Consume, runVars, scoreVars
<1>2. <<e, a>> \in Key
  BY <1>0, KeysLemma DEF SamplingTypeOK
<1>3. decisions'[<<e, a>>] = "none"
  BY <1>0, <1>1, <1>2 DEF TypeOK
<1>4. ASSUME Decision(e) # "none"
      PROVE  /\ Closed(<<e, a>>)'
             /\ Decision(e) = "reject" => WithoutRewards(<<e, a>>)'
  <2>1. PICK s \in Run :
          /\ score[s] = "done"
          /\ Decision(e) = "reject" => group[s].future # "result"
          /\ \A r \in Gathered(e) : pc[r] \in Ended /\ member[r] = s
    BY <1>4, GatheredDecided
  <2>2. \A r \in RunsOf(<<e, a>>) : pc[r] \in Ended /\ member[r] = s
    BY <2>1 DEF Gathered, Sessions
  <2>3. s # NoState
    BY ProxyGroupAssumption DEF ProxyGroupAssumption
  <2>4. \A r \in RunsOf(<<e, a>>) : /\ pc'[r] \in Ended /\ member'[r] # NoState
                                    /\ score'[member'[r]] = "done"
    BY <1>1, <2>1, <2>2, <2>3
  <2>5. Closed(<<e, a>>)'
    BY <1>3, <2>4 DEF Closed, RunsOf
  <2>6. Decision(e) = "reject" => WithoutRewards(<<e, a>>)'
    BY <1>1, <2>1, <2>2 DEF WithoutRewards, RunsOf
  <2>7. QED
    BY <2>5, <2>6
<1>5. QED
  BY <1>1, <1>2, <1>4

\* An accepted group whose sessions all have interactions is one group of
\* rewarded runs, with resampling and without.
LEMMA AcceptedIsRewarded ==
  ASSUME SamplingInv, NEW e \in Episode, GatherReturns(e),
         Dynamic => Decision(e) = "accept",
         \A r \in Gathered(e) : result[r] = "interactions",
         NEW r \in Gathered(e), NEW q \in Gathered(e)
  PROVE  pc[r] = "rewarded" /\ member[r] = member[q]
<1>0. /\ IndInv /\ CountInv /\ TypeOK /\ SamplingTypeOK /\ SessionsInv /\ ScoresInv
  BY DEF SamplingInv, SamplingTypeOK, TallyInv
<1>1. \A p \in Gathered(e) : p \in Run /\ KeyOf[p] = <<e, attempt[e]>> /\ pc[p] \in Returned
  BY <1>0 DEF SessionsInv, Gathered, Sessions, RunsOf
<1>2. ASSUME NEW p \in Gathered(e)
      PROVE  /\ member[p] \in Run /\ member[p] # NoState
             /\ MemberOf(p, member[p])
             /\ group[member[p]].future \in Scored
  <2>1. p \in Run /\ pc[p] \in Returned
    BY <1>1
  <2>2. member[p] # NoState
    BY <1>0, <2>1 DEF IndInv, MembersInv
  <2>3. member[p] \in Run /\ MemberOf(p, member[p])
    BY <1>0, <2>1, <2>2 DEF IndInv, MembersInv, TypeOK
  <2>4. QED
    BY <2>1, <2>2, <2>3 DEF MemberOf, Returned, Scored
<1>3. PICK s \in Run : s = member[r]
  BY <1>2
<1>4. group[s].trajectories = Slots
  BY <1>0, <1>2, <1>3 DEF IndInv, GroupsInv
<1>5. KeyOf[s] = <<e, attempt[e]>>
  BY <1>1, <1>2, <1>3 DEF MemberOf
<1>6. Gathered(e) = Members(s)
  BY <1>0, <1>4, <1>5, WholeGroup DEF Gathered, Sessions
<1>7. member[q] = s
  BY <1>6 DEF Members
<1>8. group[s].future # "zeros"
  <2>1. CASE Dynamic
    <3>1. PICK t \in Run :
            /\ group[t].future # "zeros"
            /\ \A p \in Gathered(e) : member[p] = t
      BY <2>1, GatheredDecided
    <3>2. QED
      BY <1>3, <3>1
  <2>2. CASE ~Dynamic
    BY <1>0, <2>2 DEF ScoresInv
  <2>3. QED
    BY <2>1, <2>2
<1>9. pc[r] # "rejected"
  BY <1>2, <1>3, <1>8 DEF MemberOf
<1>10. QED
  BY <1>1, <1>3, <1>7, <1>9 DEF Returned

LEMMA AcceptedKeepsInv ==
  ASSUME SamplingInv, NEW e \in Episode, Accepted(e)
  PROVE  SamplingInv'
<1>0. /\ IndInv /\ TypeOK /\ SamplingTypeOK /\ SessionsInv
      /\ DecidedInv /\ PastInv /\ BatchIsOneRewardedGroup
  BY DEF SamplingInv, SamplingTypeOK
<1>1. /\ GatherReturns(e) /\ Consume(e)
      /\ Dynamic => Decision(e) = "accept"
      /\ episode' = [episode EXCEPT ![e] = Merge(e)]
      /\ UNCHANGED <<attempt, result>>
  BY DEF Accepted
<1>2. IndInv' /\ TallyInv' /\ ScoresInv'
  BY <1>1, ConsumeKeepsAgent
<1>3. PICK a : a = attempt[e]
  OBVIOUS
<1>4. /\ UNCHANGED <<pc, member, group, score>>
      /\ decisions' = [decisions EXCEPT ![<<e, attempt[e]>>] = "none"]
      /\ Decision(e) # "none" => Closed(<<e, a>>)'
  BY <1>1, <1>3, ConsumeCloses
<1>5. /\ Merge(e) \in {"batch", "empty"}
      /\ Merge(e) = "batch" => \A r \in Gathered(e) : result[r] = "interactions"
      /\ episode'[e] = Merge(e) /\ \A d \in Episode : d # e => episode'[d] = episode[d]
  BY <1>0, <1>1 DEF Merge, SamplingTypeOK
<1>6. SamplingTypeOK'
  BY <1>0, <1>1, <1>2, <1>5 DEF SamplingTypeOK, IndInv
<1>7. SessionsInv'
  BY <1>0, <1>1, <1>4 DEF SessionsInv, Created
<1>8. DecidedInv'
  <2>1. \A k \in Key : decisions'[k] # "none" => decisions'[k] = decisions[k]
    BY <1>0, <1>4 DEF TypeOK
  <2>2. QED
    BY <1>0, <1>4, <2>1 DEF DecidedInv, RunsOf
<1>9. PastInv'
  <2> SUFFICES ASSUME NEW d \in Episode, NEW b \in 0 .. MaxAttempt
               PROVE  /\ b < attempt[d] => Closed(<<d, b>>)' /\ WithoutRewards(<<d, b>>)'
                      /\ b = attempt[d] /\ Dynamic /\ episode'[d] \in {"batch", "empty"} =>
                           Closed(<<d, b>>)'
    BY <1>1 DEF PastInv, Closed, WithoutRewards, RunsOf
  <2>1. <<d, b>> \in Key
    BY KeysLemma
  <2>2. /\ Closed(<<d, b>>) => Closed(<<d, b>>)'
        /\ WithoutRewards(<<d, b>>) => WithoutRewards(<<d, b>>)'
    BY <1>0, <1>4, <2>1, ConsumeKeepsClosed
  <2>3. b < attempt[d] => Closed(<<d, b>>)' /\ WithoutRewards(<<d, b>>)'
    BY <1>0, <2>2 DEF PastInv
  <2>4. ASSUME b = attempt[d], Dynamic, episode'[d] \in {"batch", "empty"}
        PROVE  Closed(<<d, b>>)'
    <3>1. CASE d = e
      BY <1>1, <1>3, <1>4, <2>4, <3>1
    <3>2. CASE d # e
      BY <1>0, <1>5, <2>2, <2>4, <3>2 DEF PastInv
    <3>3. QED
      BY <3>1, <3>2
  <2>5. QED
    BY <2>3, <2>4
<1>10. BatchIsOneRewardedGroup'
  <2> SUFFICES ASSUME NEW d \in Episode, episode'[d] = "batch",
                      NEW r \in Gathered(d), NEW q \in Gathered(d)
               PROVE  pc[r] = "rewarded" /\ member[r] = member[q]
    BY <1>1, <1>4 DEF BatchIsOneRewardedGroup, Gathered, Sessions, RunsOf
  <2>1. CASE d = e
    BY <1>1, <1>5, <2>1, AcceptedIsRewarded
  <2>2. CASE d # e
    BY <1>0, <1>5, <2>2 DEF BatchIsOneRewardedGroup
  <2>3. QED
    BY <2>1, <2>2
<1>11. QED
  BY <1>2, <1>6, <1>7, <1>8, <1>9, <1>10 DEF SamplingInv

LEMMA RejectedKeepsInv ==
  ASSUME SamplingInv, NEW e \in Episode, Rejected(e)
  PROVE  SamplingInv'
<1>0. /\ IndInv /\ TypeOK /\ SamplingTypeOK /\ SessionsInv
      /\ DecidedInv /\ PastInv /\ BatchIsOneRewardedGroup
  BY DEF SamplingInv, SamplingTypeOK
<1>1. /\ GatherReturns(e) /\ Consume(e)
      /\ Decision(e) = "reject"
      /\ attempt[e] < MaxAttempt
      /\ attempt' = [attempt EXCEPT ![e] = @ + 1]
      /\ UNCHANGED <<episode, result>>
  BY DEF Rejected
<1>2. IndInv' /\ TallyInv' /\ ScoresInv'
  BY <1>1, ConsumeKeepsAgent
<1>3. PICK a : a = attempt[e]
  OBVIOUS
<1>4. /\ UNCHANGED <<pc, member, group, score>>
      /\ decisions' = [decisions EXCEPT ![<<e, attempt[e]>>] = "none"]
      /\ Closed(<<e, a>>)' /\ WithoutRewards(<<e, a>>)'
  BY <1>1, <1>3, ConsumeCloses
<1>5. /\ \A d \in Episode : attempt[d] \in 0 .. MaxAttempt
      /\ attempt'[e] = attempt[e] + 1
      /\ \A d \in Episode : d # e => attempt'[d] = attempt[d]
      /\ MaxAttempt \in Nat
      /\ episode[e] = "sampling"
  BY <1>0, <1>1, KeysLemma DEF SamplingTypeOK, GatherReturns
<1>6. SamplingTypeOK'
  <2>1. attempt[e] + 1 \in 0 .. MaxAttempt
    BY <1>1, <1>5
  <2>2. QED
    BY <1>0, <1>1, <1>2, <2>1 DEF SamplingTypeOK, IndInv
<1>7. SessionsInv'
  <2>1. \A q \in Run : ~Created(q)' => ~Created(q)
    BY <1>5, KeysLemma DEF Created, EpisodeOf, AttemptOf
  <2>2. QED
    BY <1>0, <1>1, <1>4, <2>1 DEF SessionsInv
<1>8. DecidedInv'
  <2>1. \A k \in Key : decisions'[k] # "none" => decisions'[k] = decisions[k]
    BY <1>0, <1>4 DEF TypeOK
  <2>2. QED
    BY <1>0, <1>4, <2>1 DEF DecidedInv, RunsOf
<1>9. PastInv'
  <2> SUFFICES ASSUME NEW d \in Episode, NEW b \in 0 .. MaxAttempt
               PROVE  /\ b < attempt'[d] => Closed(<<d, b>>)' /\ WithoutRewards(<<d, b>>)'
                      /\ b = attempt'[d] /\ Dynamic /\ episode[d] \in {"batch", "empty"} =>
                           Closed(<<d, b>>)'
    BY <1>1 DEF PastInv, Closed, WithoutRewards, RunsOf
  <2>1. <<d, b>> \in Key
    BY KeysLemma
  <2>2. /\ Closed(<<d, b>>) => Closed(<<d, b>>)'
        /\ WithoutRewards(<<d, b>>) => WithoutRewards(<<d, b>>)'
    BY <1>0, <1>4, <2>1, ConsumeKeepsClosed
  <2>3. CASE d = e
    <3>1. b < attempt'[d] => b < attempt[d] \/ b = a
      BY <1>3, <1>5, <2>3
    <3>2. QED
      BY <1>0, <1>4, <1>5, <2>2, <2>3, <3>1 DEF PastInv
  <2>4. CASE d # e
    BY <1>0, <1>5, <2>2, <2>4 DEF PastInv
  <2>5. QED
    BY <2>3, <2>4
<1>10. BatchIsOneRewardedGroup'
  <2> SUFFICES ASSUME NEW d \in Episode, episode[d] = "batch",
                      NEW r \in RunsOf(<<d, attempt'[d]>>), NEW q \in RunsOf(<<d, attempt'[d]>>)
               PROVE  pc[r] = "rewarded" /\ member[r] = member[q]
    BY <1>1, <1>4 DEF BatchIsOneRewardedGroup, Gathered, Sessions, RunsOf
  <2>1. d # e /\ attempt'[d] = attempt[d]
    BY <1>5
  <2>2. QED
    BY <1>0, <2>1 DEF BatchIsOneRewardedGroup, Gathered, Sessions
<1>11. QED
  BY <1>2, <1>6, <1>7, <1>8, <1>9, <1>10 DEF SamplingInv

(***************************************************************************)
(* The theorems.                                                           *)
(***************************************************************************)

LEMMA SamplingInitInv == SamplingInit => SamplingInv
<1> SUFFICES ASSUME SamplingInit PROVE SamplingInv
  OBVIOUS
<1>0. Init /\ IndInv /\ TallyInv /\ TypeOK
  BY InitIndInv, InitTally DEF SamplingInit, IndInv
<1>1. SamplingTypeOK
  <2>1. 0 \in 0 .. MaxAttempt
    BY KeysLemma
  <2>2. QED
    BY <1>0, <2>1 DEF SamplingInit, SamplingTypeOK
<1>2. SessionsInv
  BY <1>0 DEF SamplingInit, Init, SessionsInv
<1>3. ScoresInv
  BY <1>0 DEF Init, NewGroup, ScoresInv, Scored
<1>4. DecidedInv
  BY <1>0 DEF Init, DecidedInv
<1>5. PastInv
  <2>1. \A e \in Episode : attempt[e] = 0 /\ episode[e] = "sampling"
    BY DEF SamplingInit
  <2>2. \A a \in 0 .. MaxAttempt : ~(a < 0)
    BY KeysLemma
  <2>3. QED
    BY <2>1, <2>2 DEF PastInv
<1>6. BatchIsOneRewardedGroup
  BY DEF SamplingInit, BatchIsOneRewardedGroup
<1>7. QED
  BY <1>0, <1>1, <1>2, <1>3, <1>4, <1>5, <1>6 DEF SamplingInv

LEMMA SamplingNextInv == SamplingInv /\ [SamplingNext]_allVars => SamplingInv'
<1> SUFFICES ASSUME SamplingInv, [SamplingNext]_allVars PROVE SamplingInv'
  OBVIOUS
<1>1. CASE \E r \in Run : SessionStep(r) \/ SessionEnds(r)
  BY <1>1, SessionStepKeepsInv, SessionEndsKeepsInv
<1>2. CASE \E s \in Run : ScoreStep(s)
  BY <1>2, ScoreStepKeepsInv
<1>3. CASE \E e \in Episode : Wrapper(e)
  BY <1>3, EpisodeRaisesKeepsInv, AcceptedKeepsInv, RejectedKeepsInv DEF Wrapper
<1>4. CASE PublishVersion /\ UNCHANGED wrapperVars
  <2>0. /\ IndInv /\ TallyInv /\ TypeOK /\ SamplingTypeOK /\ SessionsInv /\ ScoresInv
        /\ DecidedInv /\ PastInv /\ BatchIsOneRewardedGroup
    BY DEF SamplingInv, SamplingTypeOK
  <2>1. UNCHANGED <<pc, member, group, table, score, decisions, attempt, episode, result>>
    BY <1>4 DEF PublishVersion, runVars, scoreVars, wrapperVars
  <2>2. IndInv' /\ TallyInv'
    BY <1>4, <2>0, NextKeepsIndInv, NextKeepsTally DEF Next
  <2>3. SamplingTypeOK' /\ SessionsInv' /\ ScoresInv'
    BY <2>0, <2>1, <2>2 DEF SamplingTypeOK, IndInv, SessionsInv, Created, ScoresInv
  <2>4. DecidedInv' /\ PastInv' /\ BatchIsOneRewardedGroup'
    BY <2>0, <2>1 DEF DecidedInv, PastInv, Closed, WithoutRewards, RunsOf,
                      BatchIsOneRewardedGroup, Gathered, Sessions
  <2>5. QED
    BY <2>2, <2>3, <2>4 DEF SamplingInv
<1>5. CASE UNCHANGED allVars
  <2>1. UNCHANGED <<vars, attempt, episode, result>>
    BY <1>5 DEF allVars, wrapperVars
  <2>2. SamplingTypeOK'
    BY <2>1 DEF SamplingInv, SamplingTypeOK, TypeOK, vars
  <2>3. QED
    BY <2>1, <2>2, QuietKeepsInv
<1>6. QED
  BY <1>1, <1>2, <1>3, <1>4, <1>5 DEF SamplingNext, SamplingQuiescent

\* Agent and wrapper together keep the inductive invariant, that of the agent
\* alone included.
THEOREM SamplingInvariant == SamplingSpec => []SamplingInv
<1>1. QED
  BY SamplingInitInv, SamplingNextInv, PTL DEF SamplingSpec

\* Every variable of the wrapper keeps its type.
THEOREM SamplingTypeCorrect == SamplingSpec => []SamplingTypeOK
<1>1. SamplingInv => SamplingTypeOK
  BY DEF SamplingInv
<1>2. QED
  BY <1>1, SamplingInvariant, PTL

\* A batch is one whole group of runs that all got rewards: the decision the
\* wrapper accepted was published by the group all its sessions were in.
THEOREM BatchesAreRewardedGroups == SamplingSpec => []BatchIsOneRewardedGroup
<1>1. SamplingInv => BatchIsOneRewardedGroup
  BY DEF SamplingInv
<1>2. QED
  BY <1>1, SamplingInvariant, PTL

\* Only rejected groups are sampled again: the runs of an earlier attempt are
\* in one group that was settled without rewards, and stays so.
THEOREM ResamplingDropsNoRewards == SamplingSpec => []OnlyRejectedAreResampled
<1>1. SamplingInv => OnlyRejectedAreResampled
  <2> SUFFICES ASSUME SamplingInv, NEW r \in Run, AttemptOf(r) < attempt[EpisodeOf(r)]
               PROVE  /\ pc[r] # "rewarded"
                      /\ member[r] # NoState
                      /\ group[member[r]].future # "result"
    BY DEF OnlyRejectedAreResampled
  <2> DEFINE k == <<EpisodeOf(r), AttemptOf(r)>>
  <2>1. EpisodeOf(r) \in Episode /\ AttemptOf(r) \in 0 .. MaxAttempt /\ r \in RunsOf(k)
    BY KeysLemma DEF RunsOf
  <2>2. Closed(k) /\ WithoutRewards(k)
    BY <2>1 DEF SamplingInv, PastInv
  <2>3. member[r] # NoState /\ group[member[r]].future # "result"
    BY <2>1, <2>2 DEF Closed, WithoutRewards
  <2>4. MemberOf(r, member[r])
    BY <2>3 DEF SamplingInv, IndInv, MembersInv
  <2>5. QED
    BY <2>3, <2>4 DEF MemberOf
<1>2. QED
  BY <1>1, SamplingInvariant, PTL

\* A rejected or merged attempt leaves nothing in the agent: its group is
\* complete, its runs have ended, so the group is unregistered, and its score
\* task, the only one of the key, has published already.
THEOREM OverAttemptsLeaveNothing == SamplingSpec => []FinishedAttemptsLeaveNothing
<1>1. ASSUME SamplingInv, NEW k \in Key, Closed(k)
      PROVE  table[k] = NoState
  <2>0. IndInv /\ TallyInv /\ CountInv /\ TypeOK
    BY <1>1 DEF SamplingInv, IndInv, TallyInv
  <2> SUFFICES ASSUME table[k] # NoState PROVE FALSE
    OBVIOUS
  <2> DEFINE s == table[k]
  <2>1. s \in Run /\ KeyOf[s] = k /\ group[s].next_slot > 0
    BY <2>0 DEF TypeOK, IndInv, TableInv, TallyInv, RegisteredInv
  <2>2. /\ group[s].next_slot \in Nat /\ group[s].finished_runs \in Nat
        /\ group[s].finished_runs <= group[s].next_slot
        /\ (\E q \in Members(s) : pc[q] \notin Ended) <=>
             group[s].finished_runs < group[s].next_slot
    BY <2>0, <2>1, CountLemma DEF Counted
  <2>3. PICK r : r \in Members(s)
    <3>1. Cardinality(Members(s)) # 0
      BY <2>0, <2>1, <2>2 DEF CountInv
    <3>2. QED
      BY <3>1, FS_EmptySet
  <2>4. \A q \in Members(s) : q \in RunsOf(k)
    <3>1. \A q \in Members(s) : q \in Run /\ member[q] = s /\ s # NoState
      BY DEF Members
    <3>2. QED
      BY <2>0, <2>1, <3>1 DEF IndInv, MembersInv, MemberOf, RunsOf
  <2>5. score[s] = "done" /\ \A q \in Members(s) : pc[q] \in Ended
    BY <1>1, <2>3, <2>4 DEF Closed, Members
  <2>6. group[s].next_slot = GroupSize /\ GroupSize \in Nat
    <3>1. group[s].trajectories = Slots
      BY <2>0, <2>1, <2>5 DEF IndInv, GroupsInv
    <3>2. QED
      BY <2>0, <2>1, <3>1, FullGroupLemma, ProxyGroupAssumption
         DEF IndInv, ProxyGroupAssumption
  <2>7. ~(group[s].finished_runs < group[s].next_slot)
    BY <2>2, <2>5
  <2>8. QED
    BY <2>0, <2>1, <2>2, <2>6, <2>7 DEF TallyInv, RegisteredInv
<1>2. SamplingInv => FinishedAttemptsLeaveNothing
  <2> SUFFICES ASSUME SamplingInv, Dynamic,
                      NEW e \in Episode, NEW a \in 0 .. MaxAttempt,
                      \/ a < attempt[e]
                      \/ a = attempt[e] /\ episode[e] \in {"batch", "empty"}
               PROVE  table[<<e, a>>] = NoState /\ decisions[<<e, a>>] = "none"
    BY DEF FinishedAttemptsLeaveNothing
  <2>1. <<e, a>> \in Key
    BY KeysLemma
  <2>2. Closed(<<e, a>>)
    BY DEF SamplingInv, PastInv
  <2>3. QED
    BY <1>1, <2>1, <2>2 DEF Closed
<1>3. QED
  BY <1>2, SamplingInvariant, PTL

\* With the wrapper on top the agent is still the barrier it promises to be:
\* what the wrapper takes away, the decisions, is no part of the barrier.
THEOREM SamplingImplementsBarrier == SamplingSpec => ImplementsBarrier
<1>1. SamplingInit => Barrier!Init
  BY InitImplements DEF SamplingInit
<1>2. IndInv /\ IndInv' /\ [SamplingNext]_allVars => [Barrier!Next]_(Barrier!barrierVars)
  <2> SUFFICES ASSUME IndInv, IndInv', [SamplingNext]_allVars
               PROVE  [Barrier!Next]_(Barrier!barrierVars)
    OBVIOUS
  <2>1. CASE [Next]_vars
    BY <2>1, NextImplements
  <2>2. CASE UNCHANGED <<pc, member, slot, group>>
    BY <2>2, StutterImplements
  <2>3. ASSUME NEW e \in Episode, Wrapper(e)
        PROVE  UNCHANGED <<pc, member, slot, group>>
    BY <2>3 DEF Wrapper, GatherRaises, DecisionMissing, Accepted, Rejected, Consume, vars, runVars
  <2>4. ASSUME NEW r \in Run, SessionStep(r) \/ SessionEnds(r)
        PROVE  [Next]_vars
    BY <2>4 DEF SessionStep, SessionEnds, Next
  <2>5. QED
    BY <2>1, <2>2, <2>3, <2>4 DEF SamplingNext, SamplingQuiescent, ScoreStep, Next, allVars
<1>3. SamplingInv => IndInv
  BY DEF SamplingInv
<1>4. QED
  BY <1>1, <1>2, <1>3, SamplingInvariant, PTL
     DEF SamplingSpec, ImplementsBarrier, Barrier!Spec
=============================================================================
