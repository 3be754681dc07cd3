-------------------------- MODULE ProxyGroupProofs --------------------------
(***************************************************************************)
(* Proofs about ProxyGroup, for any runs, keys and group size, with or     *)
(* without resampling and with either source of the reward step.           *)
(***************************************************************************)
EXTENDS ProxyGroup, SequenceTheorems, FiniteSetTheorems, TLAPS

(***************************************************************************)
(* The operations on one group state object.                               *)
(***************************************************************************)

\* Settling changes the future, and only from pending.
LEMMA SettleLemma ==
  ASSUME NEW g \in GroupState, NEW outcome \in {"error"} \cup Scored
  PROVE  LET h == Settle(g, outcome) IN
         /\ h \in GroupState
         /\ h.reward_step = g.reward_step
         /\ h.next_slot = g.next_slot
         /\ h.trajectories = g.trajectories
         /\ h.finished_runs = g.finished_runs
         /\ h.failed = g.failed
         /\ h.future = IF g.future = "pending" THEN outcome ELSE g.future
BY DEF Settle, GroupState, Scored

\* Failing a group settles its future.
LEMMA FailStateLemma ==
  ASSUME NEW g \in GroupState
  PROVE  LET h == FailState(g) IN
         /\ h \in GroupState
         /\ h.reward_step = g.reward_step
         /\ h.next_slot = g.next_slot
         /\ h.trajectories = g.trajectories
         /\ h.finished_runs = g.finished_runs
         /\ h.failed = TRUE
         /\ h.future = IF g.future = "pending" THEN "error" ELSE g.future
<1> DEFINE f == [g EXCEPT !.failed = TRUE]
<1>1. /\ f \in GroupState
      /\ f.reward_step = g.reward_step
      /\ f.next_slot = g.next_slot
      /\ f.trajectories = g.trajectories
      /\ f.finished_runs = g.finished_runs
      /\ f.failed = TRUE
      /\ f.future = g.future
  BY DEF GroupState
<1>2. FailState(g) = Settle(f, "error")
  BY DEF FailState
<1> HIDE DEF f
<1>3. QED
  BY <1>1, <1>2, SettleLemma

\* Counting a finished run touches no other field.
LEMMA FinishLemma ==
  ASSUME NEW g \in GroupState
  PROVE  LET h == Finish(g) IN
         /\ h \in GroupState
         /\ h.finished_runs = g.finished_runs + 1
         /\ h.reward_step = g.reward_step
         /\ h.next_slot = g.next_slot
         /\ h.trajectories = g.trajectories
         /\ h.failed = g.failed
         /\ h.future = g.future
BY DEF Finish, GroupState

LEMMA NewGroupLemma ==
  ASSUME NEW step \in Nat
  PROVE  NewGroup(step) \in GroupState
BY DEF NewGroup, GroupState, Slots, Scored

\* A group with trajectories in all its slots has no slot left to claim.
LEMMA FullGroupLemma ==
  ASSUME ProxyGroupAssumption, GroupsInv, TypeOK, NEW s \in Run,
         group[s].trajectories = Slots
  PROVE  group[s].next_slot = GroupSize
<1>1. GroupSize - 1 \in Slots
  BY DEF ProxyGroupAssumption, Slots
<1>2. GroupSize - 1 < group[s].next_slot /\ group[s].next_slot <= GroupSize
  BY <1>1 DEF GroupsInv
<1>3. group[s].next_slot \in Nat
  BY DEF TypeOK, GroupState
<1>4. QED
  BY <1>2, <1>3 DEF ProxyGroupAssumption

(***************************************************************************)
(* The inductive invariant.                                                *)
(***************************************************************************)

LEMMA InitIndInv == Init => IndInv
<1> SUFFICES ASSUME Init PROVE IndInv
  OBVIOUS
<1>1. NewGroup(0) \in GroupState
  BY NewGroupLemma
<1>2. TypeOK
  BY <1>1, ProxyGroupAssumption DEF Init, TypeOK, PC, Ended, Returned, ProxyGroupAssumption
<1>3. MembersInv
  BY DEF Init, MembersInv, Returned
<1>4. GroupsInv
  BY ProxyGroupAssumption DEF Init, GroupsInv, NewGroup, Scored, ProxyGroupAssumption
<1>5. LockInv /\ TableInv
  BY DEF Init, LockInv, TableInv
<1>6. QED
  BY <1>2, <1>3, <1>4, <1>5 DEF IndInv

\* A run that leaves with an outcome its group agrees to keeps the invariant:
\* the common part of every way out of run().
LEMMA LeaveKeepsIndInv ==
  ASSUME IndInv,
         NEW r \in Run, member[r] # NoState,
         NEW how \in Ended,
         NEW g, g \in {group[member[r]], FailState(group[member[r]])},
         Leave(r, member[r], g, how),
         pc[r] \in {"generating", "waiting"},
         how \in Returned \cup {"timedout"} => pc[r] = "waiting",
         how = "rewarded" => g.future = "result",
         how = "rejected" => g.future = "zeros",
         how = "raised" => g.future = "error",
         UNCHANGED <<observed, member, slot, score, lockQueue, scheduleStep,
                     decisions, answer, version>>
  PROVE  IndInv'
<1> DEFINE s == member[r]
<1>0. s \in Run /\ group[s] \in GroupState
  BY DEF IndInv, TypeOK
<1>1. /\ g \in GroupState
      /\ g.reward_step = group[s].reward_step
      /\ g.next_slot = group[s].next_slot
      /\ g.trajectories = group[s].trajectories
      /\ group[s].future # "pending" => g.future = group[s].future
      /\ g.future \in Scored => group[s].future \in Scored
      /\ g.failed => g.future # "pending"
      /\ g.future = "error" => g.failed
  <2>1. CASE g = group[s]
    BY <1>0, <2>1 DEF IndInv, GroupsInv
  <2>2. CASE g = FailState(group[s])
    BY <1>0, <2>2, FailStateLemma DEF Scored
  <2>3. QED
    BY <2>1, <2>2
<1>2. /\ group' = [group EXCEPT ![s] = Finish(g)]
      /\ pc' = [pc EXCEPT ![r] = how]
      /\ table' = table \/ table' = [table EXCEPT ![KeyOf[s]] = NoState]
  BY DEF Leave, TableAfter
<1>3. /\ group'[s] \in GroupState
      /\ group'[s].reward_step = group[s].reward_step
      /\ group'[s].next_slot = group[s].next_slot
      /\ group'[s].trajectories = group[s].trajectories
      /\ group'[s].future = g.future
      /\ group'[s].failed = g.failed
      /\ \A t \in Run : t # s => group'[t] = group[t]
  BY <1>0, <1>1, <1>2, FinishLemma DEF IndInv, TypeOK
<1>4. /\ pc'[r] = how
      /\ \A q \in Run : q # r => pc'[q] = pc[q]
  BY <1>2 DEF IndInv, TypeOK
<1>5. TypeOK'
  BY <1>0, <1>1, <1>2, <1>3, FinishLemma, ProxyGroupAssumption
     DEF IndInv, TypeOK, PC, ProxyGroupAssumption
<1>6. MembersInv'
  <2> SUFFICES ASSUME NEW q \in Run
               PROVE  /\ member[q] # NoState => MemberOf(q, member[q])'
                      /\ pc'[q] \in {"generating", "waiting", "timedout"} \cup Returned
                           => member[q] # NoState
    BY DEF MembersInv, MemberOf
  <2>1. pc'[q] \in {"generating", "waiting", "timedout"} \cup Returned => member[q] # NoState
    BY <1>4 DEF IndInv, MembersInv
  <2>2. ASSUME member[q] # NoState
        PROVE  MemberOf(q, member[q])'
    <3>1. MemberOf(q, member[q])
      BY <2>2 DEF IndInv, MembersInv
    <3>2. member[q] \in Run
      BY <2>2 DEF IndInv, TypeOK
    <3>3. CASE q = r
      BY <1>1, <1>3, <1>4, <3>1, <3>3 DEF MemberOf, Ended, Returned
    <3>4. CASE q # r
      BY <1>1, <1>3, <1>4, <3>1, <3>2, <3>4 DEF MemberOf, Ended, Returned
    <3>5. QED
      BY <3>3, <3>4
  <2>3. QED
    BY <2>1, <2>2
<1>7. GroupsInv'
  <2>1. \A t \in Run : pc'[t] \in {"idle", "version"} => t # r /\ pc[t] = pc'[t]
    BY <1>4 DEF Ended, Returned
  <2>2. pc[s] \notin {"idle", "version"}
    <3>1. slot[r] < group[s].next_slot
      BY DEF IndInv, MembersInv, MemberOf
    <3>2. slot[r] \in Nat
      BY DEF IndInv, TypeOK
    <3>3. QED
      BY <1>0, <3>1, <3>2 DEF IndInv, GroupsInv
  <2>3. SUFFICES ASSUME NEW t \in Run
                 PROVE  /\ group'[t].next_slot <= GroupSize
                        /\ \A i \in group'[t].trajectories : i < group'[t].next_slot
                        /\ group'[t].failed => group'[t].future # "pending"
                        /\ group'[t].future = "error" => group'[t].failed
                        /\ group'[t].future \in Scored => group'[t].trajectories = Slots
                        /\ score[t] # "none" => group'[t].trajectories = Slots
                        /\ pc'[t] \in {"idle", "version"} =>
                             group'[t].next_slot = 0 /\ group'[t].future = "pending"
    BY DEF GroupsInv
  <2>4. CASE t = s
    BY <1>0, <1>1, <1>3, <1>4, <2>1, <2>2, <2>4 DEF IndInv, GroupsInv
  <2>5. CASE t # s
    BY <1>3, <2>1, <2>5 DEF IndInv, GroupsInv
  <2>6. QED
    BY <2>4, <2>5
<1>8. LockInv' /\ TableInv'
  BY <1>0, <1>2, <1>4 DEF IndInv, LockInv, TableInv, TypeOK, Ended, Returned
<1>9. QED
  BY <1>5, <1>6, <1>7, <1>8 DEF IndInv

(***************************************************************************)
(* One lemma per action.                                                   *)
(***************************************************************************)

LEMMA RefuseKeepsIndInv ==
  ASSUME IndInv, NEW r \in Run, NEW step \in Nat,
         pc[r] \in {"idle", "version"},
         Refuse(r, step),
         observed' = [observed EXCEPT ![r] = step],
         UNCHANGED <<scoreVars, decisions, answer, version>>
  PROVE  IndInv'
<1> DEFINE s == table[KeyOf[r]]
<1>0. s \in Run /\ group[s] \in GroupState /\ KeyOf[r] \in Key
  BY ProxyGroupAssumption DEF IndInv, TypeOK, Refuse, ProxyGroupAssumption
<1>1. /\ group' = [group EXCEPT ![s] = FailState(group[s])]
      /\ pc' = [pc EXCEPT ![r] = "raised"]
      /\ UNCHANGED <<member, slot, table, score, lockQueue, scheduleStep, decisions, answer, version>>
  BY DEF Refuse, scoreVars
<1>2. /\ group'[s] \in GroupState
      /\ group'[s].reward_step = group[s].reward_step
      /\ group'[s].next_slot = group[s].next_slot
      /\ group'[s].trajectories = group[s].trajectories
      /\ group'[s].failed = TRUE
      /\ group'[s].future = IF group[s].future = "pending" THEN "error" ELSE group[s].future
      /\ \A t \in Run : t # s => group'[t] = group[t]
  BY <1>0, <1>1, FailStateLemma DEF IndInv, TypeOK
<1>3. /\ pc'[r] = "raised"
      /\ \A q \in Run : q # r => pc'[q] = pc[q] /\ observed'[q] = observed[q]
  BY <1>1 DEF IndInv, TypeOK
<1>4. member[r] = NoState
  BY DEF IndInv, MembersInv, MemberOf
<1>5. TypeOK'
  BY <1>0, <1>1, <1>2 DEF IndInv, TypeOK, PC, Ended
<1>6. MembersInv'
  <2> SUFFICES ASSUME NEW q \in Run
               PROVE  /\ member[q] # NoState => MemberOf(q, member[q])'
                      /\ pc'[q] \in {"generating", "waiting", "timedout"} \cup Returned
                           => member[q] # NoState
    BY <1>1 DEF MembersInv, MemberOf
  <2>1. pc'[q] \in {"generating", "waiting", "timedout"} \cup Returned => member[q] # NoState
    BY <1>3 DEF IndInv, MembersInv, Returned
  <2>2. ASSUME member[q] # NoState
        PROVE  MemberOf(q, member[q])'
    <3>1. MemberOf(q, member[q]) /\ q # r /\ member[q] \in Run
      BY <1>4, <2>2 DEF IndInv, MembersInv, TypeOK
    <3>2. QED
      BY <1>1, <1>2, <1>3, <3>1 DEF MemberOf
  <2>3. QED
    BY <2>1, <2>2
<1>7. GroupsInv'
  <2> SUFFICES ASSUME NEW t \in Run
               PROVE  /\ group'[t].next_slot <= GroupSize
                      /\ \A i \in group'[t].trajectories : i < group'[t].next_slot
                      /\ group'[t].failed => group'[t].future # "pending"
                      /\ group'[t].future = "error" => group'[t].failed
                      /\ group'[t].future \in Scored => group'[t].trajectories = Slots
                      /\ score[t] # "none" => group'[t].trajectories = Slots
                      /\ pc'[t] \in {"idle", "version"} =>
                           group'[t].next_slot = 0 /\ group'[t].future = "pending"
    BY <1>1 DEF GroupsInv
  <2>1. pc'[t] \in {"idle", "version"} => pc[t] = pc'[t]
    BY <1>3
  <2>2. pc[s] \notin {"idle", "version"}
    BY <1>0, ProxyGroupAssumption DEF IndInv, TableInv, ProxyGroupAssumption
  <2>3. CASE t = s
    BY <1>0, <1>2, <1>3, <2>1, <2>2, <2>3 DEF IndInv, GroupsInv, Scored
  <2>4. CASE t # s
    BY <1>2, <2>1, <2>4 DEF IndInv, GroupsInv
  <2>5. QED
    BY <2>3, <2>4
<1>8. LockInv' /\ TableInv'
  BY <1>1, <1>3 DEF IndInv, LockInv, TableInv, TypeOK
<1>9. QED
  BY <1>5, <1>6, <1>7, <1>8 DEF IndInv

\* Claiming a slot, of a new group or of the registered one.
LEMMA ClaimKeepsIndInv ==
  ASSUME IndInv, NEW r \in Run, NEW step \in Nat,
         pc[r] \in {"idle", "version"},
         Claim(r, step),
         observed' = [observed EXCEPT ![r] = step],
         UNCHANGED <<scoreVars, decisions, answer, version>>
  PROVE  IndInv'
<1> DEFINE s == Target(r)
           g == TargetGroup(r, step)
           claimed == [g EXCEPT !.next_slot = @ + 1]
<1>0. /\ KeyOf[r] \in Key
      /\ s \in Run
      /\ g \in GroupState
      /\ KeyOf[s] = KeyOf[r]
  <2>1. KeyOf[r] \in Key
    BY ProxyGroupAssumption DEF ProxyGroupAssumption
  <2>2. NewGroup(step) \in GroupState
    BY NewGroupLemma
  <2>3. QED
    BY <2>1, <2>2 DEF Target, TargetGroup, IndInv, TypeOK, TableInv
\* The condition of the group before the claim, whichever it is.
<1>1. /\ g.reward_step = step
      /\ g.next_slot \in Nat /\ g.next_slot < GroupSize
      /\ \A i \in g.trajectories : i < g.next_slot
      /\ g.failed => g.future # "pending"
      /\ g.future = "error" => g.failed
      /\ g.future \notin Scored
      /\ g.trajectories # Slots
      /\ score[s] = "none"
  <2>1. g.reward_step = step /\ g.next_slot \in Nat /\ g.next_slot < GroupSize
    BY <1>0 DEF Claim, GroupState
  <2>2. score[s] \in {"none", "queued", "first", "completion", "done"}
    BY <1>0 DEF IndInv, TypeOK
  <2>3. 0 \in Slots
    BY ProxyGroupAssumption DEF ProxyGroupAssumption, Slots
  <2>4. CASE table[KeyOf[r]] = NoState
    <3>1. s = r /\ g = NewGroup(step)
      BY <2>4 DEF Target, TargetGroup
    <3>2. group[r].next_slot = 0 /\ \A i \in group[r].trajectories : i < 0
      BY DEF IndInv, GroupsInv
    <3>3. group[r].trajectories # Slots
      BY <2>3, <3>2
    <3>4. score[r] = "none"
      BY <2>2, <3>1, <3>3 DEF IndInv, GroupsInv
    <3>5. QED
      BY <2>1, <2>3, <3>1, <3>4 DEF NewGroup, Scored
  <2>5. CASE table[KeyOf[r]] # NoState
    <3>1. s = table[KeyOf[r]] /\ g = group[s]
      BY <2>5 DEF Target, TargetGroup
    <3>2. g.trajectories # Slots
      BY <1>0, <2>1, <3>1, FullGroupLemma, ProxyGroupAssumption
         DEF IndInv, ProxyGroupAssumption
    <3>3. QED
      BY <1>0, <2>1, <2>2, <3>1, <3>2 DEF IndInv, GroupsInv
  <2>6. QED
    BY <2>4, <2>5
<1>2. /\ claimed \in GroupState
      /\ claimed.reward_step = g.reward_step
      /\ claimed.next_slot = g.next_slot + 1
      /\ claimed.trajectories = g.trajectories
      /\ claimed.failed = g.failed
      /\ claimed.future = g.future
  BY <1>0 DEF GroupState
\* What the step does, in either alternative.
<1>3. PICK h \in GroupState, how \in {"generating", "raised"} :
      /\ group' = [group EXCEPT ![s] = h]
      /\ h.reward_step = step
      /\ h.next_slot = g.next_slot + 1
      /\ h.trajectories = g.trajectories
      /\ h.failed = g.failed
      /\ h.future = g.future
      /\ how = "raised" => h.future = "error"
      /\ pc' = [pc EXCEPT ![r] = how]
      /\ \/ table' = table
         \/ table' = [table EXCEPT ![KeyOf[r]] = s] /\ how = "generating"
         \/ table' = [table EXCEPT ![KeyOf[r]] = NoState]
  <2> HIDE DEF claimed, g, s
  <2>1. CASE ~g.failed
    <3>1. /\ pc' = [pc EXCEPT ![r] = "generating"]
          /\ group' = [group EXCEPT ![s] = claimed]
          /\ table' = [table EXCEPT ![KeyOf[r]] = s]
      BY <2>1 DEF Claim, claimed, g, s
    <3>2. QED
      BY <1>1, <1>2, <3>1
  <2>2. CASE g.failed
    <3>1. Leave(r, s, FailState(claimed), "raised")
      BY <2>2 DEF Claim, claimed, g, s
    <3>2. /\ pc' = [pc EXCEPT ![r] = "raised"]
          /\ group' = [group EXCEPT ![s] = Finish(FailState(claimed))]
          /\ table' = table \/ table' = [table EXCEPT ![KeyOf[r]] = NoState]
      BY <1>0, <3>1 DEF Leave, TableAfter
    <3>3. g.future = "error" /\ g.failed = TRUE
      BY <1>0, <1>1, <2>2 DEF GroupState, Scored
    <3>4. /\ FailState(claimed) \in GroupState
          /\ FailState(claimed).reward_step = claimed.reward_step
          /\ FailState(claimed).next_slot = claimed.next_slot
          /\ FailState(claimed).trajectories = claimed.trajectories
          /\ FailState(claimed).failed = TRUE
          /\ FailState(claimed).future = "error"
      BY <1>2, <3>3, FailStateLemma
    <3>5. /\ Finish(FailState(claimed)) \in GroupState
          /\ Finish(FailState(claimed)).reward_step = claimed.reward_step
          /\ Finish(FailState(claimed)).next_slot = claimed.next_slot
          /\ Finish(FailState(claimed)).trajectories = claimed.trajectories
          /\ Finish(FailState(claimed)).failed = TRUE
          /\ Finish(FailState(claimed)).future = "error"
      BY <3>4, FinishLemma
    <3>6. QED
      BY <1>1, <1>2, <3>2, <3>3, <3>5
  <2>3. QED
    BY <2>1, <2>2
<1>4. /\ member' = [member EXCEPT ![r] = s]
      /\ slot' = [slot EXCEPT ![r] = g.next_slot]
  BY DEF Claim
<1> HIDE DEF s, g, claimed
<1>5. TypeOK'
  BY <1>0, <1>1, <1>3, <1>4 DEF IndInv, TypeOK, PC, Ended, scoreVars
<1>6. /\ pc'[r] \in {"generating", "raised"}
      /\ pc'[r] = "raised" => h.future = "error"
      /\ member'[r] = s
      /\ slot'[r] = g.next_slot
      /\ observed'[r] = step
      /\ \A q \in Run : q # r =>
           /\ pc'[q] = pc[q]
           /\ member'[q] = member[q]
           /\ slot'[q] = slot[q]
           /\ observed'[q] = observed[q]
      /\ group'[s] = h
      /\ \A t \in Run : t # s => group'[t] = group[t]
      /\ score' = score /\ lockQueue' = lockQueue
  BY <1>0, <1>3, <1>4 DEF IndInv, TypeOK, scoreVars
\* Only runs of the registered group are members of s, and their slots are
\* below the claimed one.
<1>7. \A q \in Run : q # r /\ member[q] = s =>
        g = group[s] /\ slot[q] < g.next_slot /\ slot[q] \in Nat
  <2> SUFFICES ASSUME NEW q \in Run, q # r, member[q] = s
               PROVE  g = group[s] /\ slot[q] < g.next_slot /\ slot[q] \in Nat
    OBVIOUS
  <2>1. slot[q] < group[s].next_slot /\ slot[q] \in Nat
    BY <1>0, ProxyGroupAssumption DEF IndInv, MembersInv, MemberOf, TypeOK, ProxyGroupAssumption
  <2>2. CASE table[KeyOf[r]] = NoState
    <3>1. s = r /\ group[s].next_slot = 0
      BY <2>2 DEF s, Target, IndInv, GroupsInv
    <3>2. QED
      BY <2>1, <3>1
  <2>3. CASE table[KeyOf[r]] # NoState
    BY <2>1, <2>3 DEF s, g, Target, TargetGroup
  <2>4. QED
    BY <2>2, <2>3
<1>8. MembersInv'
  <2> SUFFICES ASSUME NEW q \in Run
               PROVE  /\ member'[q] # NoState => MemberOf(q, member[q])'
                      /\ pc'[q] \in {"generating", "waiting", "timedout"} \cup Returned
                           => member'[q] # NoState
    BY DEF MembersInv, MemberOf
  <2>1. CASE q = r
    <3>1. g.next_slot \notin g.trajectories
      BY <1>1
    <3>2. MemberOf(q, member[q])'
      BY <1>0, <1>1, <1>3, <1>6, <1>7, <2>1, <3>1 DEF MemberOf, Returned
    <3>3. QED
      BY <1>0, <1>6, <2>1, <3>2, ProxyGroupAssumption DEF ProxyGroupAssumption
  <2>2. CASE q # r /\ member[q] = s
    <3>1. MemberOf(q, s)
      BY <1>0, <2>2, ProxyGroupAssumption DEF IndInv, MembersInv, ProxyGroupAssumption
    <3>2. g = group[s] /\ slot[q] < g.next_slot /\ slot[q] \in Nat
      BY <1>7, <2>2
    <3>3. MemberOf(q, member[q])'
      BY <1>0, <1>1, <1>3, <1>6, <2>2, <3>1, <3>2 DEF MemberOf, Returned
    <3>4. QED
      BY <1>0, <1>6, <2>2, <3>3, ProxyGroupAssumption DEF ProxyGroupAssumption
  <2>3. CASE q # r /\ member[q] # s
    <3>1. ASSUME member[q] # NoState
          PROVE  MemberOf(q, member[q])'
      <4>1. MemberOf(q, member[q]) /\ member[q] \in Run
        BY <3>1 DEF IndInv, MembersInv, TypeOK
      <4>2. group'[member[q]] = group[member[q]]
        BY <1>6, <2>3, <4>1
      <4>3. QED
        BY <1>6, <2>3, <4>1, <4>2 DEF MemberOf
    <3>2. QED
      BY <1>6, <2>3, <3>1 DEF IndInv, MembersInv, MemberOf
  <2>4. QED
    BY <2>1, <2>2, <2>3
<1>9. GroupsInv'
  <2> SUFFICES ASSUME NEW t \in Run
               PROVE  /\ group'[t].next_slot <= GroupSize
                      /\ \A i \in group'[t].trajectories : i < group'[t].next_slot
                      /\ group'[t].failed => group'[t].future # "pending"
                      /\ group'[t].future = "error" => group'[t].failed
                      /\ group'[t].future \in Scored => group'[t].trajectories = Slots
                      /\ score[t] # "none" => group'[t].trajectories = Slots
                      /\ pc'[t] \in {"idle", "version"} =>
                           group'[t].next_slot = 0 /\ group'[t].future = "pending"
    BY <1>6 DEF GroupsInv
  <2>1. pc'[t] \in {"idle", "version"} => pc[t] = pc'[t] /\ t # r
    BY <1>6
  <2>2. pc'[s] \notin {"idle", "version"}
    <3>1. CASE s = r
      BY <1>6, <3>1
    <3>2. CASE s # r
      <4>1. s = table[KeyOf[r]] /\ table[KeyOf[r]] # NoState
        BY <3>2 DEF s, Target
      <4>2. QED
        BY <1>0, <1>6, <3>2, <4>1 DEF IndInv, TableInv
    <3>3. QED
      BY <3>1, <3>2
  <2>3. CASE t = s
    <3>1. \A i \in g.trajectories : i \in Nat
      BY <1>0 DEF GroupState, Slots
    <3>2. QED
      BY <1>1, <1>3, <1>6, <2>2, <2>3, <3>1, ProxyGroupAssumption DEF ProxyGroupAssumption
  <2>4. CASE t # s
    BY <1>6, <2>1, <2>4 DEF IndInv, GroupsInv
  <2>5. QED
    BY <2>3, <2>4
<1>10. LockInv'
  BY <1>6 DEF IndInv, LockInv
<1>11. TableInv'
  <2> SUFFICES ASSUME NEW k \in Key, table'[k] # NoState
               PROVE  KeyOf[table'[k]] = k /\ pc'[table'[k]] \notin {"idle", "version"}
    BY DEF TableInv
  <2>1. CASE table'[k] = table[k]
    <3>1. KeyOf[table[k]] = k /\ pc[table[k]] \notin {"idle", "version"} /\ table[k] \in Run
      BY <2>1 DEF IndInv, TableInv, TypeOK
    <3>2. QED
      BY <1>6, <2>1, <3>1
  <2>2. CASE table'[k] # table[k]
    <3>1. k = KeyOf[r] /\ table'[k] = s /\ how = "generating"
      BY <1>0, <1>3, <2>2 DEF IndInv, TypeOK
    <3>2. CASE s = r
      BY <1>0, <1>6, <3>1, <3>2
    <3>3. CASE s # r
      BY <2>2, <3>1, <3>3 DEF s, Target
    <3>4. QED
      BY <3>2, <3>3
  <2>3. QED
    BY <2>1, <2>2
<1>12. QED
  BY <1>5, <1>8, <1>9, <1>10, <1>11 DEF IndInv

LEMMA JoinKeepsIndInv ==
  ASSUME IndInv, NEW r \in Run, Join(r)
  PROVE  IndInv'
<1> DEFINE step == IF UseProxyVersion THEN observed[r] ELSE scheduleStep
<1>1. step \in Nat
  BY DEF IndInv, TypeOK
<1>2. pc[r] \in {"idle", "version"}
  BY DEF Join
<1>3. /\ observed' = [observed EXCEPT ![r] = step]
      /\ Refuse(r, step) \/ Claim(r, step)
      /\ UNCHANGED <<scoreVars, decisions, answer, version>>
  BY DEF Join
<1> HIDE DEF step
<1>4. QED
  BY <1>1, <1>2, <1>3, RefuseKeepsIndInv, ClaimKeepsIndInv

\* Storing a trajectory: run r waits, and the last trajectory queues the
\* score task.
LEMMA StoredKeepsIndInv ==
  ASSUME IndInv, NEW r \in Run, Store(r), ~group[member[r]].failed
  PROVE  IndInv'
<1> DEFINE s == member[r]
           stored == [group[s] EXCEPT !.trajectories = @ \cup {slot[r]}]
<1>0. /\ pc[r] = "generating"
      /\ s # NoState /\ s \in Run
      /\ group[s] \in GroupState
      /\ MemberOf(r, s)
      /\ slot[r] \in Nat
  <2>1. pc[r] = "generating" /\ s # NoState
    BY DEF Store, IndInv, MembersInv
  <2>2. QED
    BY <2>1 DEF IndInv, MembersInv, TypeOK
<1>1. slot[r] < group[s].next_slot /\ slot[r] \in Slots /\ slot[r] \notin group[s].trajectories
  <2>1. /\ slot[r] < group[s].next_slot
        /\ group[s].next_slot <= GroupSize
        /\ group[s].next_slot \in Nat
        /\ slot[r] \notin group[s].trajectories
    BY <1>0 DEF MemberOf, IndInv, GroupsInv, GroupState, Returned
  <2>2. QED
    BY <1>0, <2>1, ProxyGroupAssumption DEF Slots, ProxyGroupAssumption
\* A group with a slot still generating is not scored and holds no value.
<1>2. group[s].trajectories # Slots /\ group[s].future \notin Scored
  BY <1>0, <1>1 DEF IndInv, GroupsInv
<1>3. /\ stored \in GroupState
      /\ stored.reward_step = group[s].reward_step
      /\ stored.next_slot = group[s].next_slot
      /\ stored.trajectories = group[s].trajectories \cup {slot[r]}
      /\ stored.failed = group[s].failed
      /\ stored.future = group[s].future
  BY <1>0, <1>1 DEF GroupState
<1>4. /\ pc' = [pc EXCEPT ![r] = "waiting"]
      /\ group' = [group EXCEPT ![s] = stored]
      /\ \/ /\ stored.trajectories = Slots
            /\ score' = [score EXCEPT ![s] = "queued"]
            /\ lockQueue' = Append(lockQueue, s)
         \/ score' = score /\ lockQueue' = lockQueue
      /\ UNCHANGED <<table, observed, member, slot, decisions, answer, scheduleStep, version>>
  BY DEF Store
<1> HIDE DEF stored
<1>5. /\ pc'[r] = "waiting"
      /\ \A q \in Run : q # r => pc'[q] = pc[q]
      /\ group'[s] = stored
      /\ \A t \in Run : t # s => group'[t] = group[t]
      /\ \A t \in Run : t # s => score'[t] = score[t]
      /\ score'[s] # "none" => stored.trajectories = Slots \/ score[s] # "none"
  BY <1>0, <1>4 DEF IndInv, TypeOK
<1>6. TypeOK'
  <2>1. lockQueue' \in Seq(Run)
    <3>1. lockQueue \in Seq(Run)
      BY DEF IndInv, TypeOK
    <3>2. Append(lockQueue, s) \in Seq(Run)
      BY <1>0, <3>1, AppendProperties
    <3>3. QED
      BY <1>4, <3>1, <3>2
  <2>2. score' \in [Run -> {"none", "queued", "first", "completion", "done"}]
    BY <1>0, <1>4 DEF IndInv, TypeOK
  <2>3. group' \in [Run -> GroupState]
    BY <1>0, <1>3, <1>4 DEF IndInv, TypeOK
  <2>4. pc' \in [Run -> PC]
    BY <1>4 DEF IndInv, TypeOK, PC
  <2>5. QED
    BY <1>4, <2>1, <2>2, <2>3, <2>4 DEF IndInv, TypeOK
<1>7. MembersInv'
  <2> SUFFICES ASSUME NEW q \in Run
               PROVE  /\ member[q] # NoState => MemberOf(q, member[q])'
                      /\ pc'[q] \in {"generating", "waiting", "timedout"} \cup Returned
                           => member[q] # NoState
    BY <1>4 DEF MembersInv, MemberOf
  <2>1. CASE q = r
    <3>1. MemberOf(q, member[q])'
      BY <1>0, <1>3, <1>4, <1>5, <2>1 DEF MemberOf, Returned
    <3>2. QED
      BY <1>0, <2>1, <3>1
  <2>2. CASE q # r /\ member[q] = s
    <3>1. MemberOf(q, s) /\ slot[q] # slot[r]
      BY <1>0, <2>2 DEF IndInv, MembersInv, MemberOf
    <3>2. MemberOf(q, member[q])'
      BY <1>0, <1>3, <1>4, <1>5, <2>2, <3>1 DEF MemberOf, Returned
    <3>3. QED
      BY <1>0, <2>2, <3>2
  <2>3. CASE q # r /\ member[q] # s
    <3>1. ASSUME member[q] # NoState
          PROVE  MemberOf(q, member[q])'
      <4>1. MemberOf(q, member[q]) /\ member[q] \in Run
        BY <3>1 DEF IndInv, MembersInv, TypeOK
      <4>2. group'[member[q]] = group[member[q]]
        BY <1>5, <2>3, <4>1
      <4>3. QED
        BY <1>4, <1>5, <2>3, <4>1, <4>2 DEF MemberOf
    <3>2. QED
      BY <1>5, <2>3, <3>1 DEF IndInv, MembersInv
  <2>4. QED
    BY <2>1, <2>2, <2>3
<1>8. GroupsInv'
  <2> SUFFICES ASSUME NEW t \in Run
               PROVE  /\ group'[t].next_slot <= GroupSize
                      /\ \A i \in group'[t].trajectories : i < group'[t].next_slot
                      /\ group'[t].failed => group'[t].future # "pending"
                      /\ group'[t].future = "error" => group'[t].failed
                      /\ group'[t].future \in Scored => group'[t].trajectories = Slots
                      /\ score'[t] # "none" => group'[t].trajectories = Slots
                      /\ pc'[t] \in {"idle", "version"} =>
                           group'[t].next_slot = 0 /\ group'[t].future = "pending"
    BY DEF GroupsInv
  <2>1. pc'[t] \in {"idle", "version"} => pc[t] = pc'[t]
    BY <1>5
  <2>2. CASE t = s
    <3>1. /\ group[s].next_slot <= GroupSize
          /\ \A i \in group[s].trajectories : i < group[s].next_slot
          /\ group[s].failed => group[s].future # "pending"
          /\ group[s].future = "error" => group[s].failed
          /\ score[s] = "none"
      BY <1>0, <1>2 DEF IndInv, GroupsInv
    <3>2. pc[s] \notin {"idle", "version"}
      <4>1. group[s].next_slot # 0
        BY <1>0, <1>1 DEF GroupState
      <4>2. QED
        BY <1>0, <4>1 DEF IndInv, GroupsInv
    <3>3. QED
      BY <1>1, <1>2, <1>3, <1>5, <2>1, <2>2, <3>1, <3>2
  <2>3. CASE t # s
    BY <1>5, <2>1, <2>3 DEF IndInv, GroupsInv
  <2>4. QED
    BY <2>2, <2>3
<1>9. LockInv'
  <2> SUFFICES ASSUME NEW i \in 1 .. Len(lockQueue')
               PROVE  score'[lockQueue'[i]] # "none"
    BY DEF LockInv
  <2>1. CASE lockQueue' = lockQueue /\ score' = score
    BY <2>1 DEF IndInv, LockInv
  <2>2. CASE lockQueue' = Append(lockQueue, s) /\ score' = [score EXCEPT ![s] = "queued"]
    <3>1. lockQueue \in Seq(Run) /\ score \in [Run -> {"none", "queued", "first", "completion", "done"}]
      BY DEF IndInv, TypeOK
    <3>2. CASE i = Len(lockQueue) + 1
      BY <1>0, <2>2, <3>1, <3>2
    <3>3. CASE i # Len(lockQueue) + 1
      <4>1. i \in 1 .. Len(lockQueue) /\ lockQueue'[i] = lockQueue[i] /\ lockQueue[i] \in Run
        BY <1>0, <2>2, <3>1, <3>3
      <4>2. QED
        BY <2>2, <3>1, <4>1 DEF IndInv, LockInv
    <3>4. QED
      BY <3>2, <3>3
  <2>3. QED
    BY <1>4, <2>1, <2>2
<1>10. TableInv'
  BY <1>4, <1>5 DEF IndInv, TableInv, TypeOK
<1>11. QED
  BY <1>6, <1>7, <1>8, <1>9, <1>10 DEF IndInv

LEMMA StoreKeepsIndInv ==
  ASSUME IndInv, NEW r \in Run, Store(r)
  PROVE  IndInv'
<1>1. CASE ~group[member[r]].failed
  BY <1>1, StoredKeepsIndInv
<1>2. CASE group[member[r]].failed
  <2> DEFINE s == member[r]
  <2>1. /\ pc[r] = "generating"
        /\ Leave(r, s, FailState(group[s]), "raised")
        /\ UNCHANGED <<observed, member, slot, score, lockQueue, scheduleStep,
                       decisions, answer, version>>
    BY <1>2 DEF Store
  <2>2. s # NoState /\ s \in Run /\ group[s] \in GroupState /\ MemberOf(r, s)
    BY <2>1 DEF IndInv, MembersInv, TypeOK
  <2>3. group[s].future = "error"
    <3>1. slot[r] \notin group[s].trajectories /\ slot[r] \in Slots
      BY <2>1, <2>2, ProxyGroupAssumption
         DEF MemberOf, IndInv, GroupsInv, TypeOK, GroupState, Slots, Returned, ProxyGroupAssumption
    <3>2. QED
      BY <1>2, <2>2, <3>1 DEF IndInv, GroupsInv, GroupState
  <2>4. FailState(group[s]).future = "error"
    BY <2>2, <2>3, FailStateLemma
  <2>5. "raised" \in Ended /\ "raised" \notin Returned \cup {"timedout"}
    BY DEF Ended, Returned
  <2>6. QED
    BY <2>1, <2>2, <2>4, <2>5, LeaveKeepsIndInv
<1>3. QED
  BY <1>1, <1>2

LEMMA GenerationFailsKeepsIndInv ==
  ASSUME IndInv, NEW r \in Run, GenerationFails(r)
  PROVE  IndInv'
<1> DEFINE s == member[r]
<1>1. /\ pc[r] = "generating"
      /\ Leave(r, s, FailState(group[s]), "raised")
      /\ UNCHANGED <<observed, member, slot, score, lockQueue, scheduleStep,
                     decisions, answer, version>>
  BY DEF GenerationFails, scoreVars
<1>2. s # NoState /\ s \in Run /\ group[s] \in GroupState /\ MemberOf(r, s)
  BY <1>1 DEF IndInv, MembersInv, TypeOK
\* The group lacks the trajectory of this run, so it holds no value.
<1>3. group[s].future \notin Scored
  <2>1. slot[r] \notin group[s].trajectories /\ slot[r] \in Slots
    BY <1>1, <1>2, ProxyGroupAssumption
       DEF MemberOf, IndInv, GroupsInv, TypeOK, GroupState, Slots, Returned, ProxyGroupAssumption
  <2>2. QED
    BY <1>2, <2>1 DEF IndInv, GroupsInv
<1>4. FailState(group[s]).future = "error"
  BY <1>2, <1>3, FailStateLemma DEF GroupState
<1>5. "raised" \in Ended /\ "raised" \notin Returned \cup {"timedout"}
  BY DEF Ended, Returned
<1>6. QED
  BY <1>1, <1>2, <1>4, <1>5, LeaveKeepsIndInv

LEMMA WakeKeepsIndInv ==
  ASSUME IndInv, NEW r \in Run, Wake(r)
  PROVE  IndInv'
<1> DEFINE s == member[r]
<1>1. /\ pc[r] = "waiting"
      /\ UNCHANGED <<observed, member, slot, score, lockQueue, scheduleStep,
                     decisions, answer, version>>
  BY DEF Wake, scoreVars
<1>2. s # NoState /\ s \in Run /\ group[s] \in GroupState
  BY <1>1 DEF IndInv, MembersInv, TypeOK
<1>3. {"rewarded", "rejected", "raised"} \subseteq Ended
  BY DEF Ended, Returned
<1>4. CASE group[s].future = "result" /\ Leave(r, s, group[s], "rewarded")
  BY <1>1, <1>2, <1>3, <1>4, LeaveKeepsIndInv
<1>5. CASE group[s].future = "zeros" /\ Leave(r, s, group[s], "rejected")
  BY <1>1, <1>2, <1>3, <1>5, LeaveKeepsIndInv
<1>6. CASE group[s].future = "error" /\ Leave(r, s, FailState(group[s]), "raised")
  <2>1. FailState(group[s]).future = "error"
    BY <1>2, <1>6, FailStateLemma
  <2>2. QED
    BY <1>1, <1>2, <1>3, <1>6, <2>1, LeaveKeepsIndInv
<1>7. QED
  BY <1>4, <1>5, <1>6 DEF Wake

LEMMA TimeoutKeepsIndInv ==
  ASSUME IndInv, NEW r \in Run, Timeout(r)
  PROVE  IndInv'
<1>1. /\ pc[r] = "waiting"
      /\ Leave(r, member[r], FailState(group[member[r]]), "timedout")
      /\ UNCHANGED <<observed, member, slot, score, lockQueue, scheduleStep,
                     decisions, answer, version>>
  BY DEF Timeout, scoreVars
<1>2. member[r] # NoState /\ "timedout" \in Ended
  BY <1>1 DEF IndInv, MembersInv, Ended
<1>3. QED
  BY <1>1, <1>2, LeaveKeepsIndInv

LEMMA CancelKeepsIndInv ==
  ASSUME IndInv, NEW r \in Run, Cancel(r)
  PROVE  IndInv'
<1>1. /\ pc[r] \in {"generating", "waiting"}
      /\ Leave(r, member[r], FailState(group[member[r]]), "cancelled")
      /\ UNCHANGED <<observed, member, slot, score, lockQueue, scheduleStep,
                     decisions, answer, version>>
  BY DEF Cancel, scoreVars
<1>2. member[r] # NoState /\ "cancelled" \in Ended /\ "cancelled" \notin Returned
  BY <1>1 DEF IndInv, MembersInv, Ended, Returned
<1>3. QED
  BY <1>1, <1>2, LeaveKeepsIndInv

\* Before a run has joined, nothing depends on it.
LEMMA VersionKeepsIndInv ==
  ASSUME IndInv, NEW r \in Run, VersionAnswered(r) \/ VersionFails(r)
  PROVE  IndInv'
<1>1. /\ pc[r] \in {"idle", "version"}
      /\ \E how \in {"version", "raised", "cancelled"} : pc' = [pc EXCEPT ![r] = how]
      /\ observed' = [observed EXCEPT ![r] = version] \/ observed' = observed
      /\ UNCHANGED <<member, slot, group, table, score, lockQueue, scheduleStep,
                     decisions, answer, version>>
  BY DEF VersionAnswered, VersionFails, scoreVars
<1>2. /\ pc'[r] \in {"version", "raised", "cancelled"}
      /\ \A q \in Run : q # r => pc'[q] = pc[q] /\ observed'[q] = observed[q]
      /\ member[r] = NoState
  BY <1>1 DEF IndInv, TypeOK, MembersInv, MemberOf
<1>3. TypeOK'
  BY <1>1 DEF IndInv, TypeOK, PC, Ended
<1>4. MembersInv'
  <2> SUFFICES ASSUME NEW q \in Run
               PROVE  /\ member[q] # NoState => MemberOf(q, member[q])'
                      /\ pc'[q] \in {"generating", "waiting", "timedout"} \cup Returned
                           => member[q] # NoState
    BY <1>1 DEF MembersInv
  <2>1. member[q] # NoState => MemberOf(q, member[q])'
    BY <1>1, <1>2 DEF IndInv, MembersInv, MemberOf
  <2>2. QED
    BY <1>2, <2>1 DEF IndInv, MembersInv, Returned
<1>5. GroupsInv'
  BY <1>1, <1>2 DEF IndInv, GroupsInv
<1>6. LockInv'
  BY <1>1 DEF IndInv, LockInv
<1>7. TableInv'
  <2> SUFFICES ASSUME NEW k \in Key, table[k] # NoState
               PROVE  KeyOf[table[k]] = k /\ pc'[table[k]] \notin {"idle", "version"}
    BY <1>1 DEF TableInv
  <2>1. KeyOf[table[k]] = k /\ pc[table[k]] \notin {"idle", "version"} /\ table[k] \in Run
    BY DEF IndInv, TableInv, TypeOK
  <2>2. QED
    BY <1>1, <1>2, <2>1
<1>8. QED
  BY <1>3, <1>4, <1>5, <1>6, <1>7 DEF IndInv

(***************************************************************************)
(* The score task.                                                         *)
(***************************************************************************)

\* A score task moves on, or ends with a value or a failure of its group.
LEMMA ScoreMovesKeepIndInv ==
  ASSUME IndInv,
         NEW s \in Run, HoldsLock(s),
         NEW h \in GroupState, NEW phase \in {"first", "completion", "done"},
         h.reward_step = group[s].reward_step,
         h.next_slot = group[s].next_slot,
         h.trajectories = group[s].trajectories,
         group[s].future # "pending" => h.future = group[s].future,
         h.failed => group[s].failed \/ h.future # "pending",
         group[s].failed => h.failed,
         h.future = "error" /\ group[s].future # "error" => h.failed,
         group' = [group EXCEPT ![s] = h],
         score' = [score EXCEPT ![s] = phase],
         lockQueue' = lockQueue \/ lockQueue' = Tail(lockQueue),
         decisions' \in [Key -> {"none", "accept", "reject"}],
         scheduleStep' \in Nat,
         UNCHANGED <<pc, observed, member, slot, table, answer, version>>
  PROVE  IndInv'
<1>1. /\ group[s] \in GroupState
      /\ lockQueue \in Seq(Run) /\ lockQueue # <<>>
      /\ lockQueue' \in Seq(Run)
      /\ \A i \in 1 .. Len(lockQueue') : \E j \in 1 .. Len(lockQueue) : lockQueue'[i] = lockQueue[j]
      /\ s = lockQueue[1] /\ 1 \in 1 .. Len(lockQueue)
  <2>1. lockQueue \in Seq(Run) /\ lockQueue # <<>> /\ s = Head(lockQueue)
    BY DEF IndInv, TypeOK, HoldsLock
  <2>2. /\ Tail(lockQueue) \in Seq(Run)
        /\ Len(Tail(lockQueue)) = Len(lockQueue) - 1
        /\ \A i \in 1 .. Len(Tail(lockQueue)) : Tail(lockQueue)[i] = lockQueue[i + 1]
    BY <2>1, HeadTailProperties
  <2>3. Len(lockQueue) \in Nat /\ Len(lockQueue) # 0 /\ s = lockQueue[1]
    BY <2>1, EmptySeq
  <2>4. \A i \in 1 .. Len(Tail(lockQueue)) : i + 1 \in 1 .. Len(lockQueue)
    BY <2>2, <2>3
  <2>5. group[s] \in GroupState
    BY DEF IndInv, TypeOK
  <2>6. CASE lockQueue' = lockQueue
    BY <2>1, <2>3, <2>5, <2>6
  <2>7. CASE lockQueue' = Tail(lockQueue)
    BY <2>1, <2>2, <2>3, <2>4, <2>5, <2>7
  <2>8. QED
    BY <2>6, <2>7
<1>2. group[s].trajectories = Slots
  BY <1>1 DEF IndInv, LockInv, GroupsInv
<1>3. /\ group'[s] = h
      /\ \A t \in Run : t # s => group'[t] = group[t]
      /\ score'[s] # "none"
      /\ \A t \in Run : t # s => score'[t] = score[t]
  BY DEF IndInv, TypeOK
<1>4. TypeOK'
  <2>1. score' \in [Run -> {"none", "queued", "first", "completion", "done"}]
    BY DEF IndInv, TypeOK
  <2>2. group' \in [Run -> GroupState]
    BY DEF IndInv, TypeOK
  <2>3. QED
    BY <1>1, <2>1, <2>2 DEF IndInv, TypeOK
<1>5. MembersInv'
  <2> SUFFICES ASSUME NEW q \in Run, member[q] # NoState
               PROVE  MemberOf(q, member[q])'
    BY DEF IndInv, MembersInv
  <2>1. MemberOf(q, member[q]) /\ member[q] \in Run
    BY DEF IndInv, MembersInv, TypeOK
  <2>2. CASE member[q] = s
    BY <1>3, <2>1, <2>2 DEF MemberOf
  <2>3. CASE member[q] # s
    BY <1>3, <2>1, <2>3 DEF MemberOf
  <2>4. QED
    BY <2>2, <2>3
<1>6. GroupsInv'
  <2> SUFFICES ASSUME NEW t \in Run
               PROVE  /\ group'[t].next_slot <= GroupSize
                      /\ \A i \in group'[t].trajectories : i < group'[t].next_slot
                      /\ group'[t].failed => group'[t].future # "pending"
                      /\ group'[t].future = "error" => group'[t].failed
                      /\ group'[t].future \in Scored => group'[t].trajectories = Slots
                      /\ score'[t] # "none" => group'[t].trajectories = Slots
                      /\ pc[t] \in {"idle", "version"} =>
                           group'[t].next_slot = 0 /\ group'[t].future = "pending"
    BY DEF GroupsInv
  <2>1. CASE t = s
    <3>1. group[s].next_slot = GroupSize
      BY <1>2, FullGroupLemma, ProxyGroupAssumption DEF IndInv
    <3>2. pc[s] \notin {"idle", "version"}
      BY <3>1, ProxyGroupAssumption DEF IndInv, GroupsInv, ProxyGroupAssumption
    <3>3. QED
      BY <1>2, <1>3, <2>1, <3>2 DEF IndInv, GroupsInv
  <2>2. CASE t # s
    BY <1>3, <2>2 DEF IndInv, GroupsInv
  <2>3. QED
    BY <2>1, <2>2
<1>7. LockInv'
  <2> SUFFICES ASSUME NEW i \in 1 .. Len(lockQueue')
               PROVE  score'[lockQueue'[i]] # "none"
    BY DEF LockInv
  <2>1. PICK j \in 1 .. Len(lockQueue) : lockQueue'[i] = lockQueue[j]
    BY <1>1
  <2>2. lockQueue[j] \in Run /\ score[lockQueue[j]] # "none"
    BY <1>1 DEF IndInv, LockInv
  <2>3. QED
    BY <1>3, <2>1, <2>2
<1>8. TableInv'
  BY DEF IndInv, TableInv
<1>9. QED
  BY <1>4, <1>5, <1>6, <1>7, <1>8 DEF IndInv

LEMMA ScoreKeepsIndInv ==
  ASSUME IndInv, NEW s \in Run, Score(s)
  PROVE  IndInv'
<1>1. /\ group[s] \in GroupState /\ HoldsLock(s)
      /\ lockQueue' = lockQueue \/ lockQueue' = Tail(lockQueue)
      /\ UNCHANGED <<pc, observed, member, slot, table, answer, version>>
  BY DEF IndInv, TypeOK, Score, ScoreStarts, ScoreInformative, ScoreRejects,
         ScoreAccepts, ScoreFails, ScoreEnds, runVars
<1>2. /\ decisions' \in [Key -> {"none", "accept", "reject"}]
      /\ scheduleStep' \in Nat
  <2>1. decisions \in [Key -> {"none", "accept", "reject"}] /\ scheduleStep \in Nat
    BY DEF IndInv, TypeOK
  <2>2. \/ decisions' = decisions
        \/ \E d \in {"accept", "reject"} : decisions' = [decisions EXCEPT ![KeyOf[s]] = d]
    BY DEF Score, ScoreStarts, ScoreInformative, ScoreRejects, ScoreAccepts, ScoreFails
  <2>3. scheduleStep' \in {scheduleStep, scheduleStep + 1}
    BY DEF Score, ScoreStarts, ScoreInformative, ScoreRejects, ScoreAccepts, ScoreFails
  <2>4. QED
    BY <2>1, <2>2, <2>3
\* What the five alternatives do to the group.
<1> DEFINE Moves(h, phase) ==
        /\ h.reward_step = group[s].reward_step
        /\ h.next_slot = group[s].next_slot
        /\ h.trajectories = group[s].trajectories
        /\ group[s].future # "pending" => h.future = group[s].future
        /\ h.failed => group[s].failed \/ h.future # "pending"
        /\ group[s].failed => h.failed
        /\ h.future = "error" /\ group[s].future # "error" => h.failed
        /\ group' = [group EXCEPT ![s] = h]
        /\ score' = [score EXCEPT ![s] = phase]
<1>3. \E h \in GroupState, phase \in {"first", "completion", "done"} : Moves(h, phase)
  <2>1. CASE ScoreStarts(s) \/ ScoreInformative(s)
    <3>1. group' = [group EXCEPT ![s] = group[s]]
      BY <2>1 DEF ScoreStarts, ScoreInformative, IndInv, TypeOK
    <3>2. \E phase \in {"first", "completion", "done"} : score' = [score EXCEPT ![s] = phase]
      BY <2>1 DEF ScoreStarts, ScoreInformative
    <3>3. QED
      BY <1>1, <3>1, <3>2
  <2>2. CASE ScoreRejects(s)
    <3> DEFINE h == Settle(group[s], "zeros")
    <3>1. group' = [group EXCEPT ![s] = h] /\ score' = [score EXCEPT ![s] = "done"]
      BY <2>2 DEF ScoreRejects, ScoreEnds
    <3>2. /\ h \in GroupState
          /\ h.reward_step = group[s].reward_step
          /\ h.next_slot = group[s].next_slot
          /\ h.trajectories = group[s].trajectories
          /\ h.failed = group[s].failed
          /\ h.future = IF group[s].future = "pending" THEN "zeros" ELSE group[s].future
      BY <1>1, SettleLemma DEF Scored
    <3> HIDE DEF h
    <3>3. QED
      BY <3>1, <3>2
  <2>3. CASE ScoreAccepts(s)
    <3> DEFINE h == Settle(group[s], "result")
    <3>1. group' = [group EXCEPT ![s] = h] /\ score' = [score EXCEPT ![s] = "done"]
      BY <2>3 DEF ScoreAccepts, ScoreEnds
    <3>2. /\ h \in GroupState
          /\ h.reward_step = group[s].reward_step
          /\ h.next_slot = group[s].next_slot
          /\ h.trajectories = group[s].trajectories
          /\ h.failed = group[s].failed
          /\ h.future = IF group[s].future = "pending" THEN "result" ELSE group[s].future
      BY <1>1, SettleLemma DEF Scored
    <3> HIDE DEF h
    <3>3. QED
      BY <3>1, <3>2
  <2>4. CASE ScoreFails(s)
    <3>1. group' = [group EXCEPT ![s] = FailState(group[s])] /\ score' = [score EXCEPT ![s] = "done"]
      BY <2>4 DEF ScoreFails, ScoreEnds
    <3>2. QED
      BY <1>1, <3>1, FailStateLemma
  <2>5. QED
    BY <2>1, <2>2, <2>3, <2>4 DEF Score
<1>4. PICK h \in GroupState, phase \in {"first", "completion", "done"} : Moves(h, phase)
  BY <1>3, Zenon
<1>5. QED
  BY <1>1, <1>2, <1>4, ScoreMovesKeepIndInv, Zenon

\* The callers, the trainer and a quiescent agent leave the groups alone.
LEMMA RestKeepsIndInv ==
  ASSUME IndInv,
         UNCHANGED <<pc, observed, member, slot, group, table, score, lockQueue, scheduleStep>>,
         decisions' \in [Key -> {"none", "accept", "reject"}],
         answer' \in [Key -> {"none", "accept", "reject", "missing"}],
         version' \in Nat
  PROVE  IndInv'
BY DEF IndInv, TypeOK, MembersInv, MemberOf, GroupsInv, LockInv, TableInv

LEMMA NextKeepsIndInv == IndInv /\ [Next]_vars => IndInv'
<1> SUFFICES ASSUME IndInv, [Next]_vars PROVE IndInv'
  OBVIOUS
<1>1. CASE \E r \in Run : RunStep(r)
  BY <1>1, VersionKeepsIndInv, JoinKeepsIndInv, StoreKeepsIndInv,
     GenerationFailsKeepsIndInv, WakeKeepsIndInv, TimeoutKeepsIndInv,
     CancelKeepsIndInv DEF RunStep
<1>2. CASE \E s \in Run : Score(s)
  BY <1>2, ScoreKeepsIndInv
<1>3. CASE \E k \in Key : ConsumeDecision(k)
  <2>1. PICK k \in Key : ConsumeDecision(k)
    BY <1>3
  <2>2. /\ decisions' \in [Key -> {"none", "accept", "reject"}]
        /\ answer' \in [Key -> {"none", "accept", "reject", "missing"}]
    BY <2>1 DEF ConsumeDecision, IndInv, TypeOK
  <2>3. UNCHANGED <<pc, observed, member, slot, group, table, score, lockQueue,
                    scheduleStep, version>>
    BY <2>1 DEF ConsumeDecision, runVars, scoreVars
  <2>4. QED
    BY <2>2, <2>3, RestKeepsIndInv DEF IndInv, TypeOK
<1>4. CASE PublishVersion
  BY <1>4, RestKeepsIndInv DEF PublishVersion, runVars, scoreVars, IndInv, TypeOK
<1>5. CASE UNCHANGED vars
  BY <1>5, RestKeepsIndInv DEF vars, IndInv, TypeOK
<1>6. QED
  BY <1>1, <1>2, <1>3, <1>4, <1>5 DEF Next, Quiescent

\* The inductive invariant, and with it the types, hold throughout.
THEOREM SpecIndInv == Spec => []IndInv
<1>1. QED
  BY InitIndInv, NextKeepsIndInv, PTL DEF Spec

\* A step of a run settles a future with an error or not at all.
FutureStep(s) ==
  \/ group'[s].future = group[s].future
  \/ group[s].future = "pending" /\ group'[s].future = "error"

LEMMA RunStepFuture ==
  ASSUME IndInv, NEW r \in Run, RunStep(r), NEW s \in Run
  PROVE  FutureStep(s)
<1>1. \A t \in Run : group[t] \in GroupState
  BY DEF IndInv, TypeOK
<1>2. \A t \in Run : \A h : group' = [group EXCEPT ![t] = h] =>
        group'[s] = IF t = s THEN h ELSE group[s]
  BY DEF IndInv, TypeOK
<1> DEFINE Kept(h) == \/ h.future = group[s].future
                      \/ group[s].future = "pending" /\ h.future = "error"
<1>3. /\ FailState(group[s]) \in GroupState
      /\ Kept(FailState(group[s]))
      /\ Kept(Finish(group[s]))
      /\ Kept(Finish(FailState(group[s])))
  <2>1. group[s] \in GroupState
    BY <1>1
  <2>2. /\ FailState(group[s]) \in GroupState
        /\ FailState(group[s]).future =
             IF group[s].future = "pending" THEN "error" ELSE group[s].future
    BY <2>1, FailStateLemma
  <2>3. /\ Finish(group[s]).future = group[s].future
        /\ Finish(FailState(group[s])).future = FailState(group[s]).future
    BY <2>1, <2>2, FinishLemma
  <2>4. QED
    BY <2>2, <2>3
<1>4. ASSUME NEW t \in Run, NEW g \in {group[t], FailState(group[t])}, NEW how,
             Leave(r, t, g, how)
      PROVE  FutureStep(s)
  <2>1. group' = [group EXCEPT ![t] = Finish(g)]
    BY <1>4 DEF Leave
  <2>2. CASE t = s
    BY <1>2, <1>3, <2>1, <2>2 DEF FutureStep
  <2>3. CASE t # s
    BY <1>2, <2>1, <2>3 DEF FutureStep
  <2>4. QED
    BY <2>2, <2>3
<1>5. CASE VersionAnswered(r) \/ VersionFails(r)
  BY <1>5 DEF VersionAnswered, VersionFails, FutureStep
<1>6. ASSUME NEW step, Refuse(r, step)
      PROVE  FutureStep(s)
  <2>1. table[KeyOf[r]] \in Run
    BY <1>6, ProxyGroupAssumption DEF Refuse, IndInv, TypeOK, ProxyGroupAssumption
  <2>2. QED
    BY <1>2, <1>3, <1>6, <2>1 DEF Refuse, FutureStep
<1>7. ASSUME NEW step \in Nat, Claim(r, step), pc[r] \in {"idle", "version"}
      PROVE  FutureStep(s)
  <2> DEFINE t == Target(r)
             g == TargetGroup(r, step)
             claimed == [g EXCEPT !.next_slot = @ + 1]
  <2>1. t \in Run
    BY ProxyGroupAssumption DEF Target, IndInv, TypeOK, ProxyGroupAssumption
  <2>2. t = s => g.future = group[s].future
    BY <1>7 DEF Target, TargetGroup, NewGroup, IndInv, GroupsInv
  <2>3. g \in GroupState
    BY <1>1, NewGroupLemma, ProxyGroupAssumption
       DEF TargetGroup, IndInv, TypeOK, ProxyGroupAssumption
  <2>4. claimed \in GroupState /\ claimed.future = g.future
    BY <2>3 DEF GroupState
  <2>5. group' = [group EXCEPT ![t] = claimed]
          \/ group' = [group EXCEPT ![t] = Finish(FailState(claimed))]
    BY <1>7 DEF Claim, Leave
  <2> HIDE DEF t, g, claimed
  <2>6. t = s => Kept(claimed) /\ Kept(Finish(FailState(claimed)))
    <3>1. /\ FailState(claimed) \in GroupState
          /\ FailState(claimed).future =
               IF claimed.future = "pending" THEN "error" ELSE claimed.future
      BY <2>4, FailStateLemma
    <3>2. Finish(FailState(claimed)).future = FailState(claimed).future
      BY <3>1, FinishLemma
    <3>3. QED
      BY <2>2, <2>4, <3>1, <3>2
  <2>7. QED
    BY <1>2, <2>1, <2>5, <2>6 DEF FutureStep
<1>8. CASE Join(r)
  <2>1. \A x : x = (IF UseProxyVersion THEN observed[r] ELSE scheduleStep) => x \in Nat
    BY DEF IndInv, TypeOK
  <2>2. QED
    BY <1>6, <1>7, <1>8, <2>1 DEF Join
<1>9. ASSUME pc[r] \in {"generating", "waiting"}
      PROVE  member[r] \in Run
  <2>1. member[r] # NoState
    BY <1>9 DEF IndInv, MembersInv
  <2>2. QED
    BY <2>1 DEF IndInv, TypeOK
<1>10. CASE Store(r)
  <2>1. CASE group[member[r]].failed
    BY <1>4, <1>9, <1>10, <2>1 DEF Store
  <2>2. CASE ~group[member[r]].failed
    <3> DEFINE t == member[r]
               stored == [group[t] EXCEPT !.trajectories = @ \cup {slot[r]}]
    <3>1. t \in Run /\ group' = [group EXCEPT ![t] = stored]
      BY <1>9, <1>10, <2>2 DEF Store
    <3>2. stored.future = group[t].future
      BY <1>1, <3>1 DEF GroupState
    <3>3. QED
      BY <1>2, <3>1, <3>2 DEF FutureStep
  <2>3. QED
    BY <2>1, <2>2
<1>11. CASE GenerationFails(r) \/ Wake(r) \/ Timeout(r) \/ Cancel(r)
  BY <1>4, <1>9, <1>11 DEF GenerationFails, Wake, Timeout, Cancel
<1>12. QED
  BY <1>5, <1>8, <1>10, <1>11 DEF RunStep

\* Whatever a step does to a group state, a settled future stays.
LEMMA SettledStays ==
  ASSUME IndInv, [Next]_vars, NEW s \in Run, group[s].future # "pending"
  PROVE  group'[s].future = group[s].future
<1>1. \A t \in Run : group[t] \in GroupState
  BY DEF IndInv, TypeOK
<1>2. \A t \in Run : \A h : group' = [group EXCEPT ![t] = h] =>
        group'[s] = IF t = s THEN h ELSE group[s]
  BY DEF IndInv, TypeOK
<1>3. /\ FailState(group[s]) \in GroupState
      /\ FailState(group[s]).future = group[s].future
      /\ Finish(group[s]).future = group[s].future
      /\ Finish(FailState(group[s])).future = group[s].future
  <2>1. FailState(group[s]) \in GroupState /\ FailState(group[s]).future = group[s].future
    BY <1>1, FailStateLemma
  <2>2. QED
    BY <1>1, <2>1, FinishLemma
<1>4. \A outcome \in Scored : Settle(group[s], outcome).future = group[s].future
  BY <1>1, SettleLemma
<1>5. ASSUME NEW r \in Run, RunStep(r)
      PROVE  group'[s].future = group[s].future
  BY <1>5, RunStepFuture DEF FutureStep
<1>6. ASSUME NEW t \in Run, Score(t)
      PROVE  group'[s].future = group[s].future
  <2>1. CASE ScoreStarts(t) \/ ScoreInformative(t)
    BY <2>1 DEF ScoreStarts, ScoreInformative
  <2>2. CASE ScoreRejects(t)
    BY <1>2, <1>4, <2>2 DEF ScoreRejects, Scored
  <2>3. CASE ScoreAccepts(t)
    BY <1>2, <1>4, <2>3 DEF ScoreAccepts, Scored
  <2>4. CASE ScoreFails(t)
    BY <1>2, <1>3, <2>4 DEF ScoreFails
  <2>5. QED
    BY <1>6, <2>1, <2>2, <2>3, <2>4 DEF Score
<1>7. CASE (\E k \in Key : ConsumeDecision(k)) \/ PublishVersion \/ UNCHANGED vars
  BY <1>7 DEF ConsumeDecision, PublishVersion, vars
<1>8. QED
  BY <1>5, <1>6, <1>7 DEF Next, Quiescent

(***************************************************************************)
(* The theorems.                                                           *)
(***************************************************************************)

\* Every variable keeps its type.
THEOREM TypeCorrect == Spec => []TypeOK
<1>1. IndInv => TypeOK
  BY DEF IndInv
<1>2. QED
  BY <1>1, SpecIndInv, PTL

\* No run of a group gets rewards while a peer raised or still generates: the
\* value of a group implies that all its slots hold a trajectory, which a
\* generating peer has not stored, and a peer that raised found, or left, the
\* future with an error.
THEOREM GroupAllOrNothing == Spec => []NoPartialGroup
<1>1. IndInv => NoPartialGroup
  <2> SUFFICES ASSUME IndInv,
                      NEW r \in Run, NEW q \in Run,
                      member[r] # NoState,
                      member[q] = member[r],
                      pc[r] \in Returned
               PROVE  pc[q] \in {"waiting", "timedout", "cancelled", pc[r]}
    BY DEF NoPartialGroup
  <2> DEFINE s == member[r]
  <2>1. s \in Run /\ MemberOf(r, s) /\ MemberOf(q, s) /\ slot[q] \in Nat /\ pc[q] \in PC
    BY DEF IndInv, MembersInv, TypeOK
  <2>2. /\ group[s].future = IF pc[r] = "rewarded" THEN "result" ELSE "zeros"
        /\ group[s].future \in Scored
    BY <2>1 DEF MemberOf, Returned, Scored
  <2>3. slot[q] \in group[s].trajectories
    <3>1. group[s].trajectories = Slots /\ group[s].next_slot \in Nat
      BY <2>1, <2>2 DEF IndInv, GroupsInv, TypeOK, GroupState
    <3>2. slot[q] < group[s].next_slot /\ group[s].next_slot <= GroupSize
      BY <2>1 DEF MemberOf, IndInv, GroupsInv
    <3>3. QED
      BY <2>1, <3>1, <3>2, ProxyGroupAssumption DEF Slots, ProxyGroupAssumption
  <2>4. pc[q] \in {"waiting", "timedout", "cancelled", "raised", "rewarded", "rejected"}
    BY <2>1, <2>3 DEF MemberOf, Returned
  <2>5. QED
    BY <2>1, <2>2, <2>4 DEF MemberOf, Returned
<1>2. QED
  BY <1>1, SpecIndInv, PTL

\* A failed group never gets rewards later: its future was settled when it
\* failed, and no step settles a future twice.
THEOREM FailureIsFinal == Spec => NoRewardAfterFailure
<1>1. IndInv /\ [Next]_vars =>
        [\A s \in Run : group[s].failed => group'[s].future = group[s].future]_vars
  BY SettledStays DEF IndInv, GroupsInv
<1>2. QED
  BY <1>1, SpecIndInv, PTL DEF Spec, NoRewardAfterFailure

\* All runs of one group resolved the same reward step.
THEOREM GroupAgreesOnStep == Spec => []AgreedStep
<1>1. IndInv => AgreedStep
  BY DEF IndInv, MembersInv, MemberOf, AgreedStep
<1>2. QED
  BY <1>1, SpecIndInv, PTL

(***************************************************************************)
(* A group state counts its runs: next_slot the runs that joined, and      *)
(* finished_runs those of them that have ended.  That is why _states holds *)
(* it exactly as long as a run may join or is still under way.             *)
(***************************************************************************)

EndedMembers(s) == {r \in Members(s) : pc[r] \in Ended}

CountInv ==
  \A s \in Run :
    /\ IsFiniteSet(Members(s))
    /\ Cardinality(Members(s)) = group[s].next_slot
    /\ Cardinality(EndedMembers(s)) = group[s].finished_runs

\* A group with runs is registered until its last slot is claimed and its
\* last run counted, and only groups with runs are registered.
RegisteredInv ==
  /\ \A s \in Run : group[s].next_slot > 0 =>
       (table[KeyOf[s]] = s <=>
          \/ group[s].next_slot < GroupSize
          \/ group[s].finished_runs < GroupSize)
  /\ \A k \in Key : table[k] # NoState => group[table[k]].next_slot > 0

TallyInv == CountInv /\ RegisteredInv

\* What a step of run r does to the counts, in its three forms: r moves
\* without entering or leaving a group ...
SameCounts(t) ==
  /\ group'[t].next_slot = group[t].next_slot
  /\ group'[t].finished_runs = group[t].finished_runs

MovesInPlace(r) ==
  /\ \A t \in Run : SameCounts(t)
  /\ UNCHANGED <<member, table>>
  /\ pc'[r] \in Ended => member[r] = NoState

\* ... or it leaves its group s, which is unregistered after its last run ...
Unregisters(s) ==
  table' = IF /\ group'[s].next_slot >= GroupSize
              /\ group'[s].finished_runs >= GroupSize
              /\ table[KeyOf[s]] = s
           THEN [table EXCEPT ![KeyOf[s]] = NoState]
           ELSE table

Leaves(r, s) ==
  /\ member[r] = s
  /\ pc'[r] \in Ended
  /\ \A t \in Run \ {s} : SameCounts(t)
  /\ group'[s].next_slot = group[s].next_slot
  /\ group'[s].finished_runs = group[s].finished_runs + 1
  /\ UNCHANGED member
  /\ Unregisters(s)

\* ... or it enters group s, and leaves at once when that group has failed.
Enters(r, s) ==
  /\ KeyOf[s] = KeyOf[r]
  /\ IF table[KeyOf[r]] = NoState THEN s = r ELSE s = table[KeyOf[r]]
  /\ member[r] = NoState
  /\ member' = [member EXCEPT ![r] = s]
  /\ \A t \in Run \ {s} : SameCounts(t)
  /\ group[s].next_slot < GroupSize
  /\ group'[s].next_slot = group[s].next_slot + 1
  /\ \/ /\ pc'[r] \notin Ended
        /\ group'[s].finished_runs = group[s].finished_runs
        /\ table' = [table EXCEPT ![KeyOf[r]] = s]
     \/ /\ pc'[r] \in Ended
        /\ table[KeyOf[r]] = s
        /\ group'[s].finished_runs = group[s].finished_runs + 1
        /\ Unregisters(s)

CountStep(r) ==
  /\ pc[r] \notin Ended
  /\ pc' = [pc EXCEPT ![r] = pc'[r]]
  /\ \/ MovesInPlace(r)
     \/ \E s \in Run : Leaves(r, s) \/ Enters(r, s)

\* Leaving run() counts the run.
LEMMA LeaveCounts ==
  ASSUME TypeOK, NEW r \in Run, NEW s \in Run, member[r] = s,
         NEW how \in Ended,
         NEW g \in {group[s], FailState(group[s])},
         Leave(r, s, g, how),
         UNCHANGED member
  PROVE  Leaves(r, s)
<1>1. /\ g \in GroupState
      /\ g.next_slot = group[s].next_slot
      /\ g.finished_runs = group[s].finished_runs
  <2>1. group[s] \in GroupState
    BY DEF TypeOK
  <2>2. CASE g = group[s]
    BY <2>1, <2>2
  <2>3. CASE g = FailState(group[s])
    BY <2>1, <2>3, FailStateLemma
  <2>4. QED
    BY <2>2, <2>3
<1>2. /\ group' = [group EXCEPT ![s] = Finish(g)]
      /\ pc' = [pc EXCEPT ![r] = how]
      /\ table' = TableAfter(s, Finish(g))
  BY DEF Leave
<1>3. group'[s] = Finish(g) /\ pc'[r] = how /\ \A t \in Run \ {s} : group'[t] = group[t]
  BY <1>2 DEF TypeOK
<1>4. /\ Finish(g).next_slot = group[s].next_slot
      /\ Finish(g).finished_runs = group[s].finished_runs + 1
  BY <1>1, FinishLemma
<1>5. Unregisters(s)
  BY <1>2, <1>3 DEF Unregisters, TableAfter
<1>6. QED
  BY <1>3, <1>4, <1>5 DEF Leaves, SameCounts

\* Claiming a slot counts the run in.
LEMMA ClaimCounts ==
  ASSUME IndInv, CountInv, RegisteredInv, NEW r \in Run, NEW step \in Nat,
         pc[r] \in {"idle", "version"},
         Claim(r, step)
  PROVE  Enters(r, Target(r))
<1> DEFINE s == Target(r)
           g == TargetGroup(r, step)
           claimed == [g EXCEPT !.next_slot = @ + 1]
<1>0. KeyOf[r] \in Key
  BY ProxyGroupAssumption DEF ProxyGroupAssumption
<1>1. /\ s \in Run
      /\ g \in GroupState
      /\ KeyOf[s] = KeyOf[r]
      /\ IF table[KeyOf[r]] = NoState THEN s = r ELSE s = table[KeyOf[r]]
  BY <1>0, NewGroupLemma DEF Target, TargetGroup, IndInv, TypeOK, TableInv
<1>2. g.next_slot = group[s].next_slot /\ g.finished_runs = group[s].finished_runs
  <2>1. CASE table[KeyOf[r]] # NoState
    BY <2>1 DEF Target, TargetGroup
  <2>2. CASE table[KeyOf[r]] = NoState
    <3>1. group[r].next_slot = 0
      BY DEF IndInv, GroupsInv
    <3>2. Members(r) = {}
      BY <3>1, FS_EmptySet DEF CountInv
    <3>3. EndedMembers(r) = {}
      BY <3>2 DEF EndedMembers
    <3>4. group[r].finished_runs = 0
      BY <3>3, FS_EmptySet DEF CountInv
    <3>5. QED
      BY <2>2, <3>1, <3>4 DEF Target, TargetGroup, NewGroup
  <2>3. QED
    BY <2>1, <2>2
<1>3. /\ claimed \in GroupState
      /\ claimed.next_slot = group[s].next_slot + 1
      /\ claimed.finished_runs = group[s].finished_runs
      /\ claimed.failed = g.failed
  BY <1>1, <1>2 DEF GroupState
<1>4. g.next_slot < GroupSize /\ member' = [member EXCEPT ![r] = s]
  BY DEF Claim
<1>5. member[r] = NoState
  BY DEF IndInv, MembersInv, MemberOf
<1>6. CASE ~g.failed
  <2> HIDE DEF claimed, g, s
  <2>1. /\ pc' = [pc EXCEPT ![r] = "generating"]
        /\ group' = [group EXCEPT ![s] = claimed]
        /\ table' = [table EXCEPT ![KeyOf[r]] = s]
    BY <1>6 DEF Claim, claimed, g, s
  <2>2. /\ pc'[r] \notin Ended
        /\ group'[s] = claimed /\ \A t \in Run \ {s} : group'[t] = group[t]
    BY <1>1, <2>1 DEF IndInv, TypeOK, Ended, Returned
  <2>3. QED
    BY <1>1, <1>2, <1>3, <1>4, <1>5, <2>1, <2>2 DEF Enters, SameCounts, s
<1>7. CASE g.failed
  <2> HIDE DEF claimed, g, s
  <2> DEFINE h == Finish(FailState(claimed))
  <2>1. /\ pc' = [pc EXCEPT ![r] = "raised"]
        /\ group' = [group EXCEPT ![s] = h]
        /\ table' = TableAfter(s, h)
    BY <1>3, <1>7 DEF Claim, Leave, claimed, g, s
  <2>2. /\ h.next_slot = group[s].next_slot + 1
        /\ h.finished_runs = group[s].finished_runs + 1
    <3>1. /\ FailState(claimed) \in GroupState
          /\ FailState(claimed).next_slot = claimed.next_slot
          /\ FailState(claimed).finished_runs = claimed.finished_runs
      BY <1>3, FailStateLemma
    <3>2. QED
      BY <1>3, <3>1, FinishLemma
  <2> HIDE DEF h
  <2>3. /\ pc'[r] \in Ended
        /\ group'[s] = h /\ \A t \in Run \ {s} : group'[t] = group[t]
    BY <1>1, <2>1 DEF IndInv, TypeOK, Ended, Returned
  <2>4. table[KeyOf[r]] = s
    BY <1>1, <1>7 DEF g, s, Target, TargetGroup, NewGroup
  <2>5. Unregisters(s)
    BY <2>1, <2>3 DEF Unregisters, TableAfter
  <2>6. QED
    BY <1>1, <1>2, <1>4, <1>5, <2>2, <2>3, <2>4, <2>5 DEF Enters, SameCounts, s
<1>8. QED
  BY <1>6, <1>7

\* Every step of a run has one of the three forms.
LEMMA RunStepCounts ==
  ASSUME IndInv, TallyInv, NEW r \in Run, RunStep(r)
  PROVE  CountStep(r)
<1>0. TypeOK /\ CountInv /\ RegisteredInv
  BY DEF IndInv, TallyInv
<1>1. ASSUME pc[r] \in {"generating", "waiting"}
      PROVE  member[r] \in Run /\ pc[r] \notin Ended
  BY <1>0, <1>1 DEF IndInv, MembersInv, TypeOK, Ended, Returned
<1>2. pc[r] \in {"idle", "version"} => member[r] = NoState /\ pc[r] \notin Ended
  BY DEF IndInv, MembersInv, MemberOf, Ended, Returned
<1>3. \A how : pc' = [pc EXCEPT ![r] = how] => pc'[r] = how
  BY <1>0 DEF TypeOK
<1>4. ASSUME NEW g \in {group[member[r]], FailState(group[member[r]])},
             NEW how \in Ended,
             pc[r] \in {"generating", "waiting"},
             Leave(r, member[r], g, how),
             UNCHANGED member
      PROVE  CountStep(r)
  <2>1. Leaves(r, member[r])
    BY <1>0, <1>1, <1>4, LeaveCounts
  <2>2. pc' = [pc EXCEPT ![r] = pc'[r]]
    BY <1>3, <1>4 DEF Leave
  <2>3. QED
    BY <1>1, <1>4, <2>1, <2>2 DEF CountStep
<1>5. CASE VersionAnswered(r) \/ VersionFails(r)
  <2>1. /\ pc[r] \in {"idle", "version"}
        /\ UNCHANGED <<member, group, table>>
        /\ \E how : pc' = [pc EXCEPT ![r] = how]
    BY <1>5 DEF VersionAnswered, VersionFails
  <2>2. QED
    BY <1>2, <1>3, <2>1 DEF CountStep, MovesInPlace, SameCounts
<1>6. CASE Join(r)
  <2> DEFINE step == IF UseProxyVersion THEN observed[r] ELSE scheduleStep
  <2>1. /\ step \in Nat
        /\ pc[r] \in {"idle", "version"}
        /\ Refuse(r, step) \/ Claim(r, step)
    BY <1>0, <1>6 DEF Join, TypeOK
  <2> HIDE DEF step
  <2>2. CASE Refuse(r, step)
    <3> DEFINE s == table[KeyOf[r]]
    <3>1. s \in Run /\ group[s] \in GroupState
      BY <1>0, <2>2, ProxyGroupAssumption DEF Refuse, TypeOK, ProxyGroupAssumption
    <3>2. /\ group' = [group EXCEPT ![s] = FailState(group[s])]
          /\ pc' = [pc EXCEPT ![r] = "raised"]
          /\ UNCHANGED <<member, table>>
      BY <2>2 DEF Refuse
    <3>3. \A t \in Run : SameCounts(t)
      <4>1. group'[s] = FailState(group[s]) /\ \A t \in Run : t # s => group'[t] = group[t]
        BY <1>0, <3>1, <3>2 DEF TypeOK
      <4>2. /\ FailState(group[s]).next_slot = group[s].next_slot
            /\ FailState(group[s]).finished_runs = group[s].finished_runs
        BY <3>1, FailStateLemma
      <4>3. QED
        BY <4>1, <4>2 DEF SameCounts
    <3>4. QED
      BY <1>2, <1>3, <2>1, <3>2, <3>3 DEF CountStep, MovesInPlace
  <2>3. CASE Claim(r, step)
    <3>1. Enters(r, Target(r))
      BY <1>0, <2>1, <2>3, ClaimCounts
    <3>2. Target(r) \in Run
      BY <1>0, ProxyGroupAssumption DEF Target, TypeOK, ProxyGroupAssumption
    <3>3. pc' = [pc EXCEPT ![r] = pc'[r]]
      BY <1>3, <2>3 DEF Claim, Leave
    <3>4. QED
      BY <1>2, <2>1, <3>1, <3>2, <3>3 DEF CountStep
  <2>4. QED
    BY <2>1, <2>2, <2>3
<1>7. CASE Store(r)
  <2> DEFINE s == member[r]
             stored == [group[s] EXCEPT !.trajectories = @ \cup {slot[r]}]
  <2>1. pc[r] = "generating" /\ UNCHANGED member
    BY <1>7 DEF Store
  <2>2. CASE group[s].failed
    BY <1>4, <1>7, <2>1, <2>2 DEF Store, Ended
  <2>3. CASE ~group[s].failed
    <3>1. /\ pc' = [pc EXCEPT ![r] = "waiting"]
          /\ group' = [group EXCEPT ![s] = stored]
          /\ table' = table
      BY <1>7, <2>3 DEF Store
    <3>2. s \in Run /\ group[s] \in GroupState
      BY <1>0, <1>1, <2>1 DEF TypeOK
    <3>3. stored.next_slot = group[s].next_slot /\ stored.finished_runs = group[s].finished_runs
      BY <3>2 DEF GroupState
    <3> HIDE DEF stored
    <3>4. \A t \in Run : SameCounts(t)
      BY <1>0, <3>1, <3>2, <3>3 DEF SameCounts, TypeOK
    <3>5. pc'[r] \notin Ended
      BY <1>3, <3>1 DEF Ended, Returned
    <3>6. QED
      BY <1>1, <1>3, <2>1, <3>1, <3>4, <3>5 DEF CountStep, MovesInPlace
  <2>4. QED
    BY <2>2, <2>3
<1>8. CASE GenerationFails(r) \/ Timeout(r) \/ Cancel(r)
  BY <1>4, <1>8 DEF GenerationFails, Timeout, Cancel, Ended
<1>9. CASE Wake(r)
  BY <1>4, <1>9 DEF Wake, Ended, Returned
<1>10. QED
  BY <1>5, <1>6, <1>7, <1>8, <1>9 DEF RunStep

\* Counts are numbers, and a member under way is not counted as finished.
Counted ==
  \A s \in Run :
    /\ group[s].next_slot \in Nat /\ group[s].finished_runs \in Nat
    /\ group[s].next_slot <= GroupSize
    /\ IsFiniteSet(EndedMembers(s))
    /\ group[s].finished_runs <= group[s].next_slot
    /\ (\E q \in Members(s) : pc[q] \notin Ended) <=>
         group[s].finished_runs < group[s].next_slot

LEMMA CountLemma == IndInv /\ CountInv => Counted
<1> SUFFICES ASSUME IndInv, CountInv, NEW s \in Run
             PROVE  /\ group[s].next_slot \in Nat /\ group[s].finished_runs \in Nat
                    /\ group[s].next_slot <= GroupSize
                    /\ IsFiniteSet(EndedMembers(s))
                    /\ group[s].finished_runs <= group[s].next_slot
                    /\ (\E q \in Members(s) : pc[q] \notin Ended) <=>
                         group[s].finished_runs < group[s].next_slot
  BY DEF Counted
<1>1. /\ group[s].next_slot \in Nat /\ group[s].finished_runs \in Nat
      /\ group[s].next_slot <= GroupSize
  BY DEF IndInv, TypeOK, GroupState, GroupsInv
<1>2. EndedMembers(s) \in SUBSET Members(s) /\ IsFiniteSet(Members(s))
  BY DEF EndedMembers, CountInv
<1>3. /\ IsFiniteSet(EndedMembers(s))
      /\ Cardinality(EndedMembers(s)) <= Cardinality(Members(s))
      /\ Cardinality(Members(s)) = Cardinality(EndedMembers(s)) => Members(s) = EndedMembers(s)
  BY <1>2, FS_Subset
<1>4. (\E q \in Members(s) : pc[q] \notin Ended) <=> EndedMembers(s) # Members(s)
  BY DEF EndedMembers
<1>5. QED
  BY <1>1, <1>3, <1>4, ProxyGroupAssumption DEF CountInv, ProxyGroupAssumption

\* A step of a run keeps the counts right.
LEMMA CountStepKeepsCount ==
  ASSUME IndInv, CountInv, NEW r \in Run, CountStep(r)
  PROVE  CountInv'
<1> SUFFICES ASSUME NEW t \in Run
             PROVE  /\ IsFiniteSet(Members(t)')
                    /\ Cardinality(Members(t)') = group'[t].next_slot
                    /\ Cardinality(EndedMembers(t)') = group'[t].finished_runs
  BY DEF CountInv
<1>0. /\ IsFiniteSet(Members(t)) /\ IsFiniteSet(EndedMembers(t))
      /\ Cardinality(Members(t)) = group[t].next_slot
      /\ Cardinality(EndedMembers(t)) = group[t].finished_runs
  BY CountLemma DEF Counted, CountInv
<1>1. pc[r] \notin Ended /\ \A q \in Run : q # r => pc'[q] = pc[q]
  BY DEF CountStep, IndInv, TypeOK
<1>2. NoState \notin Run
  BY ProxyGroupAssumption DEF ProxyGroupAssumption
<1>3. CASE MovesInPlace(r)
  <2>1. Members(t)' = Members(t)
    BY <1>3 DEF MovesInPlace, Members
  <2>2. EndedMembers(t)' = EndedMembers(t)
    BY <1>1, <1>2, <1>3 DEF MovesInPlace, EndedMembers, Members
  <2>3. QED
    BY <1>0, <1>3, <2>1, <2>2 DEF MovesInPlace, SameCounts
<1>4. ASSUME NEW s \in Run, Leaves(r, s)
      PROVE  /\ IsFiniteSet(Members(t)')
             /\ Cardinality(Members(t)') = group'[t].next_slot
             /\ Cardinality(EndedMembers(t)') = group'[t].finished_runs
  <2>1. Members(t)' = Members(t)
    BY <1>4 DEF Leaves, Members
  <2>2. CASE t = s
    <3>1. EndedMembers(t)' = EndedMembers(t) \cup {r} /\ r \notin EndedMembers(t)
      BY <1>1, <1>4, <2>2 DEF Leaves, EndedMembers, Members
    <3>2. Cardinality(EndedMembers(t) \cup {r}) = Cardinality(EndedMembers(t)) + 1
      BY <1>0, <3>1, FS_AddElement
    <3>3. QED
      BY <1>0, <1>4, <2>1, <2>2, <3>1, <3>2 DEF Leaves
  <2>3. CASE t # s
    <3>1. EndedMembers(t)' = EndedMembers(t)
      BY <1>1, <1>4, <2>3 DEF Leaves, EndedMembers, Members
    <3>2. QED
      BY <1>0, <1>4, <2>1, <2>3, <3>1 DEF Leaves, SameCounts
  <2>4. QED
    BY <2>2, <2>3
<1>5. ASSUME NEW s \in Run, Enters(r, s)
      PROVE  /\ IsFiniteSet(Members(t)')
             /\ Cardinality(Members(t)') = group'[t].next_slot
             /\ Cardinality(EndedMembers(t)') = group'[t].finished_runs
  <2>0. /\ member[r] = NoState /\ member'[r] = s
        /\ \A q \in Run : q # r => member'[q] = member[q]
    BY <1>5 DEF Enters, IndInv, TypeOK
  <2>1. CASE t = s
    <3>1. Members(t)' = Members(t) \cup {r} /\ r \notin Members(t) /\ r \notin EndedMembers(t)
      BY <1>2, <2>0, <2>1 DEF EndedMembers, Members
    <3>2. /\ IsFiniteSet(Members(t) \cup {r})
          /\ Cardinality(Members(t) \cup {r}) = Cardinality(Members(t)) + 1
          /\ Cardinality(EndedMembers(t) \cup {r}) = Cardinality(EndedMembers(t)) + 1
      BY <1>0, <3>1, FS_AddElement
    <3>3. EndedMembers(t)' = IF pc'[r] \in Ended THEN EndedMembers(t) \cup {r} ELSE EndedMembers(t)
      BY <1>1, <2>0, <2>1, <3>1 DEF EndedMembers, Members
    <3>4. QED
      BY <1>0, <1>5, <2>1, <3>1, <3>2, <3>3 DEF Enters
  <2>2. CASE t # s
    <3>1. Members(t)' = Members(t)
      BY <1>2, <2>0, <2>2 DEF Members
    <3>2. EndedMembers(t)' = EndedMembers(t)
      BY <1>1, <1>2, <2>0, <2>2 DEF EndedMembers, Members
    <3>3. QED
      BY <1>0, <1>5, <2>2, <3>1, <3>2 DEF Enters, SameCounts
  <2>3. QED
    BY <2>1, <2>2
<1>6. QED
  BY <1>3, <1>4, <1>5 DEF CountStep

\* Unregistering a group with its last run keeps the table right.
LEMMA UnregisterKeepsRegistered ==
  ASSUME IndInv, IndInv', CountInv, RegisteredInv,
         NEW s \in Run, table[KeyOf[s]] = s, Unregisters(s),
         \A t \in Run \ {s} : SameCounts(t),
         group'[s].next_slot > 0
  PROVE  RegisteredInv'
<1>1. KeyOf \in [Run -> Key] /\ NoState \notin Run /\ GroupSize \in Nat
  BY ProxyGroupAssumption DEF ProxyGroupAssumption
<1>2. /\ group'[s].next_slot \in Nat /\ group'[s].finished_runs \in Nat
      /\ table \in [Key -> Run \cup {NoState}]
  BY DEF IndInv, TypeOK, GroupState
<1>3. \A t \in Run : group'[t].next_slot > 0 =>
       (table'[KeyOf[t]] = t <=>
          \/ group'[t].next_slot < GroupSize
          \/ group'[t].finished_runs < GroupSize)
  <2> SUFFICES ASSUME NEW t \in Run, group'[t].next_slot > 0
               PROVE  table'[KeyOf[t]] = t <=>
                        \/ group'[t].next_slot < GroupSize
                        \/ group'[t].finished_runs < GroupSize
    OBVIOUS
  <2>1. CASE t = s
    BY <1>1, <1>2, <2>1 DEF Unregisters
  <2>2. CASE t # s
    <3>1. table[KeyOf[t]] = t <=>
             \/ group'[t].next_slot < GroupSize
             \/ group'[t].finished_runs < GroupSize
      BY <2>2 DEF RegisteredInv, SameCounts
    <3>2. table'[KeyOf[t]] = t <=> table[KeyOf[t]] = t
      BY <1>1, <1>2, <2>2 DEF Unregisters
    <3>3. QED
      BY <3>1, <3>2
  <2>3. QED
    BY <2>1, <2>2
<1>4. ASSUME NEW k \in Key, table'[k] # NoState
      PROVE  group'[table'[k]].next_slot > 0
  <2>1. table'[k] = table[k] /\ table[k] \in Run
    BY <1>1, <1>2, <1>4 DEF Unregisters
  <2>2. QED
    BY <1>4, <2>1 DEF RegisteredInv, SameCounts
<1>5. QED
  BY <1>3, <1>4 DEF RegisteredInv

LEMMA CountStepKeepsRegistered ==
  ASSUME IndInv, IndInv', TallyInv, CountInv', NEW r \in Run, CountStep(r)
  PROVE  RegisteredInv'
<1>0. CountInv /\ RegisteredInv
  BY DEF TallyInv
<1>1. KeyOf \in [Run -> Key] /\ NoState \notin Run /\ GroupSize \in Nat
  BY ProxyGroupAssumption DEF ProxyGroupAssumption
<1>2. CASE MovesInPlace(r)
  <2>1. /\ \A t \in Run : SameCounts(t)
        /\ table' = table /\ table \in [Key -> Run \cup {NoState}]
    BY <1>2 DEF MovesInPlace, IndInv, TypeOK
  <2>2. \A k \in Key : table[k] # NoState => table[k] \in Run
    BY <2>1
  <2>3. QED
    BY <1>0, <2>1, <2>2 DEF SameCounts, RegisteredInv
<1>3. ASSUME NEW s \in Run, Leaves(r, s)
      PROVE  RegisteredInv'
  <2>1. r \in Members(s) /\ pc[r] \notin Ended
    BY <1>3 DEF CountStep, Leaves, Members
  <2>2. /\ group[s].next_slot \in Nat /\ group[s].finished_runs \in Nat
        /\ group[s].next_slot <= GroupSize
        /\ group[s].finished_runs < group[s].next_slot
    BY <1>0, <2>1, CountLemma DEF Counted
  <2>3. table[KeyOf[s]] = s
    BY <1>0, <1>1, <2>2 DEF RegisteredInv
  <2>4. QED
    BY <1>0, <1>3, <2>2, <2>3, UnregisterKeepsRegistered DEF Leaves
<1>4. ASSUME NEW s \in Run, Enters(r, s)
      PROVE  RegisteredInv'
  <2>1. group[s].next_slot \in Nat /\ group'[s].next_slot > 0
    <3>1. group[s].next_slot \in Nat
      BY <1>0, CountLemma DEF Counted
    <3>2. group'[s].next_slot = group[s].next_slot + 1
      BY <1>4 DEF Enters
    <3>3. QED
      BY <3>1, <3>2
  <2>2. CASE pc'[r] \in Ended
    <3>1. /\ table[KeyOf[s]] = s
          /\ Unregisters(s)
          /\ \A t \in Run \ {s} : SameCounts(t)
      BY <1>4, <2>2 DEF Enters
    <3>2. QED
      BY <1>0, <2>1, <3>1, UnregisterKeepsRegistered
  <2>3. CASE pc'[r] \notin Ended
    <3>1. /\ table' = [table EXCEPT ![KeyOf[r]] = s]
          /\ table[KeyOf[r]] \in {s, NoState}
          /\ KeyOf[s] = KeyOf[r]
          /\ \A t \in Run \ {s} : SameCounts(t)
      BY <1>4, <2>3 DEF Enters
    <3>2. r \in Members(s)'
      BY <1>4 DEF Enters, Members, IndInv, TypeOK
    <3>3. /\ group'[s].next_slot \in Nat /\ group'[s].finished_runs \in Nat
          /\ group'[s].next_slot <= GroupSize
          /\ group'[s].finished_runs < group'[s].next_slot
      <4>1. Counted'
        BY CountLemma, PTL
      <4>2. QED
        BY <2>3, <3>2, <4>1 DEF Counted
    <3>4. table \in [Key -> Run \cup {NoState}]
      BY DEF IndInv, TypeOK
    <3>5. \A t \in Run : group'[t].next_slot > 0 =>
            (table'[KeyOf[t]] = t <=>
               \/ group'[t].next_slot < GroupSize
               \/ group'[t].finished_runs < GroupSize)
      <4> SUFFICES ASSUME NEW t \in Run, group'[t].next_slot > 0
                   PROVE  table'[KeyOf[t]] = t <=>
                            \/ group'[t].next_slot < GroupSize
                            \/ group'[t].finished_runs < GroupSize
        OBVIOUS
      <4>1. CASE t = s
        BY <1>1, <3>1, <3>3, <3>4, <4>1
      <4>2. CASE t # s
        <5>1. table[KeyOf[t]] = t <=>
                 \/ group'[t].next_slot < GroupSize
                 \/ group'[t].finished_runs < GroupSize
          BY <1>0, <3>1, <4>2 DEF RegisteredInv, SameCounts
        <5>2. table'[KeyOf[t]] = t <=> table[KeyOf[t]] = t
          BY <1>1, <3>1, <3>4, <4>2
        <5>3. QED
          BY <5>1, <5>2
      <4>3. QED
        BY <4>1, <4>2
    <3>6. ASSUME NEW k \in Key, table'[k] # NoState
          PROVE  group'[table'[k]].next_slot > 0
      <4>1. CASE k = KeyOf[r]
        BY <1>1, <2>1, <3>1, <3>4, <4>1
      <4>2. CASE k # KeyOf[r]
        BY <1>0, <1>1, <2>1, <3>1, <3>4, <3>6, <4>2 DEF RegisteredInv, SameCounts
      <4>3. QED
        BY <4>1, <4>2
    <3>7. QED
      BY <3>5, <3>6 DEF RegisteredInv
  <2>4. QED
    BY <2>2, <2>3
<1>5. QED
  BY <1>2, <1>3, <1>4 DEF CountStep

\* Whatever happens outside run() touches no count.
LEMMA RestKeepsTally ==
  ASSUME TypeOK, TallyInv, \A t \in Run : SameCounts(t), UNCHANGED <<pc, member, table>>
  PROVE  TallyInv'
<1>1. CountInv'
  BY DEF TallyInv, CountInv, SameCounts, Members, EndedMembers
<1>2. RegisteredInv'
  <2>1. \A k \in Key : table[k] # NoState => table[k] \in Run
    BY DEF TypeOK
  <2>2. QED
    BY <2>1 DEF TallyInv, RegisteredInv, SameCounts
<1>3. QED
  BY <1>1, <1>2 DEF TallyInv

\* The score task settles futures and counts nothing.
LEMMA ScoreSameCounts ==
  ASSUME TypeOK, NEW s \in Run, Score(s)
  PROVE  (\A t \in Run : SameCounts(t)) /\ UNCHANGED <<pc, member, table>>
<1>1. UNCHANGED <<pc, member, table>>
  BY DEF Score, ScoreStarts, ScoreInformative, ScoreRejects, ScoreAccepts, ScoreFails, runVars
<1>2. group[s] \in GroupState
  BY DEF TypeOK
<1>3. \/ group' = group
      \/ group' = [group EXCEPT ![s] = Settle(group[s], "zeros")]
      \/ group' = [group EXCEPT ![s] = Settle(group[s], "result")]
      \/ group' = [group EXCEPT ![s] = FailState(group[s])]
  BY DEF Score, ScoreStarts, ScoreInformative, ScoreRejects, ScoreAccepts, ScoreFails
<1>4. ASSUME NEW g, group' = [group EXCEPT ![s] = g],
             g.next_slot = group[s].next_slot,
             g.finished_runs = group[s].finished_runs
      PROVE  \A t \in Run : SameCounts(t)
  BY <1>4 DEF TypeOK, SameCounts
<1>5. \A outcome \in Scored :
        /\ Settle(group[s], outcome).next_slot = group[s].next_slot
        /\ Settle(group[s], outcome).finished_runs = group[s].finished_runs
  BY <1>2, SettleLemma
<1>6. /\ FailState(group[s]).next_slot = group[s].next_slot
      /\ FailState(group[s]).finished_runs = group[s].finished_runs
  BY <1>2, FailStateLemma
<1>7. {"zeros", "result"} \subseteq Scored
  BY DEF Scored
<1>8. QED
  BY <1>1, <1>3, <1>4, <1>5, <1>6, <1>7 DEF SameCounts

LEMMA RunStepKeepsTally ==
  ASSUME IndInv, TallyInv, NEW r \in Run, RunStep(r)
  PROVE  TallyInv'
<1>1. CountStep(r)
  BY RunStepCounts
<1>2. IndInv'
  BY NextKeepsIndInv DEF Next
<1>3. CountInv'
  BY <1>1, CountStepKeepsCount DEF TallyInv
<1>4. RegisteredInv'
  BY <1>1, <1>2, <1>3, CountStepKeepsRegistered
<1>5. QED
  BY <1>3, <1>4 DEF TallyInv

LEMMA NextKeepsTally == IndInv /\ TallyInv /\ [Next]_vars => TallyInv'
<1> SUFFICES ASSUME IndInv, TallyInv, [Next]_vars PROVE TallyInv'
  OBVIOUS
<1>1. CASE \E r \in Run : RunStep(r)
  BY <1>1, RunStepKeepsTally
<1>2. CASE \E s \in Run : Score(s)
  BY <1>2, ScoreSameCounts, RestKeepsTally DEF IndInv
<1>3. CASE (\E k \in Key : ConsumeDecision(k)) \/ PublishVersion \/ UNCHANGED vars
  <2>1. (\A t \in Run : SameCounts(t)) /\ UNCHANGED <<pc, member, table>>
    BY <1>3 DEF ConsumeDecision, PublishVersion, vars, runVars, SameCounts
  <2>2. QED
    BY <2>1, RestKeepsTally DEF IndInv
<1>4. QED
  BY <1>1, <1>2, <1>3 DEF Next, Quiescent

LEMMA InitTally == Init => TallyInv
<1> SUFFICES ASSUME Init PROVE TallyInv
  OBVIOUS
<1>1. NoState \notin Run
  BY ProxyGroupAssumption DEF ProxyGroupAssumption
<1>2. \A s \in Run : /\ Members(s) = {} /\ EndedMembers(s) = {}
                     /\ group[s].next_slot = 0 /\ group[s].finished_runs = 0
  BY <1>1 DEF Init, Members, EndedMembers, NewGroup
<1>3. CountInv
  BY <1>2, FS_EmptySet DEF CountInv
<1>4. RegisteredInv
  BY <1>2 DEF Init, RegisteredInv
<1>5. QED
  BY <1>3, <1>4 DEF TallyInv

\* The counts and the table are right throughout.
THEOREM SpecTally == Spec => []TallyInv
<1>1. QED
  BY InitIndInv, InitTally, NextKeepsIndInv, NextKeepsTally, PTL DEF Spec

\* _states holds a group from its first run to the end of its last one: the
\* counts say when the last run of a full group ends, and no other group can
\* stand under the key before that.
THEOREM GroupsStayRegistered == Spec => []RegisteredWhileLive
<1>1. IndInv /\ TallyInv => RegisteredWhileLive
  <2> SUFFICES ASSUME IndInv, TallyInv, NEW s \in Run, group[s].next_slot > 0
               PROVE  table[KeyOf[s]] = s <=>
                        \/ group[s].next_slot < GroupSize
                        \/ \E r \in Members(s) : pc[r] \notin Ended
    BY DEF RegisteredWhileLive
  <2>1. /\ group[s].next_slot \in Nat /\ group[s].finished_runs \in Nat
        /\ group[s].next_slot <= GroupSize
        /\ group[s].finished_runs <= group[s].next_slot
        /\ (\E q \in Members(s) : pc[q] \notin Ended) <=>
             group[s].finished_runs < group[s].next_slot
    BY CountLemma DEF TallyInv, Counted
  <2>2. table[KeyOf[s]] = s <=>
          group[s].next_slot < GroupSize \/ group[s].finished_runs < GroupSize
    BY DEF TallyInv, RegisteredInv
  <2>3. GroupSize \in Nat
    BY ProxyGroupAssumption DEF ProxyGroupAssumption
  <2>4. QED
    BY <2>1, <2>2, <2>3
<1>2. QED
  BY <1>1, SpecIndInv, SpecTally, PTL

(***************************************************************************)
(* The decision on a group and the values of its runs come from the same   *)
(* step of its score task.                                                 *)
(***************************************************************************)

\* Until it is consumed, the decision of a key is the one every settled
\* group of the key was settled with.
PublishedInv ==
  Dynamic => \A k \in Key : answer[k] = "none" =>
    \A s \in RunsOf(k) :
      /\ group[s].future = "result" => decisions[k] = "accept"
      /\ group[s].future = "zeros"  => decisions[k] = "reject"

DecisionInv == PublishedInv /\ DecisionMatchesRuns

\* A score task settles futures with an error or not at all ...
Publishes(t, value) ==
  /\ score[t] # "done" /\ score' = [score EXCEPT ![t] = "done"]
  /\ decisions[KeyOf[t]] = "none"
  /\ decisions' = [decisions EXCEPT ![KeyOf[t]] = IF value = "result" THEN "accept" ELSE "reject"]
  /\ \A s \in Run \ {t} : group'[s].future = group[s].future
  /\ group'[t].future = IF group[t].future = "pending" THEN value ELSE group[t].future

\* ... or publishes a decision that nobody published before.
LEMMA ScorePublishes ==
  ASSUME TypeOK, Dynamic, NEW t \in Run, Score(t)
  PROVE  \/ decisions' = decisions /\ \A s \in Run : FutureStep(s)
         \/ \E value \in Scored : Publishes(t, value)
<1>0. group[t] \in GroupState
  BY DEF TypeOK
<1>1. \A h : group' = [group EXCEPT ![t] = h] =>
        group'[t] = h /\ \A s \in Run \ {t} : group'[s] = group[s]
  BY DEF TypeOK
<1>2. CASE ScoreStarts(t) \/ ScoreInformative(t)
  BY <1>2 DEF ScoreStarts, ScoreInformative, FutureStep
<1>3. CASE ScoreFails(t)
  <2>1. group' = [group EXCEPT ![t] = FailState(group[t])] /\ decisions' = decisions
    BY <1>3 DEF ScoreFails
  <2>2. FailState(group[t]).future = IF group[t].future = "pending" THEN "error" ELSE group[t].future
    BY <1>0, FailStateLemma
  <2>3. QED
    BY <1>1, <2>1, <2>2 DEF FutureStep
<1>4. ASSUME NEW value \in Scored,
             group' = [group EXCEPT ![t] = Settle(group[t], value)],
             score[t] # "done",
             score' = [score EXCEPT ![t] = "done"],
             decisions[KeyOf[t]] = "none",
             decisions' = [decisions EXCEPT ![KeyOf[t]] = IF value = "result" THEN "accept" ELSE "reject"]
      PROVE  Publishes(t, value)
  <2>1. Settle(group[t], value).future = IF group[t].future = "pending" THEN value ELSE group[t].future
    BY <1>0, SettleLemma
  <2>2. QED
    BY <1>1, <1>4, <2>1 DEF Publishes
<1>5. CASE ScoreRejects(t)
  BY <1>4, <1>5 DEF ScoreRejects, ScoreEnds, Scored
<1>6. CASE ScoreAccepts(t)
  BY <1>4, <1>6 DEF ScoreAccepts, ScoreEnds, Scored
<1>7. QED
  BY <1>2, <1>3, <1>5, <1>6 DEF Score

LEMMA NextKeepsPublished == IndInv /\ PublishedInv /\ [Next]_vars => PublishedInv'
<1> SUFFICES ASSUME IndInv, PublishedInv, [Next]_vars, Dynamic,
                    NEW k \in Key, answer'[k] = "none",
                    NEW s \in RunsOf(k)
             PROVE  /\ group'[s].future = "result" => decisions'[k] = "accept"
                    /\ group'[s].future = "zeros"  => decisions'[k] = "reject"
  BY DEF PublishedInv, RunsOf
<1>1. s \in Run /\ KeyOf[s] = k
  BY DEF RunsOf
<1>2. answer[k] = "none" =>
        /\ group[s].future = "result" => decisions[k] = "accept"
        /\ group[s].future = "zeros"  => decisions[k] = "reject"
  BY DEF PublishedInv
<1>3. CASE FutureStep(s) /\ decisions' = decisions /\ answer' = answer
  BY <1>2, <1>3 DEF FutureStep
<1>4. ASSUME NEW r \in Run, RunStep(r)
      PROVE  FutureStep(s) /\ decisions' = decisions /\ answer' = answer
  <2>1. FutureStep(s)
    BY <1>1, <1>4, RunStepFuture
  <2>2. decisions' = decisions /\ answer' = answer
    BY <1>4 DEF RunStep, VersionAnswered, VersionFails, Join, Store, GenerationFails,
                Wake, Timeout, Cancel
  <2>3. QED
    BY <2>1, <2>2
<1>5. ASSUME NEW t \in Run, Score(t)
      PROVE  /\ group'[s].future = "result" => decisions'[k] = "accept"
             /\ group'[s].future = "zeros"  => decisions'[k] = "reject"
  <2>1. answer' = answer
    BY <1>5 DEF Score, ScoreStarts, ScoreInformative, ScoreRejects, ScoreAccepts, ScoreFails
  <2>2. \/ decisions' = decisions /\ \A q \in Run : FutureStep(q)
        \/ \E value \in Scored : Publishes(t, value)
    BY <1>5, ScorePublishes DEF IndInv
  <2>3. ASSUME NEW value \in Scored, Publishes(t, value)
        PROVE  /\ group'[s].future = "result" => decisions'[k] = "accept"
               /\ group'[s].future = "zeros"  => decisions'[k] = "reject"
    <3>1. decisions \in [Key -> {"none", "accept", "reject"}]
      BY DEF IndInv, TypeOK
    <3>2. CASE KeyOf[t] = k
      BY <1>1, <1>2, <2>1, <2>3, <3>1, <3>2 DEF Publishes, Scored
    <3>3. CASE KeyOf[t] # k
      BY <1>1, <1>2, <2>1, <2>3, <3>1, <3>3 DEF Publishes
    <3>4. QED
      BY <3>2, <3>3
  <2>4. QED
    BY <1>1, <1>3, <2>1, <2>2, <2>3
<1>6. ASSUME NEW j \in Key, ConsumeDecision(j)
      PROVE  FutureStep(s) /\ answer[k] = "none" /\ decisions'[k] = decisions[k]
  <2>1. /\ group' = group
        /\ answer' = [answer EXCEPT ![j] = answer'[j]] /\ answer'[j] # "none"
        /\ decisions' = [decisions EXCEPT ![j] = decisions'[j]]
    BY <1>6 DEF ConsumeDecision, IndInv, TypeOK
  <2>2. QED
    BY <2>1 DEF FutureStep, IndInv, TypeOK
<1>7. CASE PublishVersion \/ UNCHANGED vars
  BY <1>3, <1>7 DEF PublishVersion, vars, FutureStep
<1>8. QED
  BY <1>2, <1>3, <1>4, <1>5, <1>6, <1>7 DEF Next, Quiescent, FutureStep

\* The decision a caller gets says what all runs of the key returned: their
\* values are settled together with the publication of the decision, and no
\* second group of the key publishes before it is consumed.
LEMMA NextKeepsDecision ==
  IndInv /\ TallyInv /\ DecisionInv /\ [Next]_vars => DecisionMatchesRuns'
<1> SUFFICES ASSUME IndInv, TallyInv, PublishedInv, DecisionMatchesRuns, [Next]_vars,
                    NEW k \in Key
             PROVE  /\ answer'[k] # "missing"
                    /\ answer'[k] = "accept" => \A r \in RunsOf(k) : pc'[r] = "rewarded"
                    /\ answer'[k] = "reject" => \A r \in RunsOf(k) : pc'[r] = "rejected"
  BY DEF DecisionInv, DecisionMatchesRuns, RunsOf
<1>1. /\ answer[k] # "missing"
      /\ answer[k] = "accept" => \A r \in RunsOf(k) : pc[r] = "rewarded"
      /\ answer[k] = "reject" => \A r \in RunsOf(k) : pc[r] = "rejected"
  BY DEF DecisionMatchesRuns
<1>2. ASSUME NEW r \in Run, RunStep(r)
      PROVE  answer' = answer /\ \A q \in Run : pc[q] \in Ended => pc'[q] = pc[q]
  <2>1. answer' = answer
    BY <1>2 DEF RunStep, VersionAnswered, VersionFails, Join, Store, GenerationFails,
                Wake, Timeout, Cancel
  <2>2. CountStep(r)
    BY <1>2, RunStepCounts
  <2>3. QED
    BY <2>1, <2>2 DEF CountStep, IndInv, TypeOK
<1>3. ASSUME answer'[k] = answer[k], \A q \in Run : pc[q] \in Ended => pc'[q] = pc[q]
      PROVE  /\ answer'[k] # "missing"
             /\ answer'[k] = "accept" => \A r \in RunsOf(k) : pc'[r] = "rewarded"
             /\ answer'[k] = "reject" => \A r \in RunsOf(k) : pc'[r] = "rejected"
  BY <1>1, <1>3 DEF RunsOf, Ended, Returned
<1>4. ASSUME NEW t \in Run, Score(t)
      PROVE  answer' = answer /\ pc' = pc
  BY <1>4 DEF Score, ScoreStarts, ScoreInformative, ScoreRejects, ScoreAccepts, ScoreFails, runVars
<1>5. ASSUME NEW j \in Key, ConsumeDecision(j), j # k
      PROVE  answer'[k] = answer[k] /\ pc' = pc
  BY <1>5 DEF ConsumeDecision, IndInv, TypeOK, runVars
<1>6. ASSUME ConsumeDecision(k)
      PROVE  /\ answer'[k] # "missing"
             /\ answer'[k] = "accept" => \A r \in RunsOf(k) : pc'[r] = "rewarded"
             /\ answer'[k] = "reject" => \A r \in RunsOf(k) : pc'[r] = "rejected"
  <2>1. /\ Dynamic /\ answer[k] = "none" /\ RunsOf(k) # {} /\ pc' = pc
        /\ \A r \in RunsOf(k) : pc[r] \in Returned
        /\ decisions[k] # "none" => answer'[k] = decisions[k]
    BY <1>6 DEF ConsumeDecision, IndInv, TypeOK, runVars
  <2>2. ASSUME NEW r \in RunsOf(k)
        PROVE  /\ pc[r] = "rewarded" => decisions[k] = "accept"
               /\ pc[r] = "rejected" => decisions[k] = "reject"
    <3>1. r \in Run /\ KeyOf[r] = k /\ pc[r] \in Returned
      BY <2>1 DEF RunsOf
    <3>2. member[r] # NoState
      BY <3>1 DEF IndInv, MembersInv
    <3>3. member[r] \in Run /\ MemberOf(r, member[r])
      BY <3>1, <3>2 DEF IndInv, MembersInv, TypeOK
    <3>4. member[r] \in RunsOf(k)
      BY <3>1, <3>3 DEF MemberOf, RunsOf
    <3>5. QED
      BY <2>1, <3>3, <3>4 DEF MemberOf, PublishedInv
  <2>3. QED
    BY <2>1, <2>2 DEF Returned
<1>7. CASE PublishVersion \/ UNCHANGED vars
  BY <1>3, <1>7 DEF PublishVersion, vars, runVars
<1>8. QED
  BY <1>2, <1>3, <1>4, <1>5, <1>6, <1>7 DEF Next, Quiescent

\* What consume_group_sampling_decision answers is what the runs returned.
THEOREM DecisionsMatchRuns == Spec => []DecisionMatchesRuns
<1>1. Init => DecisionInv
  BY DEF Init, DecisionInv, PublishedInv, DecisionMatchesRuns, NewGroup, RunsOf
<1>2. IndInv /\ TallyInv /\ DecisionInv /\ [Next]_vars => DecisionInv'
  BY NextKeepsPublished, NextKeepsDecision DEF DecisionInv
<1>3. Spec => []DecisionInv
  BY <1>1, <1>2, SpecIndInv, SpecTally, PTL DEF Spec
<1>4. DecisionInv => DecisionMatchesRuns
  BY DEF DecisionInv
<1>5. QED
  BY <1>3, <1>4, PTL

(***************************************************************************)
(* The refinement: ProxyGroup implements GroupBarrier, for any constants.  *)
(***************************************************************************)


\* The step and the mapping, with the definitions of the barrier opened.
LEMMA SeatUnchanged ==
  ASSUME UNCHANGED <<member, slot>>
  PROVE  SeatOf' = SeatOf
BY DEF SeatOf

LEMMA OutcomeUnchanged ==
  ASSUME UNCHANGED pc
  PROVE  OutcomeOf' = OutcomeOf
BY DEF OutcomeOf

LEMMA GroupsUnchanged ==
  ASSUME UNCHANGED group
  PROVE  ArrivedOf' = ArrivedOf /\ VerdictOf' = VerdictOf
BY DEF ArrivedOf, VerdictOf

\* A run that left run() is active no more.
LEMMA OutcomeOfLeaving ==
  ASSUME TypeOK, NEW r \in Run, NEW how \in Ended, pc[r] \notin Ended,
         pc' = [pc EXCEPT ![r] = how]
  PROVE  /\ OutcomeOf[r] = "active"
         /\ OutcomeOf' = [OutcomeOf EXCEPT ![r] =
                            IF how \in Returned THEN how ELSE "failed"]
<1>1. OutcomeOf[r] = "active"
  BY DEF OutcomeOf, Outcome, Ended, Returned
<1>2. \A q \in Run : pc'[q] = IF q = r THEN how ELSE pc[q]
  BY DEF TypeOK
<1>3. \A q \in Run : OutcomeOf'[q] = IF q = r THEN (IF how \in Returned THEN how ELSE "failed")
                                             ELSE OutcomeOf[q]
  BY <1>2 DEF OutcomeOf, Outcome, Ended, Returned
<1>4. QED
  BY <1>1, <1>3 DEF OutcomeOf

\* Runs that are not leaving do not show at the barrier.
LEMMA OutcomeOfStaying ==
  ASSUME TypeOK, NEW r \in Run, NEW to \in PC \ Ended, pc[r] \notin Ended,
         pc' = [pc EXCEPT ![r] = to]
  PROVE  OutcomeOf[r] = "active" /\ OutcomeOf' = OutcomeOf
<1>1. \A q \in Run : pc'[q] = IF q = r THEN to ELSE pc[q]
  BY DEF TypeOK
<1>2. OutcomeOf[r] = "active" /\ \A q \in Run : OutcomeOf'[q] = OutcomeOf[q]
  BY <1>1 DEF OutcomeOf, Outcome, Returned, Ended
<1>3. QED
  BY <1>2 DEF OutcomeOf

\* The verdict that a future stands for.
LEMMA VerdictOfFuture ==
  ASSUME TypeOK, NEW s \in Run
  PROVE  /\ group[s].future = "pending" <=> VerdictOf[s] = "open"
         /\ group[s].future = "result"  <=> VerdictOf[s] = "rewarded"
         /\ group[s].future = "zeros"   <=> VerdictOf[s] = "rejected"
         /\ group[s].future = "error"   <=> VerdictOf[s] = "broken"
<1>1. group[s].future \in {"pending", "result", "zeros", "error"}
  BY DEF TypeOK, GroupState, Scored
<1>2. QED
  BY <1>1 DEF VerdictOf, Verdict

\* A new condition of one group state, seen at the barrier.
LEMMA VerdictOfChange ==
  ASSUME TypeOK, NEW s \in Run, NEW h \in GroupState,
         group' = [group EXCEPT ![s] = h]
  PROVE  /\ h.trajectories = group[s].trajectories => ArrivedOf' = ArrivedOf
         /\ h.future = group[s].future => VerdictOf' = VerdictOf
         /\ group[s].future = "pending" /\ h.future = "error" =>
              VerdictOf' = [VerdictOf EXCEPT ![s] = "broken"]
         /\ group[s].future = "pending" /\ h.future = "result" =>
              VerdictOf' = [VerdictOf EXCEPT ![s] = "rewarded"]
         /\ group[s].future = "pending" /\ h.future = "zeros" =>
              VerdictOf' = [VerdictOf EXCEPT ![s] = "rejected"]
<1>1. \A t \in Run : group'[t] = IF t = s THEN h ELSE group[t]
  BY DEF TypeOK
<1>2. h.trajectories = group[s].trajectories => ArrivedOf' = ArrivedOf
  BY <1>1 DEF ArrivedOf
<1>3. \A t \in Run : t # s => VerdictOf'[t] = VerdictOf[t]
  BY <1>1 DEF VerdictOf
<1>4. VerdictOf'[s] = Verdict(h.future) /\ VerdictOf[s] = Verdict(group[s].future)
  BY <1>1 DEF VerdictOf
<1>5. \A v : VerdictOf'[s] = v => VerdictOf' = [VerdictOf EXCEPT ![s] = v]
  BY <1>3 DEF VerdictOf
<1>6. h.future = group[s].future => VerdictOf' = VerdictOf
  BY <1>3, <1>4 DEF VerdictOf
<1>7. QED
  BY <1>2, <1>4, <1>5, <1>6 DEF Verdict

\* Failing a group state breaks the group, if it is still open.
LEMMA VerdictOfFailure ==
  ASSUME TypeOK, NEW s \in Run, NEW h \in GroupState,
         h.future = IF group[s].future = "pending" THEN "error" ELSE group[s].future,
         group' = [group EXCEPT ![s] = h]
  PROVE  VerdictOf' = Barrier!Broken(s)
<1>1. CASE group[s].future = "pending"
  BY <1>1, VerdictOfChange, VerdictOfFuture DEF Barrier!Broken
<1>2. CASE group[s].future # "pending"
  BY <1>2, VerdictOfChange, VerdictOfFuture DEF Barrier!Broken
<1>3. QED
  BY <1>1, <1>2

LEMMA InitImplements == Init => Barrier!Init
<1> SUFFICES ASSUME Init PROVE Barrier!Init
  OBVIOUS
<1>1. SeatOf = [r \in Run |-> NoState]
  BY DEF Init, SeatOf
<1>2. ArrivedOf = [s \in Run |-> {}] /\ VerdictOf = [s \in Run |-> "open"]
  BY DEF Init, ArrivedOf, VerdictOf, Verdict, NewGroup
<1>3. OutcomeOf = [r \in Run |-> "active"]
  BY DEF Init, OutcomeOf, Outcome, Ended, Returned
<1>4. QED
  BY <1>1, <1>2, <1>3 DEF Barrier!Init

\* A seated run that fails its group and leaves is a Fail of the barrier.
LEMMA FailingImplements ==
  ASSUME IndInv, NEW r \in Run, member[r] # NoState,
         pc[r] \in {"generating", "waiting"},
         NEW how \in Ended \ Returned,
         Leave(r, member[r], FailState(group[member[r]]), how),
         UNCHANGED <<member, slot>>
  PROVE  Barrier!Next
<1> DEFINE s == member[r]
<1>1. /\ s \in Run /\ group[s] \in GroupState /\ MemberOf(r, s)
      /\ slot[r] \in Slots
  <2>1. s \in Run /\ group[s] \in GroupState /\ MemberOf(r, s) /\ slot[r] \in Nat
    BY DEF IndInv, TypeOK, MembersInv
  <2>2. QED
    BY <2>1, ProxyGroupAssumption
       DEF MemberOf, IndInv, GroupsInv, GroupState, Slots, ProxyGroupAssumption
<1>2. SeatOf[r] = <<s, slot[r]>> /\ SeatOf' = SeatOf
  BY SeatUnchanged DEF SeatOf
<1>3. OutcomeOf[r] = "active" /\ OutcomeOf' = [OutcomeOf EXCEPT ![r] = "failed"]
  BY OutcomeOfLeaving DEF Leave, IndInv, Ended, Returned
<1>4. ArrivedOf' = ArrivedOf /\ VerdictOf' = Barrier!Broken(s)
  <2>1. /\ FailState(group[s]) \in GroupState
        /\ FailState(group[s]).trajectories = group[s].trajectories
        /\ FailState(group[s]).future =
             IF group[s].future = "pending" THEN "error" ELSE group[s].future
    BY <1>1, FailStateLemma
  <2>2. PICK h \in GroupState :
          /\ group' = [group EXCEPT ![s] = h]
          /\ h.trajectories = group[s].trajectories
          /\ h.future = IF group[s].future = "pending" THEN "error" ELSE group[s].future
    <3>1. /\ Finish(FailState(group[s])) \in GroupState
          /\ Finish(FailState(group[s])).trajectories = FailState(group[s]).trajectories
          /\ Finish(FailState(group[s])).future = FailState(group[s]).future
      BY <2>1, FinishLemma
    <3>2. group' = [group EXCEPT ![s] = Finish(FailState(group[s]))]
      BY DEF Leave
    <3>3. QED
      BY <2>1, <3>1, <3>2
  <2>3. QED
    BY <1>1, <2>2, VerdictOfChange, VerdictOfFailure DEF IndInv
\* A decided group has the trajectories of all its seats.
<1>5. VerdictOf[s] \in {"rewarded", "rejected"} => slot[r] \in ArrivedOf[s]
  BY <1>1, VerdictOfFuture DEF ArrivedOf, IndInv, GroupsInv, Scored
<1>6. Barrier!Fail(r, s, slot[r])
  BY <1>2, <1>3, <1>4, <1>5 DEF Barrier!Fail
<1>7. QED
  BY <1>1, <1>6 DEF Barrier!Next

\* The value of a decided group reaches a waiting run: Collect.
LEMMA CollectImplements ==
  ASSUME IndInv, NEW r \in Run, member[r] # NoState, pc[r] = "waiting",
         NEW how \in Returned,
         group[member[r]].future = IF how = "rewarded" THEN "result" ELSE "zeros",
         Leave(r, member[r], group[member[r]], how),
         UNCHANGED <<member, slot>>
  PROVE  Barrier!Next
<1> DEFINE s == member[r]
<1>1. /\ s \in Run /\ group[s] \in GroupState
      /\ slot[r] \in group[s].trajectories /\ slot[r] \in Slots
  BY DEF IndInv, TypeOK, MembersInv, MemberOf, GroupState
<1>2. SeatOf[r] = <<s, slot[r]>> /\ SeatOf' = SeatOf
  BY SeatUnchanged DEF SeatOf
<1>3. OutcomeOf[r] = "active" /\ OutcomeOf' = [OutcomeOf EXCEPT ![r] = how]
  BY OutcomeOfLeaving DEF Leave, IndInv, Ended, Returned
<1>4. ArrivedOf' = ArrivedOf /\ VerdictOf' = VerdictOf
  <2>1. /\ Finish(group[s]) \in GroupState
        /\ Finish(group[s]).trajectories = group[s].trajectories
        /\ Finish(group[s]).future = group[s].future
    BY <1>1, FinishLemma
  <2>2. group' = [group EXCEPT ![s] = Finish(group[s])]
    BY DEF Leave
  <2>3. QED
    BY <1>1, <2>1, <2>2, VerdictOfChange DEF IndInv
<1>5. VerdictOf[s] = how /\ slot[r] \in ArrivedOf[s]
  BY <1>1, VerdictOfFuture DEF IndInv, ArrivedOf, Returned
<1>6. Barrier!Collect(r, s, slot[r])
  BY <1>2, <1>3, <1>4, <1>5 DEF Barrier!Collect, Returned
<1>7. QED
  BY <1>1, <1>6 DEF Barrier!Next

\* A run that ends before it has a slot: FailUnseated.
LEMMA UnseatedImplements ==
  ASSUME IndInv, NEW r \in Run, member[r] = NoState, pc[r] \in {"idle", "version"},
         NEW how \in Ended \ Returned,
         pc' = [pc EXCEPT ![r] = how],
         UNCHANGED <<member, slot>>,
         \/ UNCHANGED group
         \/ \E s \in Run : group' = [group EXCEPT ![s] = FailState(group[s])]
  PROVE  Barrier!Next
<1>1. SeatOf[r] = NoState /\ SeatOf' = SeatOf
  BY SeatUnchanged DEF SeatOf
<1>2. OutcomeOf[r] = "active" /\ OutcomeOf' = [OutcomeOf EXCEPT ![r] = "failed"]
  BY OutcomeOfLeaving DEF IndInv, Ended, Returned
<1>3. /\ ArrivedOf' = ArrivedOf
      /\ VerdictOf' = VerdictOf \/ \E s \in Run : VerdictOf' = Barrier!Broken(s)
  <2>1. CASE UNCHANGED group
    BY <2>1, GroupsUnchanged
  <2>2. ASSUME NEW s \in Run, group' = [group EXCEPT ![s] = FailState(group[s])]
        PROVE  ArrivedOf' = ArrivedOf /\ VerdictOf' = Barrier!Broken(s)
    <3>1. group[s] \in GroupState
      BY DEF IndInv, TypeOK
    <3>2. /\ FailState(group[s]) \in GroupState
          /\ FailState(group[s]).trajectories = group[s].trajectories
          /\ FailState(group[s]).future =
               IF group[s].future = "pending" THEN "error" ELSE group[s].future
      BY <3>1, FailStateLemma
    <3>3. QED
      BY <2>2, <3>2, VerdictOfChange, VerdictOfFailure DEF IndInv
  <2>3. QED
    BY <2>1, <2>2
<1>4. Barrier!FailUnseated(r)
  BY <1>1, <1>2, <1>3 DEF Barrier!FailUnseated
<1>5. QED
  BY <1>4 DEF Barrier!Next

\* A slot is one run's seat: Sit, or SitBroken in a failed group.
LEMMA ClaimImplements ==
  ASSUME IndInv, IndInv', NEW r \in Run, NEW step \in Nat,
         member[r] = NoState, pc[r] \in {"idle", "version"},
         Claim(r, step)
  PROVE  Barrier!Next
<1> DEFINE s == Target(r)
           g == TargetGroup(r, step)
           claimed == [g EXCEPT !.next_slot = @ + 1]
<1>1. /\ s \in Run /\ g \in GroupState /\ KeyOf[r] \in Key
      /\ s # NoState
  <2>1. KeyOf[r] \in Key
    BY ProxyGroupAssumption DEF ProxyGroupAssumption
  <2>2. NewGroup(step) \in GroupState
    BY NewGroupLemma
  <2>3. QED
    BY <2>1, <2>2, ProxyGroupAssumption
       DEF Target, TargetGroup, IndInv, TypeOK, ProxyGroupAssumption
\* Seen at the barrier, a new group is what it was before it existed.
<1>2. /\ g.trajectories = group[s].trajectories
      /\ g.future = group[s].future
  <2>1. CASE table[KeyOf[r]] = NoState
    <3>1. s = r /\ g = NewGroup(step)
      BY <2>1 DEF Target, TargetGroup
    <3>2. \A i \in group[r].trajectories : i < 0 /\ i \in Nat
      BY DEF IndInv, GroupsInv, TypeOK, GroupState, Slots
    <3>3. group[r].trajectories = {} /\ group[r].future = "pending"
      BY <3>2 DEF IndInv, GroupsInv
    <3>4. QED
      BY <3>1, <3>3 DEF NewGroup
  <2>2. CASE table[KeyOf[r]] # NoState
    BY <2>2 DEF Target, TargetGroup
  <2>3. QED
    BY <2>1, <2>2
<1>3. /\ g.next_slot \in Slots
      /\ member' = [member EXCEPT ![r] = s]
      /\ slot' = [slot EXCEPT ![r] = g.next_slot]
  BY <1>1, ProxyGroupAssumption DEF Claim, GroupState, Slots, ProxyGroupAssumption
<1> DEFINE i == g.next_slot
<1>4. /\ claimed \in GroupState
      /\ claimed.trajectories = g.trajectories
      /\ claimed.failed = g.failed
      /\ claimed.future = g.future
  BY <1>1 DEF GroupState
<1>5. /\ ~g.failed =>
           /\ pc' = [pc EXCEPT ![r] = "generating"]
           /\ group' = [group EXCEPT ![s] = claimed]
      /\ g.failed =>
           /\ pc' = [pc EXCEPT ![r] = "raised"]
           /\ group' = [group EXCEPT ![s] = Finish(FailState(claimed))]
  BY DEF Claim, Leave
\* A group with a free slot is open, or failed.
<1>6. IF g.failed THEN group[s].future = "error" ELSE group[s].future = "pending"
  <2>1. group[s].trajectories # Slots
    <3>1. \A t \in g.trajectories : t < g.next_slot
      BY <1>1, <1>2 DEF IndInv, GroupsInv, Target, TargetGroup, NewGroup
    <3>2. g.next_slot \notin group[s].trajectories
      BY <1>1, <1>2, <3>1 DEF GroupState
    <3>3. QED
      BY <1>3, <3>2
  <2>2. group[s].future \in {"pending", "error"}
    BY <1>1, <2>1 DEF IndInv, GroupsInv, TypeOK, GroupState, Scored
  <2>3. CASE table[KeyOf[r]] = NoState
    BY <1>2, <2>3 DEF TargetGroup, NewGroup
  <2>4. CASE table[KeyOf[r]] # NoState
    <3>1. g = group[s]
      BY <2>4 DEF Target, TargetGroup
    <3>2. QED
      BY <1>1, <2>2, <3>1 DEF IndInv, GroupsInv
  <2>5. QED
    BY <2>3, <2>4
<1> HIDE DEF s, g, claimed, i
<1>7. /\ SeatOf[r] = NoState
      /\ SeatOf' = [SeatOf EXCEPT ![r] = <<s, i>>]
      /\ Barrier!Free(s, i)
  <2>1. SeatOf[r] = NoState
    BY DEF SeatOf
  <2>2. \A q \in Run : SeatOf'[q] = IF q = r THEN <<s, i>> ELSE SeatOf[q]
    BY <1>1, <1>3 DEF SeatOf, i, IndInv, TypeOK
  <2>3. SeatOf' = [SeatOf EXCEPT ![r] = <<s, i>>]
    BY <2>2 DEF SeatOf
  <2>4. ASSUME NEW q \in Run, SeatOf[q] = <<s, i>>
        PROVE  FALSE
    <3>1. <<s, i>> \in Run \X Nat
      BY <1>1, <1>3 DEF i, Slots
    <3>2. member[q] # NoState /\ q # r
      BY <2>1, <2>4, <3>1, ProxyGroupAssumption DEF SeatOf, ProxyGroupAssumption
    <3>3. member[q] = s /\ slot[q] = i
      BY <2>4, <3>2 DEF SeatOf
    <3>4. member'[q] = s /\ slot'[q] = i /\ member'[r] = s /\ slot'[r] = i
      BY <1>3, <3>2, <3>3 DEF i, IndInv, TypeOK
    <3>5. QED
      BY <1>1, <3>2, <3>4 DEF IndInv, MembersInv, MemberOf
  <2>5. QED
    BY <2>1, <2>3, <2>4 DEF Barrier!Free
<1>8. CASE ~g.failed
  <2>1. pc' = [pc EXCEPT ![r] = "generating"] /\ group' = [group EXCEPT ![s] = claimed]
    BY <1>5, <1>8
  <2>2. OutcomeOf[r] = "active" /\ OutcomeOf' = OutcomeOf
    BY <2>1, OutcomeOfStaying DEF IndInv, PC, Ended, Returned
  <2>3. ArrivedOf' = ArrivedOf /\ VerdictOf' = VerdictOf /\ VerdictOf[s] = "open"
    <3>1. TypeOK /\ group[s].future = "pending"
      BY <1>6, <1>8 DEF IndInv
    <3>2. claimed.trajectories = group[s].trajectories /\ claimed.future = group[s].future
      BY <1>2, <1>4
    <3>3. ArrivedOf' = ArrivedOf /\ VerdictOf' = VerdictOf
      BY <1>1, <1>4, <2>1, <3>1, <3>2, VerdictOfChange
    <3>4. QED
      BY <1>1, <3>1, <3>3, VerdictOfFuture
  <2>4. Barrier!Sit(r, s, i)
    BY <1>7, <2>2, <2>3 DEF Barrier!Sit
  <2>5. QED
    BY <1>1, <1>3, <2>4 DEF Barrier!Next, i
<1>9. CASE g.failed
  <2>1. /\ pc' = [pc EXCEPT ![r] = "raised"]
        /\ group' = [group EXCEPT ![s] = Finish(FailState(claimed))]
    BY <1>5, <1>9
  <2>2. OutcomeOf[r] = "active" /\ OutcomeOf' = [OutcomeOf EXCEPT ![r] = "failed"]
    BY <2>1, OutcomeOfLeaving DEF IndInv, Ended, Returned
  <2>3. /\ FailState(claimed) \in GroupState
        /\ FailState(claimed).trajectories = group[s].trajectories
        /\ FailState(claimed).future = "error"
    BY <1>2, <1>4, <1>6, <1>9, FailStateLemma
  <2>4. /\ Finish(FailState(claimed)) \in GroupState
        /\ Finish(FailState(claimed)).trajectories = group[s].trajectories
        /\ Finish(FailState(claimed)).future = "error"
    BY <2>3, FinishLemma
  <2>5. ArrivedOf' = ArrivedOf /\ VerdictOf' = VerdictOf /\ VerdictOf[s] = "broken"
    <3>1. TypeOK /\ group[s].future = "error"
      BY <1>6, <1>9 DEF IndInv
    <3>2. ArrivedOf' = ArrivedOf /\ VerdictOf' = VerdictOf
      BY <1>1, <2>1, <2>4, <3>1, VerdictOfChange
    <3>3. QED
      BY <1>1, <3>1, <3>2, VerdictOfFuture
  <2>6. Barrier!SitBroken(r, s, i)
    BY <1>7, <2>2, <2>5 DEF Barrier!SitBroken
  <2>7. QED
    BY <1>1, <1>3, <2>6 DEF Barrier!Next, i
<1>10. QED
  BY <1>8, <1>9

LEMMA JoinImplements ==
  ASSUME IndInv, IndInv', NEW r \in Run, Join(r)
  PROVE  Barrier!Next
<1> DEFINE step == IF UseProxyVersion THEN observed[r] ELSE scheduleStep
<1>1. /\ step \in Nat
      /\ pc[r] \in {"idle", "version"}
      /\ Refuse(r, step) \/ Claim(r, step)
  BY DEF Join, IndInv, TypeOK
<1>2. member[r] = NoState
  BY <1>1 DEF IndInv, MembersInv, MemberOf
<1> HIDE DEF step
<1>3. CASE Claim(r, step)
  BY <1>1, <1>2, <1>3, ClaimImplements
<1>4. CASE Refuse(r, step)
  <2>1. table[KeyOf[r]] \in Run
    BY <1>4, ProxyGroupAssumption DEF Refuse, IndInv, TypeOK, ProxyGroupAssumption
  <2>2. /\ pc' = [pc EXCEPT ![r] = "raised"]
        /\ \E s \in Run : group' = [group EXCEPT ![s] = FailState(group[s])]
        /\ UNCHANGED <<member, slot>>
    BY <1>4, <2>1 DEF Refuse
  <2>3. "raised" \in Ended \ Returned
    BY DEF Ended, Returned
  <2>4. QED
    BY <1>1, <1>2, <2>2, <2>3, UnseatedImplements
<1>5. QED
  BY <1>1, <1>3, <1>4

LEMMA StoreImplements ==
  ASSUME IndInv, NEW r \in Run, Store(r)
  PROVE  Barrier!Next
<1> DEFINE s == member[r]
           stored == [group[s] EXCEPT !.trajectories = @ \cup {slot[r]}]
<1>1. /\ pc[r] = "generating"
      /\ s # NoState /\ s \in Run
      /\ group[s] \in GroupState
      /\ MemberOf(r, s)
      /\ slot[r] \in Nat
      /\ UNCHANGED <<member, slot>>
  <2>1. pc[r] = "generating" /\ s # NoState /\ UNCHANGED <<member, slot>>
    BY DEF Store, IndInv, MembersInv
  <2>2. QED
    BY <2>1 DEF IndInv, MembersInv, TypeOK
<1>2. slot[r] \in Slots /\ slot[r] \notin group[s].trajectories
  BY <1>1, ProxyGroupAssumption
     DEF MemberOf, IndInv, GroupsInv, GroupState, Slots, Returned, ProxyGroupAssumption
<1>3. CASE group[s].failed
  <2>1. Leave(r, s, FailState(group[s]), "raised")
    BY <1>3 DEF Store
  <2>2. "raised" \in Ended \ Returned
    BY DEF Ended, Returned
  <2>3. QED
    BY <1>1, <2>1, <2>2, FailingImplements
<1>4. CASE ~group[s].failed
  <2>1. /\ stored \in GroupState
        /\ stored.trajectories = group[s].trajectories \cup {slot[r]}
        /\ stored.future = group[s].future
    BY <1>1, <1>2 DEF GroupState
  <2>2. pc' = [pc EXCEPT ![r] = "waiting"] /\ group' = [group EXCEPT ![s] = stored]
    BY <1>4 DEF Store
  <2> HIDE DEF stored
  <2>3. group[s].future = "pending"
    <3>1. group[s].future \notin Scored /\ group[s].future # "error"
      BY <1>1, <1>2, <1>4 DEF IndInv, GroupsInv
    <3>2. QED
      BY <1>1, <3>1 DEF GroupState
  <2>4. SeatOf[r] = <<s, slot[r]>> /\ SeatOf' = SeatOf
    BY <1>1, SeatUnchanged DEF SeatOf
  <2>5. OutcomeOf[r] = "active" /\ OutcomeOf' = OutcomeOf
    BY <1>1, <2>2, OutcomeOfStaying DEF IndInv, PC, Ended, Returned
  <2>6. VerdictOf' = VerdictOf /\ VerdictOf[s] = "open"
    BY <1>1, <2>1, <2>2, <2>3, VerdictOfChange, VerdictOfFuture DEF IndInv
  <2>7. ArrivedOf' = [ArrivedOf EXCEPT ![s] = @ \cup {slot[r]}] /\ slot[r] \notin ArrivedOf[s]
    <3>1. \A t \in Run : group'[t] = IF t = s THEN stored ELSE group[t]
      BY <1>1, <2>2 DEF IndInv, TypeOK
    <3>2. QED
      BY <1>1, <1>2, <2>1, <3>1 DEF ArrivedOf
  <2>8. Barrier!Arrive(r, s, slot[r])
    BY <2>4, <2>5, <2>6, <2>7 DEF Barrier!Arrive
  <2>9. QED
    BY <1>1, <1>2, <2>8 DEF Barrier!Next
<1>5. QED
  BY <1>3, <1>4

LEMMA WakeImplements ==
  ASSUME IndInv, NEW r \in Run, Wake(r)
  PROVE  Barrier!Next
<1> DEFINE s == member[r]
<1>1. pc[r] = "waiting" /\ s # NoState /\ UNCHANGED <<member, slot>>
  BY DEF Wake, IndInv, MembersInv
<1>2. {"rewarded", "rejected"} = Returned /\ "raised" \in Ended \ Returned
  BY DEF Returned, Ended
<1>3. CASE group[s].future = "result" /\ Leave(r, s, group[s], "rewarded")
  BY <1>1, <1>2, <1>3, CollectImplements
<1>4. CASE group[s].future = "zeros" /\ Leave(r, s, group[s], "rejected")
  BY <1>1, <1>2, <1>4, CollectImplements
<1>5. CASE group[s].future = "error" /\ Leave(r, s, FailState(group[s]), "raised")
  BY <1>1, <1>2, <1>5, FailingImplements
<1>6. QED
  BY <1>3, <1>4, <1>5 DEF Wake

\* A score task decides its group, breaks it, or does not show.
LEMMA ScoreImplements ==
  ASSUME IndInv, NEW s \in Run, Score(s)
  PROVE  Barrier!Next \/ UNCHANGED Barrier!barrierVars
<1>1. /\ group[s] \in GroupState /\ TypeOK
      /\ UNCHANGED <<pc, member, slot>>
  BY DEF IndInv, TypeOK, Score, ScoreStarts, ScoreInformative, ScoreRejects,
         ScoreAccepts, ScoreFails, runVars
<1>2. SeatOf' = SeatOf /\ OutcomeOf' = OutcomeOf
  BY <1>1, SeatUnchanged, OutcomeUnchanged
<1>3. score[s] # "none" => ArrivedOf[s] = Slots
  BY DEF IndInv, GroupsInv, ArrivedOf
<1>4. CASE ScoreStarts(s) \/ ScoreInformative(s)
  BY <1>2, <1>4, GroupsUnchanged DEF ScoreStarts, ScoreInformative, Barrier!barrierVars
<1>5. ASSUME NEW outcome \in Scored, score[s] # "none",
             group' = [group EXCEPT ![s] = Settle(group[s], outcome)]
      PROVE  Barrier!Next \/ UNCHANGED Barrier!barrierVars
  <2>1. /\ Settle(group[s], outcome) \in GroupState
        /\ Settle(group[s], outcome).trajectories = group[s].trajectories
        /\ Settle(group[s], outcome).future =
             IF group[s].future = "pending" THEN outcome ELSE group[s].future
    BY <1>1, SettleLemma
  <2>2. CASE group[s].future # "pending"
    BY <1>1, <1>2, <1>5, <2>1, <2>2, VerdictOfChange DEF Barrier!barrierVars
  <2>3. CASE group[s].future = "pending"
    <3>1. PICK v \in {"rewarded", "rejected"} : VerdictOf' = [VerdictOf EXCEPT ![s] = v]
      BY <1>1, <1>5, <2>1, <2>3, VerdictOfChange DEF Scored
    <3>2. VerdictOf[s] = "open" /\ ArrivedOf' = ArrivedOf
      BY <1>1, <1>5, <2>1, <2>3, VerdictOfChange, VerdictOfFuture
    <3>3. Barrier!Decide(s)
      BY <1>2, <1>3, <1>5, <3>1, <3>2 DEF Barrier!Decide
    <3>4. QED
      BY <3>3 DEF Barrier!Next
  <2>4. QED
    BY <2>2, <2>3
<1>6. CASE ScoreRejects(s)
  <2>1. group' = [group EXCEPT ![s] = Settle(group[s], "zeros")] /\ score[s] # "none"
    BY <1>6 DEF ScoreRejects
  <2>2. QED
    BY <1>5, <2>1 DEF Scored
<1>7. CASE ScoreAccepts(s)
  <2>1. group' = [group EXCEPT ![s] = Settle(group[s], "result")] /\ score[s] # "none"
    BY <1>7 DEF ScoreAccepts
  <2>2. QED
    BY <1>5, <2>1 DEF Scored
<1>8. CASE ScoreFails(s)
  <2>1. group' = [group EXCEPT ![s] = FailState(group[s])]
    BY <1>8 DEF ScoreFails
  <2>2. /\ FailState(group[s]) \in GroupState
        /\ FailState(group[s]).trajectories = group[s].trajectories
        /\ FailState(group[s]).future =
             IF group[s].future = "pending" THEN "error" ELSE group[s].future
    BY <1>1, FailStateLemma
  <2>3. CASE group[s].future # "pending"
    BY <1>1, <1>2, <2>1, <2>2, <2>3, VerdictOfChange DEF Barrier!barrierVars
  <2>4. CASE group[s].future = "pending"
    <3>1. /\ VerdictOf' = [VerdictOf EXCEPT ![s] = "broken"]
          /\ VerdictOf[s] = "open" /\ ArrivedOf' = ArrivedOf
      BY <1>1, <2>1, <2>2, <2>4, VerdictOfChange, VerdictOfFuture
    <3>2. Barrier!Break(s)
      BY <1>2, <3>1 DEF Barrier!Break
    <3>3. QED
      BY <3>2 DEF Barrier!Next
  <2>5. QED
    BY <2>3, <2>4
<1>9. QED
  BY <1>4, <1>6, <1>7, <1>8 DEF Score

LEMMA StutterImplements ==
  ASSUME UNCHANGED <<pc, member, slot, group>>
  PROVE  UNCHANGED Barrier!barrierVars
BY SeatUnchanged, OutcomeUnchanged, GroupsUnchanged DEF Barrier!barrierVars

LEMMA NextImplements ==
  IndInv /\ IndInv' /\ [Next]_vars => [Barrier!Next]_(Barrier!barrierVars)
<1> SUFFICES ASSUME IndInv, IndInv', [Next]_vars
             PROVE  Barrier!Next \/ UNCHANGED Barrier!barrierVars
  OBVIOUS
<1>1. ASSUME NEW r \in Run, RunStep(r)
      PROVE  Barrier!Next \/ UNCHANGED Barrier!barrierVars
  <2>1. CASE VersionAnswered(r)
    <3>1. /\ pc' = [pc EXCEPT ![r] = "version"] /\ pc[r] = "idle"
          /\ UNCHANGED <<member, slot, group>>
      BY <2>1 DEF VersionAnswered
    <3>2. OutcomeOf' = OutcomeOf
      BY <3>1, OutcomeOfStaying DEF IndInv, PC, Ended, Returned
    <3>3. QED
      BY <3>1, <3>2, SeatUnchanged, GroupsUnchanged DEF Barrier!barrierVars
  <2>2. CASE VersionFails(r)
    <3>1. /\ pc[r] \in {"idle", "version"}
          /\ \E how \in Ended \ Returned : pc' = [pc EXCEPT ![r] = how]
          /\ UNCHANGED <<member, slot, group>>
      BY <2>2 DEF VersionFails, Ended, Returned
    <3>2. member[r] = NoState
      BY <3>1 DEF IndInv, MembersInv, MemberOf
    <3>3. QED
      BY <3>1, <3>2, UnseatedImplements
  <2>3. CASE Join(r)
    BY <2>3, JoinImplements
  <2>4. CASE Store(r)
    BY <2>4, StoreImplements
  <2>5. ASSUME GenerationFails(r) \/ Timeout(r) \/ Cancel(r)
        PROVE  Barrier!Next
    <3>1. /\ pc[r] \in {"generating", "waiting"}
          /\ \E how \in Ended \ Returned : Leave(r, member[r], FailState(group[member[r]]), how)
          /\ UNCHANGED <<member, slot>>
      BY <2>5 DEF GenerationFails, Timeout, Cancel, Ended, Returned
    <3>2. member[r] # NoState
      <4>1. CASE pc[r] = "generating"
        BY <4>1 DEF IndInv, MembersInv
      <4>2. CASE pc[r] = "waiting"
        BY <4>2 DEF IndInv, MembersInv
      <4>3. QED
        BY <3>1, <4>1, <4>2
    <3>3. QED
      BY <3>1, <3>2, FailingImplements
  <2>6. CASE Wake(r)
    BY <2>6, WakeImplements
  <2>7. QED
    BY <1>1, <2>1, <2>2, <2>3, <2>4, <2>5, <2>6 DEF RunStep
<1>2. CASE \E s \in Run : Score(s)
  BY <1>2, ScoreImplements
<1>3. CASE (\E k \in Key : ConsumeDecision(k)) \/ PublishVersion \/ UNCHANGED vars
  <2>1. UNCHANGED <<pc, member, slot, group>>
    BY <1>3 DEF ConsumeDecision, PublishVersion, runVars, vars
  <2>2. QED
    BY <2>1, StutterImplements
<1>4. QED
  BY <1>1, <1>2, <1>3 DEF Next, Quiescent

\* The agent implements the group barrier: every step of the group states,
\* futures, locks and score tasks is a step of the barrier or does not show.
THEOREM AgentImplementsBarrier == Spec => ImplementsBarrier
<1>1. QED
  BY InitImplements, NextImplements, SpecIndInv, PTL
     DEF Spec, ImplementsBarrier, Barrier!Spec

(***************************************************************************)
(* What the barrier promises, and so the agent.                            *)
(***************************************************************************)

BarrierInv == Barrier!BarrierTypeOK /\ Barrier!GroupsWhole

LEMMA NoSeatApart == NoState \notin Run \X Slots
BY ProxyGroupAssumption DEF Slots

LEMMA BarrierStarts == Barrier!Init => BarrierInv
BY DEF Barrier!Init, BarrierInv, Barrier!BarrierTypeOK, Barrier!GroupsWhole, Barrier!Decided

\* A free seat is taken: it becomes one run's, and no seat is given up.
LEMMA SeatTaken ==
  ASSUME BarrierInv, NEW r \in Run, NEW g \in Run, NEW i \in Slots,
         SeatOf[r] = NoState, Barrier!Free(g, i), SeatOf' = [SeatOf EXCEPT ![r] = <<g, i>>]
  PROVE  /\ SeatOf' \in [Run -> (Run \X Slots) \cup {NoState}]
         /\ \A q \in Run : SeatOf[q] # NoState => SeatOf'[q] = SeatOf[q]
         /\ \A p, q \in Run : SeatOf'[p] = SeatOf'[q] /\ SeatOf'[p] # NoState => p = q
<1>1. SeatOf \in [Run -> (Run \X Slots) \cup {NoState}]
  BY DEF BarrierInv, Barrier!BarrierTypeOK
<1>2. \A q \in Run : SeatOf'[q] = IF q = r THEN <<g, i>> ELSE SeatOf[q]
  BY <1>1
<1>3. SeatOf' \in [Run -> (Run \X Slots) \cup {NoState}]
  BY <1>1
<1>4. \A p, q \in Run : SeatOf[p] = SeatOf[q] /\ SeatOf[p] # NoState => p = q
  BY DEF BarrierInv, Barrier!GroupsWhole
<1>5. \A q \in Run : SeatOf[q] # <<g, i>>
  BY DEF Barrier!Free
<1>6. \A p, q \in Run : SeatOf'[p] = SeatOf'[q] /\ SeatOf'[p] # NoState => p = q
  <2> SUFFICES ASSUME NEW p \in Run, NEW q \in Run, SeatOf'[p] = SeatOf'[q], SeatOf'[p] # NoState
               PROVE  p = q
    OBVIOUS
  <2>1. p = r => SeatOf[q] = <<g, i>> \/ q = r
    BY <1>2
  <2>2. q = r => SeatOf[p] = <<g, i>> \/ p = r
    BY <1>2
  <2>3. p # r /\ q # r => SeatOf[p] = SeatOf[q] /\ SeatOf[p] # NoState
    BY <1>2
  <2> QED BY <1>4, <1>5, <2>1, <2>2, <2>3
<1>7. \A q \in Run : SeatOf[q] # NoState => SeatOf'[q] = SeatOf[q]
  BY <1>2
<1> QED BY <1>3, <1>6, <1>7

\* Seats stay or are taken, deliveries stay or are made by who sits there, a
\* verdict is given to an open group once all delivered, and an outcome is the
\* verdict of the run's own group: such a step keeps the groups whole.
LEMMA BarrierStays ==
  ASSUME BarrierInv, Barrier!BarrierTypeOK',
         \A p, q \in Run : SeatOf'[p] = SeatOf'[q] /\ SeatOf'[p] # NoState => p = q,
         \A q \in Run : SeatOf[q] # NoState => SeatOf'[q] = SeatOf[q],
         \A s \in Run : \A j \in ArrivedOf'[s] :
           j \in ArrivedOf[s] \/ \E q \in Run : SeatOf'[q] = <<s, j>>,
         \A s \in Run : VerdictOf[s] # "open" => VerdictOf'[s] = VerdictOf[s],
         \A s \in Run : VerdictOf'[s] \in {"rewarded", "rejected"} => ArrivedOf'[s] = Slots,
         \A q \in Run : OutcomeOf'[q] \in {"rewarded", "rejected"} =>
           \/ OutcomeOf'[q] = OutcomeOf[q]
           \/ \E s \in Run, j \in Slots : SeatOf[q] = <<s, j>> /\ VerdictOf[s] = OutcomeOf'[q]
  PROVE  BarrierInv'
<1>1. /\ \A s \in Run : \A j \in ArrivedOf[s] : \E q \in Run : SeatOf[q] = <<s, j>>
      /\ \A q \in Run : OutcomeOf[q] \in {"rewarded", "rejected"} =>
           \E s \in Run, j \in Slots : SeatOf[q] = <<s, j>> /\ VerdictOf[s] = OutcomeOf[q]
      /\ ArrivedOf \in [Run -> SUBSET Slots]
  BY DEF BarrierInv, Barrier!GroupsWhole, Barrier!BarrierTypeOK, Barrier!Decided
<1>2. \A s \in Run, j \in Slots : <<s, j>> # NoState
  BY NoSeatApart
<1>3. \A q, s \in Run, j \in Slots : SeatOf[q] = <<s, j>> => SeatOf'[q] = <<s, j>>
  <2> SUFFICES ASSUME NEW q \in Run, NEW s \in Run, NEW j \in Slots, SeatOf[q] = <<s, j>>
               PROVE  SeatOf'[q] = SeatOf[q]
    OBVIOUS
  <2>1. SeatOf[q] # NoState
    BY <1>2
  <2> QED BY <2>1
<1>4. ASSUME NEW s \in Run, NEW j \in ArrivedOf'[s] PROVE \E q \in Run : SeatOf'[q] = <<s, j>>
  <2>1. CASE j \in ArrivedOf[s]
    <3>1. j \in Slots /\ \E q \in Run : SeatOf[q] = <<s, j>>
      BY <1>1, <2>1
    <3> QED BY <1>3, <3>1
  <2>2. CASE \E q \in Run : SeatOf'[q] = <<s, j>>
    BY <2>2
  <2> QED BY <1>4, <2>1, <2>2
<1>5. ASSUME NEW q \in Run, OutcomeOf'[q] \in {"rewarded", "rejected"}
      PROVE  \E s \in Run, j \in Slots : SeatOf'[q] = <<s, j>> /\ VerdictOf'[s] = OutcomeOf'[q]
  <2>1. PICK s \in Run, j \in Slots : SeatOf[q] = <<s, j>> /\ VerdictOf[s] = OutcomeOf'[q]
    BY <1>1, <1>5
  <2>2. SeatOf'[q] = <<s, j>> /\ VerdictOf'[s] = OutcomeOf'[q]
    BY <1>3, <1>5, <2>1
  <2> QED BY <2>2
<1> QED BY <1>4, <1>5 DEF BarrierInv, Barrier!GroupsWhole, Barrier!Decided

\* What a step may not do; with it, an action property of the barrier.
BarrierStands ==
  /\ \A s \in Run : VerdictOf[s] # "open" => VerdictOf'[s] = VerdictOf[s]
  /\ \A r \in Run : SeatOf[r] # NoState => SeatOf'[r] = SeatOf[r]
  /\ \A r \in Run : OutcomeOf[r] # "active" => OutcomeOf'[r] = OutcomeOf[r]

LEMMA BrokenTyped ==
  ASSUME Barrier!BarrierTypeOK, NEW g \in Run
  PROVE  /\ Barrier!Broken(g) \in [Run -> {"open", "rewarded", "rejected", "broken"}]
         /\ \A s \in Run : VerdictOf[s] # "open" => Barrier!Broken(g)[s] = VerdictOf[s]
         /\ \A s \in Run : Barrier!Broken(g)[s] \in {"rewarded", "rejected"} =>
              Barrier!Broken(g)[s] = VerdictOf[s]
BY DEF Barrier!BarrierTypeOK, Barrier!Broken

LEMMA NextKeepsBarrier ==
  BarrierInv /\ [Barrier!Next]_(Barrier!barrierVars) => BarrierInv' /\ BarrierStands
<1> SUFFICES ASSUME BarrierInv, [Barrier!Next]_(Barrier!barrierVars)
             PROVE  BarrierInv' /\ BarrierStands
  OBVIOUS
<1>1. /\ SeatOf \in [Run -> (Run \X Slots) \cup {NoState}]
      /\ ArrivedOf \in [Run -> SUBSET Slots]
      /\ VerdictOf \in [Run -> {"open", "rewarded", "rejected", "broken"}]
      /\ OutcomeOf \in [Run -> {"active", "rewarded", "rejected", "failed"}]
      /\ Barrier!BarrierTypeOK
  BY DEF BarrierInv, Barrier!BarrierTypeOK
<1>2. /\ \A p, q \in Run : SeatOf[p] = SeatOf[q] /\ SeatOf[p] # NoState => p = q
      /\ \A s \in Run : VerdictOf[s] \in {"rewarded", "rejected"} => ArrivedOf[s] = Slots
  BY DEF BarrierInv, Barrier!GroupsWhole, Barrier!Decided
<1>3. \A s \in Run : \A j \in ArrivedOf[s] : \E q \in Run : SeatOf[q] = <<s, j>>
  BY DEF BarrierInv, Barrier!GroupsWhole
<1>4. ASSUME NEW r \in Run, NEW g \in Run, NEW i \in Slots, Barrier!Sit(r, g, i)
      PROVE  BarrierInv' /\ BarrierStands
  <2>1. /\ SeatOf[r] = NoState /\ Barrier!Free(g, i) /\ SeatOf' = [SeatOf EXCEPT ![r] = <<g, i>>]
        /\ ArrivedOf' = ArrivedOf /\ VerdictOf' = VerdictOf /\ OutcomeOf' = OutcomeOf
    BY <1>4 DEF Barrier!Sit
  <2>2. /\ SeatOf' \in [Run -> (Run \X Slots) \cup {NoState}]
        /\ \A q \in Run : SeatOf[q] # NoState => SeatOf'[q] = SeatOf[q]
        /\ \A p, q \in Run : SeatOf'[p] = SeatOf'[q] /\ SeatOf'[p] # NoState => p = q
    BY <2>1, SeatTaken
  <2>3. Barrier!BarrierTypeOK'
    BY <1>1, <2>1, <2>2 DEF Barrier!BarrierTypeOK
  <2>4. BarrierInv'
    BY <1>2, <2>1, <2>2, <2>3, BarrierStays
  <2> QED BY <2>1, <2>2, <2>4 DEF BarrierStands
<1>5. ASSUME NEW r \in Run, NEW g \in Run, NEW i \in Slots, Barrier!SitBroken(r, g, i)
      PROVE  BarrierInv' /\ BarrierStands
  <2>1. /\ SeatOf[r] = NoState /\ Barrier!Free(g, i) /\ SeatOf' = [SeatOf EXCEPT ![r] = <<g, i>>]
        /\ ArrivedOf' = ArrivedOf /\ VerdictOf' = VerdictOf
        /\ OutcomeOf[r] = "active" /\ OutcomeOf' = [OutcomeOf EXCEPT ![r] = "failed"]
    BY <1>5 DEF Barrier!SitBroken
  <2>2. /\ SeatOf' \in [Run -> (Run \X Slots) \cup {NoState}]
        /\ \A q \in Run : SeatOf[q] # NoState => SeatOf'[q] = SeatOf[q]
        /\ \A p, q \in Run : SeatOf'[p] = SeatOf'[q] /\ SeatOf'[p] # NoState => p = q
    BY <2>1, SeatTaken
  <2>3. \A q \in Run : OutcomeOf'[q] = IF q = r THEN "failed" ELSE OutcomeOf[q]
    BY <1>1, <2>1
  <2>4. Barrier!BarrierTypeOK'
    BY <1>1, <2>1, <2>2 DEF Barrier!BarrierTypeOK
  <2>5. BarrierInv'
    BY <1>2, <2>1, <2>2, <2>3, <2>4, BarrierStays
  <2> QED BY <2>1, <2>2, <2>3, <2>5 DEF BarrierStands
<1>6. ASSUME NEW r \in Run, NEW g \in Run, NEW i \in Slots, Barrier!Arrive(r, g, i)
      PROVE  BarrierInv' /\ BarrierStands
  <2>1. /\ SeatOf[r] = <<g, i>> /\ VerdictOf[g] = "open"
        /\ ArrivedOf' = [ArrivedOf EXCEPT ![g] = @ \cup {i}]
        /\ SeatOf' = SeatOf /\ VerdictOf' = VerdictOf /\ OutcomeOf' = OutcomeOf
    BY <1>6 DEF Barrier!Arrive
  <2>2. \A s \in Run : ArrivedOf'[s] = IF s = g THEN ArrivedOf[s] \cup {i} ELSE ArrivedOf[s]
    BY <1>1, <2>1
  <2>3. Barrier!BarrierTypeOK'
    BY <1>1, <2>1 DEF Barrier!BarrierTypeOK
  <2>4. \A s \in Run : \A j \in ArrivedOf'[s] : j \in ArrivedOf[s] \/ \E q \in Run : SeatOf'[q] = <<s, j>>
    BY <2>1, <2>2
  <2>5. \A s \in Run : VerdictOf'[s] \in {"rewarded", "rejected"} => ArrivedOf'[s] = Slots
    BY <1>2, <2>1, <2>2
  <2>6. BarrierInv'
    BY <1>2, <2>1, <2>3, <2>4, <2>5, BarrierStays
  <2> QED BY <2>1, <2>6 DEF BarrierStands
<1>7. ASSUME NEW r \in Run, NEW g \in Run, NEW i \in Slots, Barrier!Collect(r, g, i)
      PROVE  BarrierInv' /\ BarrierStands
  <2>1. /\ SeatOf[r] = <<g, i>> /\ OutcomeOf[r] = "active"
        /\ VerdictOf[g] \in {"rewarded", "rejected"}
        /\ OutcomeOf' = [OutcomeOf EXCEPT ![r] = VerdictOf[g]]
        /\ SeatOf' = SeatOf /\ ArrivedOf' = ArrivedOf /\ VerdictOf' = VerdictOf
    BY <1>7 DEF Barrier!Collect
  <2>2. \A q \in Run : OutcomeOf'[q] = IF q = r THEN VerdictOf[g] ELSE OutcomeOf[q]
    BY <1>1, <2>1
  <2>3. Barrier!BarrierTypeOK'
    BY <1>1, <2>1 DEF Barrier!BarrierTypeOK
  <2>4. BarrierInv'
    BY <1>2, <2>1, <2>2, <2>3, BarrierStays
  <2> QED BY <2>1, <2>2, <2>4 DEF BarrierStands
<1>8. ASSUME NEW r \in Run, OutcomeOf[r] = "active", OutcomeOf' = [OutcomeOf EXCEPT ![r] = "failed"],
             SeatOf' = SeatOf, ArrivedOf' = ArrivedOf,
             VerdictOf' = VerdictOf \/ \E g \in Run : VerdictOf' = Barrier!Broken(g)
      PROVE  BarrierInv' /\ BarrierStands
  <2>1. /\ VerdictOf' \in [Run -> {"open", "rewarded", "rejected", "broken"}]
        /\ \A s \in Run : VerdictOf[s] # "open" => VerdictOf'[s] = VerdictOf[s]
        /\ \A s \in Run : VerdictOf'[s] \in {"rewarded", "rejected"} => VerdictOf'[s] = VerdictOf[s]
    BY <1>1, <1>8, BrokenTyped
  <2>2. \A q \in Run : OutcomeOf'[q] = IF q = r THEN "failed" ELSE OutcomeOf[q]
    BY <1>1, <1>8
  <2>3. Barrier!BarrierTypeOK'
    BY <1>1, <1>8, <2>1 DEF Barrier!BarrierTypeOK
  <2>4. \A s \in Run : VerdictOf'[s] \in {"rewarded", "rejected"} => ArrivedOf'[s] = Slots
    BY <1>2, <1>8, <2>1
  <2>5. BarrierInv'
    BY <1>2, <1>8, <2>1, <2>2, <2>3, <2>4, BarrierStays
  <2> QED BY <1>8, <2>1, <2>2, <2>5 DEF BarrierStands
<1>9. ASSUME NEW g \in Run, NEW v \in {"rewarded", "rejected", "broken"}, VerdictOf[g] = "open",
             v # "broken" => ArrivedOf[g] = Slots, VerdictOf' = [VerdictOf EXCEPT ![g] = v],
             SeatOf' = SeatOf, ArrivedOf' = ArrivedOf, OutcomeOf' = OutcomeOf
      PROVE  BarrierInv' /\ BarrierStands
  <2>1. \A s \in Run : VerdictOf'[s] = IF s = g THEN v ELSE VerdictOf[s]
    BY <1>1, <1>9
  <2>2. Barrier!BarrierTypeOK'
    BY <1>1, <1>9 DEF Barrier!BarrierTypeOK
  <2>3. \A s \in Run : VerdictOf'[s] \in {"rewarded", "rejected"} => ArrivedOf'[s] = Slots
    BY <1>2, <1>9, <2>1
  <2>4. BarrierInv'
    BY <1>2, <1>9, <2>1, <2>2, <2>3, BarrierStays
  <2> QED BY <1>9, <2>1, <2>4 DEF BarrierStands
<1>10. CASE UNCHANGED Barrier!barrierVars
  <2>1. SeatOf' = SeatOf /\ ArrivedOf' = ArrivedOf /\ VerdictOf' = VerdictOf /\ OutcomeOf' = OutcomeOf
    BY <1>10 DEF Barrier!barrierVars
  <2>2. Barrier!BarrierTypeOK'
    BY <1>1, <2>1 DEF Barrier!BarrierTypeOK
  <2>3. BarrierInv'
    BY <1>2, <2>1, <2>2, BarrierStays
  <2> QED BY <2>1, <2>3 DEF BarrierStands
<1>11. ASSUME NEW r \in Run, NEW g \in Run, NEW i \in Slots, Barrier!Fail(r, g, i)
       PROVE  BarrierInv' /\ BarrierStands
  BY <1>8, <1>11 DEF Barrier!Fail
<1>12. ASSUME NEW r \in Run, Barrier!FailUnseated(r)
       PROVE  BarrierInv' /\ BarrierStands
  BY <1>8, <1>12 DEF Barrier!FailUnseated
<1>13. ASSUME NEW g \in Run, Barrier!Decide(g)
       PROVE  BarrierInv' /\ BarrierStands
  BY <1>9, <1>13 DEF Barrier!Decide
<1>14. ASSUME NEW g \in Run, Barrier!Break(g)
       PROVE  BarrierInv' /\ BarrierStands
  BY <1>9, <1>14 DEF Barrier!Break
<1>15. Barrier!Next => BarrierInv' /\ BarrierStands
  BY <1>4, <1>5, <1>6, <1>7, <1>11, <1>12, <1>13, <1>14, Zenon DEF Barrier!Next
<1> QED BY <1>10, <1>15

LEMMA BarrierInvHolds == Barrier!Spec => []BarrierInv
<1>1. BarrierInv /\ [Barrier!Next]_(Barrier!barrierVars) => BarrierInv'
  BY NextKeepsBarrier
<1> QED BY BarrierStarts, <1>1, PTL DEF Barrier!Spec

\* The abstract barrier keeps its promises: runs are decided a whole group at a
\* time, each in a seat of its own, and a verdict, a seat and an outcome are
\* given once. So nothing is lost in reading the agent as this barrier.
THEOREM BarrierKeepsGroups ==
  Barrier!Spec => []Barrier!GroupsWhole /\ Barrier!VerdictsStand
<1>1. BarrierInv => Barrier!GroupsWhole
  BY DEF BarrierInv
<1>2. BarrierInv /\ [Barrier!Next]_(Barrier!barrierVars) =>
        [/\ \A g \in Run : VerdictOf[g] # "open" => VerdictOf'[g] = VerdictOf[g]
         /\ \A r \in Run : SeatOf[r] # NoState => SeatOf'[r] = SeatOf[r]
         /\ \A r \in Run : OutcomeOf[r] # "active" => OutcomeOf'[r] = OutcomeOf[r]]_(Barrier!barrierVars)
  BY NextKeepsBarrier DEF BarrierStands
<1> QED BY BarrierInvHolds, <1>1, <1>2, PTL DEF Barrier!Spec, Barrier!VerdictsStand

\* The agent keeps them too, through its refinement alone: a run that run()
\* returns with a reward or a rejection had a seat of a group whose every seat
\* delivered, and shares the verdict that _score_group_at_step or _fail_state
\* gave that group; no later step changes either.
THEOREM AgentKeepsGroups ==
  Spec => []Barrier!GroupsWhole /\ Barrier!VerdictsStand
BY AgentImplementsBarrier, BarrierKeepsGroups DEF ImplementsBarrier
=============================================================================
