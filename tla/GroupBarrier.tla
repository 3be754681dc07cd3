---------------------------- MODULE GroupBarrier ----------------------------
(***************************************************************************)
(* What RLFF's proxy agent promises to the runs of its groups, with no     *)
(* futures, locks, tables or score tasks: a run takes one seat of one      *)
(* group, a group is decided for all its runs at once and only when every  *)
(* seat has delivered a trajectory, and a run that fails before that       *)
(* breaks its group.                                                       *)
(***************************************************************************)
CONSTANTS
  Run,    \* the runs
  Group,  \* the groups
  Seat,   \* the seats of each group
  None    \* no seat

VARIABLES
  seat,     \* the group and seat of each run
  arrived,  \* the seats of each group that delivered a trajectory
  verdict,  \* what became of each group
  outcome   \* what became of each run

barrierVars == <<seat, arrived, verdict, outcome>>

BarrierTypeOK ==
  /\ seat \in [Run -> (Group \X Seat) \cup {None}]
  /\ arrived \in [Group -> SUBSET Seat]
  /\ verdict \in [Group -> {"open", "rewarded", "rejected", "broken"}]
  /\ outcome \in [Run -> {"active", "rewarded", "rejected", "failed"}]

Init ==
  /\ seat = [r \in Run |-> None]
  /\ arrived = [g \in Group |-> {}]
  /\ verdict = [g \in Group |-> "open"]
  /\ outcome = [r \in Run |-> "active"]

Broken(g) == IF verdict[g] = "open" THEN [verdict EXCEPT ![g] = "broken"] ELSE verdict

Free(g, i) == \A r \in Run : seat[r] # <<g, i>>

Sit(r, g, i) ==
  /\ outcome[r] = "active"
  /\ seat[r] = None
  /\ verdict[g] = "open"
  /\ Free(g, i)
  /\ seat' = [seat EXCEPT ![r] = <<g, i>>]
  /\ UNCHANGED <<arrived, verdict, outcome>>

\* The seat of a broken group is taken in vain.
SitBroken(r, g, i) ==
  /\ outcome[r] = "active"
  /\ seat[r] = None
  /\ verdict[g] = "broken"
  /\ Free(g, i)
  /\ seat' = [seat EXCEPT ![r] = <<g, i>>]
  /\ outcome' = [outcome EXCEPT ![r] = "failed"]
  /\ UNCHANGED <<arrived, verdict>>

Arrive(r, g, i) ==
  /\ outcome[r] = "active"
  /\ seat[r] = <<g, i>>
  /\ verdict[g] = "open"
  /\ i \notin arrived[g]
  /\ arrived' = [arrived EXCEPT ![g] = @ \cup {i}]
  /\ UNCHANGED <<seat, verdict, outcome>>

Decide(g) ==
  /\ verdict[g] = "open"
  /\ arrived[g] = Seat
  /\ \E v \in {"rewarded", "rejected"} : verdict' = [verdict EXCEPT ![g] = v]
  /\ UNCHANGED <<seat, arrived, outcome>>

Break(g) ==
  /\ verdict[g] = "open"
  /\ verdict' = [verdict EXCEPT ![g] = "broken"]
  /\ UNCHANGED <<seat, arrived, outcome>>

\* A decided group hands its verdict to a run that waits for it.
Collect(r, g, i) ==
  /\ outcome[r] = "active"
  /\ seat[r] = <<g, i>>
  /\ i \in arrived[g]
  /\ verdict[g] \in {"rewarded", "rejected"}
  /\ outcome' = [outcome EXCEPT ![r] = verdict[g]]
  /\ UNCHANGED <<seat, arrived, verdict>>

\* A seated run fails, and breaks its group unless that is decided.
Fail(r, g, i) ==
  /\ outcome[r] = "active"
  /\ seat[r] = <<g, i>>
  /\ verdict[g] \in {"rewarded", "rejected"} => i \in arrived[g]
  /\ verdict' = Broken(g)
  /\ outcome' = [outcome EXCEPT ![r] = "failed"]
  /\ UNCHANGED <<seat, arrived>>

\* A run fails without a seat, and may break the group that refused it.
FailUnseated(r) ==
  /\ outcome[r] = "active"
  /\ seat[r] = None
  /\ verdict' = verdict \/ \E g \in Group : verdict' = Broken(g)
  /\ outcome' = [outcome EXCEPT ![r] = "failed"]
  /\ UNCHANGED <<seat, arrived>>

Next ==
  \/ \E r \in Run, g \in Group, i \in Seat :
       \/ Sit(r, g, i)
       \/ SitBroken(r, g, i)
       \/ Arrive(r, g, i)
       \/ Collect(r, g, i)
       \/ Fail(r, g, i)
  \/ \E r \in Run : FailUnseated(r)
  \/ \E g \in Group : Decide(g) \/ Break(g)

Spec == Init /\ [][Next]_barrierVars

(***************************************************************************)
(* What the runs may rely on.                                              *)
(***************************************************************************)

Decided == {"rewarded", "rejected"}

\* A run that was rewarded or rejected has a seat, no one else's, of a group
\* whose verdict that is, and each seat of that group is of a run that
\* delivered a trajectory.
GroupsWhole ==
  /\ \A r, q \in Run : seat[r] = seat[q] /\ seat[r] # None => r = q
  /\ \A g \in Group : \A i \in arrived[g] : \E r \in Run : seat[r] = <<g, i>>
  /\ \A g \in Group : verdict[g] \in Decided => arrived[g] = Seat
  /\ \A r \in Run : outcome[r] \in Decided =>
       \E g \in Group, i \in Seat : seat[r] = <<g, i>> /\ verdict[g] = outcome[r]

\* A verdict, a seat and an outcome are given once.
VerdictsStand ==
  [][/\ \A g \in Group : verdict[g] # "open" => verdict'[g] = verdict[g]
     /\ \A r \in Run : seat[r] # None => seat'[r] = seat[r]
     /\ \A r \in Run : outcome[r] # "active" => outcome'[r] = outcome[r]]_barrierVars
=============================================================================
