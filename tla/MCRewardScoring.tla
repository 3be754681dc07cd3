--------------------------- MODULE MCRewardScoring ---------------------------
(***************************************************************************)
(* Instances of RewardScoring for TLC.                                     *)
(***************************************************************************)
EXTENDS RewardScoring, TLC

CONSTANTS g1, g2, t1, t2, c1, c2

TwoGroups == {g1, g2}

\* Both scopes of a character in each group; the one in g2 has no tasks.
FourCalls == {t1, t2, c1, c2}
CallGroup == [c \in FourCalls |-> IF c \in {t1, c1} THEN g1 ELSE g2]
CallScope == [c \in FourCalls |-> IF c \in {t1, t2} THEN "trajectory_role"
                                                     ELSE "completion_local"]
NoTasks == {t2}

\* Completion calls retry twice; each scope has one permit.
ScopeRetries == [x \in Scope |-> IF x = "completion_local" THEN 2 ELSE 0]
OnePermit    == [x \in Scope |-> 1]
=============================================================================
