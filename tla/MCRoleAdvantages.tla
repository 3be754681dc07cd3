--------------------------- MODULE MCRoleAdvantages ---------------------------
(***************************************************************************)
(* Instances of RoleAdvantages for TLC.                                    *)
(***************************************************************************)
EXTENDS RoleAdvantages, TLC

CONSTANTS a, b

Cast == {a, b}
Silent == <<>>

\* Rewards in quarter points: 2, 3.5 and 5 points.
Low == 8
Mid == 14
High == 20

\* A gated group: every mix of four replies against a uniform trajectory.
GateGroups ==
  {[gated |-> TRUE, complete |-> <<TRUE, TRUE>>,
    reply |-> <<(a :> mixed) @@ (b :> Silent),
                (a :> [i \in 1..4 |-> uniform]) @@ (b :> Silent)>>,
    task  |-> <<(a :> task) @@ (b :> Mid), (a :> Mid) @@ (b :> Mid)>>] :
     mixed \in [1..4 -> {Low, Mid, High}], uniform \in {Low, High}, task \in {Low, High}}

\* n trajectories of one reply a character; speaks[t] are the characters that
\* have spoken in t: all of them, if t is complete.
PathGroups(n, Rewards) ==
  {[gated |-> FALSE, complete |-> complete,
    reply |-> [t \in 1..n |-> [c \in Cast |->
                 IF complete[t] \/ c = a THEN <<local[t][c]>> ELSE Silent]],
    task  |-> [t \in 1..n |-> [c \in Cast |-> IF c = a THEN local[n - t + 1][c] ELSE Mid]]] :
     complete \in [1..n -> BOOLEAN], local \in [1..n -> [Cast -> Rewards]]}

SomeGroups ==
  GateGroups \cup PathGroups(1, {Low, High}) \cup PathGroups(2, {Low, High, Invalid})
    \cup PathGroups(3, {Low, High})

RampStart == [completion |-> 7, global |-> 3]
RampEnd   == [completion |-> 4, global |-> 6]
ThreeFifths == [num |-> 3, den |-> 5]

\* With and without padding.
SomeShapes == {[prompt |-> 2, reply |-> 1], [prompt |-> 1, reply |-> 3]}
=============================================================================
