---------------------------- MODULE MCProxyGroup ----------------------------
(***************************************************************************)
(* Instances of ProxyGroup for TLC.                                        *)
(***************************************************************************)
EXTENDS ProxyGroup, TLC

CONSTANTS r1, r2, r3, r4, k1, k2

\* Two groups of two runs.
FourRuns   == {r1, r2, r3, r4}
TwoKeys    == {k1, k2}
TwoPerKey  == [r \in FourRuns |-> IF r \in {r1, r2} THEN k1 ELSE k2]

\* A key that is used once more than it has slots, and one that is used once.
ThreeAndOne == [r \in FourRuns |-> IF r \in {r1, r2, r3} THEN k1 ELSE k2]

\* Runs of one key are interchangeable.
PairSymmetry == Permutations({r1, r2}) \cup Permutations({r3, r4})
=============================================================================
