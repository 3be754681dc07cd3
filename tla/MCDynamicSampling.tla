-------------------------- MODULE MCDynamicSampling --------------------------
(***************************************************************************)
(* Instances of DynamicSampling for TLC.                                   *)
(***************************************************************************)
EXTENDS DynamicSampling, TLC

CONSTANTS e1, r1, r2, r3, r4

OneEpisode == {e1}
Attempts   == OneEpisode \X (0 .. MaxAttempt)

\* Two sessions for each of two attempts.
FourRuns    == {r1, r2, r3, r4}
TwoAttempts == [r \in FourRuns |-> IF r \in {r1, r2} THEN <<e1, 0>> ELSE <<e1, 1>>]
=============================================================================
