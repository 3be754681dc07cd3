\* Two keys, no resampling, the local schedule step: k1 is used by one run too
\* many, k2 by one run.  No timer need fire for a full group to end.
CONSTANTS
  r1 = r1  r2 = r2  r3 = r3  r4 = r4  k1 = k1  k2 = k2
  NoState = NoState
  Run <- FourRuns
  Key <- TwoKeys
  KeyOf <- ThreeAndOne
  GroupSize = 2
  Dynamic = FALSE
  UseProxyVersion = FALSE
  MaxVersion = 0
SPECIFICATION FairSpec
INVARIANTS IndInv RegisteredWhileLive
PROPERTIES NoRewardAfterFailure FullGroupEnds JoinedRunEnds
