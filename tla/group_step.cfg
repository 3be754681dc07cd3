\* A group is refused a run because another group was scored between two joins.
CONSTANTS
  r1 = r1  r2 = r2  r3 = r3  r4 = r4  k1 = k1  k2 = k2
  NoState = NoState
  Run <- FourRuns
  Key <- TwoKeys
  KeyOf <- TwoPerKey
  GroupSize = 2
  Dynamic = FALSE
  UseProxyVersion = FALSE
  MaxVersion = 0
SPECIFICATION Spec
PROPERTY RefusedOnlyAcrossVersions
