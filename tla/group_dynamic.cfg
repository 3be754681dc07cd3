\* Two groups of two runs, resampling on, reward steps read from the model version.
CONSTANTS
  r1 = r1  r2 = r2  r3 = r3  r4 = r4  k1 = k1  k2 = k2
  NoState = NoState
  Run <- FourRuns
  Key <- TwoKeys
  KeyOf <- TwoPerKey
  GroupSize = 2
  Dynamic = TRUE
  UseProxyVersion = TRUE
  MaxVersion = 1
SPECIFICATION Spec
SYMMETRY PairSymmetry
INVARIANTS NoPartialGroup AgreedStep DecisionMatchesRuns
PROPERTY ImplementsBarrier
