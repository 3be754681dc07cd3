\* One episode, two attempts of two sessions, reward steps from the model version.
CONSTANTS
  e1 = e1  r1 = r1  r2 = r2  r3 = r3  r4 = r4
  NoState = NoState
  Episode <- OneEpisode
  Run <- FourRuns
  Key <- Attempts
  KeyOf <- TwoAttempts
  GroupSize = 2
  Dynamic = TRUE
  UseProxyVersion = TRUE
  MaxVersion = 1
  MaxAttempt = 1
SPECIFICATION FairSamplingSpec
INVARIANTS BatchIsOneRewardedGroup OnlyRejectedAreResampled FinishedAttemptsLeaveNothing
PROPERTY AttemptEnds
