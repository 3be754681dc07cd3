\* One group of two trajectories, two characters, one round; rows of four tokens.
CONSTANTS
  alice = alice  bob = bob
  Declared <- TwoCharacters
  GroupSize = 2
  MaxRounds = 1
  Width = 4
  ContextLength = 3
  MaxNewTokens = 2
  NaN = 77
  Token <- EightTokens
  ActorFault <- FiveFaults
SPECIFICATION Spec
INVARIANTS AuditIsExact RecordsNameSpeakers ExitTellsOutcome
