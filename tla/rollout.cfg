\* One group of two samples: up to two characters, two rounds, two given turns.
CONSTANTS
  s1 = s1  s2 = s2
  a = a  b = b  narrator = narrator
  Sample <- TwoSamples
  Name <- ThreeNames
  Environment = narrator
  MaxRounds = 2
  MaxCharacters = 2
  MaxTurns = 2
  ContextLength = 10
  MaxNewTokens = 1
SPECIFICATION Spec
INVARIANTS PromptShowsDialogue DialogueIsWhatWasSaid ReportsAreWhole RewardsReadDialogue
PROPERTY GroupEnds
