\* As rollout: a reply of white space and nothing else.
CONSTANTS
  s1 = s1  s2 = s2
  a = a  b = b  narrator = narrator
  Sample <- TwoSamples
  Name <- ThreeNames
  Environment = narrator
  MaxRounds = 2
  MaxCharacters = 2
  MaxTurns = 2
  ContextLength = 10
  MaxNewTokens = 1
SPECIFICATION Spec
INVARIANT FailedSampleIsReported
