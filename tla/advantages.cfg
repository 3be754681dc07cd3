\* Groups of one to three trajectories, weights on a ramp of three steps.  One
\* group is followed to its row: the system stops there.
CONSTANTS
  a = a  b = b
  Invalid = Invalid
  Groups <- SomeGroups
  Character <- Cast
  LastStep = 5
  StartStep = 1
  EndStep = 4
  StartWeights <- RampStart
  EndWeights <- RampEnd
  MinGroupSize = 2
  BadReward = 10
  GoodReward = 18
  BadDensity <- ThreeFifths
  BadToGood = 2
  MinBad = 3
  Shapes <- SomeShapes
  Width = 4
SPECIFICATION Spec
INVARIANTS PathsAgree BadTrajectoryTrains LossSeesAdvantages WeightsOnRamp
CHECK_DEADLOCK FALSE
