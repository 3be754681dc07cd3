\* Exports every 4 and recovery states every 2 of 13 steps: the 2:1 of configs/areal.yaml.
CONSTANTS
  LastStep = 12
  ExportEvery = 4
  RecoverEvery = 2
  Keep = 1
  MaxCrashes = 3
SPECIFICATION Spec
INVARIANT FinishedWithLastExport
PROPERTIES StepLeavesNewest RemovesOnlySuperseded TrainingEnds
