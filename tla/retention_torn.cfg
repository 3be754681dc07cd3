\* A crash during an export leaves a directory that the next prune takes for the newest export.
CONSTANTS
  LastStep = 12
  ExportEvery = 4
  RecoverEvery = 2
  Keep = 1
  MaxCrashes = 3
SPECIFICATION Spec
PROPERTY NewestWholeBeforeRemoval
