\* Two epochs of up to eight records, a checkpoint every three steps, two crashes.
CONSTANTS
  small = small  big = big  first = first  second = second
  Absent = Absent
  Setups <- AllSetups
  SaveEvery = 3
  MaxCrashes = 2
SPECIFICATION Spec
INVARIANTS StepsInOrder TrainerFits CurriculumMixes
