SPECIFICATION Spec
CONSTANTS
  RollSize = 2
  BatchMax = 3
  LastDay = 3
  MaxRestarts = 1
  MaxBytes = 6
INVARIANTS
  WritesToOpenStream
  InNameOrder
  LeaksPerDay
  FirstFileBounded
