SPECIFICATION Spec
CONSTANTS
  RollSize = 2
  BatchMax = 3
  LastDay = 1
  MaxRestarts = 0
  MaxBytes = 8
PROPERTIES
  FullFileClosed
