SPECIFICATION Spec
CONSTANTS
  Inits = 2
  MaxRecords = 0
  MaxRolls = 2
INVARIANTS
  OneFilenameUser
