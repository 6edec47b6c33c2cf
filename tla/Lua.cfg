SPECIFICATION Spec
CONSTANTS
  MaxRegs = 255
  MaxIndexRK = 2
  MaxArgBx = 3
  MaxArgC = 1
  FieldsPerFlush = 2
  Half = 16
  MaxVars = 200
  MaxUpval = 255
  StackSize = 40
  Sources <- Tokens
  Stripped <- Fifths
  MaxSize = 4
INVARIANTS
  AssertsHold
  StackKept
PROPERTY RunsAsWritten

