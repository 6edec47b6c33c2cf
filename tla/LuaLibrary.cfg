SPECIFICATION Spec
CONSTANTS
  Values <- Numbers
  Nil = Nil
  Order <- Ordering
  MaxLen = 5
  Class <- Classes
  Inverted <- Complements
  Code <- Codes
  Numeral <- Numerals
  MAXCCALLS = 200
  LUA_MAXCAPTURES = 2
  Subjects <- AllSubjects
  Patterns <- AllPatterns
  Templates <- AllTemplates
  Inits <- AllInits
  Limits <- AllLimits
  Replies <- AllReplies
  NB = 1
  SZINT = 4
  MAXINTSIZE = 8
  MAXALIGN = 4
  MAXSIZE = 20
  Sizeof <- TypeSizes
  NativeLittle = TRUE
  Digit <- DigitNumbers
  Packs <- AllPacks
  Texts <- AllTexts
  CharCalls <- AllCharCalls
  Byte <- Bytes
  INTBITS = 16
  Chunks <- AllChunks
  MAXLINES = 6
INVARIANTS
  KeepsElements
  SortsInOrder
  PatternsAsDefined
  CharsAsDefined
  ScannedAsWritten
