SPECIFICATION Spec
CONSTANTS
  Chars = {1, 2, 3}
  MaxRules = 3
  MaxBehind = 2
  MaxOff = 1
  MaxSize = 2
  Hook <- MCHook
  Patterns <- MCPatterns
  Grammars <- MCGrammars
  Around <- MCAround
  Subjects <- MCSubjects
INVARIANTS AnalysisConservative
PROPERTIES
  MatchesAsSpecified
  Terminates
CHECK_DEADLOCK FALSE
