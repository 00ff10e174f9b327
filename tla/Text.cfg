CONSTANTS
  Parts = {"matcher", "strings", "search"}
  Patterns <- MCPatterns
  Compiled <- MCCompiled
  Texts <- MCTexts
  StackWords = 60
  StringInitials <- MCStringInitials
  StringConstants <- MCStringConstants
  StringIndices <- MCStringIndices
  CacheSize = 2
  MinLen = 5
  MaxUnits = 4
  MaxCalls = 3
  SearchPatterns <- MCSearchPatterns
  SearchTexts <- MCSearchTexts
  Needles <- MCNeedles
  Replacements <- MCReplacements
  Limits <- MCLimits
  SearchIndices <- MCSearchIndices
SPECIFICATION SpecAll
INVARIANTS TypesOK FindsAsWritten CacheIsRight
PROPERTIES AnswersInUnits
CHECK_DEADLOCK FALSE
