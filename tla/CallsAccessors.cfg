SPECIFICATION SpecAll
CONSTANTS
  Parts = {"opcodes"}
  Programs <- MCPrograms
  Code <- MCCode
  Meanings <- MCMeanings
  Deterministic = FALSE
  OnStack = 2
  MaxCalls = 3
  Closures = {"f", "g"}
  ParameterCount <- MCParameterCount
  Accessors = {"closure", "bound"}
  MaxDepth = 2
  CompilerPrograms <- MCCompilerPrograms
  CompilerDamages <- MCCompilerDamages
CHECK_DEADLOCK FALSE
INVARIANTS OpcodesLand
