SPECIFICATION SpecAll
CONSTANTS
  Parts = {"script", "opcodes", "front"}
  Programs <- MCPrograms
  Code <- MCCode
  Meanings <- MCMeanings
  Deterministic = FALSE
  OnStack = 2
  MaxCalls = 3
  Closures = {"f", "g"}
  ParameterCount <- MCParameterCount
  Accessors = {"closure"}
  MaxDepth = 2
  CompilerPrograms <- MCCompilerPrograms
  CompilerDamages <- MCCompilerDamages
CHECK_DEADLOCK FALSE
INVARIANTS TypesOK CompiledRunsAsWritten FramesAreSound CallsLand 
PROPERTIES RunsEnd
