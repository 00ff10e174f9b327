CONSTANTS
  Parts = {"json"}
  Kind <- MCKind
  Initials <- MCInitials
  Names <- MCNames
  Scalars <- MCScalars
  Replacements <- MCReplacements
  Foreign <- MCForeign
  MaxEdits = 2
  MaxGarbled = 24
  Objects = {1, 2, 3, 4, 5, 6, 7}
  Nil = 0
  ObjectPrototype = 1
  FunctionPrototype = 2
  Keys = {"p", "prototype"}
  Untouched = {1, 2}
  Worlds <- MCWorlds
  MaxSteps = 2
  MaxDepth = 2
  MaxCalls = 3
SPECIFICATION SpecAll
CHECK_DEADLOCK FALSE
INVARIANTS EqualityIsAgreed
