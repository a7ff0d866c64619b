SPECIFICATION Spec
CONSTANTS
  Names = {x}
  FuncNames = {f}
  Types = {"void", "int", "struct"}
  Void = "void"
  SizeOf <- MCScopeSizeOf
  Expressions <- MCNumbers
  NoVar = NoVar
  NoDecl = NoDecl
  MaxScopeId = 4
  MaxLabels = 1
  MaxDepth = 3
  MaxGlobals = 0
  MaxFuncs = 1
INVARIANTS
  LookupFindsVisible
PROPERTIES
  ImplementsScoping
CHECK_DEADLOCK FALSE
