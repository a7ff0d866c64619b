SPECIFICATION Spec
CONSTANTS
  Names = {x}
  FuncNames = {f}
  Types = {"void", "struct"}
  Void = "void"
  SizeOf <- MCSmallSizeOf
  Expressions <- MCNumbers
  NoVar = NoVar
  NoDecl = NoDecl
  MaxScopeId = 3
  MaxLabels = 1
  MaxDepth = 2
  MaxGlobals = 0
  MaxFuncs = 1
CHECK_DEADLOCK FALSE
INVARIANT ParametersNotRedeclared
