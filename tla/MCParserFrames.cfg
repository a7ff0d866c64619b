SPECIFICATION Spec
CONSTANTS
  Names = {x, y}
  FuncNames = {f}
  Types = {"void", "struct"}
  Void = "void"
  SizeOf <- MCSmallSizeOf
  Expressions <- MCIdentifiers
  NoVar = NoVar
  NoDecl = NoDecl
  MaxScopeId = 4
  MaxLabels = 0
  MaxDepth = 2
  MaxGlobals = 0
  MaxFuncs = 1
INVARIANTS
  TypeOK
  FramesDisjoint
  UsesResolve
CHECK_DEADLOCK FALSE
SYMMETRY MCNameSymmetry
