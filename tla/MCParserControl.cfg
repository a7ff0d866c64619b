SPECIFICATION Spec
CONSTANTS
  Names = {x}
  FuncNames = {f}
  Types = {"void"}
  Void = "void"
  SizeOf <- MCVoidSizeOf
  Expressions <- MCAllExpr
  NoVar = NoVar
  NoDecl = NoDecl
  MaxScopeId = 5
  MaxLabels = 3
  MaxDepth = 3
  MaxGlobals = 1
  MaxFuncs = 2
INVARIANTS
  LabelsUnique
  JumpsLand
  JumpsInnermost
  ScopesMirrorNesting
CHECK_DEADLOCK FALSE
