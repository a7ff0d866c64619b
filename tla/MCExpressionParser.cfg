SPECIFICATION Spec
CONSTANTS
  Variables = {"a"}
  Functions = {"f"}
  Numbers = {"1"}
  Strings = {"s"}
  TypeNames = {"int"}
  Inputs <- MCInputs
  Trees <- MCTrees
  None = None
INVARIANTS
  ReadsAsWritten
  AcceptsOnlyC
CHECK_DEADLOCK FALSE
