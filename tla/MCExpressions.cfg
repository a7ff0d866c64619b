SPECIFICATION Spec
CONSTANTS
  Executables <- MCExecutables
  Programs <- ExpressionPrograms
  Values = {0, 1}
  MaxTape = 8
  Junk = Junk
INVARIANTS
  MeaningPreserved
CHECK_DEADLOCK FALSE
