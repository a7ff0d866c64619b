SPECIFICATION Spec
CONSTANTS
  Executables <- MCExecutables
  Programs <- CompoundEffects
  Values = {0, 1}
  MaxTape = 8
  Junk = Junk
INVARIANTS
  MeaningPreserved
CHECK_DEADLOCK FALSE
