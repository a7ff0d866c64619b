SPECIFICATION Spec
CONSTANTS
  Executables <- MCExecutables
  Programs <- AllPrograms
  Values = {0, 1}
  MaxTape = 6
  Junk = Junk
INVARIANTS
  TypeOK
  MeaningPreserved
  StatementsBalanced
  ReturnsBalanced
  AssemblyLinks
  SavedRegistersIntact
  CodeVerified
  StoresSpareFrames
PROPERTIES
  Terminates
CHECK_DEADLOCK FALSE
