SPECIFICATION Spec
CONSTANTS
  ListIds = {l1, l2}
  Elems = {x, y}
  Junk = Junk
  NULL = NULL
  Idle = Idle
  FirstCap <- MCFirstCap
  MaxLen <- MCMaxLen
INVARIANTS
  TypeOK
  ArraysHoldElements
PROPERTIES
  ImplementsCollections
CHECK_DEADLOCK FALSE
