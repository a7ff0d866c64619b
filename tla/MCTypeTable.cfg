SPECIFICATION Spec
CONSTANTS
  Tags = {A, B}
  EnumTags = {E}
  Aliases = {T}
  Names = {x, y}
  None = None
  Incomplete = Incomplete
  Scalars <- MCScalars
  MaxEntries = 4
  MaxMembers = 2
  MaxDepth = 3
INVARIANTS
  TypeOK
  OneObjectPerTag
  NoSelfContainment
  MembersDisjoint
  OneDefinition
PROPERTIES
  ImplementsTagSpace
CHECK_DEADLOCK FALSE
SYMMETRY MCSymmetry
