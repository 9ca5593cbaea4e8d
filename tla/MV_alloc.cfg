CONSTANTS
  Host = {h1, h2}
  Size = 12
  PageSize = 4
  Sizes = {4, 6}
  MultiSizes <- Several
  Alone = TRUE
SYMMETRY Symmetry
SPECIFICATION Spec
INVARIANTS
  HeapIntact
  NoFalseSharing
  Conserved
  RoomIsFound
CHECK_DEADLOCK FALSE
