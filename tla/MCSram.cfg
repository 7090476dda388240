SPECIFICATION Spec
CONSTANTS
  Base = 4
  Length = 17
  Count = 4
  Requests = {0, 1, 4, 7, 9}
  SizeMod = 64
INVARIANTS
  Tiling
  Coalesced
  FreeFindsPiece
PROPERTY ImplementsAbstract
