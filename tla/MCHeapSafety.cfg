SPECIFICATION Spec
CONSTANTS
  Blocks = {b1, b2, b3, b4}
  NoNode = NoNode
  Alignment = 2
  Header = 4
  StartSize = 4
  StandardSize = 6
  CreateSizes = {0, 1}
  Sizes = {0, 1, 4, 7}
  MaxPieces = 6
  MaxBlindCalls = 3
SYMMETRY Symmetry
INVARIANTS
  PiecesApart
  NewestOnTop
  ChainIsWhole
  NothingLeaks
  TopIsFound
CHECK_DEADLOCK FALSE
