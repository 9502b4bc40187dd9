SPECIFICATION Spec
CONSTANTS
  b1 = b1
  b2 = b2
  b3 = b3
  Blocks = {b1, b2, b3}
  NoNode = NoNode
  Alignment = 2
  Header = 4
  StartSize = 4
  StandardSize = 6
  CreateSizes = {0, 1}
  Sizes = {1, 4, 7}
  MaxPieces = 5
  MaxBlindCalls = 1
SYMMETRY Symmetry
INVARIANTS
  SizeCoversBlock
CHECK_DEADLOCK FALSE
