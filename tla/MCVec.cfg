SPECIFICATION Spec
CONSTANTS
  Vectors = {v1, v2}
  Blocks <- MCBlocks
  Values = {a, b}
  Null = Null
  Junk = Junk
  Gone = Gone
  SizeOfValue = 4
  MaxElements = 4
  MaxCapacity = 5
SYMMETRY MCSymmetry
VIEW State
INVARIANTS
  StorageOwned
PROPERTIES
  ImplementsValueArrays
CHECK_DEADLOCK FALSE
