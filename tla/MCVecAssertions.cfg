SPECIFICATION Spec
CONSTANTS
  Vectors = {v1}
  Blocks <- MCBlocks
  Values = {a, b}
  Null = Null
  Junk = Junk
  Gone = Gone
  SizeOfValue = 4
  MaxElements = 3
  MaxCapacity = 4
VIEW State
INVARIANTS
  AssertionsHold
CHECK_DEADLOCK FALSE
