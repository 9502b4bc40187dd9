SPECIFICATION ListSpec
CONSTANTS
  Nodes <- MCNodes
  Nowhere = Nowhere
  Lists = {1, 2}
  Values = {10, 11, 20}
  Null = Null
  Gone = Gone
  Counters = 3
  MaxLeaks = 4
  Scopes <- MCScopes
VIEW Memory
INVARIANTS
  RingsIntact
PROPERTIES
  ImplementsValueLists
CHECK_DEADLOCK FALSE
