SPECIFICATION Spec
CONSTANTS
  Tables = {"old", "new"}
  Nodes <- MCNodes
  Keys <- MCKeys
  KeyOf <- MCKeyOf
  HashOf <- MCHashOf
  Sizes = {2, 3}
  Null = Null
  Invalid = Invalid
VIEW State
INVARIANTS
  ChainsIntact
PROPERTIES
  ImplementsKeyIndex
