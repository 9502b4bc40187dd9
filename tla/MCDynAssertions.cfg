SPECIFICATION DynSpec
CONSTANTS
  Arrays = {a1, a2}
  DataSize = 8
  ByteModulus = 4
  Fields <- MCFields
  OpenSizes = {1, 3, 8}
  Strings <- MCStrings
  Unset = Unset
  MaxFields = 4
SYMMETRY MCSymmetry
INVARIANTS
  DynAssertionsHold
CHECK_DEADLOCK FALSE
