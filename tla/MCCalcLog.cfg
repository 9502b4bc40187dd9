SPECIFICATION CalcSpec
CONSTANTS
  SizeModulus = 2048
  Significand = 512
  Inputs <- MCInputs
  PrimeInputs = {}
  AlignInputs = {}
  Alignments = {}
  MaskModulus = 128
  FoldLengths = {}
INVARIANTS
  LogAsDocumented
