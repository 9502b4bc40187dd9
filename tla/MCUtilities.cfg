SPECIFICATION FairSpec
CONSTANTS
  SizeModulus = 2048
  Significand = 512
  Inputs <- MCInputs
  PrimeInputs <- MCPrimeInputs
  AlignInputs <- MCAlignInputs
  Alignments <- MCAlignments
  MaskModulus = 128
  FoldLengths <- MCFoldLengths
  Half = 32
  NarrowHalf = 4
  Leftovers = {7}
  UsecPerSec = 5
  NsecPerUsec = 3
  Times <- MCTimes
  Delays <- MCDelays
  MaxAdds = 3
  n1 = n1
  n2 = n2
  n3 = n3
  n4 = n4
  n5 = n5
  Nodes = {n1, n2, n3, n4, n5}
  NoNode = NoNode
  Numbers = {0, 1, 2}
  MaxSize = 5
INVARIANTS
  AlignIsTight
  RoundedToPowers
  PrimeIsFound
  FoldsEveryByte
  OverflowIsExact
  DeadlineIsValid
  BothWaysTheSame
  SortIsRight
PROPERTIES
  CallsReturn
  ConversionIsExact
  ImplementsSequence
  SortsReturn
