CONSTANTS
  U64Max = 1023
  SizeMax = 1023
  Resources = {0}
  DataSizes = {9}
  Sparsities <- SomeSparsities
  Int32Min <- MinusEight
  Int32Max = 7
  MaxConstants = 2
  TableSizes = {12}
  MaxCalls = 2
SPECIFICATION Spec
INVARIANT TrueMeansStreamGood
CHECK_DEADLOCK FALSE
