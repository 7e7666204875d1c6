CONSTANTS
  U64Max = 1023
  SizeMax = 1023
  Resources = {0, 1}
  DataSizes = {1, 17, 1000}
  Sparsities <- SomeSparsities
  Int32Min <- MinusEight
  Int32Max = 7
  MaxConstants = 2
  TableSizes = {12, 16}
  MaxCalls = 2
SPECIFICATION Spec
INVARIANTS
  TypeOK
  PayloadTiled
  RefusedNeverWritten
  FileLaidOut
  TrueMeansWritten
  BlocksLostOnlyToStream
PROPERTIES
  WriteReturns
  StoresConstants
CHECK_DEADLOCK FALSE
