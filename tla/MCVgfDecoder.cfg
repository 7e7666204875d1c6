CONSTANTS
  U64Max = 255
  SizeMax = 199
  FileSizes = {127, 128, 199}
  Versions <- SomeVersions
  TableRanges <- SomeTableRanges
  ConstantRanges <- SomeConstantRanges
  Records <- SomeRecords
  Counts = {0, 1, 2, 3, 11, 255}
  LegacyConstants <- SomeLegacyConstants
  MaxEntries = 2
SPECIFICATION Spec
INVARIANTS
  TypeOK
  ViewsInFile
  CountedAreServed
  CheckedIsMapped
CHECK_DEADLOCK FALSE
