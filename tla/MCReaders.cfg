CONSTANTS
  U32Max = 15
  RelaySizeMax = 63
  BufferSizes = {0, 3, 4, 15, 16}
  Texts = {"", "a"}
  DescriptorTypes = {"tensor", "buffer"}
  Formats = {"r8"}
  Shapes <- SomeShapes
  SamplerConfigs = {"linear"}
  AliasGroups = {0, 1}
  SlotLists <- SomeSlotLists
  SetIndices = {0, 3}
  IndexLists <- SomeIndexLists
  DispatchShapes <- SomeDispatchShapes
  PushConstRangeLists <- SomeRanges
  MaxSets = 2
  RawSizes = {0, 8}
  Modules <- Module
  Entries <- ModelResourceTableEntry
  Segments <- SomeSegments
  Sequences <- ModelSequence
  Constants <- ConstantData
SPECIFICATION RelaySpec
CHECK_DEADLOCK FALSE
INVARIANTS
  MeaningKept
  ApisAgree
  CopyReadsClean
