CONSTANTS
  U64Max = 63
  SizeMax = 63
  U32Max = 15
  Int32Min <- MinusEight
  Int32Max = 7
  Sparsities <- SomeSparsities
  Resources = {0, 1, 2, 3, 4}
  DataSizes = {8, 16, 40}
  ModuleTypes = {"GRAPH", "COMPUTE"}
  ModuleCodes <- Codes
  Categories = {"INPUT", "OUTPUT", "INTERMEDIATE", "CONSTANT"}
  AliasGroups = {0}
  SamplerConfigs = {"linear"}
  SetIndices = {0, 1, 15}
  PushConstRanges = {"r", "s"}
  Names = {"a", "b"}
  MaxModules = 2
  MaxResources = 4
  MaxSlots = 5
  MaxSets = 3
  MaxPushConstRanges = 2
  MaxSegments = 2
  MaxIO = 5
  MaxRefs = 5
  MaxConstants = 3
  OldFiles <- SomeOldFiles
SPECIFICATION UpdaterSpec
INVARIANTS
  FaultyNeverReplaces
  WrittenIsValid
  ModelKept
PROPERTY UpdateEnds
CHECK_DEADLOCK FALSE
