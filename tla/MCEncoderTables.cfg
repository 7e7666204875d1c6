CONSTANTS
  U64Max = 63
  SizeMax = 63
  U32Max = 15
  Int32Min <- MinusEight
  Int32Max = 7
  Sparsities <- NotSparse
  Resources = {0, 1}
  DataSizes = {40}
  ModuleTypes = {"GRAPH"}
  ModuleCodes <- SomeCodes
  Categories = {"INPUT", "INTERMEDIATE", "CONSTANT"}
  AliasGroups = {0, 1}
  SamplerConfigs = {"linear", "nearest"}
  SetIndices = {1, 15}
  PushConstRanges = {"range"}
  Names = {"a", "b"}
  MaxModules = 1
  MaxResources = 3
  MaxSlots = 1
  MaxSets = 1
  MaxPushConstRanges = 1
  MaxSegments = 1
  MaxIO = 3
  MaxRefs = 2
  MaxConstants = 2
SPECIFICATION Spec
CONSTRAINT Regions
CHECK_DEADLOCK FALSE
INVARIANTS
  TypeOK
  ReferencesValid
  NamesNeverMisattached
  AllNamedAllRead
PROPERTY AliasGroupSettled
