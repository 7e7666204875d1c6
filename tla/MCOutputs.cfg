CONSTANTS
  U64Max = 255
  SizeMax = 255
  U32Max = 15
  HeaderLenMax = 30
  Int64Min <- Lowest
  BufferSize = 4
  EncoderPuts <- SomePuts
  MaxCalls = 3
  Runs <- SomeRuns
  JSONSize = 6
  CodeSize = 3
  HeaderSize = 2
SPECIFICATION ToolSpec
INVARIANTS
  UpdaterSuccessIsWhole
  ShortOnlyByBuffer
  RetryNeverWhole
  OwnInput
  FaultyInputKeepsOutput
  ScenarioConsistent
  SegmentsGetTheirShader
  CodeAsListed
  NumpyExact
PROPERTY CallEnds
CHECK_DEADLOCK FALSE
