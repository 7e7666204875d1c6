\* A word of 7 bits whose size_t is narrower, so that every check can fail.
CONSTANTS
  U64Max = 127
  SizeMax = 95
  SectionSizes = {0, 3, 7}
  Alignments = {1, 2, 4, 8}
  MaxSections = 4
  HeaderLenMax = 30
  Arguments <- Ends
  Shapes <- SomeShapes
  ItemSizes = {1, 2, 8}
  TextLens = {0, 4, 5, 20, 21}
  FileSizes = {15, 16, 17, 33, 48, 112}
  DescriptorTypeNames <- Aliased
  FormatNames <- TwoAliased
  FilterNames <- Aliased
  AddressModeNames <- Aliased
  BorderColorNames <- Plain
SPECIFICATION HelpersSpec
INVARIANTS
  SectionsLaidOut
  ArithmeticExact
  GeneratedHelpersExact
  NumpyReadsBack
  ParsedInFile
PROPERTY OffsetsKept
CHECK_DEADLOCK FALSE
