\* Frames cut into reads in every possible way, one of them above the limit with bytes
\* after it that are read as headers, and memory running out.
CONSTANTS
  Header = 2
  MaxSize = 3
  Suggested = 4
  FrameCount <- MCCount
  At <- MCAt
  SizeAt <- MCSizeAt
  Parses <- MCParses
  MemoryFails = TRUE
SPECIFICATION FairSpec
INVARIANTS
  TypeOK
  InBounds
  BytesInOrder
  InStep
  SizeBounded
PROPERTIES
  ArrivedIsHandled
  DropsOnlyOversize
