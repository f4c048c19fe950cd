CONSTANTS
  ChunkSize = 3
  PeekSize = 2
  MaxLength = 13
  Trees <- SmallTrees
  MaxDepth = 3
  ChanCap = 2
SPECIFICATION HandleFairSpec
INVARIANTS WindowsCovered HandledMeansScanned
PROPERTIES HandlerEnds
CHECK_DEADLOCK FALSE
