CONSTANTS
  MaxDiffSize = 9
  DiffCap = 1
  MaxCommits = 3
  MaxFiles = 2
  MaxHunks = 2
  MaxBody = 3
  MaxJunk = 1
  Sizes = {4, 7}
  MayCancel = TRUE
  Options <- DepthOrBase
  Excluded = {2}
  ChunkSize = 3
  PeekSize = 1
  MaxToken = 6
SPECIFICATION FairSpec
INVARIANTS DiffsAsLogged CommitsReported StopsWhereAsked ChunksCoverDiffs
CHECK_DEADLOCK FALSE
PROPERTIES ScanReturns
