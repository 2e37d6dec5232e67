\* fs_init alone: what becomes of the sample files (README, findings).
CONSTANTS
  MaxFiles = 6
  MaxBlocks = 8
  MaxChildren = 2
  MaxName = 11
  Texts <- AllTexts
  Paths <- OddPaths
  x = x
  y = y
  Chunks <- TwoChunks
  Contents <- Data
  InitCalls = 7
  DirNode = DirNode
SPECIFICATION TreeSpec
VIEW View
INVARIANT SamplesAreWritten
