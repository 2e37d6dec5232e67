\* mkdir of a path that ends in an empty name (README, findings).
CONSTANTS
  MaxFiles = 6
  MaxBlocks = 8
  MaxChildren = 2
  MaxName = 11
  Texts <- AllTexts
  Paths <- OddPaths
  x = x
  y = y
  Chunks <- TwoChunks
  Contents <- Data
  InitCalls = 0
  DirNode = DirNode
SPECIFICATION TreeSpec
VIEW View
INVARIANT NumFilesCounts
