\* Paths that find_entry reads whole; a table and a FAT that run out.
CONSTANTS
  MaxFiles = 4
  MaxBlocks = 5
  MaxChildren = 2
  MaxName = 11
  Texts <- AllTexts
  Paths <- WholePaths
  x = x
  y = y
  Chunks <- TwoChunks
  Contents <- Data
  DirNode = DirNode
  InitCalls = 0
SPECIFICATION TreeSpec
VIEW View
INVARIANTS
  TypeOK
  BlocksHaveOneOwner
  SlotsMatchParents
  StatsAddUp
  SizeMatchesChain
  EntriesAreReachable
PROPERTIES
  ImplementsTree
