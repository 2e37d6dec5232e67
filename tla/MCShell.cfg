\* Commands after fs_init's sample calls, with room for two more entries.
CONSTANTS
  MaxFiles = 7
  MaxBlocks = 7
  MaxChildren = 2
  MaxName = 11
  Texts <- AllTexts
  Paths <- NoPaths
  x = x
  y = y
  Chunks <- TwoChunks
  Contents <- OneChunkData
  InitCalls = 7
  MaxPath = 15
  Args <- FiveArgs
SPECIFICATION ShellSpec
VIEW View
SYMMETRY ChunksAlike
INVARIANTS
  BlocksHaveOneOwner
  PathsFit
  ParentsExist
PROPERTIES
  OthersKeepTheirData
  WrittenIsRead
