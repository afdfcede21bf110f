CONSTANTS
  a = a
  b = b
  SLASH = SLASH
  Paths <- MCPaths
  HomeName <- MCHome
  UserName <- MCUser
  dataregion_blocks_start = 3
  dataregion_blocks = 6
  total_inodes = 9
  DirectPtrs = 3
  INODES_PER_BLOCK = 2
  RestartBlocks = 5
SPECIFICATION Spec
CHECK_DEADLOCK FALSE
INVARIANTS
  DirectoriesFormTree
  BlocksMatchPointers
  CreatedIsFound
PROPERTIES
  LookupsAreStable
