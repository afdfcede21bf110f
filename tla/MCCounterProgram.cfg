CONSTANTS
  MaxThreads = 3
  MEMORYPAGES = 11
  TOTALPAGES <- MCTotalPages
  MaxPage <- MCMaxPage
  NULL = NULL
  NONE = NONE
  ITER = 2
  HalfOfPages = 5
  IntRange = 4
SPECIFICATION ProgramSpec
CHECK_DEADLOCK FALSE
INVARIANTS
  PagesIntact
  MasterTableExact
  RunsOnItsPages
  OthersProtected
  OwnerIsFound
  BlocksIntact
PROPERTIES
  LoopsTerminate
  CountIsPrinted
