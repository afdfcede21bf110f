CONSTANTS
  MaxThreads = 3
  MEMORYPAGES = 9
  TOTALPAGES <- MCTotalPages
  MaxPage <- MCMaxPage
  NULL = NULL
  NONE = NONE
SPECIFICATION FairSpec
CHECK_DEADLOCK FALSE
INVARIANTS
  OneOwner
