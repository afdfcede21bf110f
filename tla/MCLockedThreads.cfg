CONSTANTS
  MaxThreads = 3
  Values = {}
  NULL = NULL
  Clients <- MCClients
  IntRange = 4
SPECIFICATION FairProgram
INVARIANTS
  MutualExclusion
  TicketInvariant
PROPERTIES
  LockIsGranted
  ImplementsFifoLock
