CONSTANTS
  MaxThreads = 3
  v1 = v1
  Values <- MCValues
  NULL = NULL
SPECIFICATION FairSpec
INVARIANTS
  TypeOK
  NoLostThreads
  RunningIsFront
  ContextsIntact
  ExitCompletesCaller
  JoinTargetIsLive
  JoinPassesBack
PROPERTIES
  CompletionIsFinal
  DemotionIsPermanent
  NoStarvation
  JoinReturns
