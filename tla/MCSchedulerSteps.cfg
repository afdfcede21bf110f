CONSTANTS
  MaxThreads = 3
  v1 = v1
  Values <- MCValues
  NULL = NULL
  TickPoints <- MCSafe
SPECIFICATION StepSpec
INVARIANT JoinTargetCanComplete
PROPERTY ImplementsAtomic
