CONSTANTS
  MaxThreads = 3
  v1 = v1
  Values <- MCValues
  NULL = NULL
  TickPoints <- MCExit
SPECIFICATION StepSpec
INVARIANT JoinTargetCanComplete
