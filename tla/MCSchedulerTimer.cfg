CONSTANTS
  MaxThreads = 3
  v1 = v1
  Values <- MCValues
  NULL = NULL
SPECIFICATION CallingSpec
PROPERTY NoStarvation
