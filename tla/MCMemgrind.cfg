CONSTANTS
  MEMSIZE = 48
  Sizes <- MCSizes
  Junk <- MCJunk
  MAX = 4
  RandSizes <- MCRandSizes
SPECIFICATION MemgrindSpec
INVARIANTS
  BoundaryTags
  Coalesced
  UsedIsLive
  LiveDataIntact
  GrindRestoresHeap
PROPERTIES
  NullMeansNoFit
  SearchTerminates
  ImplementsFirstFit
