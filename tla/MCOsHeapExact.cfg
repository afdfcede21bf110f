CONSTANTS
  MEMSIZE = 48
  Sizes <- MCSizes
  Junk <- MCJunk
SPECIFICATION OsSpec
PROPERTIES
  NullMeansNoFit
