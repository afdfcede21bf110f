CONSTANTS
  MaxDisk = 192
SPECIFICATION Spec
CHECK_DEADLOCK FALSE
INVARIANTS
  RegionsFillDisk
  BitmapsCover
  InodesOutlastBlocks
