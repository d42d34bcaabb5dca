SPECIFICATION MCSpec
CONSTANTS
  NDisks = 3
  MaxFiles = 3
  Tolerance = 1
  SameSize = 2
  SoloBytes = 30
  Values = {7, 14, 26}
  MaxPerDisk = 3
  MaxSolo = 6
INVARIANT FilesLimit
INVARIANT FatalForEmptyOnly
PROPERTY MarkedWithSlice
PROPERTY AllPlanned
PROPERTY FilledToLargest
PROPERTY Finishes
CHECK_DEADLOCK FALSE
