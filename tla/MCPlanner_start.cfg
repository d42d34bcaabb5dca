SPECIFICATION ExampleSpec
CONSTANTS
  NDisks = 3
  MaxFiles = 1000
  Tolerance = 1
  SameSize = 64
  SoloBytes = 2000000000
  Values = {1}
  MaxPerDisk = 0
  MaxSolo = 0
INVARIANT StartIsOffset
CHECK_DEADLOCK FALSE
