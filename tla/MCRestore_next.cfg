SPECIFICATION MCLiveSpec
CONSTANTS
  NDisks = 2
  T = 2
  Plan <- MCPlan
  BufSize = 2
  CountBound = 4
  MaxFaults = 0
  MaxDamage = 1
PROPERTY Finishes
CHECK_DEADLOCK FALSE
