SPECIFICATION MCLiveSpec
CONSTANTS
  NDisks = 2
  T = 2
  Plan <- MCPlan
  BufSize = 2
  CountBound = 4
  MaxFaults = 1
  MaxDamage = 1
INVARIANTS TypeOK Exact SavedAreCounted EveryFileCounted OnlyListedAreLost
PROPERTY EndsOrGivesUp
CHECK_DEADLOCK FALSE
