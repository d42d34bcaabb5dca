SPECIFICATION FaultySpec
CONSTANTS
  NDisks = 2
  Plan <- MCPlan
  BufSize = 2
  Zero = Zero
  MaxFaults = 1
INVARIANT NoRequestLeft
CHECK_DEADLOCK FALSE
