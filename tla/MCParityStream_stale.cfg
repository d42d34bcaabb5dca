SPECIFICATION FaultySpec
CONSTANTS
  NDisks = 2
  Plan <- MCPlan
  BufSize = 2
  Zero = Zero
  MaxFaults = 1
INVARIANT CleanParity
CHECK_DEADLOCK FALSE
