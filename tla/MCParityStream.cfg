SPECIFICATION MCLiveSpec
CONSTANTS
  NDisks = 2
  Plan <- MCPlan
  BufSize = 2
  Zero = Zero
  MaxFaults = 2
INVARIANTS TypeOK ParityComplete HashOfEveryFile NoFalseSkip StreamIsOneShot HeaderFaithful WholeOrError
PROPERTY Finishes
CHECK_DEADLOCK FALSE
