SPECIFICATION MCLiveSpec
CONSTANTS
  f1 = f1
  Files = {f1, f2}
  NDisks = 2
  DiskOf <- MCDiskOf
  Vers = {v1, v2}
  NoFile = NoFile
  Sids = {s1, s2}
  Threads = 2
  Modes = {"", "r"}
  SigintAt <- SafePoints
  CrashAt <- CrashPoints
  MaxEdits = 1
  MaxFaults = 2
INVARIANTS KnownSlices OneSlicePerFile
PROPERTY EventuallyProtected
