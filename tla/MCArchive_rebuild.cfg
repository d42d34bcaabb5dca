SPECIFICATION MCSpec
CONSTANTS
  f1 = f1
  Files = {f1, f2}
  NDisks = 2
  DiskOf <- MCDiskOf
  Vers = {v1, v2}
  NoFile = NoFile
  Sids = {s1, s2}
  Threads = 1
  Modes = {"", "r"}
  SigintAt <- CrashPoints
  CrashAt <- SafePoints
  MaxEdits = 1
  MaxFaults = 1
INVARIANT KnownSlices
SYMMETRY Symm
