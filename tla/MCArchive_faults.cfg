SPECIFICATION MCSpec
CONSTANTS
  f1 = f1
  Files = {f1, f2}
  NDisks = 2
  DiskOf <- MCDiskOf
  Vers = {v1, v2, v3}
  NoFile = NoFile
  Sids = {s1, s2}
  Threads = 2
  Modes = {"", "r", "f"}
  SigintAt <- AllPoints
  CrashAt <- AllPoints
  MaxEdits = 1
  MaxFaults = 1
INVARIANTS RowsMatchHeader OutdatedForReal SyncedAsScanned
PROPERTY ParityMatchesHeader
SYMMETRY Symm
