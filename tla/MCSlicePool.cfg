SPECIFICATION MCSpec
CONSTANTS
  s1 = s1
  s2 = s2
  s3 = s3
  Slices = {s1, s2, s3, s4}
  Workers = {w1, w2}
  QueueSize = 3
  NoJob = NoJob
  NoOne = NoOne
INVARIANTS NothingForgotten NoEarlyExit CancelStops OptionsAnywhere ReadyIsConsistent LinksRestored
INVARIANTS FilterSelects QuotedIsOneWord OwnersAgree AclKeepsRights JudgedByOwnSizes
PROPERTIES Implements Joins
CHECK_DEADLOCK FALSE
