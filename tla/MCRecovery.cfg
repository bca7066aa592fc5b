SPECIFICATION MCSpec
CONSTANTS
  Keys = {k1, k2}
  Lists = {k1}
  Exps = {TRUE}
  Commands = {"set", "delete", "insert", "pop", "flush"}
  MaxTime = 2
  MaxUpdates = 3
  MaxBuf = 2
  MaxCrashes = 1
  IntMod = 10
  FirstTime = 21
  UnlinkFails = FALSE
INVARIANTS RecoveredCurrent FilesAgree
CHECK_DEADLOCK FALSE
