SPECIFICATION Spec
CONSTANTS
  Keys = {k1}
  Lists = {}
  Exps = {FALSE}
  Commands = {"set"}
  MaxTime = 2
  MaxUpdates = 1
  MaxBuf = 1
  MaxCrashes = 0
  IntMod = 10
  FirstTime = 21
  UnlinkFails = TRUE
INVARIANT LastCheckpointKept
CHECK_DEADLOCK FALSE
