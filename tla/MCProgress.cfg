SPECIFICATION MCSpec
CONSTANTS
  NumThreads = 2
  Conns = {c1, c2}
  Admins = {c2}
  Notifiers = {e1}
  MaxConns = 1
  AdminConns = 1
  Second = 1
  Delays = {0, 2}
  MaxCommands = 1
  MaxAccepts = 3
  None = None
  Keys = {k1}
  Lists = {}
  Exps = {FALSE}
  Commands = {"set"}
  MaxTime = 2
  MaxUpdates = 1
  MaxBuf = 2
  MaxCrashes = 1
  IntMod = 10
  FirstTime = 21
  UnlinkFails = TRUE
INVARIANTS WakeupsKept ConnsAccounted FilesRemembered
PROPERTIES ThreadsProgress CheckpointEnds
CHECK_DEADLOCK FALSE
