SPECIFICATION MCSpec
CONSTANTS
  Size = 7
  AutoSize = 2
  RecMinSize = 1
  RecSizes = {2, 3}
  RangeSize = 2
  ChkptMayFail = TRUE
  MaxBytes = 9
  MaxChkpt = 2
  BodySizes = {2}
  Looks = {"incomplete", "complete", "corrupt"}
  Ranges = TRUE
  MaxOps = 3
  MaxCrashes = 2
INVARIANTS RingAsserts LsnIsFileOffset
PROPERTIES StreamSpec WriterGetsRoom SwitchHappens ReplayStable ReplayExact
CHECK_DEADLOCK FALSE
