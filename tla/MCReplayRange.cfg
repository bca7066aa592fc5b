SPECIFICATION Spec
CONSTANTS
  BodySizes = {1}
  Looks = {"incomplete"}
  Ranges = TRUE
  MaxOps = 3
  MaxCrashes = 2
INVARIANT ReplaySucceeds
CHECK_DEADLOCK FALSE
