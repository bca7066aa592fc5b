SPECIFICATION Spec
CONSTANTS
    Size = 7
    AutoSize = 2
    RecMinSize = 1
    RecSizes = {2}
    RangeSize = 1
    ChkptMayFail = TRUE
    MaxBytes = 4
    MaxChkpt = 2
INVARIANTS SwitchAssert
CHECK_DEADLOCK FALSE
