SPECIFICATION MCSpec
CONSTANTS
    c1 = c1
    Clients = {c1, c2}
    AutoSize = 3
    RecSizes = {2}
    MaxBytes = 4
    MaxFiles = 2
INVARIANTS AckedStartDurable IInv
PROPERTIES WaiterReleased
CHECK_DEADLOCK FALSE
