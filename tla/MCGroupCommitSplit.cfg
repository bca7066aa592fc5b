SPECIFICATION Spec
CONSTANTS
    Clients = {c1, c2}
    AutoSize = 3
    RecSizes = {2}
    MaxBytes = 4
    MaxFiles = 1
INVARIANTS AckedDurable
CHECK_DEADLOCK FALSE
