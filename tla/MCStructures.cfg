SPECIFICATION MCSpec
CONSTANTS
    k1 = k1
    k2 = k2
    k3 = k3
    s2 = s2
    c1 = c1
    Keys = {k1, k2, k3}
    Hash <- MCHash
    Colls = {k1, k3}
    HashSize = 2
    MaxRootPower = 2
    LoadNum = 1
    LoadDen = 2
    MoveTables = 1
    Scans = {s1, s2}
    ArraySize = 2
    Cursors = {c1}
    ReqCount = 1
    ItemCount = 4
    MaxCount = 9
INVARIANTS ScanExact FindsEveryItem VisitedExact CursorExact TreeConsistent TreeExact
PROPERTIES ScanEnds
