SPECIFICATION MCSpec
CONSTANTS
    kv = kv
    pv = pv
    list = list
    prefix = prefix
    c1 = c1
    i1 = i1
    i2 = i2
    s1 = s1
    None = None
    Clients = {c1}
    Scanners = {s1}
    ItemIds = {i1, i2}
    KvKeys = {kv, pv}
    CollKeys = {list}
    PrefixNames = {prefix}
    PrefixOf <- MCPrefixOf
    NullPrefix = None
    Deltas <- MCDeltas
    Delays = {0, 2}
    Space = 3
    Levels = {0, 1}
    BgLevel = 1
    LowTries = 1
    CurTries = 1
    EvictTries = 2
    FgCount = 1
    BgCount = 1
    UpdateInterval = 0
    RefFull = 3
    RefMove = 2
    MaxElems = 2
    MaxScan = 1
    MaxLost = 1
    MaxTime = 4
INVARIANTS RefsAccounted LruExact MemoryExact FlushedGone
PROPERTY CollFreed
