SPECIFICATION Spec
CONSTANTS
    None = None
    c1 = c1
    c2 = c2
    c3 = c3
    f1 = f1
    f2 = f2
    v1 = v1
    v2 = v2
    Qty = 2
    U64Max = 20
    FillIds = {f1, f2}
    Venues = {v1, v2}
    Cids = {c1, c2, c3}
    ForeignRows = {c3}
    Workers = {w1}
    MaxSeq = 5
    MaxGeneration = 4
    side_of <- AllBuy
    Inputs <- RecoveryInputs
INVARIANTS
    PositionExplained
    RebuildIsMemory
PROPERTIES
    EntriesKept
