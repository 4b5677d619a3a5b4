SPECIFICATION Spec
CONSTANTS
    None = None
    c1 = c1
    c2 = c2
    v1 = v1
    Qty = 2
    U64Max = 20
    FillIds = {f1}
    Venues = {v1}
    Cids = {c1, c2}
    ForeignRows = {}
    side_of <- AllBuy
    wire = v1
    first = c1
    Decreases = {}
    Amends = {3}
    Deliveries = {v1}
    MaxSeq = 5
    MaxGeneration = 2
    MaxVersion = 4
    MaxPos = 2
    MaxRounds = 1
INVARIANTS
    KnownIsTrue
    RolesMirrorRows
    RebuildIsMemory
    GapNeverReproved
CHECK_DEADLOCK FALSE
