SPECIFICATION Spec
CONSTANTS
    None = None
    c1 = c1
    c2 = c2
    v1 = v1
    Qty = 2
    U64Max = 20
    FillIds = {f1, f2}
    Venues = {v1}
    Cids = {c1}
    ForeignRows = {}
    side_of <- AllBuy
    wire = v1
    first = c1
    Decreases = {1}
    Amends = {}
    Deliveries = {v1, None}
    MaxSeq = 6
    MaxGeneration = 4
    MaxVersion = 4
    MaxPos = 0
    MaxRounds = 2
INVARIANTS
    SettledIsComplete
    HeldIsInventory
    ReadyIsAudited
PROPERTIES
    WireKept
CHECK_DEADLOCK FALSE
