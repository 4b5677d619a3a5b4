SPECIFICATION Spec
CONSTANTS
    None = None
    c1 = c1
    c2 = c2
    v1 = v1
    Qty = 2
    U64Max = 20
    FillIds = {f1}
    Venues = {v1}
    Cids = {c1}
    ForeignRows = {}
    side_of <- AllBuy
    wire = v1
    first = c1
    Decreases = {}
    Amends = {}
    Deliveries = {v1}
    MaxSeq = 6
    MaxGeneration = 4
    MaxVersion = 4
    MaxPos = 1
    MaxRounds = 1
PROPERTIES
    OldRoundKeepsHold
CHECK_DEADLOCK FALSE
