SPECIFICATION Spec
CONSTANTS
    None = None
    f1 = f1
    f2 = f2
    v1 = v1
    v2 = v2
    Qty = 2
    U64Max = 2
    FillIds = {f1, f2}
    Venues = {v1}
    Fills <- QtyFills
    Pages <- QtyPages
    Responses <- QtyResponses
    Reports <- QtyReports
    RestingClaims <- QtyResting
    TerminalClaims <- QtyTerminal
INVARIANTS
    TypeOK
    EvidenceBounded
    StateMirrorsCtx
    HoldAgrees
    WaitingIsDriven
PROPERTIES
    CancelNeverReleases
    FrozenStaysFrozen
