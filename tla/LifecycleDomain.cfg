SPECIFICATION Spec
CONSTANTS
    None = None
    f1 = f1
    f2 = f2
    v1 = v1
    v2 = v2
    Qty = 2
    U64Max = 2
    FillIds = {f1, f2}
    Venues = {v1}
    Fills <- DomFills
    Pages <- DomPages
    Responses <- DomResponses
    Reports <- DomReports
    RestingClaims <- QtyResting
    TerminalClaims <- DomTerminal
INVARIANTS
    BooksBalance
    DomainByIdentity
    RebuildAgrees
