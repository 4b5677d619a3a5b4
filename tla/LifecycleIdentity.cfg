SPECIFICATION Spec
CONSTANTS
    None = None
    f1 = f1
    f2 = f2
    v1 = v1
    v2 = v2
    Qty = 2
    U64Max = 2
    FillIds = {f1, f2}
    Venues = {v1, v2}
    Fills <- IdFills
    Pages <- IdPages
    Responses <- IdResponses
    Reports <- IdReports
    RestingClaims <- IdResting
    TerminalClaims <- IdTerminal
INVARIANTS
    Ownership
    ReleaseEarned
    ClosedWithoutEvidence
    RebuildFailsOnlyHalted
PROPERTIES
    EvidenceMonotone
