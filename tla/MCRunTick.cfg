CONSTANTS
    NoUri = NoUri
    NoVerdict = NoVerdict
    p1 = p1
    p2 = p2
    p3 = p3
    p4 = p4
    w1 = w1
    w2 = w2
    Ticks = {p1, p2, p3, p4}
    Runs = {w1, w2}
    RunOf <- MCRunOf
    Passes <- MCPasses
    Parts = 2
    MaxAttempts = 2
    MaxFaults = 1
    Cap = 2
SPECIFICATION FairSpec
INVARIANTS
    TypeOK
    VetoLeavesNothing
    CompleteIsWhole
    StoredVerdictIsTrue
    EveryClaimCounted
    ReportsAreTrue
PROPERTIES
    CompleteIsFinal
    ClaimsAreAtomic
    EveryRunSettles
