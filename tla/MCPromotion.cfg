\* Two runs, one process each, a rollback, a stray edit.
SPECIFICATION Bounded
CONSTANTS
    p1 = p1
    p2 = p2
    r1 = r1
    r2 = r2
    v1 = v1
    v2 = v2
    v3 = v3
    None = None
    Promoter = {p1, p2}
    Run = {r1, r2}
    RunOf <- OneEach
    NIterations = 1
    Value = {v1, v2}
    Stray = {TRUE, FALSE}
    Lease = 1
    Stall = 1
    MaxCrashes = 1
    MaxEdits = 1
    MaxRollbacks = 1
SYMMETRY Values
INVARIANTS
    TypeOK
    OnePromoterUntilALeaseLapses
    DirtyBestIsDeclared
PROPERTY CommittedStays
