\* Three processes of two runs.
SPECIFICATION FairSpec
CONSTANTS
    c1 = c1
    c2 = c2
    c3 = c3
    r1 = r1
    r2 = r2
    None = None
    Conductor = {c1, c2, c3}
    Run = {r1, r2}
    RunOf <- TwoRuns
    Lease = 3
    Stall = 2
    MaxCrashes = 2
INVARIANTS
    TypeOK
    OneRunUntilALeaseLapses
PROPERTY TicksGoOn
