\* One conductor, one job whose worker hangs: is the job retried?
SPECIFICATION FairSpec
CONSTANTS
    c1 = c1
    c2 = c2
    None = None
    Conductor = {c1}
    NIterations = 1
    NPhases = 1
    Lease = 1
    Grace = 0
    Stall = 0
    MaxCrashes = 0
PROPERTY OrphansAreRetried
\* A halted run really stops.
CHECK_DEADLOCK FALSE
