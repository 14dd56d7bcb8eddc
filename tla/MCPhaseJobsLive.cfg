\* One conductor that may crash, two jobs that compete for its ticks.
SPECIFICATION FairSpec
CONSTANTS
    c1 = c1
    c2 = c2
    None = None
    Conductor = {c1}
    NIterations = 2
    NPhases = 1
    Lease = 1
    Grace = 0
    Stall = 0
    MaxCrashes = 1
PROPERTY EveryJobEnds
\* A halted run really stops.
CHECK_DEADLOCK FALSE
