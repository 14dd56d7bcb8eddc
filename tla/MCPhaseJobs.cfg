\* Two conductors in their ticks at once, one iteration of two phases.  A
\* conductor goes down where tick itself ends it; see MCPhaseJobsLive for
\* crashes elsewhere, and PhaseJobsProofs for any number of them.
SPECIFICATION Spec
CONSTANTS
    c1 = c1
    c2 = c2
    None = None
    Conductor = {c1, c2}
    NIterations = 1
    NPhases = 2
    Lease = 1
    Grace = 1
    Stall = 1
    MaxCrashes = 0
SYMMETRY Conductors
INVARIANTS
    TypeOK
    PromotionSeesWholeIteration
    OrphanedOnlyAfterGrace
    FewLateClaims
PROPERTY LifecycleKept
\* A halted run really stops.
CHECK_DEADLOCK FALSE
