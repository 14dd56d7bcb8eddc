\* Two shells and two runs; launchd's conductor.
SPECIFICATION FewOverlaps
CONSTANTS
    s1 = s1
    s2 = s2
    r1 = r1
    r2 = r2
    p1 = p1
    AutoId = AutoId
    None = None
    Shell = {s1, s2}
    Run = {r1, r2}
    Pid = {p1}
    WorksFor <- AutoOnly
    MaxIndex = 2
    Lease = 1
    Stall = 1
INVARIANTS
    TypeOK
    IndexesHaveNoGaps
    OneRunUnlessUpsOverlap
PROPERTY DeadControllerIsReported
