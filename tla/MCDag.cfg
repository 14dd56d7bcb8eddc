\* Every list of three tasks with up to two dependencies each.
SPECIFICATION Spec
CONSTANTS
    t1 = t1
    t2 = t2
    t3 = t3
    Stranger = Stranger
    Task = {t1, t2, t3}
    MaxDeps = 2
INVARIANTS
    TypeOK
    CyclesAreFound
    NeverShort
    LayersAreEarliest
