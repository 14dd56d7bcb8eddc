\* Two shells with three commands in all; the detector of the unit tests
\* (window 4, threshold 3, two states) shown five candidates.
SPECIFICATION Spec
CONSTANTS
    s1 = s1
    s2 = s2
    None = None
    Shell = {s1, s2}
    Field <- MCField
    Value <- MCValue
    Change <- MCChange
    Defaults <- MCDefaults
    MaxCommands = 3
    Parameter = {"a", "b"}
    Bucket = {1, 2}
    Candidate <- MCCandidate
    Window = 4
    PerParamThreshold = 3
    JointMaxUnique = 2
    MaxAttempts = 5
SYMMETRY Shells
INVARIANTS
    TypeOK
    OnlyUnseenChangesAreUndone
PROPERTIES
    FiresIffOscillating
    PolicySetIsPolicyObeyed
