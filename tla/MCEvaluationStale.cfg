\* The same: does a KEEP go with its score?
SPECIFICATION Spec
CONSTANTS
    a1 = a1
    a2 = a2
    a3 = a3
    c1 = c1
    c2 = c2
    good = good
    poor = poor
    broken = broken
    None = None
    Torn = Torn
    Candidate = {c1, c2}
    Attempt = {a1, a2}
    Content = {good, poor, broken}
    Good = {good}
    Broken = {broken}
SYMMETRY Attempts
INVARIANT KeepIsOfItsScore
