SPECIFICATION Spec
CONSTANTS
    r1 = r1
    r2 = r2
    v1 = v1
    v2 = v2
    broken = broken
    None = None
    Requests = {r1, r2}
    Good = {v1, v2}
    Bad = {broken}
    MaxEdits = 2
    MaxAnswers = 2
INVARIANTS
    ServiceIsSound
PROPERTIES
    Snapshots
SYMMETRY Sym
CHECK_DEADLOCK FALSE
