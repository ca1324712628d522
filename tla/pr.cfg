SPECIFICATION Spec
CONSTANTS
    i1 = i1
    i2 = i2
    s1 = s1
    t1 = t1
    t2 = t2
    Ingests = {i1, i2}
    Sessions = {s1}
    Targets = {t1, t2}
    NumProps = 2
    Target <- MCTarget
    Op <- MCOp
    Surface <- MCSurface
    MayCrash = TRUE
    MaxSecond = 2
    MaxSuffix = 2
INVARIANTS
    TypeOK
    AppliedBeforeRecorded
    ProtectionRecorded
    OneWriterPerRun
PROPERTIES
    TerminalIsFinal
    GcKeepsUnreviewed
CHECK_DEADLOCK FALSE
CONSTRAINT Overlap
SYMMETRY Sym
