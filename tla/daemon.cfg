SPECIFICATION Spec
CONSTANTS
    c1 = c1
    c2 = c2
    p1 = p1
    p2 = p2
    p3 = p3
    Commands = {c1}
    Pids = {p1, p2, p3}
    NoPid = NoPid
    MaxVersion = 2
    MayInterrupt = TRUE
    MayForeground = TRUE
INVARIANTS
    OneFindableDaemon
CHECK_DEADLOCK FALSE
