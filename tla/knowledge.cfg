SPECIFICATION Spec
CONSTANTS
    Null = Null
    Torn = Torn
    Everything = Everything
    Paths <- FourPaths
    Amount = Amount
    Entities = {Amount}
    Definitions = {1, 2}
    Contents <- WrittenPages
    Docs <- OneDoc
    Procs = {p, q}
    Models = {"m", "n"}
    Allows <- Roles
    RestampAfter = 2
    StalenessWindow = 4
    WikiLinks <- Links
    Libraries <- Starts
    Budgets <- Bounds
INVARIANTS
    CachesAreCurrent
    RunsSettle
    RetrievalIsComplete
SYMMETRY Processes
CHECK_DEADLOCK FALSE
