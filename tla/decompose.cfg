SPECIFICATION AttributionSpec
CONSTANTS
    Null = Null
    Requests <- Asked
    Warehouses <- AnyRows
    Loads <- Later
    Inputs <- LeafInputs
    Assertions <- Authored
    Verdicts = {"pass", "fail"}
    MaxBy = 2
    MonthLengths <- Quarter
    FirstWeekday <- Sunday
INVARIANTS
    PartsExplainTheChange
    TierIsEarned
CONSTRAINT Unanswered
CHECK_DEADLOCK FALSE
