SPECIFICATION Spec
CONSTANTS
    Null = Null
    MaxSpineDays = 100
    MonthLengths <- Winter
    FirstWeekday <- Thursday
    Instances <- Every
INVARIANTS
    RowsCountOnce
    TimesAreWhole
    FinalityHolds
CHECK_DEADLOCK FALSE
