SPECIFICATION Spec
CONSTANTS
    NoRole = NoRole
    NoPolicy = NoPolicy
    Star = Star
    NoRange = NoRange
    NoMetric = NoMetric
    NoContext = NoContext
    Order <- OrderList
    Requests <- AllRequests
INVARIANTS
    AcceptedNamesBind
    ScansAreScoped
    LeavesKeepTheirRows
CHECK_DEADLOCK FALSE
