SPECIFICATION Spec
CONSTANTS
    w1 = w1
    w2 = w2
    b1 = b1
    b2 = b2
    Nobody = Nobody
    Writers = {w1, w2}
    Daemons = {w1}
    MaxBytes <- MCMaxBytes
    Compress <- MCCompress
    MaxSegments = 1
    RetentionDays = TRUE
    Settings <- MCSettings
    Bindings = {b1, b2}
INVARIANTS
    LogKeepsEvents
    ReaderMissesOnlyMoved
    MarksFollowLastAnswer
PROPERTIES
    LogMovesOn
CHECK_DEADLOCK FALSE
