SPECIFICATION Spec
CONSTANTS
    src1 = src1
    bnd = bnd
    asr = asr
    Sources = {src1}
    Bindings = {bnd}
    Assertions = {asr}
    BoundTo <- MCBoundTo
    Needs <- MCNeeds
    MinConfidence = 9
    MaxProvenance = "inferred"
    Projects <- Three
INVARIANTS
    ProtectedNeverProposed
    EveryWriteWasProposed
    RunsAreWellFormed
    NoSilentWinner
PROPERTIES
    IngestIsQuiet
CHECK_DEADLOCK FALSE
