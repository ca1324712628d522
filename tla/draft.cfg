SPECIFICATION DraftingSpec
CONSTANTS
    None = None
    Conns = {"w", "d"}
    Relations = {"orders", "customers", "stores"}
    Columns = {"id", "cust_id", "buyer_id", "amt", "day", "name"}
    TypeOf <- Type
    Stem <- Stems
    TotalOf <- Totals
    Projects <- Small
    Grains = {{}, {"id"}, {"ghost"}}
    JoinGuesses <- Guesses
    MaxGuesses = 2
    MaxRetries = 2
INVARIANTS
    DraftsAreGrounded
    SelfAppliedIsDeclared
PROPERTIES
    IngestEnds
CHECK_DEADLOCK FALSE
