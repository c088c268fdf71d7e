SPECIFICATION Spec
CONSTANTS
    Tasks = {t1, t2}
    OrderIds = {v1, v2}
    Levels = {a}
    Size = 2
    MaxAttempts = 2
    MaxFailures = 2
    LostResponses = TRUE
    None = None
SYMMETRY Symmetry
INVARIANTS
    TypeOK
    NoOverbooking
    OneQuotePerLevel
PROPERTIES
    NothingAfterCancel
CHECK_DEADLOCK FALSE
