SPECIFICATION Spec
CONSTANTS
    Tasks = {t1, t2}
    OrderIds = {v1, v2}
    Levels = {a}
    Size = 1
    MaxAttempts = 1
    MaxFailures = 2
    LostResponses = FALSE
    None = None
PROPERTIES
    FillsReachPosition
    CancelsReachPending
CHECK_DEADLOCK FALSE
