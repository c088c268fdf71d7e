SPECIFICATION Spec
CONSTANTS
    LifecycleIds = {l1, l2}
    ClientIds = {c1, c2}
    VenueIds = {v1, v2}
    Sizes = {1, 2}
    None = None
SYMMETRY IdSymmetry
INVARIANTS
    ClientIndexExact
    VenueIndexExact
    RecordsSound
PROPERTIES
    TerminalIsFinal
    CancelPendingOnlyEnds
    ImplementsContract
CHECK_DEADLOCK FALSE
