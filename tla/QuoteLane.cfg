SPECIFICATION Spec
CONSTANTS
    OrderIds = {1, 2, 3}
    Sizes = {1, 2}
    TradeSizes = {1, 2}
    PlaceLatencies = {0, 1}
    CancelLatencies = {0, 1}
    None = None
INVARIANTS
    InStep
    StoryWellFormed
    EndsAreTold
    FillsWithinQuote
PROPERTIES
    ImplementsContract
    RequestsFinish
