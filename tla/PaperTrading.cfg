SPECIFICATION Spec
CONSTANTS
    Orders = {1, 2}
    Size = 3
    TradeSizes = {1, 2}
    Quote = 4
    Sold = {"up"}
    Policies = {0, 1}
    MaxQueued = 2
    None = None
INVARIANTS
    BooksBalance
PROPERTIES
    ImplementsContract
    CancelsAreFinal
