SPECIFICATION Spec
CONSTANTS
    MaxSellFailures = 2
    MaxRetries = 2
    Accepted = {"MarketSell"}
    MaxTrades = 2
    MaxTasks = 2
    MaxQueue = 2
    None = None
INVARIANTS
    TypeOK
    BooksFollowExchange
    OneExitAtATime
PROPERTIES
    ExitsGetThrough
\* The system stops when the trades of the bound are used up.
CHECK_DEADLOCK FALSE
