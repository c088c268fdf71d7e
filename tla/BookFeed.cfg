SPECIFICATION BookSpec
CONSTANTS
    Prices = {1, 2}
    Sizes = {1, 2}
    MaxChanges = 2
    MaxStream = 2
    ChannelSize = 1
    BufferMaxSize = 1
    FlushRateLimit = 1
    None = None
INVARIANTS
    BookTypeOK
    ExactWhenInOrder
    NothingLostSilently
PROPERTIES
    Heals
