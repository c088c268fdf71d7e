SPECIFICATION Spec
CONSTANTS
    MaxTrades = 5
    None = None
PROPERTIES
    Converges
