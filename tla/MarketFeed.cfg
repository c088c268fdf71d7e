SPECIFICATION Spec
CONSTANTS
    NumMarkets = 3
    MaxMarkets = 2
    BatchSize = 2
    MaxListings = 2
    MaxFaults = 1
    None = None
INVARIANTS
    ConnectionFollowsManager
PROPERTIES
    Settles
