SPECIFICATION Spec
CONSTANTS
    Policies = {0, 1}
    MinMerge = 1
    MaxTrades = 4
    None = None
INVARIANTS
    TypeOK
    CreditedOnce
PROPERTIES
    PolicyIsMet
