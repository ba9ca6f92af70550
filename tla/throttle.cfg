SPECIFICATION FairSpec
CONSTANTS
    Callers = {c1, c2}
    Capacity = 3
    Threshold = 2
    Costs = {3}
    Delays = {1}
    MaxAttempts = 2
INVARIANT TypeOK
INVARIANT PacedHasBudget
PROPERTY ImplementsRemoteCall
PROPERTY CallsReturn
