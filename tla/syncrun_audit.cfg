SPECIFICATION Spec
CONSTANTS
    Worker = worker
    Manual = {client}
    a = a
    b = b
    Variants <- MCVariants
    SkuOf <- MCSkuOf
    Quantities = {0, 1}
    Feeds <- MCFeeds
    BatchSize = 1
    MaxRuns = 2
    MaxMoves = 1
    MaxFaults = 1
    NoFeed = NoFeed
    Blank = Blank
INVARIANT EveryChangeIsLogged
CHECK_DEADLOCK FALSE
