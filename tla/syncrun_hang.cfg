SPECIFICATION FairSpec
CONSTANTS
    Worker = worker
    Manual = {client}
    a = a
    b = b
    Variants <- MCOneVariant
    SkuOf <- MCOneSku
    Quantities = {0}
    Feeds <- MCOneFeed
    BatchSize = 1
    MaxRuns = 2
    MaxMoves = 0
    MaxFaults = 0
    NoFeed = NoFeed
    Blank = Blank
PROPERTY ManualRowsClose
CHECK_DEADLOCK FALSE
