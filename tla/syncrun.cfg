SPECIFICATION Spec
CONSTANTS
    Worker = worker
    Manual = {client}
    a = a
    b = b
    Variants <- MCVariants
    SkuOf <- MCSkuOf
    Quantities = {0}
    Feeds <- MCFeeds
    BatchSize = 1
    MaxRuns = 2
    MaxMoves = 1
    MaxFaults = 1
    NoFeed = NoFeed
    Blank = Blank
INVARIANT TypeOK
INVARIANT ClaimMatchesLog
INVARIANT LogMatchesStore
INVARIANT OpenRowHasRun
INVARIANT SuccessMeansReconciled
INVARIANT ActsOnOwnListing
INVARIANT EachItemOnce
PROPERTY ClosedRowsAreFinal
PROPERTY WritesComeFromFeed
PROPERTY ImplementsLedger
CHECK_DEADLOCK FALSE
