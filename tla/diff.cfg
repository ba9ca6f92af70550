SPECIFICATION Spec
CONSTANTS
    Blank = Blank
    Skus = {1, 2}
    Ids = {x, y, z}
    Location = here
    MaxQuantity = 1
    MaxItems = 3
INVARIANT ReconciledExactly
INVARIANT SecondSyncIsSilent
INVARIANT LogsComparable
CHECK_DEADLOCK FALSE
