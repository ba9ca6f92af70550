SPECIFICATION FairSpec
CONSTANTS
    Callbacks = {h1, h2}
    MaxBegins = 2
    MaxInstalls = 2
    MaxFaults = 2
INVARIANT TypeOK
INVARIANT InstalledHasToken
INVARIANT SubscribedIsStored
INVARIANT DeadRowIsDue
PROPERTY RemovedIsMarked
CHECK_DEADLOCK FALSE
