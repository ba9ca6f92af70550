SPECIFICATION FairSpec
CONSTANTS
    Shops = {A, B, C}
    Handlers = {h1, h2}
    QueueCap = 2
    NoShop = NoShop
INVARIANT TypeOK
INVARIANT OneTokenPerMark
PROPERTY MarkIsCleared
PROPERTY QueuedIsServed
PROPERTY ImplementsRequests
