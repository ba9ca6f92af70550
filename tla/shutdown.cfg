SPECIFICATION ProcessSpec
CONSTANTS
    Shops = {A, B}
    Handlers = {h1, h2}
    QueueCap = 2
    NoShop = NoShop
    Clients = {client}
    Background = background
    MaxConns = 1
INVARIANT NoSyncIsCutOff
