SPECIFICATION Spec
CONSTANTS
    Shops = {A, B, C}
    Handlers = {h1, h2}
    QueueCap = 1
    NoShop = NoShop
INVARIANT AcceptedIsQueued
