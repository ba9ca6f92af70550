SPECIFICATION Spec
CONSTANTS
    Callbacks = {h1}
    MaxBegins = 2
    MaxInstalls = 2
    MaxFaults = 1
PROPERTY RepeatHasNoEffect
CHECK_DEADLOCK FALSE
