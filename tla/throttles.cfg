SPECIFICATION AnySpec
CONSTANTS
    Handlers = {h1, h2}
    Addresses = {a1, a2}
    LoginWindow = 2
    Limit = 2
    LoginTime = 2
    NoiseWindow = 2
    MaxErrors = 5
    Interval = 2
    Second = 4
    MaxTime = 7
    None = None
INVARIANTS TypesOK WindowBound RateBound Accounted
PROPERTIES RefusedForCause ImplementsAttempts HintSuffices StaysVisible
CHECK_DEADLOCK FALSE
