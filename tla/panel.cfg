SPECIFICATION Spec
CONSTANTS
    Browsers = {b1}
    Conns = {k1, k2}
    Ticker = Ticker
    Capacity = 1
    MaxInputs = 2
    MaxFaults = 1
    None = None
INVARIANTS TypeOK CleanTickCatchesUp EveryClientIsAttended
PROPERTIES ShowsTheHardware
