SPECIFICATION Spec
CONSTANTS
    Handlers = {h1, h2}
    Names <- MCNames
    BarNames <- MCNoNames
    DefaultName = "admin"
    Passwords <- MCPasswords
    WeakPasswords <- MCWeak
    EnvHashes <- MCEnvHashes
    None = None
    Truncated = Truncated
    Limit = 1
    MaxBoots = 2
INVARIANTS TypeOK TokenIffUnclaimed AcknowledgedIsDurable AlwaysStarts TokenFileCurrent IssuedCookieOpens BoundedOvershoot
PROPERTIES StoredUnderToken ClaimedOnce
CHECK_DEADLOCK FALSE
SYMMETRY MCSymmetry
