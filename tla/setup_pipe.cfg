SPECIFICATION Spec
CONSTANTS
    Handlers = {h1, h2}
    Names <- MCNamesWithPipe
    BarNames <- MCPipeName
    DefaultName = "admin"
    Passwords <- MCPasswords
    WeakPasswords <- MCWeak
    EnvHashes <- MCEnvHashes
    None = None
    Truncated = Truncated
    Limit = 1
    MaxBoots = 2
INVARIANTS AlwaysStarts
CHECK_DEADLOCK FALSE
SYMMETRY MCSymmetry
