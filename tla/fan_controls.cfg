SPECIFICATION AnySpec
CONSTANTS
    Workers = {w1, w2}
    Clicks = {c1}
    MaxChoices = 3
    Calls = {r1, r2}
    Sockets = {s1, s2, s3}
    None = None
INVARIANTS TypesOK NobodyWaitsInVain OneLiveSocket NeverDeaf
PROPERTIES AppliedInOrder ImplementsLatest
