SPECIFICATION RelayFairSpec
CONSTANTS
    Sessions = {s1, s2}
    Accounts = {a1}
    Convs = {k1}
    Codes = {c1}
    Handlers = {h1}
    Pollers = {p1}
    Streams = {x1}
    NULL = NULL
    PairingTTL = 1
    MaxTime = 2
    MaxTokens = 2
INVARIANTS
    RelayTypeOK
    StreamsAreOwn
PROPERTIES
    PairedOnce
    RevokedLosesAll
    WaitingEnds
CHECK_DEADLOCK FALSE
