SPECIFICATION Spec
CONSTANTS
    Sessions = {s1}
    Accounts = {a1}
    Convs = {k1}
    Codes = {c1}
    Handlers = {h1}
    Pollers = {p1}
    NULL = NULL
    PairingTTL = 1
    MaxTime = 3
    MaxTokens = 1
PROPERTY OnlyPendingExpire
