SPECIFICATION Spec
CONSTANTS
    Sessions = {s1}
    Accounts = {a1, a2}
    Convs = {k1, k2}
    Codes = {c1}
    Handlers = {h1, h2}
    Pollers = {}
    NULL = NULL
    PairingTTL = 1
    MaxTime = 2
    MaxTokens = 1
INVARIANT OneTimeCode
