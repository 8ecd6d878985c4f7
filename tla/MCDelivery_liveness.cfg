SPECIFICATION FairSpec
CONSTANTS
    Accounts = {a1}
    Convs = {k1}
    Messages = {m1}
    Webhooks = {w1}
    Conns = {c1}
    NULL = NULL
    CallbackTTL = 1
    BufCap = 1
    MaxCopies = 1
    MaxTime = 3
PROPERTY QueuedIsResolved
CHECK_DEADLOCK FALSE
