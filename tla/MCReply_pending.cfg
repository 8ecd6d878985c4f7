SPECIFICATION UpSpec
CONSTANTS
    Accounts = {a1}
    Messages = {m1}
    Outbounds = {o1}
    Requests = {r1}
    NULL = NULL
    CallbackTTL = 1
    MaxTime = 1
PROPERTY
    PendingIsResolved
CHECK_DEADLOCK FALSE
