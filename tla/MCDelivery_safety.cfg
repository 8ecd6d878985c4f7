SPECIFICATION Spec
CONSTANTS
    Accounts = {a1, a2}
    Convs = {k1}
    Messages = {m1}
    Webhooks = {w1}
    Conns = {c1, c2}
    NULL = NULL
    CallbackTTL = 1
    BufCap = 1
    MaxCopies = 2
    MaxTime = 2
SYMMETRY Symmetry
INVARIANTS
    TypeOK
    OwnMessagesOnly
    DeliveredWasWritten
    NoGap
PROPERTY ImplementsMailbox
CHECK_DEADLOCK FALSE
