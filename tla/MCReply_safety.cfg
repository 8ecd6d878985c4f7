SPECIFICATION Spec
CONSTANTS
    Accounts = {a1, a2}
    Messages = {m1, m2}
    Outbounds = {o1, o2}
    Requests = {r1, r2}
    NULL = NULL
    CallbackTTL = 1
    MaxTime = 1
SYMMETRY Symmetry
INVARIANTS
    TypeOK
    SentWasAccepted
    OwnRepliesOnly
PROPERTIES
    OutcomeIsFinal
CHECK_DEADLOCK FALSE
