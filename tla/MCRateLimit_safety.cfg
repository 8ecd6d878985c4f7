SPECIFICATION Spec
CONSTANTS
    Keys = {k1, k2}
    Requests = {q1, q2, q3}
    Randoms = {r1, r2}
    NULL = NULL
    Limit = 2
    Window = 3
    Slack = 1
    MaxTime = 5
SYMMETRY Symmetry
INVARIANTS
    TypeOK
    DeniedForCause
    ResetIsHonest
    SecondsLimited
PROPERTIES
    NothingForgottenEarly
CHECK_DEADLOCK FALSE
