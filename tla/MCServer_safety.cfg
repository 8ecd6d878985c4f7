SPECIFICATION ServerSpec
CONSTANTS
    Channels = {ch1, ch2}
    Clients = {x1, x2, x3}
    Goroutines = {g1, g2}
    Maps = {m1, m2}
    Events = {e1}
    NULL = NULL
    EventsCap = 1
    InboxCap = 1
SYMMETRY Symmetry
INVARIANTS
    ServerTypeOK
    ChannelIsolation
    ChannelServed
    RegisteredWhileStreaming
    NothingClosedInUse
    CloseReachesHandlers
CHECK_DEADLOCK FALSE
