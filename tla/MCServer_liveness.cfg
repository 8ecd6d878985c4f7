SPECIFICATION ServerFairSpec
CONSTANTS
    Channels = {ch1}
    Clients = {x1, x2}
    Goroutines = {g1}
    Maps = {m1, m2}
    Events = {e1, e2}
    NULL = NULL
    EventsCap = 1
    InboxCap = 1
PROPERTIES
    SlowClientsDoNotBlock
    ShutdownEnds
CHECK_DEADLOCK FALSE
