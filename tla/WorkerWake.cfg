SPECIFICATION FairSpec
CHECK_DEADLOCK FALSE
CONSTANTS
    Workers = {w1, w2}
    Nobody = nobody
    Requests = {r1}
    Clients = {dispatcher}
    Persistent = {dispatcher}
    MaxFaults = 2
INVARIANTS
    FileNamesServer
    StopEndsTheServer
PROPERTIES
    ShutdownStrandsNothing
    PendingIsServed
