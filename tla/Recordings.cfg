SPECIFICATION FairSpec
CHECK_DEADLOCK FALSE
CONSTANTS
    MaxFaults = 1
    ProbesMayFail = TRUE
    Sources <- MCSources
CONSTRAINTS
    WhileBeside
INVARIANTS
    DoneIsTrue
PROPERTIES
    WholeCopyKept
    TakenWithCause
    ExpiredIsQueued
    ExpiredEnds
