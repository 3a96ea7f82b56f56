\* Two requests of any kind, two kills, one error anywhere.
SPECIFICATION Spec
CONSTANTS
    Worker = Worker
    Api = Api
    Requests = {d1, d2}
    Nobody = Nobody
    Calls = {"scan", "requeue", "cancel", "mark"}
    MaxCalls = 2
    MaxKills = 2
    MaxFaults = 1
SYMMETRY RequestsAreAlike
INVARIANTS
    MarkedWhileSliced
    RequestKept
    SlicedOnceUnlessInterrupted
CHECK_DEADLOCK FALSE
