\* Scans and cancels only, two kills.
SPECIFICATION FairSpec
CONSTANTS
    Worker = Worker
    Api = Api
    Requests = {d1, d2}
    Nobody = Nobody
    Calls = {"scan", "cancel"}
    MaxCalls = 3
    MaxKills = 2
    MaxFaults = 0
PROPERTIES
    ResultsSurvive
    ShownFollowsTheDiagram
    RunningWorkerDrains
CHECK_DEADLOCK FALSE
