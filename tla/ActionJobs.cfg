\* The worker, and the API process whose recovery may run beside it; two segments,
\* two jobs of one segment or of two; two kills, so that a recovery can itself be
\* interrupted.
SPECIFICATION FairSpec
CONSTANTS
    Workers = {worker, api}
    Recoverers = {api}
    Targets = {s1, s2}
    NoTarget = noTarget
    Nobody = nobody
    Submitter = submitter
    Stranger = stranger
    MaxJobs = 2
    MaxCrashes = 2
    FilesMayBeBusy = TRUE
    PidsAreReused = TRUE
CONSTRAINTS
    FirstIsFirst
    FewFaults
INVARIANTS
    OneActivePerTarget
    EveryJobKept
    ExecutedOnceUnlessInterrupted
    ShownPendingIsActive
PROPERTIES
    ShownNeverGoesBack
    ImplementsJobLedger
    RunningWorkerSettles
