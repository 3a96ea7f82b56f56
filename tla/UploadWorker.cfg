\* Two videos, one of which may overtake the other; the smallest budget that
\* distinguishes a retry from a failure; one withdrawal and restaging.
SPECIFICATION Spec
CONSTANTS
    Videos = {v1, v2}
    Nobody = nobody
    MaxAttempts = 2
    MaxId = 3
    StatusFileMayFail = TRUE
SYMMETRY Symmetry
INVARIANTS
    BytesSentOnce
    PublishedOnceUnlessLost
    BudgetRespected
    OnlyOlderRowsOvertake
