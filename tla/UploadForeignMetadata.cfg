\* A row that overtakes the peeked one between the peek and the claim.
SPECIFICATION Spec
CONSTANTS
    Videos = {v1, v2}
    Nobody = nobody
    MaxAttempts = 2
    MaxId = 3
    StatusFileMayFail = FALSE
INVARIANT SubmittedWithItsOwnMetadata
