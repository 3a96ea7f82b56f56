\* One video whose publication is recorded, and a status file that cannot be written.
SPECIFICATION Spec
CONSTANTS
    Videos = {v1}
    Nobody = nobody
    MaxAttempts = 2
    MaxId = 2
    StatusFileMayFail = TRUE
PROPERTY PublishedIsFinal
