SPECIFICATION Spec
CONSTANTS
    UploadTimeout = 16
    PollTimeout = 4
    MaxRetries = 0
    Durations = {0, 3}
    RequestTimeout = 3
    UploadDurations = {0, 6}
    PollMayNotConnect = TRUE
    LateArrival = FALSE
INVARIANTS
    NoDoubleLoad
