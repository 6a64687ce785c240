SPECIFICATION Spec
CONSTANTS
    UploadTimeout = 14
    PollTimeout = 9
    MaxRetries = 2
    Durations = {0, 3}
    RequestTimeout = 3
    UploadDurations = {0, 3, 6, 33}
    PollMayNotConnect = FALSE
    LateArrival = FALSE
INVARIANTS
    TypeOK
    NoDoubleLoad
    AbandonedLabelsAreDead
    ResultIsTrue
    RetriesBounded
    EndsInTime
    NoUploadAfterTimeout
PROPERTIES
    ImplementsOnce
