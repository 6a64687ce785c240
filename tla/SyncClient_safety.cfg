SPECIFICATION Spec
CONSTANTS
    Mode = "csv"
    Subs = {1, 2, 3, 4}
    Count <- MCCount
    Payload <- MCPayload
    BatchBytes <- MCBatchBytes
    Timed = {1}
    WithCallback = {2}
    Closers = {"c1"}
    NumWorkers = 2
    MaxQueueSize = 2
    MaxUploadQueue = 1
    LogMayPanic = TRUE
INVARIANTS
    TypeOK
    PipelineFIFO
    BatchWithinLimit
    ByteSizeExact
    NeverUnlimited
    OnlyFullBatchesBlock
    AtMostOnce
    NothingLost
    CloseDrains
PROPERTIES
    ImplementsService
