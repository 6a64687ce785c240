SPECIFICATION FairSpec
CONSTANTS
    Mode = "json"
    Subs = {1, 2, 3}
    Count <- MCCount
    Payload <- MCPayload
    BatchBytes = 10
    WithCallback = {2}
    Closers = {"c1"}
    NumWorkers = 2
    MaxQueueSize = 1
    MaxUploadQueue = 1
    QueueWaitLimited = TRUE
    LogMayPanic = TRUE
INVARIANTS
    PipelineFIFO
    BatchWithinLimit
    LingerArmedWhileOpen
    CloseDrains
PROPERTIES
    ImplementsService
    EveryAcceptedCompletes
    ShutdownEndsTasks
