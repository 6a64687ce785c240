SPECIFICATION Spec
CONSTANTS
    Mode = "csv"
    Subs = {1}
    Count <- MCCount
    Payload <- MCPayload
    BatchBytes <- MCBatchBytes
    Timed = {}
    WithCallback = {}
    Closers = {"c1", "c2"}
    NumWorkers = 1
    MaxQueueSize = 1
    MaxUploadQueue = 1
    LogMayPanic = FALSE
INVARIANTS
    EveryCloseDrains
