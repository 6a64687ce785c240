SPECIFICATION Spec
CONSTANTS
    Mode = "csv"
    Subs = {1}
    Count <- MCCount
    Payload <- MCPayload
    BatchBytes <- MCBatchBytes
    Timed = {}
    WithCallback = {1}
    Closers = {"c1"}
    NumWorkers = 1
    MaxQueueSize = 1
    MaxUploadQueue = 1
    LogMayPanic = FALSE
INVARIANTS
    WaitSeesCallback
