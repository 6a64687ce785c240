SPECIFICATION FairSpec
CONSTANTS
    Mode = "json"
    Subs = {1, 2, 3}
    Count <- MCJsonCount
    Payload <- MCJsonPayload
    BatchBytes <- MCBatchBytes
    Timed = {1}
    WithCallback = {2}
    Closers = {"c1"}
    NumWorkers = 1
    MaxQueueSize = 1
    MaxUploadQueue = 1
    LogMayPanic = FALSE
PROPERTIES
    EveryAcceptedCompletes
    EverySendReturns
    EveryCloseReturns
    ImplementsFairService
