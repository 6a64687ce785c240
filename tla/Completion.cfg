SPECIFICATION FairSpec
CONSTANTS
    Batches = {1, 2, 3}
    Bytes <- MCBytes
    MayFail = {1, 2}
    MaxAttempts <- MCMaxAttempts
    Dispatched <- MCDispatched
    Reporter = 2
    NumWorkers = 1
    Waiters = {1, 2, 3}
    Kind <- MCKind
    Awaits <- MCAwaits
    LogMayPanic = TRUE
INVARIANTS
    SnapshotSeesResults
    SnapshotPlausible
    CountersAddUp
PROPERTIES
    NoneOnlyWithoutResult
    EveryWaitReturns
