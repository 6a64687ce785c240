SPECIFICATION FairSpec
CONSTANTS
    PollMayNotConnect = TRUE
    LateArrival = FALSE
INVARIANTS
    UploadKeepsContract
    PollKeepsContract
PROPERTIES
    EveryCallEnds
