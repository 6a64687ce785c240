SPECIFICATION Spec
CONSTANTS
    PollMayNotConnect = TRUE
    LateArrival = FALSE
INVARIANTS
    BrokenPollsAreTransient
