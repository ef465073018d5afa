SPECIFICATION FairSpec
CONSTANTS
    Modes <- MCModes
    MaxChanges = 2
    MaxFail = 2
    MaxCrash = 1
INVARIANTS
    FailureVisible
PROPERTIES
    SessionsKept
    EventuallyLoaded
CHECK_DEADLOCK FALSE
