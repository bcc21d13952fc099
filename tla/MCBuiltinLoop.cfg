CONSTANTS
    MaxTimers = 3
    MaxDelay = 2
SPECIFICATION FairSpec
CHECK_DEADLOCK FALSE
INVARIANT
    TimersKept
PROPERTIES
    KeepsContract
    EveryTimerFires
