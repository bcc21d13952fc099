CONSTANTS
    HighWaterMark = 2
    SizeOf <- Sizes
    NumChunks = 3
    MaxReads = 4
SPECIFICATION FairSpec
CHECK_DEADLOCK FALSE
INVARIANTS
    KeptInOrder
    PulledAsNeeded
PROPERTY
    EverybodyHears
