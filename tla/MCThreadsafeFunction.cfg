SPECIFICATION TsfnFairSpec
CONSTANTS
    main = main
    t1 = t1
    t2 = t2
    Threads <- MCThreads
    Main = main
    MaxQueues <- MCMaxQueues
    MaxCalls = 1
INVARIANTS
    NothingLostOrOvertaken
    LimitAndMemoryKept
PROPERTIES
    EverybodyServed
CHECK_DEADLOCK FALSE
