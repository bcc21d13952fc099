CONSTANTS
    c1 = c1
    c2 = c2
    Conn = {c1, c2}
    Ends <- Clients
    MaxIn = 2
SPECIFICATION ServeFairSpec
CHECK_DEADLOCK FALSE
INVARIANTS
    OneDriver
    RepliesKept
    StopTakesAll
PROPERTY
    EveryRequestAnswered
