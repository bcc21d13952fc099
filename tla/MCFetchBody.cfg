CONSTANTS
    r1 = r1
    r2 = r2
    r3 = r3
    None = None
    NumChunks = 2
    Chunk = {1, 2}
    Read = {r1, r2, r3}
    MaxHops = 2
    MaxDepth = 1
    ScriptDropsHeld = FALSE
SPECIFICATION FairSpec
CHECK_DEADLOCK FALSE
INVARIANT
    HeadAndOwnersKept
    LentIsSettled
PROPERTIES
    AbortIsSeen
    ImplementsBodyStream
    EverybodyAnswered
