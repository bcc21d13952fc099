CONSTANTS
    c1 = c1
    c2 = c2
    Chunk = {c1, c2}
    MaxDepth = 3
    ScriptDropsHeld = FALSE
SPECIFICATION ChunksSpec
SYMMETRY ChunkSymmetry
CHECK_DEADLOCK FALSE
INVARIANTS
    BorrowsCounted
    NoDanglingView
    FreedExactlyOnce
