CONSTANTS
    HighWaterMark = 1
    SizeOf <- Count
    NumChunks = 2
    Length <- Lengths
    Room = 1
    Uses <- Scripts
    Names <- SomeNames
    Values <- SomeValues
    Queries <- SomeQueries
    MaxEdits = 3
SPECIFICATION Spec
CHECK_DEADLOCK FALSE
INVARIANTS
    BodiesArrive
    StoppedIfUnwanted
    ParamsAgree
    HeadersArrive
PROPERTY
    EveryReadSettles
