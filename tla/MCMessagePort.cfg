CONSTANTS
    f = f
    g = g
    Callbacks <- TwoCallbacks
    Scripts <- SomeScripts
    MaxListeners = 3
    MaxWalks = 2
    MaxMessages = 2
SPECIFICATION Spec
CHECK_DEADLOCK FALSE
INVARIANTS
    EachIsCalled
    AbortIsComplete
    MailInOrder
PROPERTY
    EveryMessageHeard
