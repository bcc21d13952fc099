CONSTANTS
    Chains <- SomeChains
    Newlines <- SomeNewlines
    Leads <- SomeLeads
    MaxQuestions = 1
SPECIFICATION FairSpec
CHECK_DEADLOCK FALSE
INVARIANTS
    EveryByteOnce
    EndMeansWhole
    LinesInOrder
PROPERTY
    EverybodyHears
