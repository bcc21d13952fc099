CONSTANTS
    p1 = p1
    p2 = p2
    Promise = {p1, p2}
    MaxJobs = 3
    MaxHandles = 2
SPECIFICATION FairPumpSpec
CHECK_DEADLOCK FALSE
INVARIANTS
    RejectionsKept
    EventsTellTheStory
PROPERTIES
    ReportsBeforeWaiting
    ReportedInTime
