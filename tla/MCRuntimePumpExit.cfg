CONSTANTS
    p1 = p1
    p2 = p2
    Promise = {p1}
    MaxJobs = 1
    MaxHandles = 1
SPECIFICATION PumpSpec
CHECK_DEADLOCK FALSE
INVARIANT
    AllReportedAtExit
