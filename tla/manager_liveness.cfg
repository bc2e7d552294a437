SPECIFICATION FairSpec
CONSTANTS
    Keys = {k1, k2}
    Requests = {r1}
    Clients = {c1, c2}
    Scheduler = scheduler
    None = None
    MaxJobs = 2
    MaxPending = 2
    MaxFailures = 0
    MaxStarts = 2
PROPERTIES
    JobsEnd
    CloseEnds
CHECK_DEADLOCK FALSE
