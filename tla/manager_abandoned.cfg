SPECIFICATION Spec
CONSTANTS
    Keys = {k1, k2}
    Requests = {r1}
    Clients = {c1, c2}
    Scheduler = scheduler
    None = None
    MaxJobs = 2
    MaxPending = 2
    MaxFailures = 1
    MaxStarts = 1
INVARIANT NoAbandonedWork
CHECK_DEADLOCK FALSE
