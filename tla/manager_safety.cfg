SPECIFICATION Spec
CONSTANTS
    Keys = {k1, k2}
    Requests = {r1, r2}
    Clients = {c1, c2}
    Scheduler = scheduler
    None = None
    MaxJobs = 2
    MaxPending = 2
    MaxFailures = 1
    MaxStarts = 2
SYMMETRY Symmetry
INVARIANTS
    TypeOK
    AuditIsHistory
    QueueSound
    QueueAgreement
    NoLostWakeup
    FifoService
PROPERTIES
    AdmissionStops
    LifecycleSpec
CHECK_DEADLOCK FALSE
