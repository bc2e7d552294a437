SPECIFICATION RegistryAlone
CONSTANTS
    j1 = j1
    j2 = j2
    Jobs = {j1, j2}
    Workers = {w1, w2}
    Priority <- MCPriority
    Digests = {}
    Publishers = {}
    MaxGen = 0
    MaxAttempts = 2
    QueueCapacity = 2
    RecoveryBatch = 1
    MaxEvents = 6
    Ops = {"complete", "acknowledge", "fail", "retry"}
    None = None
SYMMETRY Symmetry
INVARIANTS
    ReadinessHolds
    EventRoom
CHECK_DEADLOCK FALSE
