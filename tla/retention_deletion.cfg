SPECIFICATION Spec
CONSTANTS
    Jobs = {j1}
    Workers = {w1}
    Priority <- Equal
    Digests = {d1, d2}
    Publishers = {p1}
    Controllers = {c1, c2}
    Pinned = {}
    MaxGen = 2
    MaxAttempts = 1
    QueueCapacity = 1
    RecoveryBatch = 1
    MaxEvents = 6
    Ops = {"complete"}
    MaxCandidates = 2
    None = None
SYMMETRY Symmetry
INVARIANTS
    EvidenceIsReadable
    RetentionExcludesWork
    DeletedIsGone
PROPERTIES
    IntentPrecedesUnlink
CHECK_DEADLOCK FALSE
