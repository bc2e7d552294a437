SPECIFICATION Spec
CONSTANTS
    Writers = {w1, w2}
    Revisions = {r1, r2}
    Keys = {k1}
    Triggers = {t1}
    Notes = {n1}
    Appended <- Noted
    MaxEvents = 3
    None = None
SYMMETRY Symmetry
INVARIANTS
    HeadIsProjection
    ApprovalsAreCurrent
    KeysResolve
CHECK_DEADLOCK FALSE
