SPECIFICATION Spec
CONSTANTS
    Symbols = {a, b}
    Minutes = {1, 2}
    None = None
    Quantity = 2
    MaxPosition = 3
    MaxOrders = 3
SYMMETRY Symmetry
INVARIANTS
    SubmittedAtMostOnce
    OneUnsettledOrder
    ExposureBounded
    ReadyIsReconciled
    CancelReachesEveryOrder
PROPERTIES
    StopEndsDispatch
    DispatchSpec
CHECK_DEADLOCK FALSE
