SPECIFICATION Spec
CONSTANTS
    Bars = {0, 1, 2}
    OrderIds = {1, 2}
    FillIds = {1, 2}
    Quantities <- Lots
    Quote <- Market
    Slippage = {1}
    Charges = {1}
    InitialCash = 3
    MaxEvents = 10
    MaxOpen = 2
    MaxPending = 1
    MaxOrdinal = 3
    Queueable <- Ahead
INVARIANTS
    RecoveryIsExact
    LedgerIsOfTheJournal
    DayOrdersEnd
    NoLookahead
    BankruptcyHalts
CHECK_DEADLOCK FALSE
