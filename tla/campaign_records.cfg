SPECIFICATION Spec
CONSTANTS
    LastDay = 2
    Sessions = {0, 2}
    Equities = {e1, e2}
    MaxDates = 2
    MaxReports = 1
    None = None
INVARIANTS
    ListedDatesAreObserved
    ObservationsAreOfTheClose
    ReportsAreTrue
CHECK_DEADLOCK FALSE
