SPECIFICATION Spec
CONSTANTS
    Callers = {c1, c2}
    Permits = 1
    Payload = 1
    Produced = 2
    MaxOutput = 1
    PipeRoom = 1
    Timeout = 1
    Versions = {0, 1}
INVARIANTS
    EndedCallsLeaveNothing
PROPERTIES
    ResultIsWhole
    ResultIsOfItsCode
    CallsEnd
