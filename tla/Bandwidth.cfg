CONSTANTS
    e1 = e1
    Edges = {e1}
    Login = login
    Cap = 1
    MaxRelayed = 2
    MaxMonth = 2
    MaxChanges = 1
    MaxFaults = 1
SPECIFICATION Spec
CHECK_DEADLOCK FALSE
INVARIANTS TypeOK MeterSound
PROPERTY OverCapStops
