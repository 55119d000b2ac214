CONSTANTS
    Sessions = {s1}
    MaxHandlers = 3
    MaxScans = 2
    MaxMessages = 3
    InputCap = 1
    MaxDeaths = 1
SPECIFICATION Spec
CHECK_DEADLOCK FALSE
INVARIANTS TypeOK HandlersHold
PROPERTIES EggsKept Reclaims
