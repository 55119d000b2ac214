SPECIFICATION Spec
CONSTANTS
    MaxClients = 1
    MaxOutput = 1
    InputCap = 2
    Reclaimed = FALSE
    CanCrash = FALSE
PROPERTY
    SessionEnds
