SPECIFICATION Spec
CONSTANTS
    MaxClients = 1
    MaxOutput = 1
    InputCap = 2
    Reclaimed = TRUE
    CanCrash = TRUE
PROPERTIES
    AllEnds
