SPECIFICATION Spec
CONSTANTS
    MaxClients = 2
    MaxOutput = 2
    InputCap = 1
    Reclaimed = FALSE
    CanCrash = FALSE
VIEW SafetyView
INVARIANTS
    TypeOK StreamsExact
