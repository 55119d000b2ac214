SPECIFICATION Spec
CONSTANTS
    Streams = {s1}
    VtermCap = 1
    UseVTE = TRUE
    MaxOutput = 2
    MaxAttach = 2
    MaxResize = 1
INVARIANTS
    SnapshotAccounted ExitAfterLogged
PROPERTIES
    EggEnds
