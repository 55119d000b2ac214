SPECIFICATION Spec
CONSTANTS
    Readers = {r1, r2}
    MaxReplay = 3
    SearchWindow = 1
    MaxChunk = 2
    MaxPreamble = 1
    MaxBytes = 4
    MaxAttach = 2
INVARIANTS
    UnreadKept ExactDelivery
PROPERTIES
    NoLostWakeup ImplementsStream
