CONSTANTS
    People = {ann, bob}
    Nobody = none
    Ids = {1, 2, 3}
    Handlers = {p1, p2}
    Looks = {v1, v2}
    Jobs = {j1, j2}
    Streams = {x1}
    TTL = 2
    Flight = 1
    Scenarios <- Bounds
SPECIFICATION LoginsSpec
CHECK_DEADLOCK FALSE
INVARIANTS LoginsTypeOK LoginsHold
PROPERTIES CacheCatchesUp
