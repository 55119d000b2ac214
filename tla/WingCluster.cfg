CONSTANTS
    Wings = {w1}
    Edges = {e1, e2}
    Login = login
    None = None
    MaxConns = 2
    MaxFaults = 1
SPECIFICATION Spec
INVARIANTS TypeOK RegisteredStays
PROPERTIES MapSettles
