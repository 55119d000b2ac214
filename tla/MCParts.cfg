CONSTANTS
    MaxProcs = 3
    MaxOps = 4
    MaxKills = 2
    Calls = {"c1", "c2"}
    Tools = {"t1", "t2"}
    Caps = {0, 1, 2}
    MaxReloads = 1
    Sessions = {s1, s2}
    MaxWrites = 1
    MaxFaults = 1
    Users = {"ann", "bob"}
    Admins = {"ann"}
    Requests = {"r1"}
    MaxChanges = 2
    MaxRush = 0
    MaxStops = 1
    MaxLines = 2
    MaxTicks = 1
    MaxOut = 3
    MaxKeys = 2
    MaxLook = 2
SYMMETRY Symmetric
SPECIFICATION Spec
INVARIANTS PartsTypeOK OnePicture OneDaemon ToolLimit WritesWithin WorkKept RulesResolve ChangesLand AclEnforced PlaybackTrue HistoryKept
CHECK_DEADLOCK FALSE
