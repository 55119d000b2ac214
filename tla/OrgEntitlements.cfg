CONSTANTS
    ann = ann
    bob = bob
    cid = cid
    Users = {ann, bob, cid}
    Owner = ann
    None = None
    SeatChoices = {1, 2}
    MaxInvites = 2
    MaxSubs = 2
    Procs = {p1, p2}
    p1 = p1
    p2 = p2
    MaxRequests = 3
    MaxRush = 2
    MaxFailures = 1
SYMMETRY Symmetric
SPECIFICATION OrgSpec
CHECK_DEADLOCK FALSE
INVARIANTS OrgTypeOK ByInvitation QuietConsistent
