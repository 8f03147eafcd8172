CONSTANTS
    g0 = g0
    g1 = g1
    r1 = r1
    r2 = r2
    Nodes = {1, 2, 3, 4}
    Members = {1, 2, 3}
    Seed = 1
    Control = g0
    Data = {g1}
    Requests = {r1, r2}
    Intent <- MCIntent
    NoRequest = NoRequest
    NoNode = 0
    Fragile = {1, 2, 4}
    MaxCrashes = 1
SPECIFICATION LiveSpec
INVARIANTS
    MembershipAgrees

    
CHECK_DEADLOCK FALSE
