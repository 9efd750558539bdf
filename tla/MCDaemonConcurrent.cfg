SPECIFICATION Spec
CONSTANTS
    Labels = {"l1", "l2"}
    Targets = {"t1", "t2"}
    Sessions = {""}
    NoProfile = 0
    NoId = 0
    Worlds <- MCWorlds
    Methods = {"save", "connect", "disconnect", "forget"}
    FaultKinds = {}
    MaxConns = 6
    MaxRequests = 2
    MaxOpen = 4
    MaxFaults = 0
    MaxExternal = 0
    MaxCrashes = 0
INVARIANTS
    TypeOK
    CacheClaimsUnique
    Coalesced
