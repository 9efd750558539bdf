SPECIFICATION FairSpec
CONSTANTS
    Labels = {"l1", "l2"}
    Targets = {"t1"}
    Sessions = {""}
    NoProfile = 0
    NoId = 0
    Worlds <- MCWorlds
    Methods = {"save", "connect", "disconnect", "forget"}
    FaultKinds = {"command", "list", "put"}
    MaxConns = 5
    MaxRequests = 1
    MaxOpen = 4
    MaxFaults = 1
    MaxExternal = 1
    MaxCrashes = 1
INVARIANTS
    StoreClaimsUnique
PROPERTIES
    Converges
    Answered
