SPECIFICATION Spec
CONSTANTS
    Labels = {"l1"}
    Targets = {"t1", "t2"}
    Sessions = {""}
    NoProfile = 0
    NoId = 0
    Worlds <- MCWorlds
    Methods = {"save", "connect", "disconnect", "forget"}
    FaultKinds = {"command"}
    MaxConns = 6
    MaxRequests = 3
    MaxOpen = 1
    MaxFaults = 1
    MaxExternal = 0
    MaxCrashes = 1
INVARIANTS
    ReconnectReplaces
PROPERTIES
    AdoptsOnlyOutside
    EditsStay
