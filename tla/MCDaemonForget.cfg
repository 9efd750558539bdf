SPECIFICATION Spec
CONSTANTS
    Labels = {"l1"}
    Targets = {"t1"}
    Sessions = {""}
    NoProfile = 0
    NoId = 0
    Worlds <- MCWorlds
    Methods = {"forget"}
    FaultKinds = {}
    MaxConns = 6
    MaxRequests = 1
    MaxOpen = 4
    MaxFaults = 0
    MaxExternal = 0
    MaxCrashes = 0
INVARIANTS
    ForgottenStaysForgotten
