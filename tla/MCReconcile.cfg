SPECIFICATION Spec
CONSTANTS
    NoProfile = 0
    NoId = 0
    Labels = {l1, l2}
    Targets = {t1}
    Sessions = {s1}
    MaxConns = 3
    MaxMachines = 3
PROPERTIES
    OneToOne
    HoldersKeep
    AdoptsOnlyStrangers
    Settles
