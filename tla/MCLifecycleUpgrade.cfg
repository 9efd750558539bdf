SPECIFICATION FairSpec
CONSTANTS
    Starters = {s1, s2}
    Daemons = {d1, d2}
    Jobs = {j1}
    Nobody = Nobody
    MaxBuild = 2
    MaxFaults = 1
INVARIANTS
    UpgradeEndsNoJob
