SPECIFICATION FairSpec
CONSTANTS
    Conns = {c1, c2}
    NoConn = NoConn
    Questions = {q}
    NoQuestion = NoQuestion
    MaxJobs = 3
INVARIANTS
    TypeOK
    SubmissionOrder
    Retention
PROPERTIES
    LanesSpec
    CancelFreesLane
    ShutdownDrains
