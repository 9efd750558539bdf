SPECIFICATION FairSpec
CONSTANTS
    Buffer = 6
    MaxJobs = 1
    MaxChanges = 1
    MaxRequests = 1
    MaxBreaks = 1
INVARIANTS
    TypeOK
PROPERTIES
    ReplyNeverUndoes
    RereadAgrees
    ConnectionsCatchUp
CHECK_DEADLOCK FALSE
