SPECIFICATION FairSpec
CONSTANTS
    Newline = "nl"
    Progress = "."
    Declined <- MCDeclined
    Pattern <- MCPattern
    Secret <- MCSecret
    MaxPending = 4
    MaxTty = 4
    MaxWrites = 3
    MaxReplies = 2
INVARIANTS
    TypeOK
    OnlyOthersShown
    DeclinedOnce
PROPERTIES
    PromptLivesWithLine
    QuestionShown
    CancelEnds
CHECK_DEADLOCK FALSE
