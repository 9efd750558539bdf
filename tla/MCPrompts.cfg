SPECIFICATION FairSpec
CONSTANTS
    Jobs = {1, 2}
    Texts = {"password", "trust"}
    Budgets <- MCBudgets
INVARIANTS
    TypeOK
    ShowsQuestions
PROPERTIES
    DraftSurvives
    FocusIsKept
    PromptPaneCloses
    RequestIsSeen
CHECK_DEADLOCK FALSE
