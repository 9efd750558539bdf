SPECIFICATION FairSpec
CONSTANTS
    Jobs = {1, 2}
    Texts = {"password", "trust"}
    Budgets <- MCBudgets
PROPERTIES
    NoneOverlooked
CHECK_DEADLOCK FALSE
