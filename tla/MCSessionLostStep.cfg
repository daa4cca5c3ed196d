CONSTANTS
    Clients = {c1, c2, c3}
    Ids = {s1}
    MaxCalls = 2
    MaxGenerations = 2
SPECIFICATION SessionSpec
CHECK_DEADLOCK FALSE
INVARIANTS
    AnsweredStepsKept
