CONSTANTS
    Clients = {c1, c2, c3}
    Ids = {s1, s2}
    MaxCalls = 2
    MaxGenerations = 1
SPECIFICATION FairSessionSpec
CHECK_DEADLOCK FALSE
INVARIANTS
    AnsweredStepsKept
PROPERTIES
    AtomicSessions
    CallsReturn
