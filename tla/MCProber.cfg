CONSTANTS
    Invocations <- MCInvocations
    Actors = {"buyer", "resolver", "governance"}
    Scores <- MCScores
    NoScore = NoScore
SPECIFICATION ProberFairSpec
CHECK_DEADLOCK FALSE
INVARIANTS
    ActiveIdsExist
    SummaryTrue
    SweepsRanked
PROPERTIES
    ProbingEnds
