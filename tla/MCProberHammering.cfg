CONSTANTS
    Invocations <- Hammering
    Actors = {"buyer", "resolver"}
    Scores = {0}
    NoScore = NoScore
SPECIFICATION ProberSpec
CHECK_DEADLOCK FALSE
INVARIANT CooldownForAll
