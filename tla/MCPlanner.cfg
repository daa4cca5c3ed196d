CONSTANTS
    NoAddr = NoAddr
    Addr <- MCAddr
    Tokens = {"USDC"}
    NumWorkflows = 3
    Contexts <- MCContexts
    InitTime = 1
    MaxTime = 50000
    Horizon = 50000
    Orders = {}
    MaxSafeAmount = 100000
    EvidenceCases = {}
    MaxRotations = 1
    Stakers = {}
    StakeAmounts = {}
    MaxStake = 0
    SlashAmounts = {}
    MaxAppealBonds = 0
    FreezeDuration = 2
    PauseValues = {}
    FeeTokens = {}
    Replacements = {}
    Casts <- MCCasts
    BlockTime = 1
    SafetyExit = 600
SPECIFICATION ReplaySpec
CHECK_DEADLOCK FALSE
INVARIANTS
    IdsAsPredicted
    DisputesAnswered
    PlansCarriedOut
