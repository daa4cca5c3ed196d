CONSTANTS
    NoAddr = NoAddr
    Addr <- MCAddr
    Tokens = {"USDC"}
    NumWorkflows = 6
    Contexts <- MCContexts
    InitTime = 1
    MaxTime = 50000
    Horizon = 50000
    Orders = {}
    MaxSafeAmount = 100000
    EvidenceCases = {}
    MaxRotations = 1
    Stakers = {}
    StakeAmounts = {}
    MaxStake = 0
    SlashAmounts = {}
    MaxAppealBonds = 0
    FreezeDuration = 2
    PauseValues = {}
    FeeTokens = {}
    Replacements = {}
    Plans <- AppealedFirst
    StartTime = 1
    Faults <- MCFaults
SPECIFICATION LiveSpec
CHECK_DEADLOCK FALSE
INVARIANT KeeperTendsAll
