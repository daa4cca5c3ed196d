CONSTANTS
    alice = alice
    bob = bob
    r0 = r0
    r1 = r1
    usdc = usdc
    NoAddr = NoAddr
    Addr = {alice, bob, r0, r1}
    Tokens = {usdc}
    NumWorkflows = 2
    Contexts <- DueTogetherContexts
    InitTime = 1
    MaxTime = 6
    Horizon = 2
    Orders <- OneOrder
    MaxSafeAmount = 1000
    EvidenceCases = {}
    MaxRotations = 0
    Stakers = {}
    StakeAmounts = {}
    MaxStake = 0
    SlashAmounts = {}
    MaxAppealBonds = 0
    FreezeDuration = 2
    PauseValues = {}
    FeeTokens = {}
    Replacements = {}
SPECIFICATION KernelFairSpec
CHECK_DEADLOCK FALSE
PROPERTIES
    TimedEscrowsEnd
