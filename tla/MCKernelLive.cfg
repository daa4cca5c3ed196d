CONSTANTS
    alice = alice
    bob = bob
    r0 = r0
    r1 = r1
    usdc = usdc
    NoAddr = NoAddr
    Addr = {alice, bob, r0, r1}
    Tokens = {usdc}
    NumWorkflows = 1
    Contexts <- LiveContexts
    InitTime = 1
    MaxTime = 7
    Horizon = 4
    Orders <- OneOrder
    MaxSafeAmount = 1000
    EvidenceCases = {}
    MaxRotations = 0
    Stakers = {}
    StakeAmounts = {}
    MaxStake = 0
    SlashAmounts = {}
    MaxAppealBonds = 0
    FreezeDuration = 2
    PauseValues = {TRUE, FALSE}
    FeeTokens = {}
    Replacements = {}
SPECIFICATION KernelFairSpec
CHECK_DEADLOCK FALSE
PROPERTIES
    DisputesEnd
    DeferredDecisionsEnd
    TimedEscrowsEnd
    PauseFreezes
