CONSTANTS
    alice = alice
    bob = bob
    r0 = r0
    r1 = r1
    usdc = usdc
    NoAddr = NoAddr
    Addr = {alice, bob, r0, r1}
    Tokens = {usdc}
    NumWorkflows = 1
    Contexts <- ReversalContexts
    InitTime = 1
    MaxTime = 4
    Horizon = 3
    Orders <- MCOrders
    MaxSafeAmount = 1000
    EvidenceCases = {0}
    MaxRotations = 0
    Stakers = {r0}
    StakeAmounts = {35}
    MaxStake = 35
    SlashAmounts = {}
    MaxAppealBonds = 14
    FreezeDuration = 2
    PauseValues = {}
    FeeTokens = {}
    Replacements = {}
SPECIFICATION Spec
CHECK_DEADLOCK FALSE
PROPERTIES
    SlashRespectsWindow
