CONSTANTS
    alice = alice
    bob = bob
    r0 = r0
    r1 = r1
    usdc = usdc
    NoAddr = NoAddr
    Addr = {alice, bob, r0}
    Tokens = {usdc}
    NumWorkflows = 2
    Contexts <- PairContexts
    InitTime = 1
    MaxTime = 2
    Horizon = 2
    Orders <- TwoOrders
    MaxSafeAmount = 1000
    EvidenceCases = {}
    MaxRotations = 0
    Stakers = {}
    StakeAmounts = {}
    MaxStake = 0
    SlashAmounts = {}
    MaxAppealBonds = 0
    FreezeDuration = 2
    PauseValues = {}
    FeeTokens = {}
    Replacements = {}
SPECIFICATION Spec
CHECK_DEADLOCK FALSE
INVARIANTS
    LedgerChecks
    PaidOnceToOne
    SettlementsMatchTotals
PROPERTIES
    StepChecks
