CONSTANTS
    alice = alice
    bob = bob
    r0 = r0
    r1 = r1
    usdc = usdc
    NoAddr = NoAddr
    Addr = {alice, bob, r0, r1}
    Tokens = {usdc}
    NumWorkflows = 1
    Contexts <- FraudContexts
    InitTime = 1
    MaxTime = 4
    Horizon = 3
    Orders <- MCOrders
    MaxSafeAmount = 1000
    EvidenceCases = {}
    MaxRotations = 0
    Stakers = {r0}
    StakeAmounts = {35}
    MaxStake = 35
    SlashAmounts = {25}
    MaxAppealBonds = 14
    FreezeDuration = 2
    PauseValues = {}
    FeeTokens = {}
    Replacements = {}
SPECIFICATION Spec
CHECK_DEADLOCK FALSE
INVARIANTS
    TypeOK
    BondsBackOpenAppeals
    CollectedSlashSidelines
    ReservesExplained
PROPERTIES
    WithdrawalsLeaveCover
