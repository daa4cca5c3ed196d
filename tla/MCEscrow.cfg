CONSTANTS
    alice = alice
    bob = bob
    r0 = r0
    r1 = r1
    usdc = usdc
    NoAddr = NoAddr
    Addr = {alice, bob, r0, r1}
    Tokens = {usdc}
    NumWorkflows = 1
    Contexts <- MCContexts
    InitTime = 1
    MaxTime = 5
    Horizon = 5
    Orders <- MCOrders
    MaxSafeAmount = 1000
    EvidenceCases = {}
    MaxRotations = 1
    Stakers = {}
    StakeAmounts = {}
    MaxStake = 0
    SlashAmounts = {}
    MaxAppealBonds = 0
    FreezeDuration = 2
    PauseValues = {}
    FeeTokens = {usdc}
    Replacements = {r0, r1}
SPECIFICATION Spec
CHECK_DEADLOCK FALSE
INVARIANTS
    DeferredIsCurrentDecision
    RoundsDecidedInOrder
    OutcomeFollowsLastRound
    DisputeRecordsConsistent
    CustomResolverDecidesAlone
    VaultExact
PROPERTIES
    SettledForGood
    NoEarlySettlement
    ImplementsAgreement
