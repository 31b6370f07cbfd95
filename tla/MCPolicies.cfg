\* Everything the owner can set and move, against a clock.
SPECIFICATION MCSpec
CONSTANTS
    m1 = m1
    m2 = m2
    p1 = p1
    p2 = p2
    d1 = d1
    d2 = d2
    One = 2
    Markets = {m1}
    Pools = {p1}
    MaxGen = 1
    MaxOrders = 2
    MaxTime = 2
    PoolOf <- OwnPool
    GenOf <- FirstGen
    TradingStart <- AlwaysOpen
    Expiry <- BriefWindow
    Outcomes = {"resolvedYes"}
    Prices = {1}
    Amounts = {2}
    DepositSizes = {}
    MaxHeld = 2
    Agents = {a1, a2}
    Domains = {d1}
    NoDomain = NoDomain
    DomainOf <- SameDomain
    MaxMarkets = 2
    MaxNonce = 2
    Intents <- TwoContracts
    TickSize = 1
    LotSize = 1
    MinQuantity = 1
    GlobalPolicies <- MCGlobalPolicies
    DomainPolicies <- MCDomainPolicies
    AgentPolicies <- MCAgentPolicies
CONSTRAINTS
    SettledLast
    StillTelling
SYMMETRY AgentSymmetry
INVARIANTS
    CleanStackMeansAdmitted
    AccusesOnlyTheOvertaken
PROPERTIES
    AdmissionKeepsBudgets
    OneOrderPerNonce
CHECK_DEADLOCK FALSE
