\* Outcome tokens reach the portfolio before its first order on their market.
SPECIFICATION EnvelopeSpec
CONSTANTS
    m1 = m1
    m2 = m2
    p1 = p1
    p2 = p2
    d1 = d1
    d2 = d2
    One = 2
    Markets = {m1}
    Pools = {p1}
    MaxGen = 1
    MaxOrders = 2
    MaxTime = 1
    PoolOf <- OwnPool
    GenOf <- FirstGen
    TradingStart <- AlwaysOpen
    Expiry <- NeverCloses
    Outcomes = {"resolvedYes"}
    Prices = {1}
    Amounts = {}
    DepositSizes = {2}
    MaxHeld = 4
    Agents = {a1}
    Domains = {d1}
    NoDomain = NoDomain
    DomainOf <- SameDomain
    MaxMarkets = 2
    MaxNonce = 2
    Intents <- OneOrTwo
    TickSize = 1
    LotSize = 1
    MinQuantity = 1
    GlobalPolicies = {}
    DomainPolicies = {}
    AgentPolicies = {}
PROPERTY
    AdmissionKeepsCeiling
CHECK_DEADLOCK FALSE
