\* Two successive markets on one pool, in one domain; order ids start again, tokens move in.
SPECIFICATION EnvelopeSpec
CONSTANTS
    m1 = m1
    m2 = m2
    p1 = p1
    p2 = p2
    d1 = d1
    d2 = d2
    One = 2
    Markets = {m1, m2}
    Pools = {p1}
    MaxGen = 2
    MaxOrders = 2
    MaxTime = 1
    PoolOf <- SharedPool
    GenOf <- Successive
    TradingStart <- AlwaysOpen
    Expiry <- NeverCloses
    Outcomes = {"resolvedYes"}
    Prices = {1}
    Amounts = {}
    DepositSizes = {1}
    MaxHeld = 1
    Agents = {a1}
    Domains = {d1}
    NoDomain = NoDomain
    DomainOf <- SameDomain
    MaxMarkets = 2
    MaxNonce = 2
    Intents <- AnyGeneration
    TickSize = 1
    LotSize = 1
    MinQuantity = 1
    GlobalPolicies = {}
    DomainPolicies = {}
    AgentPolicies = {}
INVARIANTS
    DomainListsMatchTracking AttributionCoversReservations TypeOK ReservedMatchesRecords RecordsCoverOrders NeverUnderstates ReservationsMatchRecords
    PinnedToItsGeneration VerifierJudgesRight
PROPERTY KnownMarketKeepsCeiling
CHECK_DEADLOCK FALSE
