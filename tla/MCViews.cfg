\* One market until its end, two orders, one integrity request, settings that change.
SPECIFICATION MCSpec
CONSTANTS
  m1 = m1
  m2 = m2
  p1 = p1
  p2 = p2
  d1 = d1
  d2 = d2
  One = 2
  Markets = {m1}
  Pools = {p1}
  MaxGen = 2
  MaxOrders = 2
  MaxTime = 2
  PoolOf <- OwnPool
  GenOf <- FirstGen
  TradingStart <- AlwaysOpen
  Expiry <- ClosesSoon
  Outcomes = {"resolvedNo", "voided"}
  Prices = {1}
  Amounts = {2}
  DepositSizes = {}
  MaxHeld = 2
  Agents = {a1}
  Domains = {d1}
  NoDomain = NoDomain
  DomainOf <- SameDomain
  MaxMarkets = 2
  MaxNonce = 2
  Intents <- YesSides
  TickSize = 1
  LotSize = 1
  MinQuantity = 1
  GlobalPolicies <- SomeGlobals
  DomainPolicies <- SomePolicies
  AgentPolicies <- SomeAgents
  MaxBehind = 1
  PageSize = 1
  MaxRows = 1
  MaxLog = 5
INVARIANT HistoryExplainsTheContract IndependentAgrees OfferedRedeemPays OfferedIsReleasable AlarmOnlyWhileMoving
CONSTRAINT OwnerFirst
CHECK_DEADLOCK FALSE
