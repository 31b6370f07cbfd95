\* One invocation dies between a log's row and its projection.
SPECIFICATION Spec
CONSTANTS
  p1 = p1 m1 = m1 o1 = o1 o2 = o2
  Portfolios = {p1}
  Markets = {m1}
  Orders = {o1, o2}
  NoMarket = NoMarket
  NoOrder = NoOrder
  OwnerOf <- OneOwner
  MarketOf <- OneMarket
  MaxQty = 1
  MaxBlock = 3
  Transactions = {"create", "execute"}
  Workers = {w1}
  Window = 2
  ChunkSize = 1
  StateFrom = 0
  Faults = {"crash"}
  MaxFaults = 1
  MaxRewinds = 0
  RoughUpTo = 3
INVARIANT RetriedNotLost
CHECK_DEADLOCK FALSE
