\* One order on one market, whose row may be wrong; one event of the venue, one fault.
SPECIFICATION FairSpec
CONSTANTS
  p1 = p1  m1 = m1  o1 = o1
  Portfolios = {p1}
  Markets = {m1}
  Orders = {o1}
  OwnerOf <- OneOrder
  MarketOf <- OrderOnM1
  Ghosts = {o1}
  Qty = 1
  Environment = {"fill", "resolve", "roll"}
  Limit = 5
  MaxEnqueue = 2
  PruneAt = 2
  MaxRetries = 1
  MaxEvents = 1
  Faults = {"probe", "budget", "rpc", "timeout", "crash"}
  MaxFaults = 1
INVARIANT NoNonceGap RetiredHasNoRecord
PROPERTY DeadOrdersAreReleased SpentMarketsAreSettled
