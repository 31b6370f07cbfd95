\* Two invocations over four blocks; over two when they overlap, die or are rewound.
SPECIFICATION FairSpec
CONSTANTS
  p1 = p1 m1 = m1 o1 = o1 o2 = o2
  Portfolios = {p1}
  Markets = {m1}
  Orders = {o1, o2}
  NoMarket = NoMarket
  NoOrder = NoOrder
  OwnerOf <- OneOwner
  MarketOf <- OneMarket
  MaxQty = 1
  MaxBlock = 4
  Transactions = {"create", "execute", "release", "settle", "redeem", "prune", "configure"}
  Workers = {w1, w2}
  Window = 3
  ChunkSize = 2
  StateFrom = 0
  Faults = {"crash", "overlap", "readCursor", "writeCursor", "update"}
  MaxFaults = 2
  MaxRewinds = 1
  RoughUpTo = 2
INVARIANT TablesMatchTheContract
INVARIANT CursorCoversLogs
PROPERTY ImplementsLedger
PROPERTY CatchesUp
CHECK_DEADLOCK FALSE
