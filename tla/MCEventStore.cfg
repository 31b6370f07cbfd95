\* One view and the alarm over a chain of five blocks whose nodes may trail it by one.
SPECIFICATION FairSpec
CONSTANTS
  MaxBlock = 5
  DeployedAt = 2
  FactoryAt = 1
  WindowSize = 1
  Concurrency = 2
  MaxWindows = 2
  Overlap = 1
  InlineCatchup = 2
  CurrentWithin = 1
  PutSize = 1
  Lag = 1
  r1 = r1
  Requests = {r1}
  Faults = {"rpc", "evict"}
  MaxFaults = 1
INVARIANT NoLogMissed CompleteMeansCurrent
PROPERTY ImplementsLedger ConnectedCatchesUp
