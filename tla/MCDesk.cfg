\* A scheduled and a manual tick over one portfolio that others move, against
\* the clock: the market nears its end, the policy ends, the cooldown runs.
SPECIFICATION MCSpec
CONSTANTS
  Ticks <- Invocations
  MaxNonce = 1
  MaxRecords = 1
  MaxFaults = 1
  MaxMoves = 1
  Ceiling = 1
  MaxMarkets = 2
  Expiries = {4}
  MinRemaining = 3
  Headroom = 2
  Cooldown = 1
  PolicyEnds = {1, 9}
  MaxTime = 4
  Bids = {500}
  Bands = {60, 200}
  Kinds = {"BUY_YES"}
INVARIANT RecordedCodeIsTheRevert SentOnceShowsItsDecision PaysOnlyWhenOvertaken
PROPERTY WidensUntilItRests
CHECK_DEADLOCK FALSE
