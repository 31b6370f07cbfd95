\* Two visitors and the alarm, one new version, one fault of any kind.
SPECIFICATION FairSpec
CONSTANTS
  MaxVersion = 1
  MaxFrames = 1
  Visitors = TRUE
  Faults = {"rpc", "restart", "redeploy", "drop"}
  MaxFaults = 1
INVARIANT UnmarkedIsVerified
PROPERTY ConnectedSeesTheLatest
