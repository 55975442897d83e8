SPECIFICATION Spec
CONSTANTS
  c1 = c1
  c2 = c2
  c3 = c3
  c4 = c4
  Runtime = runtime
  Calls <- LimitCalls
  Patched <- NoCalls
  Requests <- PlainRequests
  Configs <- PlainConfigs
  MaxPerSession = 1
  MaxPerDay = 1
  MaxLamportsPerTx = 2
  DayLength = 1
  SessionExpiry = 1
  MaxTime = 1
  MaxInFlight = 1
CHECK_DEADLOCK FALSE
INVARIANTS
  LandedWithinSession
