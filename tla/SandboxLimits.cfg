SPECIFICATION Spec
CONSTANTS
  c1 = c1
  c2 = c2
  c3 = c3
  c4 = c4
  Runtime = runtime
  Calls <- LimitCalls
  Patched <- NoCalls
  Requests <- LimitRequests
  Configs <- PlainConfigs
  MaxPerSession = 2
  MaxPerDay = 1
  MaxLamportsPerTx = 2
  DayLength = 1
  SessionExpiry = 1
  MaxTime = 1
  MaxInFlight = 2
CHECK_DEADLOCK FALSE
SYMMETRY LimitSymmetry
INVARIANTS
  SessionOvershoot
  DayOvershoot
  SpendOvershoot
  BooksMatchRecords
