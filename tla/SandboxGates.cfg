SPECIFICATION FairSpec
CONSTANTS
  c1 = c1
  c2 = c2
  c3 = c3
  c4 = c4
  Runtime = runtime
  Calls <- GateCalls
  Patched <- GatePatched
  Requests <- GateRequests
  Configs <- GateConfigs
  MaxPerSession = 2
  MaxPerDay = 2
  MaxLamportsPerTx = 2
  DayLength = 2
  SessionExpiry = 2
  MaxTime = 3
  MaxInFlight = 2
CHECK_DEADLOCK FALSE
INVARIANTS
  TypeOK
  SpendInv
  BroadcastPassedGates
  AnswersAreTrue
  RecordedLanded
PROPERTY SvmCallsSettle
