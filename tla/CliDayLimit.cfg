SPECIFICATION Spec
CONSTANTS
  p1 = p1
  p2 = p2
  alice = alice
  bob = bob
  owner = owner
  Processes = {p1}
  Names = {alice}
  Owners = {owner}
  Presets = {"guarded-live"}
  Limits <- DayLimit
  Strategies = {"memo-heartbeat"}
  Initial <- Stored1
  DataAnchoring = FALSE
  MaxCommands = 3
CHECK_DEADLOCK FALSE
INVARIANT DayLimitOfPolicy
