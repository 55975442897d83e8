SPECIFICATION Spec
CONSTANTS
  p1 = p1
  p2 = p2
  alice = alice
  bob = bob
  owner = owner
  Processes <- MCProcesses
  Names = {alice, bob}
  Owners = {owner}
  Presets = {"guarded-live"}
  Limits <- DayLimit
  Strategies = {"universal-defi", "simple-scripted-transfer"}
  Initial <- MCInitial
  DataAnchoring = FALSE
  MaxCommands = 2
SYMMETRY MCSymmetry
CHECK_DEADLOCK FALSE
INVARIANT AgentsHaveWallets
PROPERTIES
  PolicyChangesSurvive
  CustodyKept
