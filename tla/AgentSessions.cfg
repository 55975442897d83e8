SPECIFICATION Spec
CONSTANTS
  t1 = t1
  t2 = t2
  Threads <- MCThreads
  Keys <- AllKeys
  None = None
  Commitment = Commitment
  Idle = Idle
  Sessions = {1, 2}
  Entries = {1}
  Proofs = {1}
  Patches <- MCPatches
  FirstPolicy <- MCFirstPolicy
  MaxNow = 2
  MaxCalls = 4
  MaxRestarts = 1
  Configs <- MCConfigs
SYMMETRY MCSymmetry
CHECK_DEADLOCK FALSE
INVARIANTS
  ClosedSessionsVerify
  AcknowledgedIsStored
  PolicyMatchesStore
