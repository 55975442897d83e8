SPECIFICATION Spec
CONSTANTS
  o1 = o1
  s1 = s1
  s2 = s2
  vault1 = vault1
  r1 = r1
  r2 = r2
  v1 = v1
  v2 = v2
  Owners = {o1}
  SessionIds = {s1, s2}
  Accounts = {vault1, r1, r2}
  Programs = {"transfer", "swap"}
  Verifiers = {v1, v2}
  VaultOf <- MCVaultOf
  SignedBy <- MCSignedBy
  PolicyParams <- MCPolicyParams
  Payloads <- MCPayloads
  Deposits = {3}
  SecondsPerDay = 2
  SecondsPerMinute = 1
  MaxFutureSkew = 1
  MaxAllowlistItems = 3
  VaultRent = 2
  U64Max = 8
  NoPolicy = NoPolicy
  NoSession = NoSession
  MaxTime = 4
  MaxFunding = 5
CHECK_DEADLOCK FALSE
INVARIANTS
  TypeOK
  DailyLimit
  IndInv
  NoncesConsecutive
  ExecutedWasAuthorised
  LamportsConserved
PROPERTIES
  EndedSessionIsFinal
  KillSwitchHoldsVault
  DrainedVaultIsStranded
  ImplementsLedger
