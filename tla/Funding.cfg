SPECIFICATION FairSpec
CONSTANTS
  c1 = c1
  c2 = c2
  Calls <- MCCalls
  Amounts = {1, 2}
  LAMPORTS_PER_SOL = 1
  Reserve = 1
  Fee = 1
  Treasuries <- MCTreasuries
  FaucetAttempts = 2
  RpcTries = 1
  WaitAttempts = 1
CHECK_DEADLOCK FALSE
INVARIANTS
  SuccessMeansFunded
  TreasuryPaysOnce
PROPERTY CallsSettle
