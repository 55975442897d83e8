SPECIFICATION Spec
CONSTANTS
  Lanes <- MCLanes
  Rounds = 2
  Settings <- MCSettings
  MaxHeld = 4
INVARIANTS
  OneTransactionPerIntent
  ReportsAreTrue
  WrongVerificationHasCause
CHECK_DEADLOCK FALSE
