SPECIFICATION Spec
CONSTANTS
  Lanes <- MCLanes
  Rounds = 2
  Settings <- MCSettings
  MaxHeld = 4
INVARIANT ExecutedUnderAgentPolicy
CHECK_DEADLOCK FALSE
