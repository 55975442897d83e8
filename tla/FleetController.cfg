SPECIFICATION FairSpec
CONSTANTS
  a1 = a1
  a2 = a2
  Agents <- TwoAgents
  Rounds = 5
  MaxActionsPerWindow = 2
  WindowMs = 1
  MaxConsecutiveFailures = 2
  CooldownMs = 3
  MaxTime = 6
CHECK_DEADLOCK FALSE
INVARIANTS
  RateLimited
  BreakerHolds
  ControllerMatchesHistory
PROPERTY AllRoundsComplete
