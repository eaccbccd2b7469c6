SPECIFICATION BridgeSpec
CONSTANTS
  Cooldown = 2
  Sleep = 3
  Depth = 2
  MaxTime = 5
  MaxTwist = 5
INVARIANTS BalanceFollowsStand NewestPrevails
CHECK_DEADLOCK FALSE
