SPECIFICATION FairSpec
CONSTANTS
  Orders = {1, 2, 3, 4}
  Levels = 1
  Sides = {"BUY"}
  MaxNet = 2
  Budget <- StopCrash
  Prices <- MCPrices
  Spacings <- MCSpacings
  Ticks <- MCTicks
  Deepest = 3
PROPERTIES
  GridFollowsCooldown
CHECK_DEADLOCK FALSE
