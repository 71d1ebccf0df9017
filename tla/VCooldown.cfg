SPECIFICATION Spec
CONSTANTS
  Orders = {1, 2, 3, 4, 5}
  Levels = 2
  Sides = {"BUY"}
  MaxNet = 2
  Budget <- Stop
  Prices <- MCPrices
  Spacings <- MCSpacings
  Ticks <- MCTicks
  Deepest = 3
PROPERTIES
  CooldownPauses
CHECK_DEADLOCK FALSE
