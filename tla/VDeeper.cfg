SPECIFICATION Spec
CONSTANTS
  Orders = {1, 2, 3, 4, 5}
  Levels = 2
  Sides = {"BUY", "SELL"}
  MaxNet = 3
  Budget <- None
  Prices <- MCPrices
  Spacings <- MCSpacings
  Ticks <- MCTicks
  Deepest = 3
PROPERTIES
  ReplenishedDeeper
CHECK_DEADLOCK FALSE
