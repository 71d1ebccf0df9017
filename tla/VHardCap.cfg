SPECIFICATION Spec
CONSTANTS
  Orders = {1, 2, 3, 4, 5}
  Levels = 2
  Sides = {"BUY"}
  MaxNet = 1
  Budget <- None
  Prices <- MCPrices
  Spacings <- MCSpacings
  Ticks <- MCTicks
  Deepest = 3
INVARIANTS
  HardCap
CHECK_DEADLOCK FALSE
