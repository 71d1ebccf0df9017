SPECIFICATION Spec
CONSTANTS
  Orders = {1, 2, 3, 4, 5, 6}
  Levels = 2
  Sides = {"BUY", "SELL"}
  MaxNet = 2
  Budget <- Burst
  Prices <- MCPrices
  Spacings <- MCSpacings
  Ticks <- MCTicks
  Deepest = 3
INVARIANTS
  GridKeepsShape
PROPERTIES
  LevelsApart
CHECK_DEADLOCK FALSE
