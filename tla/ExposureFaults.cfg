SPECIFICATION Spec
CONSTANTS
  Orders = {1, 2, 3, 4, 5}
  Levels = 2
  Sides = {"BUY"}
  MaxNet = 1
  Budget <- Faults
  Prices <- MCPrices
  Spacings <- MCSpacings
  Ticks <- MCTicks
  Deepest = 3
INVARIANTS
  TypeOK
  ExposureBounded
CHECK_DEADLOCK FALSE
