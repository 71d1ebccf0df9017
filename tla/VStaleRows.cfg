SPECIFICATION Spec
CONSTANTS
  MaxOrders = 3
  Levels = 2
  Sides = {"BUY"}
  BatchSize = 1
  Threshold = 2
  MaxTimeouts = 0
  MaxCrashes = 1
  MaxDrops = 0
  MaxCloses = 0
PROPERTIES
  StaleRowsAreMarked
CHECK_DEADLOCK FALSE
