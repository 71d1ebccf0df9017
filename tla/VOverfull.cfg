SPECIFICATION Spec
CONSTANTS
  MaxOrders = 4
  Levels = 2
  Sides = {"BUY"}
  BatchSize = 2
  Threshold = 2
  MaxTimeouts = 0
  MaxCrashes = 1
  MaxDrops = 0
  MaxCloses = 0
PROPERTIES
  GridNeverOverfull
CHECK_DEADLOCK FALSE
