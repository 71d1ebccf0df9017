SPECIFICATION Spec
CONSTANTS
  Tasks = {1, 2}
  StopIds = {1, 2, 3, 4, 5}
  MaxVersion = 2
  Budget <- Closings
INVARIANTS
  ClosedLeavesNoStop
