SPECIFICATION Spec
CONSTANTS
  Tasks = {1, 2}
  StopIds = {1, 2, 3, 4, 5, 6}
  MaxVersion = 1
  Budget <- Errors
INVARIANTS
  StopsBoundedByOverlap
PROPERTIES
  BookSpec
