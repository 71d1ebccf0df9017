SPECIFICATION Spec
CONSTANTS
  Users = {u1, u2}
  Values = {v1, v2}
  None = None
  NoAmount = NoAmount
  MaxUploads = 2
  MaxFaults = 1
  MaxHuman = 1
INVARIANTS
  BooksAgree
  SessionsSound
PROPERTIES
  UndoTakesOwnRow
  LogMovesForward
SYMMETRY Interchangeable
CHECK_DEADLOCK FALSE
