SPECIFICATION WsFairSpec
CONSTANTS
  Base = 2
  MaxDelay = 7
  StaleAfter = 4
  CheckEvery = 3
INVARIANTS
  SocketOrTimer
  SilenceBounded
  NewConnectionSpared
PROPERTIES
  AttemptsSpaced
  DeadIsReplaced
CHECK_DEADLOCK FALSE
