SPECIFICATION Spec
CONSTANTS
  Tasks = {1}
  StopIds = {1, 2, 3}
  MaxVersion = 2
  Budget <- Restart
PROPERTIES
  RestartProtects
