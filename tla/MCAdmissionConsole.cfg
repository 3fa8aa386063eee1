SPECIFICATION ASpec
CONSTANTS
  MAX_FAILURES = 2
  Disturbances = 3
PROPERTY ConsoleOpens
CHECK_DEADLOCK FALSE
