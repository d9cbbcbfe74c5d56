CONSTANTS
  None = None
  MaxConns = 3
  MaxDialFailures = 1
SPECIFICATION FairSpec
PROPERTY KeptAlive
CHECK_DEADLOCK FALSE
