SPECIFICATION FairSpec
CONSTANTS
  N = 2
  Loaded = FALSE
  None = None
PROPERTIES
  ExitReturns
CHECK_DEADLOCK FALSE
