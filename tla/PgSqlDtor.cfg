SPECIFICATION FairSpec
CONSTANTS
  Coro = {u1}
  Conn = {c1}
  None = None
  ExpiresOpts = {4}
  MinWait = 4
  Slack = 2
  Grace = 1
  PruneBatch = 2
  LastUse = 6
  MaxLag = 1
PROPERTIES
  DestructorReturns
CHECK_DEADLOCK FALSE
