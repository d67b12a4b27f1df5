SPECIFICATION FairSpec
CONSTANTS
  Coro = {u1, u2}
  Conn = {c1, c2, c3}
  None = None
  ExpiresOpts <- MCExpires
  MinWait = 4
  Slack = 2
  Grace = 1
  PruneBatch = 1
  LastUse = 5
  MaxLag = 1
INVARIANTS
  TypeOK
  OneOwner
  SortedByExpiry
  CleanerPresent
  ClosedInTime
  RefsCountUsers
PROPERTIES
  IdleReleased
CHECK_DEADLOCK FALSE
