SPECIFICATION FairSpec
CONSTANTS
  N = 3
  User = {u1}
  MaxTime = 2
  expiry = 1
  None = None
INVARIANTS
  TypeOK
  HandledIsCurrent
  SentIsStored
  LogoutTakesEffect
  RefusedWithReason
PROPERTIES
  Answered
CHECK_DEADLOCK FALSE
