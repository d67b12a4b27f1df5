SPECIFICATION FairSpec
CONSTANTS
  MaxCalls = 4
  Shapes = {"val", "err", "nil", "str", "array", "empty"}
INVARIANTS
  TypeOK
  OwnReply
  TransactionIsAtomic
  DestroyedLeavesNoMulti
PROPERTIES
  CallReturns
CHECK_DEADLOCK FALSE
