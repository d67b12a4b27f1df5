SPECIFICATION FairSpec
CONSTANTS
  c1 = c1
  c2 = c2
  Conn = {c1, c2}
  Kinds <- MCKinds
  Menu <- MCMenu
  Window = 2
  Stage = 3
  MaxBody = 2
  Offload = TRUE
  OffloadMin = 1
INVARIANTS
  TypeOK
  WholeBody
  BodyBounded
  OwnAnswer
  AnswersInOrder
PROPERTIES
  ConnectionEnds
  StopReturns
CHECK_DEADLOCK FALSE
