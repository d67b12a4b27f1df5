SPECIFICATION FairSpec
CONSTANTS
  Proc = {p1, p2}
  IntMod = 8
  CtrMod = 32
  MaxTickets = 6
PROPERTIES
  EveryoneServed
CHECK_DEADLOCK FALSE
