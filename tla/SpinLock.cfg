SPECIFICATION FairSpec
CONSTANTS
  Proc = {p1, p2, p3}
  IntMod = 16
  CtrMod = 64
  MaxTickets = 6
INVARIANTS
  TypeOK
  MutualExclusion
  TicketsInOrder
PROPERTIES
  EveryoneServed
  ImplementsFifo
CHECK_DEADLOCK FALSE
