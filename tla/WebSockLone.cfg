CONSTANTS
  Sock = {s1, s2}
  MaxBcasts = 1
  NoOne = NoOne
  Handler = Handler
SPECIFICATION FairSpec
PROPERTIES
  MessageFreed
CHECK_DEADLOCK FALSE
