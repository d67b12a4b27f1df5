CONSTANTS
  Sock = {s1, s2}
  MaxBcasts = 2
  NoOne = NoOne
  Handler = Handler
SPECIFICATION Spec
INVARIANTS
  OneWriter
CHECK_DEADLOCK FALSE
