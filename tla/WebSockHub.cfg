CONSTANTS
  Sock = {s1, s2, s3}
  MaxBcasts = 2
  NoOne = NoOne
  Handler = Handler
SPECIFICATION Spec
SYMMETRY SockSymmetry
INVARIANTS
  TypeOK
  Registry
  FreedLast
  WrittenOnce
  AnswersBalance
CHECK_DEADLOCK FALSE
