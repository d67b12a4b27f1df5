------------------------------ MODULE FifoLock ------------------------------
(***************************************************************************)
(* What suil::Lock (src/suil/worker.h:20-37) promises its users, without   *)
(* tickets: callers are let in one at a time and in the order in which     *)
(* they asked, until the lock is cancelled.  SpinLock implements it.       *)
(***************************************************************************)
CONSTANT Proc        \* the coroutines, of any process, that use the lock

VARIABLES
  waiting,           \* callers that asked and are not in yet
  owners,            \* callers that are in
  ahead,             \* ahead[p]: who asked before p and has not left yet
  open               \* the lock was cancelled and lets everybody in

avars == <<waiting, owners, ahead, open>>

AInit ==
  /\ waiting = {}
  /\ owners = {}
  /\ ahead = [p \in Proc |-> {}]
  /\ open = FALSE

Ask(p) ==
  /\ p \notin waiting \cup owners
  /\ waiting' = waiting \cup {p}
  /\ ahead' = [ahead EXCEPT ![p] = waiting \cup owners]
  /\ UNCHANGED <<owners, open>>

(* Nobody overtakes: p gets in when all those ahead of it have left.       *)
Enter(p) ==
  /\ p \in waiting
  /\ open \/ (ahead[p] = {} /\ owners = {})
  /\ waiting' = waiting \ {p}
  /\ owners' = owners \cup {p}
  /\ UNCHANGED <<ahead, open>>

Leave(p) ==
  /\ p \in owners
  /\ owners' = owners \ {p}
  /\ ahead' = [q \in Proc |-> IF q = p THEN {} ELSE ahead[q] \ {p}]
  /\ UNCHANGED <<waiting, open>>

Open ==
  /\ open' = TRUE
  /\ UNCHANGED <<waiting, owners, ahead>>

ANext == Open \/ \E p \in Proc : Ask(p) \/ Enter(p) \/ Leave(p)

ASpec == AInit /\ [][ANext]_avars
=============================================================================
