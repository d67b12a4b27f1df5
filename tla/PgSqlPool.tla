----------------------------- MODULE PgSqlPool ------------------------------
(***************************************************************************)
(* The connection pool of PgSqlDb: src/suil/sql/pgsql.cpp:45-73, 114-254   *)
(* and src/suil/sql/pgsql.h:904-925, 981-1050.                             *)
(*                                                                         *)
(* Coroutines borrow connections with connection(), share them with get()  *)
(* and give them back with put(); the last put() hands the connection to   *)
(* free(), which keeps it at the back of the deque conns for keep_alive    *)
(* milliseconds.  One coroutine, cleanup(), sleeps on the channel notify   *)
(* and closes what has expired from the front.  The destructor tells it to *)
(* stop and closes the rest.                                               *)
(*                                                                         *)
(* Coroutines are cooperative: an action runs one of them up to the next   *)
(* yield(), channel operation or go().  go(cleanup(..)) runs cleanup() at  *)
(* once, up to its first wait, so it is part of the action that calls it.  *)
(* Which ready coroutine runs next is left open.  A PGconn is a member of  *)
(* Conn; the same one may be opened again after it was closed.             *)
(***************************************************************************)
EXTENDS Integers, Sequences, FiniteSets

CONSTANTS
  Coro,          \* the coroutines that use the database
  Conn,          \* the PGconns; as many as the server accepts
  None,          \* nullptr
  ExpiresOpts,   \* the values of the EXPIRES option to consider
  MinWait,       \* 3000 ms in the code: least keep_alive and least sleep
  Slack,         \* 500 ms: what expires that soon is closed already
  Grace,         \* 5 ms: added to the first sleep of the cleaner
  PruneBatch,    \* 100: the cleaner yields after that many closes
  LastUse,       \* bound: coroutines call the database until this time
  MaxLag         \* bound: how late the scheduler may run a due cleaner

ASSUME CoroAssumption == IsFiniteSet(Coro)
ASSUME NoneAssumption == None \notin Conn
ASSUME ExpiresAssumption == ExpiresOpts \subseteq Int
ASSUME TimesAssumption ==
  /\ MinWait \in Nat \ {0}
  /\ Slack \in Nat
  /\ Grace \in Nat
  /\ Grace + Slack < MinWait
  /\ PruneBatch \in Nat \ {0}
  /\ LastUse \in Nat
  /\ MaxLag \in Nat \ {0}

VARIABLES
  keep_alive,    \* PgSqlDb::keep_alive
  conns,         \* PgSqlDb::conns, a sequence of [conn, alive]
  cleaning,      \* PgSqlDb::cleaning
  open,          \* the PGconns connected to the server
  leaked,        \* the PGconns connected to the server that nobody knows
  held,          \* held[u]: the PgSqlConnection coroutine u uses, or None
  refs,          \* refs[c]: PgSqlConnection::refs
  pc,            \* pc[u]: "idle", "connecting" (yielded in connection()), "using"
  y,             \* y[u]: the local variable y of connection()
  cl,            \* where cleanup() is: "off", "wait" (on notify), "woken" (its
                 \* deadline passed), "notified" (it got a value), "yielded"
  expires,       \* local variable of cleanup()
  wake,          \* the deadline of its wait, or when a value ended the wait
  t,             \* local variable t of cleanup()
  dtor,          \* where ~PgSqlDb is: "no", "notify" (blocked in notify <<
                 \* true), "spin" (while (cleaning) yield()), "done"
  now            \* mnow()

userVars == <<held, refs, pc, y>>
cleanVars == <<cl, expires, wake, t>>
vars == <<keep_alive, conns, cleaning, open, leaked, userVars, cleanVars, dtor, now>>

-----------------------------------------------------------------------------
Handle == [conn : Conn, alive : Int]
PooledConns == {conns[i].conn : i \in 1 .. Len(conns)}

MaxOf(a, b) == IF a >= b THEN a ELSE b

(* configure(): a positive keep alive is at least three seconds.           *)
Clamp(e) == IF e > 0 /\ e < MinWait THEN MinWait ELSE e

Init ==
  /\ keep_alive \in {Clamp(e) : e \in ExpiresOpts}
  /\ conns = << >>
  /\ cleaning = FALSE
  /\ open = {}
  /\ leaked = {}
  /\ held = [u \in Coro |-> None]
  /\ refs = [c \in Conn |-> 0]
  /\ pc = [u \in Coro |-> "idle"]
  /\ y = [u \in Coro |-> 0]
  /\ cl = "off"
  /\ expires = 0
  /\ wake = 0
  /\ t = 0
  /\ dtor = "no"
  /\ now = 0

-----------------------------------------------------------------------------
(* connection().                                                           *)

(* The Connection object is made around c and returned to u.               *)
Hand(u, c) ==
  /\ held' = [held EXCEPT ![u] = c]
  /\ refs' = [refs EXCEPT ![c] = 1]
  /\ pc' = [pc EXCEPT ![u] = "using"]
  /\ y' = [y EXCEPT ![u] = 0]

(* open() succeeds.                                                        *)
OpenOk(u) ==
  \E c \in Conn \ open :
    /\ open' = open \cup {c}
    /\ Hand(u, c)
    /\ UNCHANGED <<conns, leaked>>

(* open() fails and connection() yields, with left more attempts to come.  *)
OpenFails(u, left) ==
  /\ pc' = [pc EXCEPT ![u] = "connecting"]
  /\ y' = [y EXCEPT ![u] = left]
  /\ UNCHANGED <<open, conns, leaked, held, refs>>

(* open() connects but PQsetnonblocking fails: it throws and forgets the   *)
(* PGconn, which stays connected.                                          *)
OpenThrows(u) ==
  \E c \in Conn \ open :
    /\ open' = open \cup {c}
    /\ leaked' = leaked \cup {c}
    /\ pc' = [pc EXCEPT ![u] = "idle"]
    /\ y' = [y EXCEPT ![u] = 0]
    /\ UNCHANGED <<conns, held, refs>>

TryOpen(u, left) == OpenOk(u) \/ OpenFails(u, left) \/ OpenThrows(u)

(* A slip: the connection taken stays in the deque.                        *)
TakeWithoutPop(u) ==
  /\ conns # << >>
  /\ Hand(u, conns[Len(conns)].conn)
  /\ UNCHANGED <<conns, open, leaked>>

(* Take the connection at the back of the deque.                           *)
TakeBack(u) ==
  /\ conns # << >>
  /\ Hand(u, conns[Len(conns)].conn)
  /\ conns' = SubSeq(conns, 1, Len(conns) - 1)
  /\ UNCHANGED <<open, leaked>>

(* "connection limit reached" is thrown.                                   *)
Throw(u) ==
  /\ pc' = [pc EXCEPT ![u] = "idle"]
  /\ UNCHANGED <<conns, open, leaked, held, refs, y>>

InUse == dtor = "no" /\ now <= LastUse

Connect(u) ==
  /\ InUse
  /\ pc[u] = "idle"
  /\ IF conns = << >> THEN TryOpen(u, 2) ELSE TakeBack(u)
  /\ UNCHANGED <<keep_alive, cleaning, cleanVars, dtor, now>>

(* A slip: the loop goes on whatever y.                                    *)
RetryForever(u) ==
  /\ pc[u] = "connecting"
  /\ IF conns # << >> THEN TakeBack(u) ELSE TryOpen(u, y[u] - 1)
  /\ UNCHANGED <<keep_alive, cleaning, cleanVars, dtor, now>>

(* The loop condition "conns.empty() && y--" after a yield, and the rest.  *)
Retry(u) ==
  /\ pc[u] = "connecting"
  /\ IF conns # << >> THEN TakeBack(u)
     ELSE IF y[u] > 0 THEN TryOpen(u, y[u] - 1)
     ELSE Throw(u)
  /\ UNCHANGED <<keep_alive, cleaning, cleanVars, dtor, now>>

(* A slip: get() does not count.                                           *)
ShareUncounted(u, w) ==
  /\ InUse
  /\ pc[u] = "idle"
  /\ pc[w] = "using"
  /\ held' = [held EXCEPT ![u] = held[w]]
  /\ pc' = [pc EXCEPT ![u] = "using"]
  /\ UNCHANGED <<keep_alive, conns, cleaning, open, leaked, refs, y, cleanVars, dtor, now>>

(* PgSqlConnection::get: coroutine u gets a reference of w's connection.   *)
Share(u, w) ==
  /\ InUse
  /\ pc[u] = "idle"
  /\ pc[w] = "using"
  /\ held' = [held EXCEPT ![u] = held[w]]
  /\ refs' = [refs EXCEPT ![held[w]] = @ + 1]
  /\ pc' = [pc EXCEPT ![u] = "using"]
  /\ UNCHANGED <<keep_alive, conns, cleaning, open, leaked, y, cleanVars, dtor, now>>

-----------------------------------------------------------------------------
(* put() and close(): destroy(), and for the last reference free().        *)

StartCleanup ==
  /\ cleaning' = TRUE
  /\ cl' = "wait"
  /\ expires' = keep_alive + Grace
  /\ wake' = now + keep_alive + Grace
  /\ UNCHANGED t

(* Slips: the handle goes to the front; cleanup() is never scheduled.      *)
FreeToFront(c) ==
  IF keep_alive # 0
  THEN /\ conns' = <<[conn |-> c, alive |-> now + keep_alive]>> \o conns
       /\ open' = open
       /\ IF ~cleaning /\ keep_alive > 0
          THEN StartCleanup
          ELSE UNCHANGED <<cleaning, cleanVars>>
  ELSE /\ open' = open \ {c}
       /\ UNCHANGED <<conns, cleaning, cleanVars>>

FreeUnscheduled(c) ==
  IF keep_alive # 0
  THEN /\ conns' = Append(conns, [conn |-> c, alive |-> now + keep_alive])
       /\ UNCHANGED <<open, cleaning, cleanVars>>
  ELSE /\ open' = open \ {c}
       /\ UNCHANGED <<conns, cleaning, cleanVars>>

Free(c) ==
  IF keep_alive # 0
  THEN /\ conns' = Append(conns, [conn |-> c, alive |-> now + keep_alive])
       /\ open' = open
       /\ IF ~cleaning /\ keep_alive > 0
          THEN StartCleanup
          ELSE UNCHANGED <<cleaning, cleanVars>>
  ELSE /\ open' = open \ {c}
       /\ UNCHANGED <<conns, cleaning, cleanVars>>

Put(u) ==
  /\ pc[u] = "using"
  /\ now <= LastUse
  /\ held' = [held EXCEPT ![u] = None]
  /\ pc' = [pc EXCEPT ![u] = "idle"]
  /\ refs' = [refs EXCEPT ![held[u]] = @ - 1]
  /\ IF refs[held[u]] - 1 > 0
     THEN UNCHANGED <<conns, open, cleaning, cleanVars>>
     ELSE Free(held[u])
  /\ UNCHANGED <<keep_alive, leaked, y, dtor, now>>

-----------------------------------------------------------------------------
(* cleanup().                                                              *)

(* Wait on notify for e.  A destructor blocked in notify << true is        *)
(* served at once.                                                         *)
WaitNotify(e) ==
  /\ expires' = e
  /\ IF dtor = "notify"
     THEN cl' = "notified" /\ wake' = now /\ dtor' = "spin"
     ELSE cl' = "wait" /\ wake' = now + e /\ UNCHANGED dtor

(* The deadline of the wait passes.                                        *)
TimerFires ==
  /\ cl = "wait"
  /\ now >= wake
  /\ cl' = "woken"
  /\ UNCHANGED <<keep_alive, conns, cleaning, open, leaked, userVars, expires, wake, t, dtor, now>>

(* The loop closes n connections up to tt from the front, then it yields,  *)
(* reaches the end, or finds one that is not due.                          *)
PrunesTo(n, tt) ==
  /\ n <= PruneBatch
  /\ \A i \in 1 .. n : conns[i].alive <= tt
  /\ n < PruneBatch /\ n < Len(conns) => conns[n + 1].alive > tt

(* A slip: the flag is reset where the deque is empty, before the yield    *)
(* and the last turn of the loop.                                          *)
PruneDoneEarly(tt) ==
  \E n \in 0 .. Len(conns) :
    LET rest == SubSeq(conns, n + 1, Len(conns)) IN
    /\ PrunesTo(n, tt)
    /\ conns' = rest
    /\ open' = open \ {conns[i].conn : i \in 1 .. n}
    /\ t' = tt
    /\ cleaning' = (cleaning /\ rest # << >>)
    /\ \/ /\ n = PruneBatch
          /\ cl' = "yielded"
          /\ UNCHANGED <<expires, wake, dtor>>
       \/ /\ n < PruneBatch
          /\ rest # << >>
          /\ WaitNotify(MaxOf(rest[1].alive - tt, MinWait))
       \/ /\ n < PruneBatch
          /\ rest = << >>
          /\ cl' = "off"
          /\ UNCHANGED <<expires, wake, dtor>>
    /\ UNCHANGED <<keep_alive, leaked, userVars, now>>

Prune(tt) ==
  \E n \in 0 .. Len(conns) :
    LET rest == SubSeq(conns, n + 1, Len(conns)) IN
    /\ PrunesTo(n, tt)
    /\ conns' = rest
    /\ open' = open \ {conns[i].conn : i \in 1 .. n}
    /\ t' = tt
    /\ \/ /\ n = PruneBatch
          /\ cl' = "yielded"
          /\ UNCHANGED <<cleaning, expires, wake, dtor>>
       \/ /\ n < PruneBatch
          /\ rest # << >>
          /\ WaitNotify(MaxOf(rest[1].alive - tt, MinWait))
          /\ UNCHANGED cleaning
       \/ /\ n < PruneBatch
          /\ rest = << >>
          /\ cleaning' = FALSE
          /\ cl' = "off"
          /\ UNCHANGED <<expires, wake, dtor>>
    /\ UNCHANGED <<keep_alive, leaked, userVars, now>>

(* A slip: what expired in the last 500 ms is kept.                        *)
StartPruneLate == cl = "woken" /\ Prune(now - Slack)

StartPrune == cl = "woken" /\ Prune(now + Slack)

ResumePrune == cl = "yielded" /\ Prune(t)

(* "if (status) continue": on to the loop condition.                       *)
Notified ==
  /\ cl = "notified"
  /\ IF conns # << >>
     THEN WaitNotify(expires) /\ UNCHANGED cleaning
     ELSE cleaning' = FALSE /\ cl' = "off" /\ UNCHANGED <<expires, wake, dtor>>
  /\ UNCHANGED <<keep_alive, conns, open, leaked, userVars, t, now>>

-----------------------------------------------------------------------------
(* ~PgSqlDb.  It is called when no coroutine uses the database any more.   *)

CloseAll ==
  /\ open' = open \ PooledConns
  /\ conns' = << >>
  /\ dtor' = "done"

Destroy ==
  /\ InUse
  /\ \A u \in Coro : pc[u] = "idle"
  /\ IF cleaning
     THEN /\ IF cl = "wait"
             THEN dtor' = "spin" /\ cl' = "notified" /\ wake' = now
             ELSE dtor' = "notify" /\ UNCHANGED <<cl, wake>>
          /\ UNCHANGED <<conns, open>>
     ELSE CloseAll /\ UNCHANGED <<cl, wake>>
  /\ UNCHANGED <<keep_alive, cleaning, leaked, userVars, expires, t, now>>

DestroySpin ==
  /\ dtor = "spin"
  /\ ~cleaning
  /\ CloseAll
  /\ UNCHANGED <<keep_alive, cleaning, leaked, userVars, cleanVars, now>>

-----------------------------------------------------------------------------
(* Time.  It passes until everything put back by LastUse must be gone, and *)
(* a cleaner that is due runs within MaxLag.                               *)
Horizon == LastUse + MaxOf(keep_alive, 0) + MinWait + Grace + 3 * MaxLag

Tick ==
  /\ now < Horizon
  /\ cl # "off" => now < wake + MaxLag
  /\ now' = now + 1
  /\ UNCHANGED <<keep_alive, conns, cleaning, open, leaked, userVars, cleanVars, dtor>>

Clean == TimerFires \/ StartPrune \/ ResumePrune \/ Notified

Next ==
  \/ \E u \in Coro : Connect(u) \/ Retry(u) \/ Put(u)
  \/ \E u, w \in Coro : Share(u, w)
  \/ Clean
  \/ Destroy
  \/ DestroySpin
  \/ Tick

Spec == Init /\ [][Next]_vars

(* Time passes, libmill runs every coroutine that is ready, and timers     *)
(* fire.  No coroutine has to give a connection back.                      *)
Fairness ==
  /\ WF_vars(Tick)
  /\ WF_vars(Clean)
  /\ WF_vars(DestroySpin)
  /\ \A u \in Coro : WF_vars(Retry(u))

FairSpec == Spec /\ Fairness

-----------------------------------------------------------------------------
(* The variables of the pool, of its users and of cleanup() keep their     *)
(* types; y, the attempts left in connection(), never goes below zero.     *)
TypeOK ==
  /\ keep_alive \in Int
  /\ conns \in Seq(Handle)
  /\ cleaning \in BOOLEAN
  /\ open \subseteq Conn
  /\ leaked \subseteq Conn
  /\ held \in [Coro -> Conn \cup {None}]
  /\ refs \in [Conn -> Int]
  /\ pc \in [Coro -> {"idle", "connecting", "using"}]
  /\ y \in [Coro -> 0 .. 2]
  /\ cl \in {"off", "wait", "woken", "notified", "yielded"}
  /\ expires \in Int
  /\ wake \in Int
  /\ t \in Int
  /\ dtor \in {"no", "notify", "spin", "done"}
  /\ now \in Nat

HeldConns == {held[u] : u \in {w \in Coro : pc[w] = "using"}}

(* Every connection open at the server has exactly one owner: one place in *)
(* the deque, or the coroutines that share it, or it was lost when open()  *)
(* threw.  So no connection is given to a second borrower, closed while    *)
(* borrowed, closed twice, or forgotten.                                   *)
OneOwner ==
  /\ open = PooledConns \cup HeldConns \cup leaked
  /\ PooledConns \cap HeldConns = {}
  /\ leaked \cap (PooledConns \cup HeldConns) = {}
  /\ \A i, j \in 1 .. Len(conns) : conns[i].conn = conns[j].conn => i = j

(* get() and put() balance: refs counts the coroutines that use the        *)
(* connection, so that the last put(), and no earlier one, frees it.       *)
RefsCountUsers ==
  \A c \in HeldConns : refs[c] = Cardinality({u \in Coro : pc[u] = "using" /\ held[u] = c})

(* The deque is ordered by expiry from the front, although it is popped at *)
(* the back: "there is no point in going forward" (pgsql.cpp:215).         *)
SortedByExpiry ==
  \A i, j \in 1 .. Len(conns) : i <= j => conns[i].alive <= conns[j].alive

(* Until the destructor is called, the flag that free() goes by is up      *)
(* exactly while cleanup() has not returned, also over its yield in the    *)
(* middle of a prune: so a pool with a keep alive never holds an idle      *)
(* connection without a cleaner to close it, and never has two cleaners.   *)
CleanerPresent ==
  dtor = "no" =>
    /\ cleaning <=> cl # "off"
    /\ keep_alive > 0 /\ conns # << >> => cleaning

(* A connection overstays its keep alive by less than three seconds and    *)
(* the lag of the scheduler, unless the destructor woke the cleaner.       *)
ClosedInTime ==
  keep_alive > 0 /\ dtor = "no" =>
    \A i \in 1 .. Len(conns) : now <= conns[i].alive + MinWait - Slack + 2 * MaxLag

(* Every idle connection is borrowed again or closed in the end.           *)
IdleReleased ==
  \A c \in Conn : (keep_alive > 0 /\ c \in PooledConns) ~> c \notin PooledConns

(* The destructor returns: "wait for the cleaning coroutine to end"        *)
(* (pgsql.cpp:119).                                                        *)
DestructorReturns == dtor # "no" ~> dtor = "done"
=============================================================================
