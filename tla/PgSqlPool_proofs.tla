-------------------------- MODULE PgSqlPool_proofs --------------------------
(***************************************************************************)
(* Theorems about PgSqlPool, for every number of coroutines, connections   *)
(* and every setting of the times.                                         *)
(***************************************************************************)
EXTENDS PgSqlPool, SequenceTheorems, FiniteSetTheorems, TLAPS

(* What the three operations on the deque do to its elements. *)
LEMMA DropLast ==
  ASSUME NEW S, NEW s \in Seq(S), s # << >>
  PROVE  /\ SubSeq(s, 1, Len(s) - 1) \in Seq(S)
         /\ Len(SubSeq(s, 1, Len(s) - 1)) = Len(s) - 1
         /\ \A i \in 1 .. Len(s) - 1 : SubSeq(s, 1, Len(s) - 1)[i] = s[i]
         /\ Len(s) >= 1
  <1>1. Len(s) \in Nat /\ Len(s) >= 1 /\ \A i \in 1 .. Len(s) : s[i] \in S
    OBVIOUS
  <1> DEFINE k == Len(s) - 1
  <1>2. k \in Nat /\ \A i \in 1 .. k : s[i] \in S
    BY <1>1
  <1> HIDE DEF k
  <1>3. /\ SubSeq(s, 1, k) \in Seq(S)
        /\ Len(SubSeq(s, 1, k)) = IF 1 <= k THEN k - 1 + 1 ELSE 0
        /\ \A i \in 1 .. k - 1 + 1 : SubSeq(s, 1, k)[i] = s[1 + i - 1]
    BY <1>2, SubSeqProperties
  <1>4. Len(SubSeq(s, 1, k)) = k
    BY <1>2, <1>3
  <1>5. ASSUME NEW i \in 1 .. k
        PROVE  SubSeq(s, 1, k)[i] = s[i]
    BY <1>2, <1>3
  <1> QED
    BY <1>1, <1>3, <1>4, <1>5 DEF k

(* Pruning n handles from the front of the deque keeps the rest in order. *)
LEMMA DropFirst ==
  ASSUME NEW S, NEW s \in Seq(S), NEW n \in 0 .. Len(s)
  PROVE  /\ SubSeq(s, n + 1, Len(s)) \in Seq(S)
         /\ Len(SubSeq(s, n + 1, Len(s))) = Len(s) - n
         /\ \A i \in 1 .. Len(s) - n : SubSeq(s, n + 1, Len(s))[i] = s[n + i]
  <1>1. Len(s) \in Nat /\ \A i \in 1 .. Len(s) : s[i] \in S
    OBVIOUS
  <1>2. n + 1 \in Int /\ \A i \in n + 1 .. Len(s) : s[i] \in S
    BY <1>1
  <1>3. /\ SubSeq(s, n + 1, Len(s)) \in Seq(S)
        /\ Len(SubSeq(s, n + 1, Len(s))) =
             IF n + 1 <= Len(s) THEN Len(s) - (n + 1) + 1 ELSE 0
        /\ \A i \in 1 .. Len(s) - (n + 1) + 1 :
             SubSeq(s, n + 1, Len(s))[i] = s[(n + 1) + i - 1]
    BY <1>1, <1>2, SubSeqProperties
  <1>4. Len(SubSeq(s, n + 1, Len(s))) = Len(s) - n
    BY <1>1, <1>3
  <1>5. ASSUME NEW i \in 1 .. Len(s) - n
        PROVE  SubSeq(s, n + 1, Len(s))[i] = s[n + i]
    BY <1>1, <1>3
  <1> QED
    BY <1>3, <1>4, <1>5

(* push_back() keeps the handles and puts the new one at the end. *)
LEMMA AddLast ==
  ASSUME NEW S, NEW s \in Seq(S), NEW e \in S
  PROVE  /\ Append(s, e) \in Seq(S)
         /\ Len(Append(s, e)) = Len(s) + 1
         /\ \A i \in 1 .. Len(s) : Append(s, e)[i] = s[i]
         /\ Append(s, e)[Len(s) + 1] = e
  OBVIOUS

-----------------------------------------------------------------------------
(* A coroutine holds a connection exactly while it is using one. *)
UsersHold == \A u \in Coro : IF pc[u] = "using" THEN held[u] \in Conn ELSE held[u] = None

TInv == TypeOK /\ UsersHold

(* Handing a connection to a coroutine keeps the types. *)
LEMMA HandType ==
  ASSUME TInv, NEW u \in Coro, NEW c \in Conn, Hand(u, c)
  PROVE  /\ held' \in [Coro -> Conn \cup {None}]
         /\ refs' \in [Conn -> Int]
         /\ pc' \in [Coro -> {"idle", "connecting", "using"}]
         /\ y' \in [Coro -> 0 .. 2]
         /\ UsersHold'
  BY DEF TInv, TypeOK, UsersHold, Hand

(* open(), with any of its outcomes, keeps the types. *)
LEMMA TryOpenType ==
  ASSUME TInv, NEW u \in Coro, pc[u] # "using", NEW left \in 0 .. 2, TryOpen(u, left),
         UNCHANGED <<keep_alive, cleaning, cleanVars, dtor, now>>
  PROVE  TInv'
  <1>1. CASE OpenOk(u)
    <2>1. PICK c \in Conn : Hand(u, c) /\ open' = open \cup {c}
      BY <1>1 DEF OpenOk
    <2> QED
      BY <1>1, <2>1, HandType DEF OpenOk, TInv, TypeOK, cleanVars
  <1>2. CASE OpenFails(u, left)
    BY <1>2 DEF OpenFails, TInv, TypeOK, UsersHold, cleanVars
  <1>3. CASE OpenThrows(u)
    BY <1>3 DEF OpenThrows, TInv, TypeOK, UsersHold, cleanVars
  <1> QED
    BY <1>1, <1>2, <1>3 DEF TryOpen

(* Taking the back of the deque keeps the types. *)
LEMMA TakeBackType ==
  ASSUME TInv, NEW u \in Coro, TakeBack(u),
         UNCHANGED <<keep_alive, cleaning, cleanVars, dtor, now>>
  PROVE  TInv'
  <1>1. conns' \in Seq(Handle) /\ conns[Len(conns)] \in Handle
    BY DropLast DEF TakeBack, TInv, TypeOK
  <1>2. conns[Len(conns)].conn \in Conn
    BY <1>1 DEF Handle
  <1> QED
    BY <1>1, <1>2, HandType DEF TakeBack, TInv, TypeOK, cleanVars

(* Going to sleep on notify keeps the types. *)
LEMMA WaitNotifyType ==
  ASSUME TInv, NEW e \in Int, WaitNotify(e)
  PROVE  /\ cl' \in {"off", "wait", "woken", "notified", "yielded"}
         /\ cl' # "off"
         /\ expires' \in Int
         /\ wake' \in Int
         /\ dtor' \in {"no", "notify", "spin", "done"}
  BY DEF WaitNotify, TInv, TypeOK

(* A pass of the prune loop keeps the types. *)
LEMMA PruneType ==
  ASSUME TInv, NEW tt \in Int, Prune(tt)
  PROVE  TInv'
  <1>1. PICK n \in 0 .. Len(conns) :
          LET rest == SubSeq(conns, n + 1, Len(conns)) IN
          /\ conns' = rest
          /\ open' = open \ {conns[i].conn : i \in 1 .. n}
          /\ t' = tt
          /\ \/ /\ n = PruneBatch
                /\ cl' = "yielded"
                /\ UNCHANGED <<cleaning, expires, wake, dtor>>
             \/ /\ n < PruneBatch
                /\ rest # << >>
                /\ WaitNotify(MaxOf(rest[1].alive - tt, MinWait))
                /\ UNCHANGED cleaning
             \/ /\ n < PruneBatch
                /\ rest = << >>
                /\ cleaning' = FALSE
                /\ cl' = "off"
                /\ UNCHANGED <<expires, wake, dtor>>
          /\ UNCHANGED <<keep_alive, leaked, userVars, now>>
    BY DEF Prune
  <1>2. conns' \in Seq(Handle)
    BY <1>1, DropFirst DEF TInv, TypeOK
  <1>3. conns' # << >> => MaxOf(conns'[1].alive - tt, MinWait) \in Int
    <2>1. conns' # << >> => conns'[1] \in Handle
      BY <1>2
    <2> QED
      BY <2>1, TimesAssumption DEF Handle, MaxOf
  <1>4. /\ cl' \in {"off", "wait", "woken", "notified", "yielded"}
        /\ expires' \in Int
        /\ wake' \in Int
        /\ dtor' \in {"no", "notify", "spin", "done"}
        /\ cleaning' \in BOOLEAN
    BY <1>1, <1>3, WaitNotifyType DEF TInv, TypeOK
  <1> QED
    BY <1>1, <1>2, <1>4 DEF TInv, TypeOK, UsersHold, userVars

(* free() keeps the types, whether it pools, closes or starts cleanup(). *)
LEMMA FreeType ==
  ASSUME TInv, NEW c \in Conn, Free(c)
  PROVE  /\ conns' \in Seq(Handle)
         /\ open' \subseteq Conn
         /\ cleaning' \in BOOLEAN
         /\ cl' \in {"off", "wait", "woken", "notified", "yielded"}
         /\ expires' \in Int
         /\ wake' \in Int
         /\ t' \in Int
  <1>1. [conn |-> c, alive |-> now + keep_alive] \in Handle
    BY DEF TInv, TypeOK, Handle
  <1>2. Append(conns, [conn |-> c, alive |-> now + keep_alive]) \in Seq(Handle)
    BY <1>1, AddLast DEF TInv, TypeOK
  <1>3. CASE keep_alive # 0
    <2>1. /\ conns' \in Seq(Handle)
          /\ open' \subseteq Conn
      BY <1>2, <1>3 DEF Free, TInv, TypeOK
    <2>2. StartCleanup \/ UNCHANGED <<cleaning, cleanVars>>
      BY <1>3 DEF Free
    <2>3. CASE StartCleanup
      BY <2>1, <2>3, TimesAssumption DEF StartCleanup, TInv, TypeOK
    <2>4. CASE UNCHANGED <<cleaning, cleanVars>>
      BY <2>1, <2>4 DEF TInv, TypeOK, cleanVars
    <2> QED
      BY <2>2, <2>3, <2>4
  <1>4. CASE keep_alive = 0
    BY <1>4 DEF Free, TInv, TypeOK, cleanVars
  <1> QED
    BY <1>3, <1>4

(* Every variable keeps its type, and a coroutine holds a connection       *)
(* exactly while it is using one.                                          *)
THEOREM TypesKept == Spec => []TInv
  <1>1. Init => TInv
    <2> SUFFICES ASSUME Init PROVE TInv
      OBVIOUS
    <2>1. keep_alive \in Int
      BY ExpiresAssumption, TimesAssumption DEF Init, Clamp
    <2>2. conns \in Seq(Handle)
      BY EmptySeq DEF Init
    <2>3. /\ held \in [Coro -> Conn \cup {None}]
          /\ refs \in [Conn -> Int]
          /\ pc \in [Coro -> {"idle", "connecting", "using"}]
          /\ y \in [Coro -> 0 .. 2]
          /\ UsersHold
      BY DEF Init, UsersHold
    <2>4. cleaning \in BOOLEAN /\ open \subseteq Conn /\ leaked \subseteq Conn
      BY DEF Init
    <2>5. /\ cl \in {"off", "wait", "woken", "notified", "yielded"}
          /\ dtor \in {"no", "notify", "spin", "done"}
          /\ expires \in Int /\ wake \in Int /\ t \in Int /\ now \in Nat
      BY DEF Init
    <2> QED
      BY <2>1, <2>2, <2>3, <2>4, <2>5 DEF TInv, TypeOK
  <1>2. TInv /\ [Next]_vars => TInv'
    <2> SUFFICES ASSUME TInv, [Next]_vars PROVE TInv'
      OBVIOUS
    <2>1. ASSUME NEW u \in Coro, Connect(u) PROVE TInv'
      BY <2>1, TryOpenType, TakeBackType DEF Connect
    <2>2. ASSUME NEW u \in Coro, Retry(u) PROVE TInv'
      <3>1. CASE conns # << >>
        BY <2>2, <3>1, TakeBackType DEF Retry
      <3>2. CASE conns = << >> /\ y[u] > 0
        <4>1. y[u] - 1 \in 0 .. 2
          BY <3>2 DEF TInv, TypeOK
        <4> QED
          BY <2>2, <3>2, <4>1, TryOpenType DEF Retry
      <3>3. CASE conns = << >> /\ ~(y[u] > 0)
        <4>1. Throw(u) /\ pc[u] = "connecting" /\ UNCHANGED <<keep_alive, cleaning, cleanVars, dtor, now>>
          BY <2>2, <3>3 DEF Retry
        <4> QED
          BY <4>1 DEF Throw, TInv, TypeOK, UsersHold, cleanVars
      <3> QED
        BY <3>1, <3>2, <3>3
    <2>3. ASSUME NEW u \in Coro, Put(u) PROVE TInv'
      <3>1. held[u] \in Conn /\ refs[held[u]] \in Int
        BY <2>3 DEF Put, TInv, UsersHold, TypeOK
      <3>2. /\ conns' \in Seq(Handle)
            /\ open' \subseteq Conn
            /\ cleaning' \in BOOLEAN
            /\ cl' \in {"off", "wait", "woken", "notified", "yielded"}
            /\ expires' \in Int
            /\ wake' \in Int
            /\ t' \in Int
        BY <2>3, <3>1, FreeType DEF Put, TInv, TypeOK, cleanVars
      <3> QED
        BY <2>3, <3>1, <3>2 DEF Put, TInv, TypeOK, UsersHold
    <2>4. ASSUME NEW u \in Coro, NEW w \in Coro, Share(u, w) PROVE TInv'
      BY <2>4 DEF Share, TInv, TypeOK, UsersHold, cleanVars
    <2>5. CASE TimerFires
      BY <2>5 DEF TimerFires, TInv, TypeOK, UsersHold, userVars
    <2>6. CASE StartPrune
      BY <2>6, PruneType, TimesAssumption DEF StartPrune, TInv, TypeOK
    <2>7. CASE ResumePrune
      BY <2>7, PruneType DEF ResumePrune, TInv, TypeOK
    <2>8. CASE Notified
      <3>1. /\ cl' \in {"off", "wait", "woken", "notified", "yielded"}
            /\ expires' \in Int
            /\ wake' \in Int
            /\ dtor' \in {"no", "notify", "spin", "done"}
            /\ cleaning' \in BOOLEAN
        BY <2>8, WaitNotifyType DEF Notified, TInv, TypeOK
      <3> QED
        BY <2>8, <3>1 DEF Notified, TInv, TypeOK, UsersHold, userVars
    <2>9. CASE Destroy
      <3>1. conns' \in Seq(Handle) /\ open' \subseteq Conn
        BY <2>9, EmptySeq DEF Destroy, CloseAll, TInv, TypeOK
      <3>2. /\ cl' \in {"off", "wait", "woken", "notified", "yielded"}
            /\ wake' \in Int
            /\ dtor' \in {"no", "notify", "spin", "done"}
        BY <2>9 DEF Destroy, CloseAll, TInv, TypeOK
      <3> QED
        BY <2>9, <3>1, <3>2 DEF Destroy, TInv, TypeOK, UsersHold, userVars
    <2>10. CASE DestroySpin
      BY <2>10 DEF DestroySpin, CloseAll, TInv, TypeOK, UsersHold, userVars, cleanVars
    <2>11. CASE Tick
      BY <2>11 DEF Tick, TInv, TypeOK, UsersHold, userVars, cleanVars
    <2>12. CASE UNCHANGED vars
      BY <2>12 DEF vars, TInv, TypeOK, UsersHold, userVars, cleanVars
    <2> QED
      BY <2>1, <2>2, <2>3, <2>4, <2>5, <2>6, <2>7, <2>8, <2>9, <2>10, <2>11, <2>12
         DEF Next, Clean
  <1> QED
    BY <1>1, <1>2, PTL DEF Spec

(* Every variable of the pool keeps its type. *)
THEOREM TypeCorrect == Spec => []TypeOK
  BY TypesKept, PTL DEF TInv

-----------------------------------------------------------------------------
(* Summary of what a step does to the deque, the clock and the options. *)
LEMMA DequeSteps ==
  ASSUME TInv, [Next]_vars
  PROVE  /\ keep_alive' = keep_alive
         /\ now' \in {now, now + 1}
         /\ \/ conns' = conns
            \/ \E n \in 0 .. Len(conns) : conns' = SubSeq(conns, n + 1, Len(conns))
            \/ conns # << >> /\ conns' = SubSeq(conns, 1, Len(conns) - 1)
            \/ /\ now' = now
               /\ \E c \in Conn :
                    conns' = Append(conns, [conn |-> c, alive |-> now + keep_alive])
  <1>1. ASSUME NEW u \in Coro, Connect(u) \/ Retry(u)
        PROVE  /\ UNCHANGED <<keep_alive, now>>
               /\ \/ conns' = conns
                  \/ conns # << >> /\ conns' = SubSeq(conns, 1, Len(conns) - 1)
    BY <1>1 DEF Connect, Retry, TryOpen, OpenOk, OpenFails, OpenThrows, TakeBack, Throw
  <1>2. ASSUME NEW u \in Coro, Put(u)
        PROVE  /\ UNCHANGED <<keep_alive, now>>
               /\ \/ conns' = conns
                  \/ \E c \in Conn :
                       conns' = Append(conns, [conn |-> c, alive |-> now + keep_alive])
    <2>1. held[u] \in Conn
      BY <1>2 DEF Put, TInv, UsersHold
    <2> QED
      BY <1>2, <2>1 DEF Put, Free
  <1>3. ASSUME NEW u \in Coro, NEW w \in Coro, Share(u, w)
        PROVE  UNCHANGED <<keep_alive, now, conns>>
    BY <1>3 DEF Share
  <1>4. CASE TimerFires \/ Notified
    BY <1>4 DEF TimerFires, Notified
  <1>5. CASE StartPrune \/ ResumePrune
    BY <1>5 DEF StartPrune, ResumePrune, Prune
  <1>6. CASE Destroy \/ DestroySpin
    <2>1. UNCHANGED <<keep_alive, now>> /\ (conns' = conns \/ conns' = << >>)
      BY <1>6 DEF Destroy, DestroySpin, CloseAll
    <2>2. Len(conns) \in 0 .. Len(conns) /\ SubSeq(conns, Len(conns) + 1, Len(conns)) = << >>
      BY SubSeqEmpty DEF TInv, TypeOK
    <2> QED
      BY <2>1, <2>2
  <1>7. CASE Tick
    BY <1>7 DEF Tick
  <1>8. CASE UNCHANGED vars
    BY <1>8 DEF vars
  <1> QED
    BY <1>1, <1>2, <1>3, <1>4, <1>5, <1>6, <1>7, <1>8 DEF Next, Clean

(* No handle expires later than one put back now would. *)
NoneLater == \A i \in 1 .. Len(conns) : conns[i].alive <= now + keep_alive

EInv == TInv /\ SortedByExpiry /\ NoneLater

LEMMA DequeKept == Spec => []EInv
  <1>1. Init => SortedByExpiry /\ NoneLater
    BY DEF Init, SortedByExpiry, NoneLater
  <1>2. EInv /\ TInv' /\ [Next]_vars => EInv'
    <2> SUFFICES ASSUME EInv, TInv', [Next]_vars PROVE SortedByExpiry' /\ NoneLater'
      BY DEF EInv
    <2>0. /\ TInv
          /\ conns \in Seq(Handle)
          /\ now \in Int
          /\ keep_alive \in Int
          /\ Len(conns) \in Nat
          /\ \A i \in 1 .. Len(conns) : conns[i] \in Handle /\ conns[i].alive \in Int
      <3>1. TInv /\ conns \in Seq(Handle) /\ now \in Int /\ keep_alive \in Int
        BY DEF EInv, TInv, TypeOK
      <3>2. Len(conns) \in Nat /\ \A i \in 1 .. Len(conns) : conns[i] \in Handle
        BY <3>1
      <3>3. \A i \in 1 .. Len(conns) : conns[i].alive \in Int
        BY <3>2 DEF Handle
      <3> QED
        BY <3>1, <3>2, <3>3
    <2>1. keep_alive' = keep_alive /\ now' \in {now, now + 1}
      BY <2>0, DequeSteps
    <2>11. \A a \in Int : a <= now + keep_alive => a <= now' + keep_alive'
      <3>1. now \in Int /\ keep_alive \in Int
        BY <2>0
      <3>2. CASE now' = now
        BY ONLY <2>1, <3>2
      <3>3. CASE now' = now + 1
        BY ONLY <2>1, <3>1, <3>3
      <3> QED
        BY <2>1, <3>2, <3>3
    <2> USE DEF EInv, SortedByExpiry, NoneLater
    <2>2. CASE conns' = conns
      <3>1. SortedByExpiry'
        BY <2>2
      <3>2. NoneLater'
        BY <2>0, <2>2, <2>11
      <3> QED
        BY <3>1, <3>2
    <2>3. ASSUME NEW n \in 0 .. Len(conns), conns' = SubSeq(conns, n + 1, Len(conns))
          PROVE  SortedByExpiry' /\ NoneLater'
      <3>1. /\ Len(conns') = Len(conns) - n
            /\ \A i \in 1 .. Len(conns) - n : conns'[i] = conns[n + i]
        BY <2>0, <2>3, DropFirst
      <3>2. \A i \in 1 .. Len(conns) - n : n + i \in 1 .. Len(conns)
        BY <2>0
      <3>3. ASSUME NEW i \in 1 .. Len(conns'), NEW j \in 1 .. Len(conns'), i <= j
            PROVE  conns'[i].alive <= conns'[j].alive
        <4>1. /\ n + i \in 1 .. Len(conns) /\ n + j \in 1 .. Len(conns) /\ n + i <= n + j
              /\ conns'[i] = conns[n + i] /\ conns'[j] = conns[n + j]
          BY <2>0, <3>1, <3>2, <3>3
        <4> QED
          BY <4>1
      <3>4. ASSUME NEW i \in 1 .. Len(conns') PROVE conns'[i].alive <= now' + keep_alive'
        <4>1. n + i \in 1 .. Len(conns) /\ conns'[i] = conns[n + i]
          BY <2>0, <3>1, <3>2
        <4>2. conns[n + i].alive <= now + keep_alive /\ conns[n + i].alive \in Int
          BY <2>0, <4>1
        <4> QED
          BY <2>11, <4>1, <4>2
      <3> QED
        BY <3>3, <3>4
    <2>4. CASE conns # << >> /\ conns' = SubSeq(conns, 1, Len(conns) - 1)
      <3>1. /\ Len(conns') = Len(conns) - 1
            /\ \A i \in 1 .. Len(conns) - 1 : conns'[i] = conns[i]
        BY <2>0, <2>4, DropLast
      <3>2. \A i \in 1 .. Len(conns') : i \in 1 .. Len(conns) /\ conns'[i] = conns[i]
        BY <2>0, <3>1
      <3>3. SortedByExpiry'
        BY <3>2
      <3>4. ASSUME NEW i \in 1 .. Len(conns') PROVE conns'[i].alive <= now' + keep_alive'
        <4>1. conns'[i].alive <= now + keep_alive /\ conns'[i].alive \in Int
          BY <2>0, <3>2
        <4> QED
          BY <2>11, <4>1
      <3> QED
        BY <3>3, <3>4
    <2>5. ASSUME NEW c \in Conn, now' = now,
                 conns' = Append(conns, [conn |-> c, alive |-> now + keep_alive])
          PROVE  SortedByExpiry' /\ NoneLater'
      <3>1. [conn |-> c, alive |-> now + keep_alive] \in Handle
        BY <2>0 DEF Handle
      <3>2. /\ Len(conns') = Len(conns) + 1
            /\ \A i \in 1 .. Len(conns) : conns'[i] = conns[i]
            /\ conns'[Len(conns) + 1].alive = now + keep_alive
        BY <2>0, <2>5, <3>1, AddLast
      <3>3. ASSUME NEW i \in 1 .. Len(conns') PROVE conns'[i].alive <= now + keep_alive
        <4>1. CASE i = Len(conns) + 1
          BY <2>0, <3>2, <4>1
        <4>2. CASE i # Len(conns) + 1
          BY <2>0, <3>2, <4>2
        <4> QED
          BY <4>1, <4>2
      <3>4. ASSUME NEW i \in 1 .. Len(conns'), NEW j \in 1 .. Len(conns'), i <= j
            PROVE  conns'[i].alive <= conns'[j].alive
        <4>1. CASE j = Len(conns) + 1
          BY <3>2, <3>3, <4>1
        <4>2. CASE j # Len(conns) + 1
          <5>1. i \in 1 .. Len(conns) /\ j \in 1 .. Len(conns)
            BY <2>0, <3>2, <3>4, <4>2
          <5> QED
            BY <3>2, <3>4, <5>1
        <4> QED
          BY <4>1, <4>2
      <3> QED
        BY <2>1, <2>5, <3>3, <3>4
    <2> QED
      BY <2>0, <2>2, <2>3, <2>4, <2>5, DequeSteps
  <1> QED
    BY <1>1, <1>2, TypesKept, PTL DEF Spec, EInv

(* The deque stays ordered by expiry, so pruning may stop at the first     *)
(* connection that is not due ("there is no point in going forward").      *)
THEOREM DequeSorted == Spec => []SortedByExpiry
  BY DequeKept, PTL DEF EInv

(* The flag tells whether cleanup() runs, and an idle connection with a    *)
(* keep alive has a cleaner; also while the destructor waits for it.       *)
Scheduled ==
  /\ cleaning <=> cl # "off"
  /\ keep_alive > 0 /\ conns # << >> => cleaning

LEMMA ScheduledKept == Spec => []Scheduled
  <1>1. Init => Scheduled
    BY DEF Init, Scheduled
  <1>2. TInv /\ Scheduled /\ [Next]_vars => Scheduled'
    <2> SUFFICES ASSUME TInv, Scheduled, [Next]_vars PROVE Scheduled'
      OBVIOUS
    <2> USE DEF Scheduled
    <2>1. ASSUME NEW u \in Coro, Connect(u) \/ Retry(u) PROVE Scheduled'
      <3>1. /\ UNCHANGED <<keep_alive, cleaning, cl>>
            /\ conns' = conns \/ conns # << >>
        BY <2>1 DEF Connect, Retry, TryOpen, OpenOk, OpenFails, OpenThrows, TakeBack, Throw, cleanVars
      <3> QED
        BY <3>1
    <2>2. ASSUME NEW u \in Coro, Put(u) PROVE Scheduled'
      <3>1. CASE refs[held[u]] - 1 > 0
        BY <2>2, <3>1 DEF Put, cleanVars
      <3>2. CASE ~(refs[held[u]] - 1 > 0)
        BY <2>2, <3>2 DEF Put, Free, StartCleanup, cleanVars
      <3> QED
        BY <3>1, <3>2
    <2>3. ASSUME NEW u \in Coro, NEW w \in Coro, Share(u, w) PROVE Scheduled'
      BY <2>3 DEF Share, cleanVars
    <2>4. CASE TimerFires
      BY <2>4 DEF TimerFires
    <2>5. ASSUME NEW tt, Prune(tt), cl # "off" PROVE Scheduled'
      BY <2>5 DEF Prune, WaitNotify
    <2>6. CASE StartPrune \/ ResumePrune
      BY <2>5, <2>6 DEF StartPrune, ResumePrune
    <2>7. CASE Notified
      BY <2>7 DEF Notified, WaitNotify
    <2>8. CASE Destroy \/ DestroySpin
      BY <2>8 DEF Destroy, DestroySpin, CloseAll, cleanVars
    <2>9. CASE Tick
      BY <2>9 DEF Tick, cleanVars
    <2>10. CASE UNCHANGED vars
      BY <2>10 DEF vars, cleanVars
    <2> QED
      BY <2>1, <2>2, <2>3, <2>4, <2>6, <2>7, <2>8, <2>9, <2>10 DEF Next, Clean
  <1> QED
    BY <1>1, <1>2, TypesKept, PTL DEF Spec

(* Until the destructor is called there is a cleaner as long as there is   *)
(* an idle connection with a keep alive, and only one: free() goes by the  *)
(* flag, which is up exactly while cleanup() has not returned.             *)
THEOREM CleanerAlways == Spec => []CleanerPresent
  <1>1. Scheduled => CleanerPresent
    BY DEF Scheduled, CleanerPresent
  <1> QED
    BY <1>1, ScheduledKept, PTL

-----------------------------------------------------------------------------
(* Timing.  By how much a wait of the cleaner may end after a connection   *)
(* has expired.                                                            *)
Over == MinWait - Slack + MaxLag

(* The deadline of the cleaner, which runs within MaxLag of it, is not     *)
(* much after the expiry of any idle connection, nor of one put back now.  *)
(* A cleaner that yielded goes on with the t it computed when it was due.  *)
Timely ==
  dtor = "no" /\ keep_alive > 0 =>
    /\ cl # "notified"
    /\ cl # "off" => /\ now <= wake + MaxLag
                     /\ wake <= now + keep_alive + Over
                     /\ \A i \in 1 .. Len(conns) : wake <= conns[i].alive + Over
    /\ cl = "woken" => wake <= now
    /\ cl = "yielded" => wake <= t - Slack

LEMMA Times ==
  ASSUME TInv
  PROVE  /\ now \in Int /\ wake \in Int /\ t \in Int /\ keep_alive \in Int
         /\ MinWait \in Int /\ Slack \in Int /\ Grace \in Int /\ MaxLag \in Int
         /\ Over \in Int /\ MinWait >= 1 /\ MaxLag >= 1 /\ Grace >= 0 /\ Slack >= 0
         /\ Grace + Slack < MinWait
         /\ conns \in Seq(Handle) /\ Len(conns) \in Nat
         /\ \A i \in 1 .. Len(conns) : conns[i].alive \in Int
  <1>1. conns \in Seq(Handle) /\ Len(conns) \in Nat
        /\ \A i \in 1 .. Len(conns) : conns[i] \in Handle
    BY DEF TInv, TypeOK
  <1>2. \A i \in 1 .. Len(conns) : conns[i].alive \in Int
    BY <1>1 DEF Handle
  <1>3. MinWait \in Int /\ Slack \in Int /\ Grace \in Int /\ MaxLag \in Int
        /\ MinWait >= 1 /\ MaxLag >= 1 /\ Grace >= 0 /\ Slack >= 0
        /\ Grace + Slack < MinWait
    BY TimesAssumption
  <1>4. Over \in Int
    BY <1>3 DEF Over
  <1> QED
    BY <1>1, <1>2, <1>3, <1>4 DEF TInv, TypeOK

(* Borrowing takes from the back and leaves the cleaner alone.             *)
LEMMA BorrowTimely ==
  ASSUME TInv, Timely, NEW u \in Coro, Connect(u) \/ Retry(u)
  PROVE  Timely'
  <1>1. /\ UNCHANGED <<keep_alive, cl, wake, t, dtor, now>>
        /\ \/ conns' = conns
           \/ conns # << >> /\ conns' = SubSeq(conns, 1, Len(conns) - 1)
    BY DEF Connect, Retry, TryOpen, OpenOk, OpenFails, OpenThrows, TakeBack, Throw, cleanVars
  <1>2. CASE conns' = conns
    BY <1>1, <1>2 DEF Timely
  <1>3. CASE conns # << >> /\ conns' = SubSeq(conns, 1, Len(conns) - 1)
    <2>1. /\ Len(conns') = Len(conns) - 1 /\ Len(conns) \in Nat
          /\ \A i \in 1 .. Len(conns) - 1 : conns'[i] = conns[i]
      BY <1>3, Times, DropLast
    <2>2. \A i \in 1 .. Len(conns') : i \in 1 .. Len(conns) /\ conns'[i] = conns[i]
      BY <2>1
    <2> QED
      BY <1>1, <2>2 DEF Timely
  <1> QED
    BY <1>1, <1>2, <1>3

(* free() appends a connection that expires after keep_alive, and starts a *)
(* cleaner where there is none; the deque is empty then.                   *)
LEMMA PutTimely ==
  ASSUME TInv, Timely, Scheduled, NEW u \in Coro, Put(u)
  PROVE  Timely'
  <1>1. UNCHANGED <<keep_alive, dtor, now>>
    BY DEF Put
  <1>2. CASE UNCHANGED <<conns, cleanVars>>
    BY <1>1, <1>2 DEF Timely, cleanVars
  <1>3. ASSUME NEW c \in Conn, dtor = "no", keep_alive > 0,
               conns' = Append(conns, [conn |-> c, alive |-> now + keep_alive]),
               IF ~cleaning /\ keep_alive > 0 THEN StartCleanup
               ELSE UNCHANGED <<cleaning, cleanVars>>
        PROVE  Timely'
    <2>1. [conn |-> c, alive |-> now + keep_alive] \in Handle
      BY Times DEF Handle
    <2>2. /\ Len(conns') = Len(conns) + 1 /\ Len(conns) \in Nat
          /\ \A i \in 1 .. Len(conns) : conns'[i] = conns[i]
          /\ conns'[Len(conns) + 1].alive = now + keep_alive
      BY <1>3, <2>1, Times, AddLast
    <2>3. \A i \in 1 .. Len(conns') : i \in 1 .. Len(conns) \/ i = Len(conns) + 1
      BY <2>2
    <2>4. CASE cleaning
      <3>1. UNCHANGED cleanVars /\ cl # "off"
        BY <1>3, <2>4 DEF Scheduled
      <3>2. \A i \in 1 .. Len(conns') : wake <= conns'[i].alive + Over
        BY <1>3, <2>2, <2>3, <3>1 DEF Timely
      <3> QED
        BY <1>1, <1>3, <3>1, <3>2 DEF Timely, cleanVars
    <2>5. CASE ~cleaning
      <3>1. conns = << >> /\ Len(conns) = 0
        BY <1>3, <2>5 DEF Scheduled
      <3>2. cl' = "wait" /\ wake' = now + keep_alive + Grace
        BY <1>3, <2>5 DEF StartCleanup
      <3>3. wake' <= (now + keep_alive) + Over /\ now <= wake' + MaxLag
        <4>1. /\ now \in Int /\ keep_alive \in Int /\ MinWait \in Int /\ Slack \in Int
              /\ MaxLag \in Int /\ Grace \in Int
              /\ MaxLag >= 1 /\ Grace >= 0 /\ Grace + Slack < MinWait
          BY Times
        <4>2. keep_alive > 0
          BY <1>3
        <4> QED
          BY ONLY <3>2, <4>1, <4>2 DEF Over
      <3>4. \A i \in 1 .. Len(conns') : conns'[i].alive = now + keep_alive
        BY <2>2, <2>3, <3>1
      <3> QED
        BY <1>1, <3>2, <3>3, <3>4 DEF Timely
    <2> QED
      BY <2>4, <2>5
  <1>4. held[u] \in Conn
    BY DEF Put, TInv, UsersHold
  <1> QED
    BY <1>1, <1>2, <1>3, <1>4 DEF Put, Free, Timely

(* The cleaner waits again for the first connection that is not due, which *)
(* is the first to expire of those left.                                   *)
LEMMA PruneTimely ==
  ASSUME EInv, Timely, NEW tt \in Int, Prune(tt), cl # "off", cl # "notified",
         dtor = "no" /\ keep_alive > 0 =>
           wake <= tt - Slack /\ now <= tt - Slack + MaxLag
  PROVE  Timely'
  <1> SUFFICES ASSUME dtor = "no", keep_alive > 0 PROVE Timely'
    BY DEF Timely, Prune, WaitNotify
  <1>0. TInv
    BY DEF EInv
  <1>1. PICK n \in 0 .. Len(conns) :
          /\ PrunesTo(n, tt)
          /\ conns' = SubSeq(conns, n + 1, Len(conns))
          /\ t' = tt
          /\ \/ n = PruneBatch /\ cl' = "yielded" /\ UNCHANGED <<wake, dtor>>
             \/ /\ n < PruneBatch /\ conns' # << >>
                /\ WaitNotify(MaxOf(conns'[1].alive - tt, MinWait))
             \/ cl' = "off"
          /\ UNCHANGED <<keep_alive, now>>
    BY DEF Prune
  <1>2. /\ conns' \in Seq(Handle) /\ Len(conns') = Len(conns) - n
        /\ \A i \in 1 .. Len(conns) - n : conns'[i] = conns[n + i]
    BY <1>0, <1>1, Times, DropFirst
  <1>3. Len(conns) \in Nat /\ n \in Nat
    BY <1>0, Times
  <1>4. \A i \in 1 .. Len(conns') : n + i \in 1 .. Len(conns) /\ conns'[i] = conns[n + i]
    BY <1>2, <1>3
  <1>5. CASE n = PruneBatch /\ cl' = "yielded" /\ UNCHANGED <<wake, dtor>>
    <2>1. \A i \in 1 .. Len(conns') : wake' <= conns'[i].alive + Over
      BY <1>4, <1>5 DEF Timely
    <2> QED
      BY <1>1, <1>5, <2>1 DEF Timely
  <1>6. CASE /\ n < PruneBatch /\ conns' # << >>
             /\ WaitNotify(MaxOf(conns'[1].alive - tt, MinWait))
    <2>1. Len(conns') >= 1 /\ 1 \in 1 .. Len(conns')
      BY <1>2, <1>6
    <2>2. n < Len(conns) /\ n + 1 \in 1 .. Len(conns)
      BY <1>2, <1>3, <2>1
    <2>3. PICK a \in Int : a = conns'[1].alive /\ a = conns[n + 1].alive
      BY <1>0, <1>4, <2>1, <2>2, Times
    <2>4. a > tt
      BY <1>1, <1>6, <2>2, <2>3 DEF PrunesTo
    <2>5. cl' = "wait" /\ wake' = now + MaxOf(a - tt, MinWait) /\ UNCHANGED dtor
      BY <1>6, <2>3 DEF WaitNotify
    <2>6. wake' \in Int /\ wake' <= a + Over /\ now <= wake' + MaxLag
      <3>1. MaxOf(a - tt, MinWait) \in {a - tt, MinWait}
            /\ MaxOf(a - tt, MinWait) >= MinWait
        BY <1>0, Times DEF MaxOf
      <3>2. now <= tt - Slack + MaxLag
        OBVIOUS
      <3> QED
        <4>1. /\ now \in Int /\ MinWait \in Int /\ Slack \in Int /\ MaxLag \in Int
              /\ MaxLag >= 1 /\ MinWait >= 1 /\ Slack >= 0 /\ tt \in Int /\ a \in Int
          BY <1>0, Times
        <4>2. PICK m \in Int : m = MaxOf(a - tt, MinWait) /\ m \in {a - tt, MinWait}
                               /\ m >= MinWait
          BY <3>1, <4>1
        <4>3. wake' = now + m
          BY <2>5, <4>2
        <4>4. now + m \in Int /\ now <= (now + m) + MaxLag
          BY ONLY <4>1, <4>2
        <4>5. now + m <= a + (MinWait - Slack + MaxLag)
          BY ONLY <2>4, <3>2, <4>1, <4>2
        <4> QED
          BY <4>3, <4>4, <4>5 DEF Over
    <2>7. a <= now + keep_alive
      BY <2>2, <2>3 DEF EInv, NoneLater
    <2>8. wake' <= now + keep_alive + Over
      <3>1. now \in Int /\ keep_alive \in Int /\ Over \in Int /\ a \in Int
        BY <1>0, Times
      <3>2. wake' \in Int /\ wake' <= a + Over
        BY <2>6
      <3> QED
        BY ONLY <2>7, <3>1, <3>2
    <2>9. ASSUME NEW i \in 1 .. Len(conns') PROVE wake' <= conns'[i].alive + Over
      <3>1. n + i \in 1 .. Len(conns) /\ conns'[i] = conns[n + i] /\ n + 1 <= n + i
        BY <1>3, <1>4
      <3>2. a <= conns[n + i].alive /\ conns[n + i].alive \in Int
        BY <1>0, <2>2, <2>3, <3>1, Times DEF EInv, SortedByExpiry
      <3> QED
        <4>1. PICK b \in Int : b = conns[n + i].alive
          BY <3>2
        <4>2. a <= b /\ Over \in Int /\ a \in Int /\ wake' \in Int /\ wake' <= a + Over
          BY <1>0, <2>6, <3>2, <4>1, Times
        <4>3. wake' <= b + Over
          BY ONLY <4>2
        <4> QED
          BY <3>1, <4>1, <4>3
    <2> QED
      BY <1>1, <2>5, <2>6, <2>8, <2>9 DEF Timely
  <1>7. CASE cl' = "off"
    BY <1>7 DEF Timely
  <1> QED
    BY <1>1, <1>5, <1>6, <1>7

LEMMA TimelyKept == Spec => []Timely
  <1>1. Init => Timely
    BY DEF Init, Timely
  <1>2. EInv /\ Scheduled /\ Timely /\ [Next]_vars => Timely'
    <2> SUFFICES ASSUME EInv, Scheduled, Timely, [Next]_vars PROVE Timely'
      OBVIOUS
    <2>0. TInv
      BY DEF EInv
    <2>1. ASSUME NEW u \in Coro, Connect(u) \/ Retry(u) PROVE Timely'
      BY <2>0, <2>1, BorrowTimely
    <2>2. ASSUME NEW u \in Coro, Put(u) PROVE Timely'
      BY <2>0, <2>2, PutTimely
    <2>3. ASSUME NEW u \in Coro, NEW w \in Coro, Share(u, w) PROVE Timely'
      BY <2>3 DEF Share, cleanVars, Timely
    <2>4. CASE TimerFires
      BY <2>4 DEF TimerFires, Timely
    <2>5. CASE StartPrune
      <3>1. /\ now + Slack \in Int /\ now <= (now + Slack) - Slack + MaxLag
            /\ (wake <= now => wake <= (now + Slack) - Slack)
        BY <2>0, Times
      <3>2. Prune(now + Slack) /\ cl = "woken"
        BY <2>5 DEF StartPrune
      <3>3. dtor = "no" /\ keep_alive > 0 =>
              wake <= (now + Slack) - Slack /\ now <= (now + Slack) - Slack + MaxLag
        BY <3>1, <3>2 DEF Timely
      <3> QED
        BY <3>1, <3>2, <3>3, PruneTimely
    <2>6. CASE ResumePrune
      <3>1. Prune(t) /\ cl = "yielded" /\ t \in Int
        BY <2>0, <2>6, Times DEF ResumePrune
      <3>2. ASSUME dtor = "no", keep_alive > 0
            PROVE  wake <= t - Slack /\ now <= t - Slack + MaxLag
        <4>1. wake <= t - Slack /\ now <= wake + MaxLag
          BY <3>1, <3>2 DEF Timely
        <4> QED
          BY <2>0, <4>1, Times
      <3> QED
        BY <3>1, <3>2, PruneTimely
    <2>7. CASE Notified
      BY <2>7 DEF Notified, WaitNotify, Timely
    <2>8. CASE Destroy \/ DestroySpin
      BY <2>8 DEF Destroy, DestroySpin, CloseAll, Timely
    <2>9. CASE Tick
      <3>1. UNCHANGED <<keep_alive, conns, cl, wake, t, dtor>> /\ now' = now + 1
            /\ (cl # "off" => now < wake + MaxLag)
        BY <2>9 DEF Tick, cleanVars
      <3>2. /\ cl # "off" => now' <= wake + MaxLag
            /\ wake <= now + keep_alive + Over => wake <= now' + keep_alive + Over
            /\ wake <= now => wake <= now'
        <4>1. /\ now \in Int /\ wake \in Int /\ keep_alive \in Int /\ Over \in Int
              /\ MaxLag \in Int
          BY <2>0, Times
        <4> QED
          BY ONLY <3>1, <4>1
      <3> QED
        BY <3>1, <3>2 DEF Timely
    <2>10. CASE UNCHANGED vars
      BY <2>10 DEF vars, cleanVars, Timely
    <2> QED
      BY <2>1, <2>2, <2>3, <2>4, <2>5, <2>6, <2>7, <2>8, <2>9, <2>10 DEF Next, Clean
  <1> QED
    BY <1>1, <1>2, DequeKept, ScheduledKept, PTL DEF Spec

(* An idle connection is closed at the latest three seconds, less the      *)
(* slack, after its keep alive and two lags of the scheduler, whatever is  *)
(* borrowed and put back while cleanup() waits or has yielded.             *)
THEOREM ClosedOnTime == Spec => []ClosedInTime
  <1>1. EInv /\ Scheduled /\ Timely => ClosedInTime
    <2> SUFFICES ASSUME EInv, Scheduled, Timely, keep_alive > 0, dtor = "no",
                        NEW i \in 1 .. Len(conns)
                 PROVE  now <= conns[i].alive + MinWait - Slack + 2 * MaxLag
      BY DEF ClosedInTime
    <2>0. TInv
      BY DEF EInv
    <2>1. cl # "off"
      <3>1. conns # << >>
        BY <2>0, Times
      <3> QED
        BY <3>1 DEF Scheduled
    <2>2. now <= wake + MaxLag /\ wake <= conns[i].alive + Over
      BY <2>1 DEF Timely
    <2> QED
      <3>1. PICK b \in Int : b = conns[i].alive
        BY <2>0, Times
      <3>2. /\ now \in Int /\ wake \in Int /\ MinWait \in Int /\ Slack \in Int
            /\ MaxLag \in Int
        BY <2>0, Times
      <3>3. now <= wake + MaxLag /\ wake <= b + (MinWait - Slack + MaxLag)
        BY <2>2, <3>1 DEF Over
      <3>4. now <= b + MinWait - Slack + 2 * MaxLag
        BY ONLY <3>2, <3>3
      <3> QED
        BY <3>1, <3>4
  <1> QED
    BY <1>1, DequeKept, ScheduledKept, TimelyKept, PTL

-----------------------------------------------------------------------------
(* Ownership.  The coroutines that use connection c, and the deque without *)
(* duplicates.                                                             *)
UsersOf(c) == {u \in Coro : pc[u] = "using" /\ held[u] = c}
NoTwice == \A i, j \in 1 .. Len(conns) : conns[i].conn = conns[j].conn => i = j

OInv == TInv /\ OneOwner /\ RefsCountUsers

(* The users of a connection are finitely many, and some when it is held. *)
LEMMA UsersOfFacts ==
  /\ \A c : IsFiniteSet(UsersOf(c)) /\ Cardinality(UsersOf(c)) \in Nat
  /\ \A c : c \in HeldConns <=> UsersOf(c) # {}
  <1>1. ASSUME NEW c PROVE IsFiniteSet(UsersOf(c)) /\ Cardinality(UsersOf(c)) \in Nat
    <2>1. UsersOf(c) \in SUBSET Coro
      BY DEF UsersOf
    <2>2. IsFiniteSet(UsersOf(c))
      BY <2>1, FS_Subset, CoroAssumption
    <2> QED
      BY <2>2, FS_CardinalityType
  <1>2. ASSUME NEW c PROVE c \in HeldConns <=> UsersOf(c) # {}
    BY DEF HeldConns, UsersOf
  <1> QED
    BY <1>1, <1>2

(* A step that leaves the users alone leaves what they hold alone. *)
LEMMA SameUsers ==
  ASSUME \A u \in Coro : (pc'[u] = "using" <=> pc[u] = "using") /\ (pc[u] = "using" => held'[u] = held[u])
  PROVE  HeldConns' = HeldConns /\ \A c : UsersOf(c)' = UsersOf(c)
  BY DEF HeldConns, UsersOf

(* A coroutine that holds nothing gets connection c. *)
LEMMA OneMoreUser ==
  ASSUME TInv, NEW u \in Coro, NEW c \in Conn, pc[u] # "using",
         held' = [held EXCEPT ![u] = c], pc' = [pc EXCEPT ![u] = "using"]
  PROVE  /\ HeldConns' = HeldConns \cup {c}
         /\ UsersOf(c)' = UsersOf(c) \cup {u}
         /\ u \notin UsersOf(c)
         /\ \A d : d # c => UsersOf(d)' = UsersOf(d)
  <1>1. /\ \A w \in Coro : held'[w] = IF w = u THEN c ELSE held[w]
        /\ \A w \in Coro : pc'[w] = IF w = u THEN "using" ELSE pc[w]
    BY DEF TInv, TypeOK
  <1>2. /\ UsersOf(c)' = UsersOf(c) \cup {u}
        /\ u \notin UsersOf(c)
        /\ \A d : d # c => UsersOf(d)' = UsersOf(d)
    BY <1>1 DEF UsersOf
  <1>3. HeldConns' = HeldConns \cup {c}
    BY <1>1 DEF HeldConns
  <1> QED
    BY <1>2, <1>3

(* Handing c, which nobody holds, to u. *)
LEMMA HandOwner ==
  ASSUME OInv, NEW u \in Coro, NEW c \in Conn, pc[u] # "using", c \notin HeldConns, Hand(u, c)
  PROVE  HeldConns' = HeldConns \cup {c} /\ RefsCountUsers'
  <1>1. /\ HeldConns' = HeldConns \cup {c}
        /\ UsersOf(c)' = UsersOf(c) \cup {u}
        /\ \A d : d # c => UsersOf(d)' = UsersOf(d)
    BY OneMoreUser DEF Hand, OInv
  <1>2. UsersOf(c)' = {u}
    BY <1>1, UsersOfFacts
  <1>3. refs'[c] = Cardinality(UsersOf(c)')
    BY <1>2, FS_Singleton DEF Hand, OInv, TInv, TypeOK
  <1>4. ASSUME NEW d \in HeldConns PROVE refs'[d] = Cardinality(UsersOf(d)')
    <2>1. d # c /\ d \in Conn
      BY <1>4 DEF HeldConns, OInv, TInv, UsersHold
    <2>2. refs'[d] = refs[d] /\ refs[d] = Cardinality(UsersOf(d))
      BY <2>1 DEF Hand, OInv, TInv, TypeOK, RefsCountUsers, UsersOf
    <2> QED
      BY <1>1, <2>1, <2>2
  <1>5. RefsCountUsers'
    BY <1>1, <1>3, <1>4 DEF RefsCountUsers, UsersOf
  <1> QED
    BY <1>1, <1>5

(* open() gives a new connection one owner, or none and counts it lost. *)
LEMMA TryOpenOwner ==
  ASSUME OInv, NEW u \in Coro, pc[u] # "using", NEW left, TryOpen(u, left)
  PROVE  OneOwner' /\ RefsCountUsers'
  <1>1. CASE OpenOk(u)
    <2>1. PICK c \in Conn \ open : open' = open \cup {c} /\ Hand(u, c)
      BY <1>1 DEF OpenOk
    <2>2. c \notin HeldConns /\ c \notin PooledConns /\ c \notin leaked
      BY <2>1 DEF OInv, OneOwner
    <2>3. HeldConns' = HeldConns \cup {c} /\ RefsCountUsers'
      BY <2>1, <2>2, HandOwner
    <2>4. UNCHANGED <<conns, leaked, PooledConns>>
      BY <1>1 DEF OpenOk, PooledConns
    <2> QED
      BY <2>1, <2>2, <2>3, <2>4 DEF OInv, OneOwner
  <1>2. CASE OpenFails(u, left)
    <2>1. HeldConns' = HeldConns /\ \A c : UsersOf(c)' = UsersOf(c)
      BY <1>2, SameUsers DEF OpenFails, OInv, TInv, TypeOK
    <2>2. UNCHANGED <<conns, open, leaked, PooledConns, refs>>
      BY <1>2 DEF OpenFails, PooledConns
    <2> QED
      BY <2>1, <2>2 DEF OInv, OneOwner, RefsCountUsers, UsersOf
  <1>3. CASE OpenThrows(u)
    <2>1. HeldConns' = HeldConns /\ \A c : UsersOf(c)' = UsersOf(c)
      BY <1>3, SameUsers DEF OpenThrows, OInv, TInv, TypeOK
    <2>2. UNCHANGED <<conns, PooledConns, refs>>
      BY <1>3 DEF OpenThrows, PooledConns
    <2>3. PICK c \in Conn \ open : open' = open \cup {c} /\ leaked' = leaked \cup {c}
      BY <1>3 DEF OpenThrows
    <2> QED
      BY <2>1, <2>2, <2>3 DEF OInv, OneOwner, RefsCountUsers, UsersOf
  <1> QED
    BY <1>1, <1>2, <1>3 DEF TryOpen

(* connection() moves the connection from the deque to the coroutine. *)
LEMMA TakeBackOwner ==
  ASSUME OInv, NEW u \in Coro, pc[u] # "using", TakeBack(u)
  PROVE  OneOwner' /\ RefsCountUsers'
  <1> DEFINE c == conns[Len(conns)].conn
  <1>1. /\ Len(conns') = Len(conns) - 1
        /\ \A i \in 1 .. Len(conns) - 1 : conns'[i] = conns[i]
        /\ Len(conns) \in Nat /\ Len(conns) >= 1
        /\ conns[Len(conns)] \in Handle
    BY DropLast DEF TakeBack, OInv, TInv, TypeOK
  <1>2. c \in Conn /\ c \in PooledConns
    BY <1>1 DEF Handle, PooledConns
  <1>3. PooledConns' = PooledConns \ {c} /\ NoTwice'
    BY <1>1 DEF PooledConns, NoTwice, OInv, OneOwner
  <1>4. c \notin HeldConns
    BY <1>2 DEF OInv, OneOwner
  <1> HIDE DEF c
  <1>5. Hand(u, c) /\ UNCHANGED <<open, leaked>>
    BY DEF TakeBack, c
  <1>6. HeldConns' = HeldConns \cup {c} /\ RefsCountUsers'
    BY <1>2, <1>4, <1>5, HandOwner
  <1> QED
    BY <1>2, <1>3, <1>4, <1>5, <1>6 DEF OInv, OneOwner, NoTwice

(* put() moves it back, or closes it, after the last user only. *)
LEMMA PutOwner ==
  ASSUME OInv, NEW u \in Coro, Put(u)
  PROVE  OneOwner' /\ RefsCountUsers'
  <1>0. PICK c : c = held[u]
    OBVIOUS
  <1> USE <1>0
  <1>1. c \in Conn /\ u \in UsersOf(c) /\ c \in HeldConns
    BY DEF Put, OInv, TInv, UsersHold, UsersOf, HeldConns
  <1>2. /\ \A w \in Coro : held'[w] = IF w = u THEN None ELSE held[w]
        /\ \A w \in Coro : pc'[w] = IF w = u THEN "idle" ELSE pc[w]
        /\ \A d \in Conn : refs'[d] = IF d = c THEN refs[d] - 1 ELSE refs[d]
    BY DEF Put, OInv, TInv, TypeOK
  <1>3. UsersOf(c)' = UsersOf(c) \ {u} /\ \A d : d # c => UsersOf(d)' = UsersOf(d)
    BY <1>2 DEF UsersOf
  <1>4. Cardinality(UsersOf(c)') = refs[c] - 1 /\ IsFiniteSet(UsersOf(c)') /\ refs[c] \in Nat
    <2>1. refs[c] = Cardinality(UsersOf(c)) /\ refs[c] \in Nat
      BY <1>1, UsersOfFacts DEF OInv, RefsCountUsers, UsersOf
    <2>2. /\ IsFiniteSet(UsersOf(c) \ {u})
          /\ Cardinality(UsersOf(c) \ {u}) = Cardinality(UsersOf(c)) - 1
      BY <1>1, UsersOfFacts, FS_RemoveElement
    <2> QED
      BY <1>3, <2>1, <2>2
  <1>5. HeldConns' = IF refs[c] - 1 > 0 THEN HeldConns ELSE HeldConns \ {c}
    <2>1. \A d : d # c => (d \in HeldConns' <=> d \in HeldConns)
      BY <1>2 DEF HeldConns
    <2>2. c \in HeldConns' <=> UsersOf(c)' # {}
      BY DEF HeldConns, UsersOf
    <2>3. UsersOf(c)' # {} <=> refs[c] - 1 > 0
      <3>1. PICK S : S = UsersOf(c)'
        OBVIOUS
      <3>2. IsFiniteSet(S) /\ Cardinality(S) = refs[c] - 1 /\ refs[c] \in Nat
        BY <1>4, <3>1
      <3>3. Cardinality(S) = 0 <=> S = {}
        BY <3>2, FS_EmptySet
      <3>4. Cardinality(S) \in Nat
        BY <3>2, FS_CardinalityType
      <3> QED
        BY <3>1, <3>2, <3>3, <3>4
    <2> QED
      BY <1>1, <2>1, <2>2, <2>3
  <1>6. RefsCountUsers'
    <2>1. ASSUME NEW d \in HeldConns' PROVE refs'[d] = Cardinality(UsersOf(d)')
      <3>1. d \in HeldConns /\ d \in Conn
        BY <1>1, <1>5 DEF HeldConns, OInv, TInv, UsersHold
      <3>2. CASE d = c
        BY <1>1, <1>2, <1>4, <3>2
      <3>3. CASE d # c
        BY <1>2, <1>3, <3>1, <3>3 DEF OInv, RefsCountUsers, UsersOf
      <3> QED
        BY <3>2, <3>3
    <2> QED
      BY <2>1 DEF RefsCountUsers, UsersOf
  <1>7. leaked' = leaked
    BY DEF Put
  <1>8. CASE refs[c] - 1 > 0
    <2>1. UNCHANGED <<conns, open, PooledConns>>
      BY <1>8 DEF Put, PooledConns
    <2> QED
      BY <1>5, <1>6, <1>7, <1>8, <2>1 DEF OInv, OneOwner
  <1>9. CASE ~(refs[c] - 1 > 0) /\ keep_alive = 0
    <2>1. UNCHANGED <<conns, PooledConns>> /\ open' = open \ {c}
      BY <1>9 DEF Put, Free, PooledConns
    <2> QED
      BY <1>1, <1>5, <1>6, <1>7, <1>9, <2>1 DEF OInv, OneOwner
  <1>10. CASE ~(refs[c] - 1 > 0) /\ keep_alive # 0
    <2>1. conns' = Append(conns, [conn |-> c, alive |-> now + keep_alive]) /\ open' = open
      BY <1>10 DEF Put, Free
    <2>2. [conn |-> c, alive |-> now + keep_alive] \in Handle
      BY <1>1 DEF Handle, OInv, TInv, TypeOK
    <2>3. /\ Len(conns') = Len(conns) + 1
          /\ \A i \in 1 .. Len(conns) : conns'[i] = conns[i]
          /\ conns'[Len(conns) + 1].conn = c
          /\ Len(conns) \in Nat
      BY <2>1, <2>2, AddLast DEF OInv, TInv, TypeOK
    <2>4. PooledConns' = PooledConns \cup {c}
      BY <2>3 DEF PooledConns
    <2>5. \A i \in 1 .. Len(conns) : conns[i].conn # c
      BY <1>1 DEF OInv, OneOwner, PooledConns
    <2>6. NoTwice'
      BY <2>3, <2>5 DEF NoTwice, OInv, OneOwner
    <2> QED
      BY <1>1, <1>5, <1>6, <1>7, <1>10, <2>1, <2>4, <2>6 DEF OInv, OneOwner, NoTwice
  <1> QED
    BY <1>8, <1>9, <1>10

(* Pruning closes exactly the connections it drops from the deque. *)
LEMMA PruneOwner ==
  ASSUME OInv, NEW n \in 0 .. Len(conns),
         conns' = SubSeq(conns, n + 1, Len(conns)),
         open' = open \ {conns[i].conn : i \in 1 .. n},
         UNCHANGED <<leaked, userVars>>
  PROVE  OneOwner' /\ RefsCountUsers'
  <1>1. /\ Len(conns') = Len(conns) - n
        /\ \A i \in 1 .. Len(conns) - n : conns'[i] = conns[n + i]
        /\ Len(conns) \in Nat
    BY DropFirst DEF OInv, TInv, TypeOK
  <1>2. \A i \in 1 .. Len(conns) - n : n + i \in 1 .. Len(conns)
    BY <1>1
  <1>3. NoTwice'
    <2> SUFFICES ASSUME NEW i \in 1 .. Len(conns'), NEW j \in 1 .. Len(conns'),
                        conns'[i].conn = conns'[j].conn
                 PROVE  i = j
      BY DEF NoTwice
    <2>0. /\ n + i \in 1 .. Len(conns) /\ n + j \in 1 .. Len(conns)
          /\ conns[n + i].conn = conns[n + j].conn
      BY <1>1, <1>2
    <2>1. n + i = n + j
      BY <2>0 DEF OInv, OneOwner
    <2> QED
      BY <1>1, <2>1
  <1> DEFINE gone == {conns[i].conn : i \in 1 .. n}
  <1>4. PooledConns' = PooledConns \ gone
    <2>1. ASSUME NEW x \in PooledConns' PROVE x \in PooledConns \ gone
      <3>1. PICK i \in 1 .. Len(conns') : x = conns'[i].conn
        BY DEF PooledConns
      <3>2. x = conns[n + i].conn /\ n + i \in 1 .. Len(conns)
        BY <1>1, <1>2, <3>1
      <3>3. ASSUME NEW j \in 1 .. n PROVE conns[j].conn # x
        <4>1. j \in 1 .. Len(conns) /\ j # n + i
          BY <1>1, <3>1
        <4> QED
          BY <3>2, <4>1 DEF OInv, OneOwner
      <3> QED
        BY <3>2, <3>3 DEF PooledConns
    <2>2. ASSUME NEW x \in PooledConns \ gone PROVE x \in PooledConns'
      <3>1. PICK i \in 1 .. Len(conns) : x = conns[i].conn
        BY DEF PooledConns
      <3>2. i \notin 1 .. n
        BY <2>2, <3>1
      <3>3. i - n \in 1 .. Len(conns') /\ conns'[i - n] = conns[i]
        BY <1>1, <3>1, <3>2
      <3> QED
        BY <3>1, <3>3 DEF PooledConns
    <2> QED
      BY <2>1, <2>2
  <1>5. gone \subseteq PooledConns
    BY <1>1 DEF PooledConns
  <1> HIDE DEF gone
  <1>6. open' = open \ gone
    BY DEF gone
  <1>7. HeldConns' = HeldConns /\ \A c : UsersOf(c)' = UsersOf(c)
    BY SameUsers DEF userVars
  <1> QED
    BY <1>3, <1>4, <1>5, <1>6, <1>7 DEF OInv, OneOwner, RefsCountUsers, UsersOf, NoTwice, userVars

(* Every open connection is in the deque once, or with the coroutines that *)
(* share it, or was lost by open(); refs counts the coroutines that share. *)
THEOREM Ownership == Spec => [](OneOwner /\ RefsCountUsers)
  <1>1. Init => OneOwner /\ RefsCountUsers
    BY DEF Init, OneOwner, RefsCountUsers, PooledConns, HeldConns
  <1>2. OInv /\ TInv' /\ [Next]_vars => OInv'
    <2> SUFFICES ASSUME OInv, TInv', [Next]_vars PROVE OneOwner' /\ RefsCountUsers'
      BY DEF OInv
    <2>1. ASSUME NEW u \in Coro, Connect(u) PROVE OneOwner' /\ RefsCountUsers'
      BY <2>1, TryOpenOwner, TakeBackOwner DEF Connect
    <2>2. ASSUME NEW u \in Coro, Retry(u) PROVE OneOwner' /\ RefsCountUsers'
      <3>1. CASE Throw(u)
        <4>1. HeldConns' = HeldConns /\ \A c : UsersOf(c)' = UsersOf(c)
          BY <2>2, <3>1, SameUsers DEF Throw, Retry, OInv, TInv, TypeOK
        <4> QED
          BY <3>1, <4>1 DEF Throw, OInv, OneOwner, RefsCountUsers, UsersOf, PooledConns
      <3> QED
        BY <2>2, <3>1, TryOpenOwner, TakeBackOwner DEF Retry
    <2>3. ASSUME NEW u \in Coro, Put(u) PROVE OneOwner' /\ RefsCountUsers'
      BY <2>3, PutOwner
    <2>4. ASSUME NEW u \in Coro, NEW w \in Coro, Share(u, w)
          PROVE  OneOwner' /\ RefsCountUsers'
      <3>0. PICK c : c = held[w]
        OBVIOUS
      <3> USE <3>0
      <3>1. c \in Conn /\ c \in HeldConns /\ pc[u] # "using"
        BY <2>4 DEF Share, OInv, TInv, UsersHold, HeldConns
      <3>2. /\ HeldConns' = HeldConns \cup {c}
            /\ UsersOf(c)' = UsersOf(c) \cup {u}
            /\ u \notin UsersOf(c)
            /\ \A d : d # c => UsersOf(d)' = UsersOf(d)
        BY <2>4, <3>1, OneMoreUser DEF Share, OInv
      <3>3. Cardinality(UsersOf(c)') = refs[c] + 1
        <4>1. refs[c] = Cardinality(UsersOf(c))
          BY <3>1 DEF OInv, RefsCountUsers, UsersOf
        <4>2. Cardinality(UsersOf(c) \cup {u}) = Cardinality(UsersOf(c)) + 1
          BY <3>2, UsersOfFacts, FS_AddElement
        <4> QED
          BY <3>2, <4>1, <4>2
      <3>4. \A d \in Conn : refs'[d] = IF d = c THEN refs[d] + 1 ELSE refs[d]
        BY <2>4 DEF Share, OInv, TInv, TypeOK
      <3>5. ASSUME NEW d \in HeldConns' PROVE refs'[d] = Cardinality(UsersOf(d)')
        <4>1. d \in HeldConns /\ d \in Conn
          BY <3>1, <3>2 DEF HeldConns, OInv, TInv, UsersHold
        <4>2. CASE d = c
          BY <3>3, <3>4, <4>1, <4>2
        <4>3. CASE d # c
          BY <3>2, <3>4, <4>1, <4>3 DEF OInv, RefsCountUsers, UsersOf
        <4> QED
          BY <4>2, <4>3
      <3>6. RefsCountUsers'
        BY <3>5 DEF RefsCountUsers, UsersOf
      <3>7. UNCHANGED <<conns, open, leaked, PooledConns>>
        BY <2>4 DEF Share, PooledConns
      <3> QED
        BY <3>1, <3>2, <3>6, <3>7 DEF OInv, OneOwner
    <2>5. CASE StartPrune \/ ResumePrune
      BY <2>5, PruneOwner DEF StartPrune, ResumePrune, Prune
    <2>6. ASSUME UNCHANGED <<conns, open, leaked, userVars>>
          PROVE  OneOwner' /\ RefsCountUsers'
      <3>1. HeldConns' = HeldConns /\ \A c : UsersOf(c)' = UsersOf(c)
        BY <2>6, SameUsers DEF userVars
      <3> QED
        BY <2>6, <3>1 DEF OInv, OneOwner, RefsCountUsers, UsersOf, PooledConns, userVars
    <2>7. CASE TimerFires \/ Notified \/ Tick \/ UNCHANGED vars
      BY <2>6, <2>7 DEF TimerFires, Notified, Tick, vars
    <2>8. ASSUME CloseAll, UNCHANGED <<leaked, userVars>> PROVE OneOwner' /\ RefsCountUsers'
      <3>1. HeldConns' = HeldConns /\ \A c : UsersOf(c)' = UsersOf(c)
        BY <2>8, SameUsers DEF userVars
      <3>2. PooledConns' = {} /\ open' = open \ PooledConns /\ Len(conns') = 0
        BY <2>8 DEF CloseAll, PooledConns
      <3> QED
        BY <2>8, <3>1, <3>2 DEF OInv, OneOwner, RefsCountUsers, UsersOf, userVars
    <2>9. CASE Destroy \/ DestroySpin
      BY <2>6, <2>8, <2>9 DEF Destroy, DestroySpin
    <2> QED
      BY <2>1, <2>2, <2>3, <2>4, <2>5, <2>7, <2>9 DEF Next, Clean
  <1> QED
    BY <1>1, <1>2, TypesKept, PTL DEF Spec, OInv

(* get() and put() balance: refs is the number of coroutines that use the  *)
(* connection, for any number of them.                                     *)
THEOREM RefsCounted == Spec => []RefsCountUsers
  BY Ownership, PTL
=============================================================================
