------------------------------ MODULE SpinLock ------------------------------
(***************************************************************************)
(* The ticket lock that worker processes share through System V shared     *)
(* memory: struct Lock_t and struct Lock, src/suil/worker.h:13-37 and      *)
(* src/suil/worker.cpp:423-481.                                            *)
(*                                                                         *)
(* A caller draws the ticket Next++ (an atomic add on a uint64_t, kept in  *)
(* an int), then spins: it reads On, and while On is set it compares       *)
(* Serving with its ticket and yields.  The destructor of Lock adds one to *)
(* Serving.  cancel() clears On, which lets every caller in.               *)
(*                                                                         *)
(* spin_lock's time-out branch is not modelled: spin_lock is private and   *)
(* its only caller, Lock::Lock, passes the default tout = -1.              *)
(***************************************************************************)
EXTENDS Integers

CONSTANTS
  Proc,        \* the coroutines, of any worker process, that use the lock
  IntMod,      \* number of values of an int: 2^32 in the code
  CtrMod,      \* number of values of a uint64_t: 2^64 in the code
  MaxTickets   \* bound on the number of tickets ever drawn

ASSUME IntModAssumption == IntMod \in Nat /\ IntMod >= 2 /\ IntMod % 2 = 0
ASSUME CtrModAssumption == CtrMod \in Nat /\ CtrMod > IntMod
ASSUME MaxTicketsAssumption == MaxTickets \in Nat /\ MaxTickets < CtrMod

VARIABLES
  Serving,     \* Lock_t.Serving
  Next,        \* Lock_t.Next
  On,          \* Lock_t.On # 0
  pc,          \* pc[p]: where p is in Lock::Lock ... Lock::~Lock
  ticket       \* ticket[p]: the local variable of spin_lock

vars == <<Serving, Next, On, pc, ticket>>

-----------------------------------------------------------------------------
(* The implicit conversions of "int ticket = fetch_and_add(&l.Next, 1)"    *)
(* and of passing ticket as a uint64_t to the compare-and-swap.            *)
ToInt(n) ==
  LET low == n % IntMod
  IN  IF low < IntMod \div 2 THEN low ELSE low - IntMod

ToCtr(i) == i % CtrMod

(* Lock::reset, the state initializeWorkers leaves every lock in.          *)
Init ==
  /\ Serving = 0
  /\ Next = 0
  /\ On = TRUE
  /\ pc = [p \in Proc |-> "out"]
  /\ ticket = [p \in Proc |-> 0]

(* Variants of the operations with a plausible slip, for checking that the *)
(* properties below notice it.                                             *)
DrawWithoutAdd(p) ==           \* Next is read but not advanced
  /\ pc[p] = "out"
  /\ Next < MaxTickets
  /\ ticket' = [ticket EXCEPT ![p] = ToInt(Next)]
  /\ pc' = [pc EXCEPT ![p] = "spin"]
  /\ UNCHANGED <<Serving, Next, On>>

DrawAddAndFetch(p) ==          \* add_and_fetch in place of fetch_and_add
  /\ pc[p] = "out"
  /\ Next < MaxTickets
  /\ ticket' = [ticket EXCEPT ![p] = ToInt((Next + 1) % CtrMod)]
  /\ Next' = (Next + 1) % CtrMod
  /\ pc' = [pc EXCEPT ![p] = "spin"]
  /\ UNCHANGED <<Serving, On>>

CompareAtMost(p) ==            \* lets in the ticket after the one served
  /\ pc[p] = "cmp"
  /\ pc' = [pc EXCEPT ![p] = IF ToCtr(ticket[p]) <= Serving + 1 THEN "in" ELSE "spin"]
  /\ UNCHANGED <<Serving, Next, On, ticket>>

UnlockTwice(p) ==              \* serves one ticket too many
  /\ pc[p] = "in"
  /\ Serving' = (Serving + 2) % CtrMod
  /\ pc' = [pc EXCEPT ![p] = "out"]
  /\ UNCHANGED <<Next, On, ticket>>

UnlockBackwards(p) ==          \* fetch_and_sub in place of fetch_and_add
  /\ pc[p] = "in"
  /\ Serving' = Serving - 1
  /\ pc' = [pc EXCEPT ![p] = "out"]
  /\ UNCHANGED <<Next, On, ticket>>

(* Lock::Lock: draw a ticket.                                              *)
Draw(p) ==
  /\ pc[p] = "out"
  /\ Next < MaxTickets
  /\ ticket' = [ticket EXCEPT ![p] = ToInt(Next)]
  /\ Next' = (Next + 1) % CtrMod
  /\ pc' = [pc EXCEPT ![p] = "spin"]
  /\ UNCHANGED <<Serving, On>>

(* The first operand of the loop condition: l.On.                          *)
ReadOn(p) ==
  /\ pc[p] = "spin"
  /\ pc' = [pc EXCEPT ![p] = IF On THEN "cmp" ELSE "in"]
  /\ UNCHANGED <<Serving, Next, On, ticket>>

(* The second operand: the compare-and-swap; on failure yield and retry.   *)
Compare(p) ==
  /\ pc[p] = "cmp"
  /\ pc' = [pc EXCEPT ![p] = IF Serving = ToCtr(ticket[p]) THEN "in" ELSE "spin"]
  /\ UNCHANGED <<Serving, Next, On, ticket>>

(* Lock::~Lock.                                                            *)
Unlock(p) ==
  /\ pc[p] = "in"
  /\ Serving' = (Serving + 1) % CtrMod
  /\ pc' = [pc EXCEPT ![p] = "out"]
  /\ UNCHANGED <<Next, On, ticket>>

Cancel ==
  /\ On' = FALSE
  /\ UNCHANGED <<Serving, Next, pc, ticket>>

Step(p) == Draw(p) \/ ReadOn(p) \/ Compare(p) \/ Unlock(p)

NextStep == Cancel \/ \E p \in Proc : Step(p)

Spec == Init /\ [][NextStep]_vars

(* The operating system schedules every process, libmill every coroutine   *)
(* that yields, and every critical section ends; nobody has to ask.        *)
Fairness == \A p \in Proc : WF_vars(ReadOn(p) \/ Compare(p) \/ Unlock(p))

FairSpec == Spec /\ Fairness

-----------------------------------------------------------------------------
Waiting == {p \in Proc : pc[p] \in {"spin", "cmp"}}
Inside  == {p \in Proc : pc[p] = "in"}

(* The counters, the tickets and the callers stay in range.                *)
TypeOK ==
  /\ Serving \in 0 .. CtrMod - 1
  /\ Next \in 0 .. MaxTickets
  /\ On \in BOOLEAN
  /\ pc \in [Proc -> {"out", "spin", "cmp", "in"}]
  /\ ticket \in [Proc -> -(IntMod \div 2) .. IntMod \div 2 - 1]

(* Until the lock is cancelled at most one caller is between the end of    *)
(* Lock::Lock and Lock::~Lock, whatever the processes interleave.          *)
MutualExclusion == On => \A p, q \in Inside : p = q

(* Tickets are the order of arrival: while the lock is on and tickets fit  *)
(* an int, the tickets in use are distinct, lie in Serving .. Next - 1,    *)
(* and whoever is inside has the one being served, so each unlock hands    *)
(* over to the oldest waiter and skips nobody.                             *)
TicketsInOrder ==
  On => /\ Serving <= Next
        /\ \A p \in Waiting \cup Inside :
             /\ ticket[p] \in Serving .. Next - 1
             /\ \A q \in Waiting \cup Inside : ticket[p] = ticket[q] => p = q
        /\ \A p \in Inside : ticket[p] = Serving

(* "serve the next waiting" (worker.cpp:479): whoever drew a ticket gets   *)
(* in, also when the lock is cancelled meanwhile.                          *)
EveryoneServed == \A p \in Proc : p \in Waiting ~> p \in Inside

(* Lock implements the first-come-first-served lock.                       *)
Fifo ==
  INSTANCE FifoLock WITH
    waiting <- Waiting,
    owners <- Inside,
    ahead <- [p \in Proc |->
                IF p \in Waiting \cup Inside
                THEN {q \in Waiting \cup Inside : ticket[q] < ticket[p]}
                ELSE {}],
    open <- ~On

ImplementsFifo == Fifo!ASpec
=============================================================================
