-------------------------- MODULE SpinLock_proofs ---------------------------
(***************************************************************************)
(* Theorems about SpinLock, for every set of callers and every width of    *)
(* the counters.                                                           *)
(***************************************************************************)
EXTENDS SpinLock, TLAPS

(* Arithmetic of the conversions. *)
LEMMA ModRange ==
  ASSUME NEW n \in Int, NEW m \in Nat, m > 0
  PROVE  n % m \in 0 .. m - 1
  OBVIOUS

(* A counter below its modulus does not wrap. *)
LEMMA ModSmall ==
  ASSUME NEW n \in Nat, NEW m \in Nat, n < m
  PROVE  n % m = n
  OBVIOUS

(* Half the values of an int are non-negative. *)
LEMMA HalfFacts ==
  /\ IntMod \div 2 \in Nat
  /\ 2 * (IntMod \div 2) = IntMod
  /\ 1 <= IntMod \div 2
  BY IntModAssumption

(* What the narrowing of a counter to an int yields. *)
LEMMA ToIntRange ==
  ASSUME NEW n \in Nat
  PROVE  ToInt(n) \in -(IntMod \div 2) .. IntMod \div 2 - 1
  <1>1. n % IntMod \in 0 .. IntMod - 1
    BY ModRange, IntModAssumption
  <1> QED
    BY <1>1, HalfFacts, IntModAssumption DEF ToInt

(* Narrowing changes no ticket below 2^31 ... *)
LEMMA ToIntSmall ==
  ASSUME NEW n \in Nat, n < IntMod \div 2
  PROVE  ToInt(n) = n
  <1>1. n % IntMod = n
    BY ModSmall, HalfFacts, IntModAssumption
  <1> QED
    BY <1>1 DEF ToInt

(* ... and widening it gives the counter back. *)
LEMMA ToCtrSmall ==
  ASSUME NEW n \in Nat, n < CtrMod
  PROVE  ToCtr(n) = n
  BY ModSmall, CtrModAssumption DEF ToCtr

-----------------------------------------------------------------------------
(* Every variable keeps the range of its C++ type. *)
THEOREM TypeCorrect == Spec => []TypeOK
  <1>1. Init => TypeOK
    BY HalfFacts, IntModAssumption, CtrModAssumption, MaxTicketsAssumption
       DEF Init, TypeOK
  <1>2. TypeOK /\ [NextStep]_vars => TypeOK'
    <2> SUFFICES ASSUME TypeOK, [NextStep]_vars PROVE TypeOK'
      OBVIOUS
    <2> USE DEF TypeOK
    <2>1. CASE Cancel
      BY <2>1 DEF Cancel
    <2>2. ASSUME NEW p \in Proc, Draw(p) PROVE TypeOK'
      <3>1. ToInt(Next) \in -(IntMod \div 2) .. IntMod \div 2 - 1
        BY ToIntRange, MaxTicketsAssumption
      <3>2. Next' = Next + 1 /\ Next' \in 0 .. MaxTickets
        BY <2>2, ModSmall, MaxTicketsAssumption, CtrModAssumption DEF Draw
      <3> QED
        BY <2>2, <3>1, <3>2 DEF Draw
    <2>3. ASSUME NEW p \in Proc, ReadOn(p) PROVE TypeOK'
      BY <2>3 DEF ReadOn
    <2>4. ASSUME NEW p \in Proc, Compare(p) PROVE TypeOK'
      BY <2>4 DEF Compare
    <2>5. ASSUME NEW p \in Proc, Unlock(p) PROVE TypeOK'
      <3>1. Serving' \in 0 .. CtrMod - 1
        BY <2>5, ModRange, CtrModAssumption, IntModAssumption DEF Unlock
      <3> QED
        BY <2>5, <3>1 DEF Unlock
    <2>6. CASE UNCHANGED vars
      BY <2>6 DEF vars
    <2> QED
      BY <2>1, <2>2, <2>3, <2>4, <2>5, <2>6 DEF NextStep, Step
  <1> QED
    BY <1>1, <1>2, PTL DEF Spec

-----------------------------------------------------------------------------
(* The inductive invariant.  The first part also holds of a cancelled lock *)
(* and orders the callers; the second is TicketsInOrder.                   *)
Active == Waiting \cup Inside

Distinct ==
  /\ \A p \in Active : ticket[p] \in 0 .. Next - 1
  /\ \A p, q \in Active : ticket[p] = ticket[q] => p = q

IInv == TypeOK /\ Distinct /\ TicketsInOrder

(* While the tickets drawn fit a non-negative int, tickets in use are      *)
(* distinct and only the one being served is inside.                       *)
THEOREM TicketOrder ==
  ASSUME MaxTickets <= IntMod \div 2
  PROVE  Spec => []IInv
  <1>1. Init => IInv
    BY HalfFacts, IntModAssumption, CtrModAssumption, MaxTicketsAssumption
       DEF Init, IInv, TypeOK, Distinct, TicketsInOrder, Active, Waiting, Inside
  <1>2. IInv /\ TypeOK' /\ [NextStep]_vars => IInv'
    <2> SUFFICES ASSUME IInv, TypeOK', [NextStep]_vars PROVE Distinct' /\ TicketsInOrder'
      BY DEF IInv
    <2> USE DEF IInv, TypeOK, Distinct, TicketsInOrder, Active, Waiting, Inside
    <2>1. CASE Cancel
      BY <2>1 DEF Cancel
    <2>2. ASSUME NEW p \in Proc, Draw(p) PROVE Distinct' /\ TicketsInOrder'
      <3>1. ToInt(Next) = Next
        BY <2>2, ToIntSmall, MaxTicketsAssumption, HalfFacts DEF Draw
      <3>2. Next' = Next + 1
        BY <2>2, ModSmall, MaxTicketsAssumption, CtrModAssumption DEF Draw
      <3> QED
        BY <2>2, <3>1, <3>2 DEF Draw
    <2>3. ASSUME NEW p \in Proc, ReadOn(p) PROVE Distinct' /\ TicketsInOrder'
      BY <2>3 DEF ReadOn
    <2>4. ASSUME NEW p \in Proc, Compare(p) PROVE Distinct' /\ TicketsInOrder'
      <3>1. ToCtr(ticket[p]) = ticket[p]
        BY <2>4, ToCtrSmall, MaxTicketsAssumption, CtrModAssumption DEF Compare
      <3> QED
        BY <2>4, <3>1 DEF Compare
    <2>5. ASSUME NEW p \in Proc, Unlock(p) PROVE Distinct' /\ TicketsInOrder'
      <3>1. On => Serving' = Serving + 1
        BY <2>5, ModSmall, MaxTicketsAssumption, CtrModAssumption DEF Unlock
      <3> QED
        BY <2>5, <3>1 DEF Unlock
    <2>6. CASE UNCHANGED vars
      BY <2>6 DEF vars
    <2> QED
      BY <2>1, <2>2, <2>3, <2>4, <2>5, <2>6 DEF NextStep, Step
  <1> QED
    BY <1>1, <1>2, TypeCorrect, PTL DEF Spec

(* While the lock is on, the tickets of those who wait or are inside are   *)
(* distinct, run from Serving to Next, and the one inside has Serving      *)
(* (Lock::Lock and ~Lock).                                                 *)
THEOREM TicketsOrdered ==
  ASSUME MaxTickets <= IntMod \div 2
  PROVE  Spec => []TicketsInOrder
  <1>1. IInv => TicketsInOrder
    BY DEF IInv
  <1> QED
    BY <1>1, TicketOrder, PTL

(* At most one caller is inside the lock until it is cancelled.            *)
THEOREM LockExcludes ==
  ASSUME MaxTickets <= IntMod \div 2
  PROVE  Spec => []MutualExclusion
  <1>1. IInv => MutualExclusion
    BY DEF IInv, TicketsInOrder, MutualExclusion, Inside
  <1> QED
    BY <1>1, TicketOrder, PTL

(* The ticket lock is a first-come-first-served lock: each of its steps is *)
(* a step of FifoLock or changes nothing FifoLock sees.                    *)
THEOREM LockIsFifo ==
  ASSUME MaxTickets <= IntMod \div 2
  PROVE  Spec => ImplementsFifo
  <1> DEFINE AheadOf == [p \in Proc |->
                IF p \in Waiting \cup Inside
                THEN {q \in Waiting \cup Inside : ticket[q] < ticket[p]}
                ELSE {}]
  <1>1. Init => Fifo!AInit
    BY DEF Init, Fifo!AInit, Waiting, Inside
  <1>2. IInv /\ IInv' /\ [NextStep]_vars => [Fifo!ANext]_(Fifo!avars)
    <2> SUFFICES ASSUME IInv, IInv', [NextStep]_vars
                 PROVE  Fifo!ANext \/ UNCHANGED <<Waiting, Inside, AheadOf, ~On>>
      BY DEF Fifo!avars
    <2>1. CASE Cancel
      <3>1. UNCHANGED <<Waiting, Inside, AheadOf>> /\ On' = FALSE
        BY <2>1 DEF Cancel, Waiting, Inside
      <3> QED
        BY <3>1 DEF Fifo!ANext, Fifo!Open
    <2>2. ASSUME NEW p \in Proc, Draw(p) PROVE Fifo!ANext
      <3>1. ToInt(Next) = Next
        BY <2>2, ToIntSmall, MaxTicketsAssumption, HalfFacts DEF Draw, IInv, TypeOK
      <3>2. /\ p \notin Waiting \cup Inside
            /\ Waiting' = Waiting \cup {p}
            /\ Inside' = Inside
            /\ On' = On
            /\ ticket' = [ticket EXCEPT ![p] = Next]
        BY <2>2, <3>1 DEF Draw, Waiting, Inside, IInv, TypeOK
      <3>3. \A q \in Waiting \cup Inside : ticket[q] < Next /\ ticket[q] \in Int
        BY DEF IInv, TypeOK, Distinct, Active
      <3>4. AheadOf' = [AheadOf EXCEPT ![p] = Waiting \cup Inside]
        <4>1. AheadOf'[p] = Waiting \cup Inside
          BY <3>2, <3>3 DEF IInv, TypeOK
        <4>2. ASSUME NEW q \in Proc, q # p PROVE AheadOf'[q] = AheadOf[q]
          BY <3>2, <3>3, <4>2 DEF IInv, TypeOK
        <4> QED
          BY <4>1, <4>2
      <3> QED
        BY <3>2, <3>4 DEF Fifo!ANext, Fifo!Ask
    <2>3. ASSUME NEW p \in Proc, pc[p] \in {"spin", "cmp"}, pc' = [pc EXCEPT ![p] = "in"],
                 UNCHANGED <<On, ticket>>,
                 ~On \/ (On /\ ticket[p] = Serving)
          PROVE  Fifo!ANext
      <3>1. /\ p \in Waiting
            /\ Waiting' = Waiting \ {p}
            /\ Inside' = Inside \cup {p}
            /\ AheadOf' = AheadOf
        BY <2>3 DEF Waiting, Inside, IInv, TypeOK
      <3>2. On => Inside = {} /\ AheadOf[p] = {}
        BY <2>3, <3>1 DEF IInv, TypeOK, TicketsInOrder, Waiting, Inside
      <3> QED
        BY <2>3, <3>1, <3>2 DEF Fifo!ANext, Fifo!Enter
    <2>4. ASSUME NEW p \in Proc, ReadOn(p)
          PROVE  Fifo!ANext \/ UNCHANGED <<Waiting, Inside, AheadOf, ~On>>
      <3>1. CASE On
        BY <2>4, <3>1 DEF ReadOn, Waiting, Inside, IInv, TypeOK
      <3>2. CASE ~On
        BY <2>3, <2>4, <3>2 DEF ReadOn
      <3> QED
        BY <3>1, <3>2
    <2>5. ASSUME NEW p \in Proc, Compare(p)
          PROVE  Fifo!ANext \/ UNCHANGED <<Waiting, Inside, AheadOf, ~On>>
      <3>1. ToCtr(ticket[p]) = ticket[p]
        BY <2>5, ToCtrSmall, MaxTicketsAssumption, CtrModAssumption
           DEF Compare, IInv, TypeOK, Distinct, Active, Waiting
      <3>2. CASE Serving # ticket[p]
        <4>1. UNCHANGED <<Waiting, Inside, ticket, On>>
          BY <2>5, <3>1, <3>2 DEF Compare, Waiting, Inside, IInv, TypeOK
        <4> QED
          BY <4>1
      <3>3. CASE Serving = ticket[p]
        BY <2>3, <2>5, <3>1, <3>3 DEF Compare, IInv, TypeOK
      <3> QED
        BY <3>2, <3>3
    <2>6. ASSUME NEW p \in Proc, Unlock(p) PROVE Fifo!ANext
      <3>1. /\ p \in Inside
            /\ Inside' = Inside \ {p}
            /\ Waiting' = Waiting
            /\ p \notin Waiting
            /\ UNCHANGED <<On, ticket>>
        BY <2>6 DEF Unlock, Waiting, Inside, IInv, TypeOK
      <3>2. AheadOf' = [q \in Proc |-> IF q = p THEN {} ELSE AheadOf[q] \ {p}]
        BY <3>1 DEF Waiting, Inside
      <3> QED
        BY <3>1, <3>2 DEF Fifo!ANext, Fifo!Leave
    <2>7. CASE UNCHANGED vars
      BY <2>7 DEF vars, Waiting, Inside
    <2> QED
      BY <2>1, <2>2, <2>4, <2>5, <2>6, <2>7 DEF NextStep, Step
  <1> QED
    BY <1>1, <1>2, TicketOrder, PTL DEF Spec, ImplementsFifo, Fifo!ASpec
=============================================================================
