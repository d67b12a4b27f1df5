------------------------- MODULE WebSockHub_proofs -------------------------
(***************************************************************************)
(* The safety properties of WebSockHub for any number of web sockets and   *)
(* of broadcasts.                                                          *)
(***************************************************************************)
EXTENDS WebSockHub, FiniteSetTheorems, TLAPS

(* The sockets that a bsend() of b waits to write to.                      *)
Writing(b) == {s \in Sock : out[s] = b /\ ~(at[b] = "direct" /\ cur[b] = s)}

(* As long as the process lives a coroutine waits only for a socket in the *)
(* map, and a broadcast that writes itself has no bsend() left that waits. *)
Waiters ==
  Alive =>
    /\ \A s \in Sock : out[s] # NoOne => s \in websocks
    /\ \A b \in Bcast : at[b] = "direct" => \A s \in Sock : out[s] = b => s = cur[b]

(* A broadcast that has not begun or is over waits for no answer.          *)
Counted(b) ==
  /\ at[b] \in {"idle", "freed"} => wait[b] = 0
  /\ Alive => wait[b] = rep[b] + Cardinality(Writing(b))
  /\ at[b] = "freed" => rep[b] = 0 /\ \A s \in Sock : out[s] # b

(* What is owed is either ahead of the iterator and not yet written to, or *)
(* behind it and written to once; a lost iterator owes nothing.            *)
Marked(b) ==
  /\ ahead[b] \subseteq websocks /\ owed[b] \subseteq websocks
  /\ at[b] = "idle" => owed[b] = {} /\ \A s \in Sock : hits[b][s] = 0
  /\ at[b] \in {"walk", "direct", "wait"} =>
       /\ src[b] \in Sock /\ src[b] \notin ahead[b] /\ hits[b][src[b]] = 0
       /\ \A s \in owed[b] : hits[b][s] = IF s \in ahead[b] THEN 0 ELSE 1
  /\ at[b] = "wait" => ahead[b] = {}
  /\ Walking(b) /\ cur[b] \notin websocks => owed[b] = {}

IInv ==
  /\ TypeOK /\ Registry /\ Waiters
  /\ \A b \in Bcast : Counted(b) /\ Marked(b)

-----------------------------------------------------------------------------
LEMMA Names == NoOne \notin Bcast /\ Handler \notin Bcast /\ NoOne # Handler
               /\ NoOne \notin Sock
  BY NamesAssumption

LEMMA Finite ==
  ASSUME NEW S \in SUBSET Sock, NEW s \in Sock
  PROVE  /\ IsFiniteSet(S) /\ Cardinality(S) \in Nat
         /\ s \notin S => Cardinality(S \cup {s}) = Cardinality(S) + 1
         /\ s \in S => /\ Cardinality(S \ {s}) = Cardinality(S) - 1
                       /\ Cardinality(S) > 0
                       /\ Cardinality(S) = 1 => S = {s}
<1>1. IsFiniteSet(S)
  BY FS_Subset, SockAssumption
<1>2. Cardinality(S) \in Nat
  BY <1>1, FS_CardinalityType
<1>3. s \notin S => Cardinality(S \cup {s}) = Cardinality(S) + 1
  BY <1>1, FS_AddElement
<1>4. s \in S => Cardinality(S \ {s}) = Cardinality(S) - 1
  BY <1>1, FS_RemoveElement
<1>5. s \in S => Cardinality(S) # 0
  BY <1>1, FS_EmptySet
<1>6. s \in S /\ Cardinality(S) = 1 => S = {s}
  BY <1>1, FS_Singleton
<1> QED
  BY <1>1, <1>2, <1>3, <1>4, <1>5, <1>6

LEMMA WritingType ==
  ASSUME NEW b
  PROVE  /\ Writing(b) \in SUBSET Sock /\ Cardinality(Writing(b)) \in Nat
<1>1. Writing(b) \in SUBSET Sock
  BY DEF Writing
<1>2. IsFiniteSet(Writing(b))
  BY <1>1, FS_Subset, SockAssumption
<1> QED
  BY <1>1, <1>2, FS_CardinalityType

(* The counts of a broadcast depend on little.                             *)
LEMMA CountedSame ==
  ASSUME NEW b \in Bcast, Counted(b), Alive' => Alive,
         \A s \in Sock : out'[s] = b <=> out[s] = b,
         at'[b] = at[b], cur'[b] = cur[b], wait'[b] = wait[b], rep'[b] = rep[b]
  PROVE  Counted(b)'
<1>1. Writing(b)' = Writing(b)
  BY DEF Writing
<1> QED
  BY <1>1 DEF Counted

(* The coroutine that waits to write to s runs again: Written, and Leave   *)
(* after a reset.                                                          *)
Released(s) ==
  /\ out[s] # NoOne /\ out' = [out EXCEPT ![s] = NoOne]
  /\ at' = [b \in Bcast |-> IF b = out[s] /\ at[b] = "direct" THEN "walk" ELSE at[b]]
  /\ rep' = [b \in Bcast |-> IF b = out[s] /\ at[b] # "direct" THEN rep[b] + 1
                             ELSE rep[b]]

LEMMA ReleasedCounts ==
  ASSUME TypeOK, Waiters, Alive, NEW s \in Sock, Released(s),
         \A b \in Bcast : Counted(b), UNCHANGED <<cur, wait, fate>>
  PROVE  /\ \A b \in Bcast : Counted(b)'
         /\ out' \in [Sock -> Bcast \cup {NoOne, Handler}]
         /\ at' \in [Bcast -> {"idle", "walk", "direct", "wait", "freed"}]
         /\ rep' \in [Bcast -> Nat]
<1>1. /\ out \in [Sock -> Bcast \cup {NoOne, Handler}]
      /\ at \in [Bcast -> {"idle", "walk", "direct", "wait", "freed"}]
      /\ rep \in [Bcast -> Nat] /\ wait \in [Bcast -> Nat]
  BY DEF TypeOK
<1>2. /\ out'[s] = NoOne /\ \A t \in Sock : t # s => out'[t] = out[t]
      /\ out' \in [Sock -> Bcast \cup {NoOne, Handler}]
  BY <1>1 DEF Released
<1>3. ASSUME NEW b \in Bcast PROVE Counted(b)'
  <2>1. CASE b # out[s]
    <3>1. \A t \in Sock : out'[t] = b <=> out[t] = b
      BY <1>2, <2>1, Names
    <3>2. at'[b] = at[b] /\ rep'[b] = rep[b]
      BY <1>3, <2>1 DEF Released
    <3> QED
      BY <1>3, <3>1, <3>2, CountedSame DEF Alive
  <2>2. CASE b = out[s] /\ at[b] = "direct"
    <3>1. at'[b] = "walk" /\ rep'[b] = rep[b]
      BY <1>3, <2>2 DEF Released
    <3>2. \A t \in Sock : out[t] = b => t = s /\ cur[b] = s
      BY <1>3, <2>2 DEF Waiters
    <3>3. Writing(b) = {} /\ Writing(b)' = {}
      BY <1>2, <2>2, <3>1, <3>2, Names DEF Writing
    <3>4. wait[b] = rep[b] + Cardinality(Writing(b))
      BY DEF Counted
    <3>5. Alive' /\ wait'[b] = rep'[b] + Cardinality(Writing(b)')
      BY <3>1, <3>3, <3>4 DEF Alive
    <3> QED
      BY <3>1, <3>5 DEF Counted
  <2>3. CASE b = out[s] /\ at[b] # "direct"
    <3>1. at'[b] = at[b] /\ rep'[b] = rep[b] + 1 /\ wait'[b] = wait[b]
      BY <1>3, <2>3 DEF Released
    <3>2. at[b] # "freed" /\ wait[b] = rep[b] + Cardinality(Writing(b))
      BY <2>3 DEF Counted
    <3>3. s \in Writing(b) /\ Writing(b)' = Writing(b) \ {s}
      BY <1>2, <2>3, <3>1, Names DEF Writing
    <3>4. /\ Cardinality(Writing(b)') = Cardinality(Writing(b)) - 1
          /\ Cardinality(Writing(b)) \in Nat
      BY <3>3, WritingType, Finite
    <3>5. rep[b] \in Nat
      BY <1>1, <1>3
    <3>6. wait'[b] = rep'[b] + Cardinality(Writing(b)')
      BY <3>1, <3>2, <3>4, <3>5
    <3>7. at[b] \in {"idle", "freed"} => wait[b] = 0
      BY DEF Counted
    <3> QED
      BY <3>1, <3>2, <3>6, <3>7 DEF Counted
  <2> QED
    BY <2>1, <2>2, <2>3
<1>4. at' \in [Bcast -> {"idle", "walk", "direct", "wait", "freed"}]
  BY <1>1 DEF Released
<1>5. rep' \in [Bcast -> Nat]
  BY <1>1 DEF Released
<1> QED
  BY <1>2, <1>3, <1>4, <1>5

(* A write that has waited is over.                                        *)
LEMMA WrittenKeeps ==
  ASSUME IInv, Alive, NEW s \in Sock, Written(s)
  PROVE  IInv'
<1>1. TypeOK /\ Registry /\ Waiters /\ \A b \in Bcast : Counted(b) /\ Marked(b)
  BY DEF IInv
<1>2. UNCHANGED <<ses, websocks, nsocks, src, cur, ahead, wait, hits, owed, fate>>
  BY DEF Written, sesVars
<1>3. Released(s)
  <2>1. out[s] # NoOne /\ out' = [out EXCEPT ![s] = NoOne]
    BY DEF Written
  <2>2. at' = [b \in Bcast |-> IF b = out[s] /\ at[b] = "direct" THEN "walk"
                              ELSE at[b]]
    BY DEF Written
  <2>3. rep' = [b \in Bcast |-> IF b = out[s] /\ at[b] # "direct"
                               THEN rep[b] + 1 ELSE rep[b]]
    BY DEF Written
  <2> QED
    BY <2>1, <2>2, <2>3 DEF Released
<1>4. /\ \A b \in Bcast : Counted(b)'
      /\ out' \in [Sock -> Bcast \cup {NoOne, Handler}]
      /\ at' \in [Bcast -> {"idle", "walk", "direct", "wait", "freed"}]
      /\ rep' \in [Bcast -> Nat]
  BY <1>1, <1>2, <1>3, ReleasedCounts
<1>5. TypeOK'
  BY <1>1, <1>2, <1>4 DEF TypeOK
<1>6. Registry'
  BY <1>1, <1>2 DEF Registry
<1>7. /\ \A b \in Bcast : at'[b] = at[b] \/ (at[b] = "direct" /\ at'[b] = "walk")
      /\ out'[s] = NoOne /\ \A t \in Sock : t # s => out'[t] = out[t]
  BY <1>1, <1>3 DEF Released, TypeOK
<1>8. Waiters'
  <2>1. \A t \in Sock : out'[t] # NoOne => t \in websocks'
    BY <1>1, <1>2, <1>7 DEF Waiters
  <2>2. ASSUME NEW b \in Bcast, at'[b] = "direct", NEW t \in Sock, out'[t] = b
        PROVE  t = cur'[b]
    <3>1. at[b] = "direct" /\ out[t] = b
      BY <1>7, <2>2, Names
    <3> QED
      BY <1>1, <1>2, <2>2, <3>1 DEF Waiters
  <2> QED
    BY <2>1, <2>2 DEF Waiters
<1>9. ASSUME NEW b \in Bcast PROVE Marked(b)'
  BY <1>1, <1>2, <1>7, <1>9 DEF Marked, Walking
<1> QED
  BY <1>4, <1>5, <1>6, <1>8, <1>9 DEF IInv

-----------------------------------------------------------------------------
(* WebSock::handle()                                                       *)

LEMMA RejectKeeps ==
  ASSUME IInv, NEW s \in Sock, Reject(s)
  PROVE  IInv'
<1>1. TypeOK /\ Registry /\ Waiters /\ \A b \in Bcast : Counted(b) /\ Marked(b)
  BY DEF IInv
<1>2. UNCHANGED <<websocks, nsocks, out, at, src, cur, ahead, wait, hits, rep,
                  owed, fate>>
  BY DEF Reject, walkVars
<1>3. /\ ses[s] # "loop" /\ ses' = [ses EXCEPT ![s] = "gone"]
  BY DEF Reject
<1>4. TypeOK'
  BY <1>1, <1>2, <1>3 DEF TypeOK
<1>5. Registry'
  BY <1>1, <1>2, <1>3 DEF Registry, TypeOK
<1>6. Waiters'
  BY <1>1, <1>2 DEF Waiters, Alive
<1>7. \A b \in Bcast : Counted(b)'
  BY <1>1, <1>2, CountedSame DEF Alive
<1>8. \A b \in Bcast : Marked(b)'
  BY <1>1, <1>2 DEF Marked, Walking
<1> QED
  BY <1>4, <1>5, <1>6, <1>7, <1>8 DEF IInv

(* The map may be rehashed under the iterators.                            *)
LEMMA AcceptKeeps ==
  ASSUME IInv, NEW s \in Sock, Accept(s)
  PROVE  IInv'
<1>1. TypeOK /\ Registry /\ Waiters /\ \A b \in Bcast : Counted(b) /\ Marked(b)
  BY DEF IInv
<1>2. UNCHANGED <<out, at, src, cur, wait, hits, rep, fate>>
  BY DEF Accept
<1>3. /\ ses[s] # "loop" /\ ses' = [ses EXCEPT ![s] = "loop"]
      /\ websocks' = websocks \cup {s} /\ nsocks' = nsocks + 1
  BY DEF Accept
<1>4. s \notin websocks /\ websocks \in SUBSET Sock
  BY <1>1, <1>3 DEF Registry
<1>5. /\ owed' \in [Bcast -> SUBSET Sock] /\ ahead' \in [Bcast -> SUBSET Sock]
      /\ \A b \in Bcast :
           /\ ahead'[b] \subseteq websocks'
           /\ ~Walking(b) => ahead'[b] \subseteq ahead[b]
           /\ Walking(b) /\ src[b] \notin ahead[b] => src[b] \notin ahead'[b]
           /\ \/ owed'[b] = {}
              \/ owed'[b] = owed[b] /\ ahead'[b] \subseteq ahead[b] \cup {s}
                 /\ ahead[b] \subseteq ahead'[b]
              \/ owed'[b] = owed[b] /\ ~Walking(b)
  <2>0. /\ ahead \in [Bcast -> SUBSET Sock] /\ owed \in [Bcast -> SUBSET Sock]
        /\ \A b \in Bcast : ahead[b] \subseteq websocks
    BY <1>1 DEF TypeOK, Marked
  <2>1. CASE Grown(s, TRUE)
    <3>1. /\ ahead' \in [Bcast -> SUBSET (websocks \cup {s})]
          /\ \A b \in Bcast :
               IF Walking(b) THEN ahead'[b] \cap {cur[b], src[b]} = {}
               ELSE ahead'[b] = {}
          /\ owed' = [b \in Bcast |-> IF Walking(b) THEN {} ELSE owed[b]]
      BY <2>1 DEF Grown
    <3>2. /\ ahead' \in [Bcast -> SUBSET Sock] /\ owed' \in [Bcast -> SUBSET Sock]
      BY <1>4, <2>0, <3>1
    <3> QED
      BY <1>3, <3>1, <3>2
  <2>2. CASE Grown(s, FALSE)
    <3>1. /\ owed' = owed
          /\ \E near \in SUBSET {b \in Bcast : Walking(b) /\ src[b] # s} :
               ahead' = [b \in Bcast |->
                           ahead[b] \cup (IF b \in near THEN {s} ELSE {})]
      BY <2>2 DEF Grown
    <3>2. PICK near \in SUBSET {b \in Bcast : Walking(b) /\ src[b] # s} :
            ahead' = [b \in Bcast |->
                        ahead[b] \cup (IF b \in near THEN {s} ELSE {})]
      BY <3>1
    <3>3. \A b \in Bcast :
            /\ b \in near => ahead'[b] = ahead[b] \cup {s} /\ Walking(b) /\ src[b] # s
            /\ b \notin near => ahead'[b] = ahead[b]
      BY <3>2
    <3>4. /\ ahead' \in [Bcast -> SUBSET Sock] /\ owed' \in [Bcast -> SUBSET Sock]
      BY <2>0, <3>1, <3>2
    <3> QED
      BY <1>3, <2>0, <3>1, <3>3, <3>4
  <2> QED
    BY <2>1, <2>2 DEF Accept
<1>6. TypeOK'
  <2>1. ses' \in [Sock -> {"new", "connect", "loop", "gone"}] /\ nsocks' \in Nat
    BY <1>1, <1>3 DEF TypeOK
  <2> QED
    BY <1>1, <1>2, <1>3, <1>4, <1>5, <2>1 DEF TypeOK
<1>7. Registry'
  <2>1. websocks' = {t \in Sock : ses'[t] = "loop"}
    BY <1>1, <1>3 DEF Registry, TypeOK
  <2>2. Cardinality(websocks') = Cardinality(websocks) + 1
    BY <1>3, <1>4, Finite
  <2> QED
    BY <1>1, <1>3, <2>1, <2>2 DEF Registry
<1>8. Waiters'
  BY <1>1, <1>2, <1>3 DEF Waiters, Alive
<1>9. \A b \in Bcast : Counted(b)'
  BY <1>1, <1>2, CountedSame DEF Alive
<1>10. ASSUME NEW b \in Bcast PROVE Marked(b)'
  <2>1. Marked(b)
    BY <1>1
  <2>2. owed'[b] \subseteq owed[b] /\ owed'[b] \subseteq websocks'
    BY <1>3, <1>5, <2>1 DEF Marked
  <2>3. at[b] = "wait" => ahead'[b] = {}
    BY <1>5, <2>1 DEF Marked, Walking
  <2>4. at[b] \in {"walk", "direct", "wait"} => src[b] \notin ahead'[b]
    BY <1>5, <2>1, <2>3 DEF Marked, Walking
  <2>5. ASSUME at[b] \in {"walk", "direct", "wait"}, NEW t \in owed'[b]
        PROVE  t \in ahead'[b] <=> t \in ahead[b]
    BY <1>4, <1>5, <2>1, <2>3, <2>5 DEF Marked, Walking
  <2>6. Walking(b)' <=> Walking(b)
    BY <1>2 DEF Walking
  <2>7. Walking(b) /\ cur[b] \notin websocks' => owed'[b] = {}
    BY <1>3, <2>1, <2>2 DEF Marked
  <2>8. at[b] \in {"walk", "direct", "wait"} =>
          /\ src[b] \in Sock /\ hits[b][src[b]] = 0
          /\ \A t \in owed'[b] : hits[b][t] = IF t \in ahead'[b] THEN 0 ELSE 1
    BY <2>1, <2>2, <2>5 DEF Marked
  <2>9. at[b] = "idle" => owed'[b] = {} /\ \A t \in Sock : hits[b][t] = 0
    BY <2>1, <2>2 DEF Marked
  <2> QED
    BY <1>2, <1>5, <2>2, <2>3, <2>4, <2>6, <2>7, <2>8, <2>9 DEF Marked
<1> QED
  BY <1>6, <1>7, <1>8, <1>9, <1>10 DEF IInv

(* A write of handle() has to wait, or two coroutines wait for one socket. *)
LEMMA SendKeeps ==
  ASSUME IInv, Alive, NEW s \in Sock, Send(s)
  PROVE  IInv'
<1>1. TypeOK /\ Registry /\ Waiters /\ \A b \in Bcast : Counted(b) /\ Marked(b)
  BY DEF IInv
<1>2. UNCHANGED <<ses, websocks, nsocks, at, src, cur, ahead, wait, hits, rep,
                  owed>>
  BY DEF Send, sesVars, walkVars
<1>3. s \in websocks
  BY <1>1 DEF Registry, Send, Serving
<1>4. \/ out[s] = NoOne /\ out' = [out EXCEPT ![s] = Handler] /\ fate' = fate
      \/ out' = out /\ fate' = "panic"
  BY DEF Send, Block
<1>5. /\ out' \in [Sock -> Bcast \cup {NoOne, Handler}]
      /\ fate' \in {"alive", "panic", "assert", "crash"}
      /\ \A b \in Bcast, t \in Sock : out'[t] = b <=> out[t] = b
      /\ \A t \in Sock : t # s => out'[t] = out[t]
  BY <1>1, <1>4, Names DEF TypeOK
<1>6. TypeOK'
  BY <1>1, <1>2, <1>5 DEF TypeOK
<1>7. Registry'
  BY <1>1, <1>2 DEF Registry
<1>8. Waiters'
  BY <1>1, <1>2, <1>3, <1>5 DEF Waiters, Alive
<1>9. \A b \in Bcast : Counted(b)'
  BY <1>1, <1>2, <1>5, CountedSame
<1>10. \A b \in Bcast : Marked(b)'
  BY <1>1, <1>2 DEF Marked, Walking
<1> QED
  BY <1>6, <1>7, <1>8, <1>9, <1>10 DEF IInv

(* The session ends, and with it an iterator that is at its socket.        *)
LEMMA LeaveKeeps ==
  ASSUME IInv, Alive, NEW s \in Sock, Leave(s)
  PROVE  IInv'
<1>1. TypeOK /\ Registry /\ Waiters /\ \A b \in Bcast : Counted(b) /\ Marked(b)
  BY DEF IInv
<1>2. UNCHANGED <<src, cur, wait, hits>>
  BY DEF Leave
<1>3. /\ ses[s] = "loop" /\ ses' = [ses EXCEPT ![s] = "gone"]
      /\ websocks' = websocks \ {s} /\ nsocks' = nsocks - 1
      /\ ahead' = [b \in Bcast |-> ahead[b] \ {s}]
      /\ owed' = [b \in Bcast |-> IF Walking(b) /\ cur[b] = s THEN {}
                                  ELSE owed[b] \ {s}]
  BY DEF Leave, Serving
<1>4. s \in websocks /\ websocks \in SUBSET Sock
  BY <1>1, <1>3 DEF Registry
<1>5. Registry' /\ nsocks' \in Nat
  <2>1. websocks' = {t \in Sock : ses'[t] = "loop"}
    BY <1>1, <1>3 DEF Registry, TypeOK
  <2>2. /\ Cardinality(websocks') = Cardinality(websocks) - 1
        /\ Cardinality(websocks) \in Nat /\ Cardinality(websocks) > 0
    BY <1>3, <1>4, Finite
  <2> QED
    BY <1>1, <1>3, <2>1, <2>2 DEF Registry
<1>6. /\ ses' \in [Sock -> {"new", "connect", "loop", "gone"}]
      /\ websocks' \subseteq Sock
      /\ ahead' \in [Bcast -> SUBSET Sock] /\ owed' \in [Bcast -> SUBSET Sock]
  BY <1>1, <1>3 DEF TypeOK
<1>7. \/ /\ UNCHANGED <<out, at, rep>>
         /\ (out[s] = NoOne /\ fate' = fate) \/ fate' = "assert"
      \/ Released(s) /\ fate' = fate
  BY DEF Leave, Released
<1>8. /\ \A b \in Bcast : Counted(b)'
      /\ out' \in [Sock -> Bcast \cup {NoOne, Handler}]
      /\ at' \in [Bcast -> {"idle", "walk", "direct", "wait", "freed"}]
      /\ rep' \in [Bcast -> Nat]
  <2>1. CASE UNCHANGED <<out, at, rep>>
    BY <1>1, <1>2, <2>1, CountedSame DEF TypeOK
  <2>2. CASE Released(s) /\ fate' = fate
    BY <1>1, <1>2, <2>2, ReleasedCounts
  <2> QED
    BY <1>7, <2>1, <2>2
<1>9. TypeOK'
  <2>1. fate' \in {"alive", "panic", "assert", "crash"}
    BY <1>1, <1>7 DEF TypeOK
  <2> QED
    BY <1>1, <1>2, <1>5, <1>6, <1>8, <2>1 DEF TypeOK
<1>10. \A b \in Bcast : at'[b] = at[b] \/ (at[b] = "direct" /\ at'[b] = "walk")
  BY <1>7 DEF Released
<1>11. Waiters'
  <2> SUFFICES ASSUME Alive'
               PROVE  /\ \A t \in Sock : out'[t] # NoOne => t \in websocks'
                      /\ \A b \in Bcast : at'[b] = "direct" =>
                           \A t \in Sock : out'[t] = b => t = cur'[b]
    BY DEF Waiters
  <2>1. out'[s] = NoOne /\ \A t \in Sock : t # s => out'[t] = out[t]
    BY <1>1, <1>7 DEF Released, Alive, TypeOK
  <2>2. \A t \in Sock : out'[t] # NoOne => t \in websocks'
    BY <1>1, <1>3, <2>1 DEF Waiters
  <2>3. ASSUME NEW b \in Bcast, at'[b] = "direct", NEW t \in Sock, out'[t] = b
        PROVE  t = cur'[b]
    <3>1. at[b] = "direct" /\ out[t] = b
      BY <1>10, <2>1, <2>3, Names
    <3> QED
      BY <1>1, <1>2, <2>3, <3>1 DEF Waiters
  <2> QED
    BY <2>2, <2>3
<1>12. ASSUME NEW b \in Bcast PROVE Marked(b)'
  <2>1. Marked(b)
    BY <1>1
  <2>2. /\ ahead'[b] = ahead[b] \ {s} /\ owed'[b] \subseteq owed[b] \ {s}
        /\ Walking(b) /\ cur[b] = s => owed'[b] = {}
    BY <1>3
  <2>3. ahead'[b] \subseteq websocks' /\ owed'[b] \subseteq websocks'
    BY <1>3, <2>1, <2>2 DEF Marked
  <2>4. Walking(b)' <=> Walking(b)
    BY <1>10 DEF Walking
  <2>5. Walking(b) /\ cur[b] \notin websocks' => owed'[b] = {}
    BY <1>3, <2>1, <2>2 DEF Marked
  <2>6. at[b] \in {"walk", "direct", "wait"} =>
          /\ src[b] \in Sock /\ src[b] \notin ahead'[b] /\ hits[b][src[b]] = 0
          /\ \A t \in owed'[b] : hits[b][t] = IF t \in ahead'[b] THEN 0 ELSE 1
    BY <2>1, <2>2 DEF Marked
  <2>7. at[b] = "idle" => owed'[b] = {} /\ \A t \in Sock : hits[b][t] = 0
    BY <2>1, <2>2 DEF Marked
  <2>8. at[b] = "wait" => ahead'[b] = {}
    BY <2>1, <2>2 DEF Marked
  <2> QED
    BY <1>2, <1>10, <2>3, <2>4, <2>5, <2>6, <2>7, <2>8 DEF Marked
<1> QED
  BY <1>5, <1>8, <1>9, <1>11, <1>12 DEF IInv

-----------------------------------------------------------------------------
(* WebSockApi::broadcast()                                                 *)

(* An answer is received; with the last one the message is freed.          *)
LEMMA CollectKeeps ==
  ASSUME IInv, Alive, NEW b \in Bcast, Collect(b)
  PROVE  IInv'
<1>1. TypeOK /\ Registry /\ Waiters /\ \A c \in Bcast : Counted(c) /\ Marked(c)
  BY DEF IInv
<1>2. UNCHANGED <<ses, websocks, nsocks, out, cur, ahead, fate>>
  BY DEF Collect, sesVars
<1>3. /\ at[b] = "wait" /\ wait[b] > 0 /\ rep[b] > 0
      /\ rep' = [rep EXCEPT ![b] = @ - 1] /\ wait' = [wait EXCEPT ![b] = @ - 1]
  BY DEF Collect
<1>4. /\ rep[b] \in Nat /\ wait[b] \in Nat
      /\ rep'[b] = rep[b] - 1 /\ wait'[b] = wait[b] - 1
      /\ rep' \in [Bcast -> Nat] /\ wait' \in [Bcast -> Nat]
      /\ \A c \in Bcast : c # b => rep'[c] = rep[c] /\ wait'[c] = wait[c]
  BY <1>1, <1>3 DEF TypeOK
<1>5. /\ at' \in [Bcast -> {"idle", "walk", "direct", "wait", "freed"}]
      /\ src' \in [Bcast -> Sock \cup {NoOne}]
      /\ hits' \in [Bcast -> [Sock -> Nat]] /\ owed' \in [Bcast -> SUBSET Sock]
  <2>1. CASE wait[b] = 1
    <3>1. Free(b)
      BY <2>1 DEF Collect
    <3>2. [s \in Sock |-> 0] \in [Sock -> Nat] /\ {} \in SUBSET Sock
          /\ NoOne \in Sock \cup {NoOne}
      OBVIOUS
    <3>3. at' \in [Bcast -> {"idle", "walk", "direct", "wait", "freed"}]
      BY <1>1, <3>1 DEF TypeOK, Free
    <3>4. src' \in [Bcast -> Sock \cup {NoOne}] /\ owed' \in [Bcast -> SUBSET Sock]
      BY <1>1, <3>1, <3>2 DEF TypeOK, Free
    <3>5. hits' \in [Bcast -> [Sock -> Nat]]
      <4>1. PICK z \in [Sock -> Nat] : z = [s \in Sock |-> 0]
        BY <3>2
      <4>2. hits' = [hits EXCEPT ![b] = z]
        BY <3>1, <4>1 DEF Free
      <4> QED
        BY <1>1, <4>2 DEF TypeOK
    <3> QED
      BY <3>3, <3>4, <3>5
  <2>2. CASE wait[b] # 1
    BY <1>1, <2>2 DEF TypeOK, Collect
  <2> QED
    BY <2>1, <2>2
<1>6. \A c \in Bcast : c # b =>
        at'[c] = at[c] /\ src'[c] = src[c] /\ hits'[c] = hits[c] /\ owed'[c] = owed[c]
  BY <1>1 DEF TypeOK, Collect, Free
<1>7. IF wait[b] = 1 THEN at'[b] = "freed" /\ owed'[b] = {}
      ELSE at'[b] = at[b] /\ src'[b] = src[b] /\ hits'[b] = hits[b]
           /\ owed'[b] = owed[b]
  BY <1>1 DEF TypeOK, Collect, Free
<1>8. TypeOK' /\ Registry'
  BY <1>1, <1>2, <1>4, <1>5 DEF TypeOK, Registry
<1>9. Waiters'
  <2>1. \A c \in Bcast : at'[c] = "direct" => at[c] = "direct"
    BY <1>3, <1>6, <1>7
  <2> QED
    BY <1>1, <1>2, <2>1 DEF Waiters, Alive
<1>10. Counted(b)'
  <2>1. at'[b] \in {"wait", "freed"}
    BY <1>3, <1>7
  <2>2. Writing(b)' = Writing(b)
    BY <1>2, <1>3, <2>1 DEF Writing
  <2>3. wait[b] = rep[b] + Cardinality(Writing(b)) /\ Cardinality(Writing(b)) \in Nat
    BY <1>1, WritingType DEF Counted
  <2>4. wait'[b] = rep'[b] + Cardinality(Writing(b)')
    BY <1>4, <2>2, <2>3
  <2>5. ASSUME at'[b] = "freed"
        PROVE  wait'[b] = 0 /\ rep'[b] = 0 /\ \A s \in Sock : out'[s] # b
    <3>1. wait[b] = 1
      BY <1>3, <1>7, <2>5
    <3>2. rep[b] = 1 /\ Cardinality(Writing(b)) = 0
      BY <1>3, <1>4, <2>3, <3>1
    <3>3. Writing(b) = {}
      BY <3>2, WritingType, FS_EmptySet, FS_Subset, SockAssumption
    <3> QED
      BY <1>2, <1>3, <1>4, <3>1, <3>2, <3>3 DEF Writing
  <2> QED
    BY <2>1, <2>4, <2>5 DEF Counted
<1>11. ASSUME NEW c \in Bcast, c # b PROVE Counted(c)' /\ Marked(c)'
  <2>1. Counted(c)'
    BY <1>1, <1>2, <1>4, <1>6, <1>11, CountedSame DEF Alive
  <2>2. Marked(c)'
    BY <1>1, <1>2, <1>6, <1>11 DEF Marked, Walking
  <2> QED
    BY <2>1, <2>2
<1>12. Marked(b)'
  <2>1. Marked(b)
    BY <1>1
  <2>2. CASE wait[b] = 1
    BY <1>2, <1>7, <2>1, <2>2 DEF Marked, Walking
  <2>3. CASE wait[b] # 1
    BY <1>2, <1>7, <2>1, <2>3 DEF Marked, Walking
  <2> QED
    BY <2>2, <2>3
<1> QED
  BY <1>8, <1>9, <1>10, <1>11, <1>12 DEF IInv

(* A walk of b over todo up to its next suspension: what it does to its    *)
(* own state, and to the sockets.                                          *)
Walked(b, todo) ==
  /\ at'[b] \in {"walk", "direct", "wait"}
  /\ ahead'[b] \subseteq todo
  /\ \A s \in Sock : hits'[b][s] = IF s \in todo /\ s \notin ahead'[b]
                                   THEN hits[b][s] + 1 ELSE hits[b][s]
  /\ at'[b] = "wait" => ahead'[b] = {}
  /\ at'[b] # "wait" => cur'[b] \in websocks

Others(b) ==
  \A c \in Bcast : c # b =>
    /\ at'[c] = at[c] /\ cur'[c] = cur[c] /\ ahead'[c] = ahead[c]
    /\ wait'[c] = wait[c] /\ hits'[c] = hits[c] /\ rep'[c] = rep[c]

(* The answers b waits for, unless the process has ended.                  *)
Started(b) ==
  \/ ~Alive' /\ out' = out /\ rep' = rep
  \/ /\ fate' = fate /\ out' = out /\ at'[b] # "direct"
     /\ \/ wait'[b] = wait[b] /\ rep'[b] = rep[b]
        \/ wait'[b] = wait[b] + 1 /\ rep'[b] = rep[b] + 1
  \/ \E s \in websocks :
       /\ fate' = fate /\ out[s] = NoOne /\ out' = [out EXCEPT ![s] = b]
       /\ rep'[b] = rep[b]
       /\ \/ at'[b] = "walk" /\ wait'[b] = wait[b] + 1
          \/ /\ at'[b] = "direct" /\ wait'[b] = wait[b]
             /\ cur'[b] = s /\ websocks = {s}

LEMMA WalkStep ==
  ASSUME TypeOK, Alive, NEW b \in Bcast, NEW todo \in SUBSET websocks,
         Walk(b, todo, wait[b])
  PROVE  /\ Walked(b, todo) /\ Others(b) /\ Started(b)
         /\ at' \in [Bcast -> {"idle", "walk", "direct", "wait", "freed"}]
         /\ cur' \in [Bcast -> Sock \cup {NoOne}]
         /\ ahead' \in [Bcast -> SUBSET Sock] /\ wait' \in [Bcast -> Nat]
         /\ hits' \in [Bcast -> [Sock -> Nat]] /\ rep' \in [Bcast -> Nat]
         /\ out' \in [Sock -> Bcast \cup {NoOne, Handler}]
         /\ fate' \in {"alive", "panic", "assert", "crash"}
<1>1. /\ at \in [Bcast -> {"idle", "walk", "direct", "wait", "freed"}]
      /\ cur \in [Bcast -> Sock \cup {NoOne}]
      /\ ahead \in [Bcast -> SUBSET Sock] /\ wait \in [Bcast -> Nat]
      /\ hits \in [Bcast -> [Sock -> Nat]] /\ rep \in [Bcast -> Nat]
      /\ out \in [Sock -> Bcast \cup {NoOne, Handler}]
      /\ fate \in {"alive", "panic", "assert", "crash"}
      /\ websocks \in SUBSET Sock /\ todo \in SUBSET Sock
      /\ wait[b] \in Nat /\ wait[b] + 1 \in Nat
  BY DEF TypeOK
<1>2. CASE /\ todo = {}
           /\ at' = [at EXCEPT ![b] = "wait"]
           /\ cur' = [cur EXCEPT ![b] = NoOne]
           /\ ahead' = [ahead EXCEPT ![b] = {}]
           /\ wait' = [wait EXCEPT ![b] = wait[b]]
           /\ UNCHANGED <<out, rep, hits, fate>>
  <2>1. Others(b) /\ Walked(b, todo)
    BY <1>1, <1>2 DEF Others, Walked
  <2>2. Started(b)
    BY <1>1, <1>2 DEF Started
  <2> QED
    BY <1>1, <1>2, <2>1, <2>2
<1>3. ASSUME NEW s \in todo, hits' = [hits EXCEPT ![b][s] = @ + 1]
      PROVE  /\ hits' \in [Bcast -> [Sock -> Nat]]
             /\ \A c \in Bcast : c # b => hits'[c] = hits[c]
             /\ \A t \in Sock : hits'[b][t] = IF t = s THEN hits[b][t] + 1
                                             ELSE hits[b][t]
  <2>1. s \in Sock /\ hits[b] \in [Sock -> Nat]
    BY <1>1, <1>3
  <2> QED
    BY <1>1, <1>3, <2>1
<1>4. ASSUME NEW s \in todo, hits' = [hits EXCEPT ![b][s] = @ + 1],
             Cardinality(websocks) = 1, Direct(b, s, wait[b])
      PROVE  /\ Walked(b, todo) /\ Others(b) /\ Started(b)
             /\ at' \in [Bcast -> {"idle", "walk", "direct", "wait", "freed"}]
             /\ cur' \in [Bcast -> Sock \cup {NoOne}]
             /\ ahead' \in [Bcast -> SUBSET Sock] /\ wait' \in [Bcast -> Nat]
             /\ hits' \in [Bcast -> [Sock -> Nat]] /\ rep' \in [Bcast -> Nat]
             /\ out' \in [Sock -> Bcast \cup {NoOne, Handler}]
             /\ fate' \in {"alive", "panic", "assert", "crash"}
  <2>1. websocks = {s} /\ todo = {s} /\ s \in Sock
    BY <1>1, <1>4, Finite
  <2>2. ahead' = [ahead EXCEPT ![b] = {}] /\ wait' = [wait EXCEPT ![b] = wait[b]]
        /\ rep' = rep
    BY <1>4 DEF Direct
  <2>3. \/ /\ at' = [at EXCEPT ![b] = "wait"] /\ cur' = [cur EXCEPT ![b] = NoOne]
           /\ out' = out /\ fate' = fate
        \/ /\ at' = [at EXCEPT ![b] = "direct"] /\ cur' = [cur EXCEPT ![b] = s]
           /\ \/ out[s] = NoOne /\ out' = [out EXCEPT ![s] = b] /\ fate' = fate
              \/ out' = out /\ fate' \in {"panic", "assert"}
    BY <1>4 DEF Direct, Block
  <2>4. /\ hits' \in [Bcast -> [Sock -> Nat]]
        /\ \A c \in Bcast : c # b => hits'[c] = hits[c]
        /\ \A t \in Sock : hits'[b][t] = IF t = s THEN hits[b][t] + 1
                                        ELSE hits[b][t]
    BY <1>3, <1>4
  <2>5. ahead'[b] = {} /\ wait'[b] = wait[b] /\ rep'[b] = rep[b]
    BY <1>1, <2>2
  <2>6. Others(b)
    BY <1>1, <2>2, <2>3, <2>4 DEF Others
  <2>7. Walked(b, todo)
    BY <1>1, <2>1, <2>3, <2>4, <2>5 DEF Walked
  <2>8. Started(b)
    <3>1. CASE ~Alive'
      BY <2>2, <2>3, <3>1 DEF Started, Alive
    <3>2. CASE fate' = fate /\ out' = out /\ at'[b] # "direct"
      BY <2>5, <3>2 DEF Started
    <3>3. CASE /\ at'[b] = "direct" /\ cur'[b] = s /\ out[s] = NoOne
               /\ out' = [out EXCEPT ![s] = b] /\ fate' = fate
      BY <2>1, <2>5, <3>3 DEF Started
    <3> QED
      BY <1>1, <2>3, <3>1, <3>2, <3>3 DEF Alive
  <2>9. /\ at' \in [Bcast -> {"idle", "walk", "direct", "wait", "freed"}]
        /\ cur' \in [Bcast -> Sock \cup {NoOne}]
    BY <1>1, <2>1, <2>3
  <2>10. /\ out' \in [Sock -> Bcast \cup {NoOne, Handler}]
         /\ fate' \in {"alive", "panic", "assert", "crash"}
    BY <1>1, <2>1, <2>3
  <2> QED
    BY <1>1, <2>2, <2>4, <2>6, <2>7, <2>8, <2>9, <2>10
<1>5. ASSUME NEW s \in todo, hits' = [hits EXCEPT ![b][s] = @ + 1],
             Spawn(b, s, todo, wait[b])
      PROVE  /\ Walked(b, todo) /\ Others(b) /\ Started(b)
             /\ at' \in [Bcast -> {"idle", "walk", "direct", "wait", "freed"}]
             /\ cur' \in [Bcast -> Sock \cup {NoOne}]
             /\ ahead' \in [Bcast -> SUBSET Sock] /\ wait' \in [Bcast -> Nat]
             /\ hits' \in [Bcast -> [Sock -> Nat]] /\ rep' \in [Bcast -> Nat]
             /\ out' \in [Sock -> Bcast \cup {NoOne, Handler}]
             /\ fate' \in {"alive", "panic", "assert", "crash"}
  <2>1. s \in Sock /\ s \in websocks
    BY <1>1, <1>5
  <2>2. /\ at' = [at EXCEPT ![b] = "walk"] /\ cur' = [cur EXCEPT ![b] = s]
        /\ ahead' = [ahead EXCEPT ![b] = todo \ {s}]
        /\ wait' = [wait EXCEPT ![b] = wait[b] + 1]
    BY <1>5 DEF Spawn
  <2>3. \/ rep' = [rep EXCEPT ![b] = rep[b] + 1] /\ out' = out /\ fate' = fate
        \/ /\ out[s] = NoOne /\ out' = [out EXCEPT ![s] = b]
           /\ fate' = fate /\ rep' = rep
        \/ out' = out /\ rep' = rep /\ fate' \in {"panic", "assert"}
    BY <1>5 DEF Spawn, Bsend, Block
  <2>4. /\ hits' \in [Bcast -> [Sock -> Nat]]
        /\ \A c \in Bcast : c # b => hits'[c] = hits[c]
        /\ \A t \in Sock : hits'[b][t] = IF t = s THEN hits[b][t] + 1
                                        ELSE hits[b][t]
    BY <1>3, <1>5
  <2>5. /\ at'[b] = "walk" /\ cur'[b] = s /\ ahead'[b] = todo \ {s}
        /\ wait'[b] = wait[b] + 1
    BY <1>1, <2>2
  <2>6. Others(b)
    BY <1>1, <2>2, <2>3, <2>4 DEF Others
  <2>7. Walked(b, todo)
    BY <1>1, <1>5, <2>1, <2>4, <2>5 DEF Walked
  <2>8. Started(b)
    BY <1>1, <2>1, <2>3, <2>5 DEF Started, Alive
  <2>9. /\ at' \in [Bcast -> {"idle", "walk", "direct", "wait", "freed"}]
        /\ cur' \in [Bcast -> Sock \cup {NoOne}]
        /\ ahead' \in [Bcast -> SUBSET Sock] /\ wait' \in [Bcast -> Nat]
    BY <1>1, <2>1, <2>2
  <2>10. /\ out' \in [Sock -> Bcast \cup {NoOne, Handler}]
         /\ fate' \in {"alive", "panic", "assert", "crash"}
         /\ rep' \in [Bcast -> Nat]
    BY <1>1, <2>1, <2>3
  <2> QED
    BY <2>4, <2>6, <2>7, <2>8, <2>9, <2>10
<1> QED
  BY <1>2, <1>4, <1>5 DEF Walk

(* A walk begins or goes on, with src and owed as they are from now on.    *)
LEMMA WalkKeeps ==
  ASSUME IInv, Alive, NEW b \in Bcast, NEW todo \in SUBSET websocks,
         Walk(b, todo, wait[b]), at[b] \in {"idle", "walk"},
         Registry', ses' \in [Sock -> {"new", "connect", "loop", "gone"}],
         UNCHANGED <<websocks, nsocks>>,
         src' \in [Bcast -> Sock \cup {NoOne}], owed' \in [Bcast -> SUBSET Sock],
         \A c \in Bcast : c # b => src'[c] = src[c] /\ owed'[c] = owed[c],
         src'[b] \in Sock, src'[b] \notin todo, hits[b][src'[b]] = 0,
         owed'[b] \subseteq websocks,
         \A s \in owed'[b] : hits[b][s] = IF s \in todo THEN 0 ELSE 1
  PROVE  IInv'
<1>1. TypeOK /\ Registry /\ Waiters /\ \A c \in Bcast : Counted(c) /\ Marked(c)
  BY DEF IInv
<1>2. /\ Walked(b, todo) /\ Others(b) /\ Started(b)
      /\ at' \in [Bcast -> {"idle", "walk", "direct", "wait", "freed"}]
      /\ cur' \in [Bcast -> Sock \cup {NoOne}]
      /\ ahead' \in [Bcast -> SUBSET Sock] /\ wait' \in [Bcast -> Nat]
      /\ hits' \in [Bcast -> [Sock -> Nat]] /\ rep' \in [Bcast -> Nat]
      /\ out' \in [Sock -> Bcast \cup {NoOne, Handler}]
      /\ fate' \in {"alive", "panic", "assert", "crash"}
  BY <1>1, WalkStep
<1>3. TypeOK'
  BY <1>1, <1>2 DEF TypeOK
<1>4. /\ rep[b] \in Nat /\ wait[b] \in Nat
      /\ out \in [Sock -> Bcast \cup {NoOne, Handler}] /\ websocks \subseteq Sock
  BY <1>1 DEF TypeOK
<1>5. \A s \in Sock, c \in Bcast : c # b => (out'[s] = c <=> out[s] = c)
  BY <1>2, <1>4, Names DEF Started
<1>6. Waiters'
  <2> SUFFICES ASSUME Alive'
               PROVE  /\ \A s \in Sock : out'[s] # NoOne => s \in websocks
                      /\ \A c \in Bcast : at'[c] = "direct" =>
                           \A s \in Sock : out'[s] = c => s = cur'[c]
    BY DEF Waiters
  <2>1. \A s \in Sock : out'[s] # NoOne => s \in websocks
    BY <1>1, <1>2, <1>4 DEF Waiters, Started
  <2>2. ASSUME NEW c \in Bcast, c # b, at'[c] = "direct", NEW s \in Sock, out'[s] = c
        PROVE  s = cur'[c]
    <3>1. at[c] = "direct" /\ cur'[c] = cur[c]
      BY <1>2, <2>2 DEF Others
    <3>2. out[s] = c
      BY <1>5, <2>2
    <3> QED
      BY <1>1, <2>2, <3>1, <3>2 DEF Waiters
  <2>3. ASSUME at'[b] = "direct", NEW s \in Sock, out'[s] = b
        PROVE  s = cur'[b]
    <3>1. websocks = {cur'[b]}
      BY <1>2, <2>3 DEF Started
    <3>2. s \in websocks
      BY <2>1, <2>3, Names
    <3> QED
      BY <3>1, <3>2
  <2> QED
    BY <2>1, <2>2, <2>3
<1>7. Counted(b)'
  <2>1. at'[b] \notin {"idle", "freed"}
    BY <1>2 DEF Walked
  <2>2. wait[b] = rep[b] + Cardinality(Writing(b)) /\ Cardinality(Writing(b)) \in Nat
    BY <1>1, WritingType DEF Counted
  <2>3. Writing(b) = {s \in Sock : out[s] = b}
    BY DEF Writing
  <2>4. ASSUME Alive' PROVE wait'[b] = rep'[b] + Cardinality(Writing(b)')
    <3>1. CASE /\ out' = out /\ at'[b] # "direct"
               /\ \/ wait'[b] = wait[b] /\ rep'[b] = rep[b]
                  \/ wait'[b] = wait[b] + 1 /\ rep'[b] = rep[b] + 1
      <4>1. Writing(b)' = Writing(b)
        BY <2>3, <3>1 DEF Writing
      <4> QED
        BY <1>4, <2>2, <3>1, <4>1
    <3>2. ASSUME NEW s \in websocks, out[s] = NoOne, out' = [out EXCEPT ![s] = b],
                 rep'[b] = rep[b], at'[b] = "walk", wait'[b] = wait[b] + 1
          PROVE  wait'[b] = rep'[b] + Cardinality(Writing(b)')
      <4>1. Writing(b)' = Writing(b) \cup {s} /\ s \notin Writing(b) /\ s \in Sock
        BY <1>4, <2>3, <3>2, Names DEF Writing
      <4>2. Cardinality(Writing(b)') = Cardinality(Writing(b)) + 1
        BY <4>1, WritingType, Finite
      <4> QED
        BY <1>4, <2>2, <3>2, <4>2
    <3>3. ASSUME NEW s \in websocks, out[s] = NoOne, out' = [out EXCEPT ![s] = b],
                 rep'[b] = rep[b], at'[b] = "direct", wait'[b] = wait[b],
                 cur'[b] = s
          PROVE  wait'[b] = rep'[b] + Cardinality(Writing(b)')
      <4>1. Writing(b)' = Writing(b)
        BY <1>4, <2>3, <3>3, Names DEF Writing
      <4> QED
        BY <2>2, <3>3, <4>1
    <3> QED
      BY <1>2, <2>4, <3>1, <3>2, <3>3 DEF Started
  <2> QED
    BY <2>1, <2>4 DEF Counted
<1>8. ASSUME NEW c \in Bcast, c # b PROVE Counted(c)' /\ Marked(c)'
  <2>1. /\ at'[c] = at[c] /\ cur'[c] = cur[c] /\ ahead'[c] = ahead[c]
        /\ wait'[c] = wait[c] /\ hits'[c] = hits[c] /\ rep'[c] = rep[c]
        /\ src'[c] = src[c] /\ owed'[c] = owed[c]
    BY <1>2, <1>8 DEF Others
  <2>2. Counted(c)'
    BY <1>1, <1>5, <1>8, <2>1, CountedSame
  <2>3. Marked(c)'
    BY <1>1, <1>8, <2>1 DEF Marked, Walking
  <2> QED
    BY <2>2, <2>3
<1>9. Marked(b)'
  <2>1. /\ at'[b] \in {"walk", "direct", "wait"} /\ ahead'[b] \subseteq todo
        /\ at'[b] = "wait" => ahead'[b] = {}
        /\ at'[b] # "wait" => cur'[b] \in websocks
        /\ \A s \in Sock : hits'[b][s] = IF s \in todo /\ s \notin ahead'[b]
                                         THEN hits[b][s] + 1 ELSE hits[b][s]
    BY <1>2 DEF Walked
  <2>2. hits'[b][src'[b]] = 0 /\ src'[b] \notin ahead'[b]
    BY <2>1
  <2>3. ASSUME NEW s \in owed'[b]
        PROVE  hits'[b][s] = IF s \in ahead'[b] THEN 0 ELSE 1
    BY <1>4, <2>1, <2>3
  <2> QED
    BY <2>1, <2>2, <2>3 DEF Marked, Walking
<1> QED
  BY <1>3, <1>6, <1>7, <1>8, <1>9 DEF IInv

LEMMA BroadcastKeeps ==
  ASSUME IInv, Alive, NEW s \in Sock, NEW b \in Bcast, Broadcast(s, b),
         Registry', ses' \in [Sock -> {"new", "connect", "loop", "gone"}],
         UNCHANGED <<websocks, nsocks>>
  PROVE  IInv'
<1>1. TypeOK /\ Counted(b) /\ Marked(b)
  BY DEF IInv
<1>2. /\ at[b] = "idle" /\ src' = [src EXCEPT ![b] = s]
      /\ owed' = [owed EXCEPT ![b] = websocks \ {s}]
      /\ Walk(b, websocks \ {s}, 0)
  BY DEF Broadcast, NextBcast
<1>3. PICK todo \in SUBSET websocks : todo = websocks \ {s}
  OBVIOUS
<1>4. Walk(b, todo, wait[b])
  BY <1>1, <1>2, <1>3 DEF Counted
<1>5. websocks \subseteq Sock /\ \A t \in Sock : hits[b][t] = 0
  BY <1>1, <1>2 DEF TypeOK, Marked
<1>6. /\ src' \in [Bcast -> Sock \cup {NoOne}] /\ owed' \in [Bcast -> SUBSET Sock]
      /\ src'[b] = s /\ owed'[b] = todo
      /\ \A c \in Bcast : c # b => src'[c] = src[c] /\ owed'[c] = owed[c]
  BY <1>1, <1>2, <1>3, <1>5 DEF TypeOK
<1>7. /\ at[b] \in {"idle", "walk"} /\ s \notin todo /\ hits[b][s] = 0
      /\ \A t \in todo : hits[b][t] = IF t \in todo THEN 0 ELSE 1
  BY <1>2, <1>3, <1>5
<1> QED
  BY <1>4, <1>6, <1>7, WalkKeeps

LEMMA ResumeKeeps ==
  ASSUME IInv, Alive, NEW b \in Bcast, Resume(b)
  PROVE  IInv'
<1>1. TypeOK /\ Registry /\ Waiters /\ \A c \in Bcast : Counted(c) /\ Marked(c)
  BY DEF IInv
<1>2. at[b] = "walk" /\ UNCHANGED <<ses, websocks, nsocks, src, owed>>
  BY DEF Resume, sesVars
<1>3. Registry'
  BY <1>1, <1>2 DEF Registry
<1>4. ASSUME NEW todo \in SUBSET websocks, Walk(b, todo, wait[b]),
             todo \subseteq ahead[b],
             \A s \in owed[b] : s \in todo <=> s \in ahead[b]
      PROVE  IInv'
  <2>1. /\ src[b] \in Sock /\ src[b] \notin todo /\ hits[b][src[b]] = 0
        /\ owed[b] \subseteq websocks
        /\ \A s \in owed[b] : hits[b][s] = IF s \in todo THEN 0 ELSE 1
    BY <1>1, <1>2, <1>4 DEF Marked
  <2>2. /\ src' \in [Bcast -> Sock \cup {NoOne}] /\ owed' \in [Bcast -> SUBSET Sock]
        /\ ses' \in [Sock -> {"new", "connect", "loop", "gone"}]
    BY <1>1, <1>2 DEF TypeOK
  <2> QED
    BY <1>2, <1>3, <1>4, <2>1, <2>2, WalkKeeps
<1>5. CASE cur[b] \in websocks /\ Walk(b, ahead[b], wait[b])
  BY <1>1, <1>4, <1>5 DEF Marked
<1>6. CASE cur[b] \notin websocks /\ Walk(b, {}, wait[b])
  <2>1. owed[b] = {}
    BY <1>1, <1>2, <1>6 DEF Marked, Walking
  <2> QED
    BY <1>4, <1>6, <2>1
<1>7. CASE fate' = "crash" /\ UNCHANGED <<at, cur, ahead, wait, hits, out, rep>>
  <2>1. TypeOK' /\ Waiters'
    BY <1>1, <1>2, <1>7 DEF TypeOK, Waiters, Alive
  <2>2. \A c \in Bcast : Counted(c)'
    BY <1>1, <1>7, CountedSame
  <2>3. \A c \in Bcast : Marked(c)'
    BY <1>1, <1>2, <1>7 DEF Marked, Walking
  <2> QED
    BY <1>3, <2>1, <2>2, <2>3 DEF IInv
<1> QED
  BY <1>5, <1>6, <1>7 DEF Resume

-----------------------------------------------------------------------------
LEMMA InitKeeps == Init => IInv
<1> SUFFICES ASSUME Init PROVE IInv
  OBVIOUS
<1>1. TypeOK
  BY DEF Init, TypeOK
<1>2. Registry
  BY FS_EmptySet DEF Init, Registry
<1>3. Waiters
  BY DEF Init, Waiters
<1>4. ASSUME NEW b \in Bcast PROVE Counted(b)
  <2>1. Writing(b) = {}
    BY Names DEF Init, Writing
  <2> QED
    BY <2>1, FS_EmptySet DEF Init, Counted
<1>5. ASSUME NEW b \in Bcast PROVE Marked(b)
  BY DEF Init, Marked, Walking
<1> QED
  BY <1>1, <1>2, <1>3, <1>4, <1>5 DEF IInv

LEMMA NextKeeps == IInv /\ [Next]_vars => IInv'
<1> SUFFICES ASSUME IInv, [Next]_vars PROVE IInv'
  OBVIOUS
<1>1. TypeOK /\ Registry /\ Waiters /\ \A c \in Bcast : Counted(c) /\ Marked(c)
  BY DEF IInv
<1>2. CASE UNCHANGED vars
  <2>1. UNCHANGED <<ses, websocks, nsocks, out, at, src, cur, ahead, wait, hits,
                    rep, owed, fate>>
    BY <1>2 DEF vars, sesVars, walkVars
  <2>2. TypeOK' /\ Registry' /\ Waiters'
    BY <1>1, <2>1 DEF TypeOK, Registry, Waiters, Alive
  <2>3. \A c \in Bcast : Counted(c)'
    BY <1>1, <2>1, CountedSame DEF Alive
  <2>4. \A c \in Bcast : Marked(c)'
    BY <1>1, <2>1 DEF Marked, Walking
  <2> QED
    BY <2>2, <2>3, <2>4 DEF IInv
<1>3. ASSUME Alive, NEW s \in Sock, NEW b \in Bcast, ConnectBroadcast(s, b)
      PROVE  IInv'
  <2>1. /\ ses[s] = "new" /\ ses' = [ses EXCEPT ![s] = "connect"]
        /\ Broadcast(s, b) /\ UNCHANGED <<websocks, nsocks>>
    BY <1>3 DEF ConnectBroadcast
  <2>2. ses' \in [Sock -> {"new", "connect", "loop", "gone"}]
    BY <1>1, <2>1 DEF TypeOK
  <2>3. Registry'
    BY <1>1, <2>1 DEF Registry, TypeOK
  <2> QED
    BY <1>3, <2>1, <2>2, <2>3, BroadcastKeeps
<1>4. ASSUME Alive, NEW s \in Sock, NEW b \in Bcast, MessageBroadcast(s, b)
      PROVE  IInv'
  <2>1. Broadcast(s, b) /\ UNCHANGED <<ses, websocks, nsocks>>
    BY <1>4 DEF MessageBroadcast, sesVars
  <2>2. Registry' /\ ses' \in [Sock -> {"new", "connect", "loop", "gone"}]
    BY <1>1, <2>1 DEF Registry, TypeOK
  <2> QED
    BY <1>4, <2>1, <2>2, BroadcastKeeps
<1> QED
  BY <1>2, <1>3, <1>4, RejectKeeps, AcceptKeeps, SendKeeps, LeaveKeeps,
     WrittenKeeps, ResumeKeeps, CollectKeeps DEF Next

LEMMA Inductive == Spec => []IInv
  BY InitKeeps, NextKeeps, PTL DEF Spec

(* Whatever the sessions and the broadcasts do, the registry, the walks    *)
(* and the channel counts keep their types; nsocks, a size_t, never wraps  *)
(* below zero (handle()).                                                  *)
THEOREM TypeCorrect == Spec => []TypeOK
<1>1. IInv => TypeOK
  BY DEF IInv
<1> QED
  BY <1>1, Inductive, PTL

(* The map holds the sockets whose handle() runs and nsocks counts them,   *)
(* for any number of sockets and on whichever path a session ends.         *)
THEOREM RegistryKept == Spec => []Registry
<1>1. IInv => Registry
  BY DEF IInv
<1> QED
  BY <1>1, Inductive, PTL

(* No answer to a broadcast is lost and none comes twice: broadcast()      *)
(* waits for exactly the bsend()s that write or have yet to report, also   *)
(* when the sockets they write to leave.                                   *)
THEOREM AnswersCounted == Spec => []AnswersBalance
<1>1. IInv => AnswersBalance
  BY DEF IInv, Counted, Writing, AnswersBalance
<1> QED
  BY <1>1, Inductive, PTL

(* broadcast() frees its copy of the message, and returns with the channel *)
(* in its frame, only when no bsend() can still use either.                *)
THEOREM FreedAtTheEnd == Spec => []FreedLast
<1>1. IInv => FreedLast
  BY DEF IInv, Counted, FreedLast
<1> QED
  BY <1>1, Inductive, PTL

(* A walk that is over has written the message once to every socket that   *)
(* was there all along and never to the sender, however many sockets came  *)
(* and went while it was suspended, as long as the map was not rehashed    *)
(* under it nor its iterator lost (the loop of broadcast()).               *)
THEOREM EachOnce == Spec => []WrittenOnce
<1>1. IInv => WrittenOnce
  BY DEF IInv, Marked, WrittenOnce
<1> QED
  BY <1>1, Inductive, PTL
=============================================================================
