----------------------------- MODULE WebSockHub -----------------------------
(***************************************************************************)
(* The web sockets of one WebSockApi and their broadcasts:                 *)
(* src/suil/http/wsock.cpp:185-258, 312-432, with the Channel that counts  *)
(* the answers (src/suil/channel.h:137-191).                               *)
(*                                                                         *)
(* Every web socket has a coroutine in WebSock::handle().  A broadcast is  *)
(* a coroutine of its own: it walks over the map websocks, starts one      *)
(* bsend() coroutine per other socket, waits on a channel for as many      *)
(* answers, and frees the copy of the message.  go() runs the new          *)
(* coroutine first, so a walk is suspended at every bsend() it starts.     *)
(*                                                                         *)
(* What libmill does is external: a coroutine that cannot write waits for  *)
(* its file descriptor, two that wait for the same one are a panic, and    *)
(* so is closing a socket another coroutine waits for (epoll.inc:92-100,   *)
(* 237).  The bytes of the stream are not modelled.                        *)
(***************************************************************************)
EXTENDS Integers, FiniteSets

CONSTANTS
  Sock,      \* the web sockets
  MaxBcasts, \* bound: how many broadcasts are made
  NoOne,     \* no coroutine waits to write
  Handler    \* the coroutine in handle() waits to write

ASSUME SockAssumption == IsFiniteSet(Sock)
ASSUME BoundAssumption == MaxBcasts \in Nat

(* The broadcast coroutines, in the order they are started.                *)
Bcast == 1 .. MaxBcasts

ASSUME NamesAssumption == NoOne # Handler /\ {NoOne, Handler} \cap (Bcast \cup Sock) = {}

VARIABLES
  ses,       \* ses[s]: where handle() is: "new", "connect" (its onConnect
             \* has made a broadcast), "loop", "gone"
  websocks,  \* WebSockApi::websocks
  nsocks,    \* WebSockApi::nsocks
  out,       \* out[s]: who waits to write to s, a member of Bcast for bsend()
  at,        \* at[b]: "idle", "walk" (suspended in the loop), "direct"
             \* (writing itself), "wait" (on the channel), "freed"
  src,       \* src[b]: the socket that broadcasts, or NoOne
  cur,       \* cur[b]: the socket the iterator is at, or NoOne
  ahead,     \* ahead[b]: the sockets the iterator has yet to reach
  wait,      \* wait[b]: bsend()s started and not yet heard of
  rep,       \* rep[b]: bsend()s that wait to report on the channel
  hits,      \* hits[b][s]: how often the message was written to s
  owed,      \* history: sockets there all along, unless the map was
             \* rehashed or the iterator lost
  fate       \* "alive", or what ended the process: "panic" (two coroutines
             \* wait for one file descriptor), "assert" (a socket was closed
             \* while one waits for it), "crash" (the iterator was lost)

sesVars == <<ses, websocks, nsocks>>
walkVars == <<at, src, cur, ahead, wait, hits>>
vars == <<sesVars, out, walkVars, rep, owed, fate>>

-----------------------------------------------------------------------------
Init ==
  /\ ses = [s \in Sock |-> "new"]
  /\ websocks = {}
  /\ nsocks = 0
  /\ out = [s \in Sock |-> NoOne]
  /\ at = [b \in Bcast |-> "idle"]
  /\ src = [b \in Bcast |-> NoOne]
  /\ cur = [b \in Bcast |-> NoOne]
  /\ ahead = [b \in Bcast |-> {}]
  /\ wait = [b \in Bcast |-> 0]
  /\ rep = [b \in Bcast |-> 0]
  /\ hits = [b \in Bcast |-> [s \in Sock |-> 0]]
  /\ owed = [b \in Bcast |-> {}]
  /\ fate = "alive"

(* The coroutine w has to wait before it can write to s.                   *)
Block(w, s) ==
  IF out[s] = NoOne
  THEN out' = [out EXCEPT ![s] = w] /\ UNCHANGED fate
  ELSE fate' = "panic" /\ UNCHANGED out

-----------------------------------------------------------------------------
(* WebSockApi::broadcast(), from one suspension to the next.               *)

(* bsend() writes at once, well or badly, and reports; or it waits; or it  *)
(* finds the connection reset and closes it while handle() reads from it.  *)
Bsend(b, s) ==
  \/ rep' = [rep EXCEPT ![b] = @ + 1] /\ UNCHANGED <<out, fate>>
  \/ Block(b, s) /\ UNCHANGED rep
  \/ fate' = "assert" /\ UNCHANGED <<out, rep>>

Spawn(b, s, todo, n) ==
  /\ at' = [at EXCEPT ![b] = "walk"]
  /\ ahead' = [ahead EXCEPT ![b] = todo \ {s}]
  /\ wait' = [wait EXCEPT ![b] = n + 1]
  /\ cur' = [cur EXCEPT ![b] = s]
  /\ Bsend(b, s)

(* Only one socket is in the map: the broadcast writes to it itself.       *)
Direct(b, s, n) ==
  /\ ahead' = [ahead EXCEPT ![b] = {}]
  /\ wait' = [wait EXCEPT ![b] = n]
  /\ UNCHANGED rep
  /\ \/ /\ at' = [at EXCEPT ![b] = "wait"]
        /\ cur' = [cur EXCEPT ![b] = NoOne]
        /\ UNCHANGED <<out, fate>>
     \/ /\ at' = [at EXCEPT ![b] = "direct"]
        /\ cur' = [cur EXCEPT ![b] = s]
        /\ \/ Block(b, s)
           \/ fate' = "assert" /\ UNCHANGED out

Walking(b) == at[b] \in {"walk", "direct"}

(* The sockets in todo are ahead and n bsend()s were started.              *)
Walk(b, todo, n) ==
  \/ /\ todo = {}
     /\ at' = [at EXCEPT ![b] = "wait"]
     /\ cur' = [cur EXCEPT ![b] = NoOne]
     /\ ahead' = [ahead EXCEPT ![b] = {}]
     /\ wait' = [wait EXCEPT ![b] = n]
     /\ UNCHANGED <<out, rep, hits, fate>>
  \/ \E s \in todo :
     /\ hits' = [hits EXCEPT ![b][s] = @ + 1]
     /\ IF Cardinality(websocks) = 1 THEN Direct(b, s, n) ELSE Spawn(b, s, todo, n)

NextBcast(b) == at[b] = "idle" /\ \A c \in 1 .. b - 1 : at[c] # "idle"

(* A slip: the sender is not left out.                                     *)
BroadcastToSelf(s, b) ==
  /\ NextBcast(b)
  /\ nsocks > 0
  /\ src' = [src EXCEPT ![b] = s]
  /\ owed' = [owed EXCEPT ![b] = websocks \ {s}]
  /\ Walk(b, websocks, 0)

(* WebSock::broadcast(): s sends to all others.                            *)
Broadcast(s, b) ==
  /\ NextBcast(b)
  /\ nsocks > 0
  /\ src' = [src EXCEPT ![b] = s]
  /\ owed' = [owed EXCEPT ![b] = websocks \ {s}]
  /\ Walk(b, websocks \ {s}, 0)

(* The walk goes on.  If the socket it is at was erased from the map, its  *)
(* iterator is lost: the loop ends or the process crashes.                 *)
Resume(b) ==
  /\ at[b] = "walk"
  /\ \/ cur[b] \in websocks /\ Walk(b, ahead[b], wait[b])
     \/ cur[b] \notin websocks /\ Walk(b, {}, wait[b])
     \/ /\ cur[b] \notin websocks
        /\ fate' = "crash"
        /\ UNCHANGED <<at, cur, ahead, wait, hits, out, rep>>
  /\ UNCHANGED <<sesVars, src, owed>>

(* The broadcast coroutine ends; what is known of it is dropped.           *)
Free(b) ==
  /\ at' = [at EXCEPT ![b] = "freed"]
  /\ src' = [src EXCEPT ![b] = NoOne]
  /\ hits' = [hits EXCEPT ![b] = [s \in Sock |-> 0]]
  /\ owed' = [owed EXCEPT ![b] = {}]

(* A slip: one answer is enough.                                           *)
CollectOne(b) ==
  /\ at[b] = "wait"
  /\ wait[b] > 0
  /\ rep[b] > 0
  /\ rep' = [rep EXCEPT ![b] = @ - 1]
  /\ wait' = [wait EXCEPT ![b] = @ - 1]
  /\ Free(b)
  /\ UNCHANGED <<sesVars, out, cur, ahead, fate>>

(* async(wait) | Void receives one answer; after the last one the message  *)
(* is freed.  Called with 0, it waits for ever.                            *)
Collect(b) ==
  /\ at[b] = "wait"
  /\ wait[b] > 0
  /\ rep[b] > 0
  /\ rep' = [rep EXCEPT ![b] = @ - 1]
  /\ wait' = [wait EXCEPT ![b] = @ - 1]
  /\ IF wait[b] = 1 THEN Free(b) ELSE UNCHANGED <<at, src, hits, owed>>
  /\ UNCHANGED <<sesVars, out, cur, ahead, fate>>

(* A slip: bsend() reports nothing when it had to wait.                    *)
WrittenSilently(s) ==
  /\ out[s] # NoOne
  /\ out' = [out EXCEPT ![s] = NoOne]
  /\ at' = [b \in Bcast |-> IF b = out[s] /\ at[b] = "direct" THEN "walk" ELSE at[b]]
  /\ UNCHANGED <<sesVars, src, cur, ahead, wait, hits, rep, owed, fate>>

(* The coroutine that waits to write to s has written, or timed out.  A    *)
(* broadcast that writes itself goes on to walk, a bsend() reports.        *)
Written(s) ==
  /\ out[s] # NoOne
  /\ out' = [out EXCEPT ![s] = NoOne]
  /\ LET self == {b \in Bcast : b = out[s] /\ at[b] = "direct"} IN
     /\ at' = [b \in Bcast |-> IF b \in self THEN "walk" ELSE at[b]]
     /\ rep' = [b \in Bcast |-> IF b = out[s] /\ b \notin self THEN rep[b] + 1 ELSE rep[b]]
  /\ UNCHANGED <<sesVars, src, cur, ahead, wait, hits, owed, fate>>

-----------------------------------------------------------------------------
(* WebSock::handle().                                                      *)

(* onConnect broadcasts before the socket is in the map.                   *)
ConnectBroadcast(s, b) ==
  /\ ses[s] = "new"
  /\ Broadcast(s, b)
  /\ ses' = [ses EXCEPT ![s] = "connect"]
  /\ UNCHANGED <<websocks, nsocks>>

(* A slip: a socket that never was in the map is taken off the count.      *)
RejectCounted(s) ==
  /\ ses[s] \in {"new", "connect"}
  /\ ses' = [ses EXCEPT ![s] = "gone"]
  /\ nsocks' = nsocks - 1
  /\ UNCHANGED <<websocks, out, walkVars, rep, owed, fate>>

(* onConnect rejects.                                                      *)
Reject(s) ==
  /\ ses[s] \in {"new", "connect"}
  /\ ses' = [ses EXCEPT ![s] = "gone"]
  /\ UNCHANGED <<websocks, nsocks, out, walkVars, rep, owed, fate>>

(* The map grows.  Where the new node lands relative to an iterator is     *)
(* open; a rehash puts all nodes in a new order.                           *)
Grown(s, rehash) ==
  /\ IF rehash
     THEN /\ ahead' \in [Bcast -> SUBSET (websocks \cup {s})]
          /\ \A b \in Bcast :
               IF Walking(b) THEN ahead'[b] \cap {cur[b], src[b]} = {} ELSE ahead'[b] = {}
          /\ owed' = [b \in Bcast |-> IF Walking(b) THEN {} ELSE owed[b]]
     ELSE /\ \E near \in SUBSET {b \in Bcast : Walking(b) /\ src[b] # s} :
               ahead' = [b \in Bcast |-> ahead[b] \cup (IF b \in near THEN {s} ELSE {})]
          /\ UNCHANGED owed

(* A slip: only the map is told of the socket.                             *)
AcceptUncounted(s) ==
  /\ ses[s] \in {"new", "connect"}
  /\ ses' = [ses EXCEPT ![s] = "loop"]
  /\ websocks' = websocks \cup {s}
  /\ \E rehash \in BOOLEAN : Grown(s, rehash)
  /\ UNCHANGED <<nsocks, out, at, src, cur, wait, hits, rep, fate>>

Accept(s) ==
  /\ ses[s] \in {"new", "connect"}
  /\ ses' = [ses EXCEPT ![s] = "loop"]
  /\ websocks' = websocks \cup {s}
  /\ nsocks' = nsocks + 1
  /\ \E rehash \in BOOLEAN : Grown(s, rehash)
  /\ UNCHANGED <<out, at, src, cur, wait, hits, rep, fate>>

Serving(s) == ses[s] = "loop" /\ out[s] # Handler

(* onMessage broadcasts.                                                   *)
MessageBroadcast(s, b) ==
  /\ Serving(s)
  /\ Broadcast(s, b)
  /\ UNCHANGED sesVars

(* A PING, or an onMessage that sends: the write has to wait.              *)
Send(s) ==
  /\ Serving(s)
  /\ Block(Handler, s)
  /\ UNCHANGED <<sesVars, walkVars, rep, owed>>

(* The session ends and the connection is closed.  If a coroutine still    *)
(* waits to write to it, libmill aborts at its next poll; if it was the    *)
(* reset that ended the session, it has woken that coroutine too.          *)
Leave(s) ==
  /\ Serving(s)
  /\ ses' = [ses EXCEPT ![s] = "gone"]
  /\ websocks' = websocks \ {s}
  /\ nsocks' = nsocks - 1
  /\ ahead' = [b \in Bcast |-> ahead[b] \ {s}]
  /\ owed' = [b \in Bcast |-> IF Walking(b) /\ cur[b] = s THEN {} ELSE owed[b] \ {s}]
  /\ \/ out[s] = NoOne /\ UNCHANGED <<out, at, rep, fate>>
     \/ out[s] # NoOne /\ fate' = "assert" /\ UNCHANGED <<out, at, rep>>
     \/ /\ out[s] # NoOne
        /\ out' = [out EXCEPT ![s] = NoOne]
        /\ at' = [b \in Bcast |-> IF b = out[s] /\ at[b] = "direct" THEN "walk" ELSE at[b]]
        /\ rep' = [b \in Bcast |-> IF b = out[s] /\ at[b] # "direct" THEN rep[b] + 1 ELSE rep[b]]
        /\ UNCHANGED fate
  /\ UNCHANGED <<src, cur, wait, hits>>

-----------------------------------------------------------------------------
Alive == fate = "alive"

Next ==
  /\ Alive
  /\ \/ \E s \in Sock : Reject(s) \/ Accept(s) \/ Send(s) \/ Leave(s) \/ Written(s)
     \/ \E s \in Sock, b \in Bcast : ConnectBroadcast(s, b) \/ MessageBroadcast(s, b)
     \/ \E b \in Bcast : Resume(b) \/ Collect(b)

Spec == Init /\ [][Next]_vars

(* Ready coroutines run, and with api.timeout > 0 no write waits for ever. *)
Fairness ==
  /\ \A b \in Bcast : WF_vars(Alive /\ Resume(b)) /\ WF_vars(Alive /\ Collect(b))
  /\ \A s \in Sock : WF_vars(Alive /\ Written(s))

FairSpec == Spec /\ Fairness

-----------------------------------------------------------------------------
(* The registry, the walks and the channel counts keep their types;        *)
(* nsocks, a size_t, never goes below zero.                                *)
TypeOK ==
  /\ ses \in [Sock -> {"new", "connect", "loop", "gone"}]
  /\ websocks \subseteq Sock
  /\ nsocks \in Nat
  /\ out \in [Sock -> Bcast \cup {NoOne, Handler}]
  /\ at \in [Bcast -> {"idle", "walk", "direct", "wait", "freed"}]
  /\ src \in [Bcast -> Sock \cup {NoOne}]
  /\ cur \in [Bcast -> Sock \cup {NoOne}]
  /\ ahead \in [Bcast -> SUBSET Sock]
  /\ wait \in [Bcast -> Nat]
  /\ rep \in [Bcast -> Nat]
  /\ hits \in [Bcast -> [Sock -> Nat]]
  /\ owed \in [Bcast -> SUBSET Sock]
  /\ fate \in {"alive", "panic", "assert", "crash"}

(* The map holds the sockets whose handle() runs, and nsocks counts them,  *)
(* on whichever path a session ends.                                       *)
Registry ==
  /\ websocks = {s \in Sock : ses[s] = "loop"}
  /\ nsocks = Cardinality(websocks)

(* A message is freed only when no bsend() can read it or has yet to       *)
(* report on the channel of the broadcast, which is gone too.              *)
FreedLast ==
  \A b \in Bcast : at[b] = "freed" => rep[b] = 0 /\ \A s \in Sock : out[s] # b

(* A finished walk has written the message once to every socket that was   *)
(* in the map from its start, and never to the sender.                     *)
WrittenOnce ==
  \A b \in Bcast :
    at[b] = "wait" =>
      /\ \A s \in owed[b] : hits[b][s] = 1
      /\ hits[b][src[b]] = 0

(* No answer is lost and none comes twice: a broadcast waits for exactly   *)
(* the bsend()s that still write or still have to report.                  *)
AnswersBalance ==
  \A b \in Bcast :
    LET writing == {s \in Sock : out[s] = b /\ ~(at[b] = "direct" /\ cur[b] = s)} IN
    Alive => wait[b] = rep[b] + Cardinality(writing)

(* Every message that is copied is freed: "the copied buffer now belongs   *)
(* to the go-routine being scheduled", which will "free the allocated      *)
(* memory" (wsock.cpp:374, 385).                                           *)
MessageFreed == \A b \in Bcast : at[b] # "idle" ~> (at[b] = "freed" \/ ~Alive)

(* At most one coroutine waits to write to a socket: libmill panics on     *)
(* "multiple coroutines waiting for a single file descriptor"              *)
(* (epoll.inc:98-100).                                                     *)
OneWriter == fate # "panic"
=============================================================================
