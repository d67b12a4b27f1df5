---------------------------- MODULE RedisClient ----------------------------
(***************************************************************************)
(* One connection to Redis: BaseClient (src/suil/redis.cpp:72-223,         *)
(* redis.h:255-660) and a Transaction that uses it (redis.cpp:10-70).      *)
(*                                                                         *)
(* The commands of a connection are numbered.  A reply is a sequence of    *)
(* units, each a line with its prefix or the bytes of a string, and every  *)
(* unit knows the command it answers, so that a reply taken for that of    *)
(* another command shows.  A unit in the stream has left the server and    *)
(* may or may not have arrived: every read may time out.  A reply is cut   *)
(* only between units, and a command that cannot be sent is not sent in    *)
(* part.                                                                   *)
(*                                                                         *)
(* BaseClient::commit is left out: it is protected and nothing calls it.   *)
(***************************************************************************)
EXTENDS Integers, Sequences

CONSTANTS
  MaxCalls,      \* bound: the commands sent over the connection
  Shapes         \* bound: the replies of the server to an ordinary command

AllShapes == {"val", "err", "nil", "str", "array", "empty"}

ASSUME BoundsAssumption == MaxCalls \in Nat /\ Shapes \subseteq AllShapes

VARIABLES
  calls,         \* how many commands were sent or could not be sent
  open,          \* the Transaction is alive
  in_multi,      \* Transaction::in_multi
  pc,            \* the coroutine: "idle", "recv" (in recvresp)
  op,            \* the call it is in: "multi", "exec", "discard", "cmd"
  pending,       \* how many replies recvresp has still to read
  expect,        \* what comes next: "reply", "data" or "line"
  entries,       \* Response::entries, the units the replies were made of
  requests,      \* the commands that Redis has not executed, [k, op]
  srvMulti,      \* Redis: the connection is in MULTI
  queued,        \* Redis: the commands of the transaction
  dirty,         \* Redis: it refused one of them
  direct,        \* Redis: the commands it executed outside of MULTI
  stream,        \* the units on their way to the client
  failed,        \* history: a send or a receive has failed
  refused,       \* history: an error was the reply to MULTI
  inTx           \* history: the commands issued while in_multi

clientVars == <<calls, open, in_multi, pc, op, pending, expect, entries>>
serverVars == <<requests, srvMulti, queued, dirty, direct, stream>>
vars == <<clientVars, serverVars, failed, refused, inTx>>

-----------------------------------------------------------------------------
(* The replies of the server: external.                                    *)

Unit(k, kind, n) == [k |-> k, kind |-> kind, n |-> n]

Shaped(k, shape) ==
  CASE shape \in {"val", "err", "nil"} -> <<Unit(k, shape, 0)>>
    [] shape = "str"   -> <<Unit(k, "str", 0), Unit(k, "data", 0)>>
    [] shape = "array" -> <<Unit(k, "array", 2), Unit(k, "nil", 0),
                            Unit(k, "str", 0), Unit(k, "data", 0)>>
    [] shape = "empty" -> <<Unit(k, "array", 0)>>

(* The reply to EXEC: one value for every command of the transaction.      *)
Executed(k, n) ==
  <<Unit(k, "array", n)>> \o [i \in 1 .. n |-> Unit(k, "val", 0)]

Answers(units) == stream' = stream \o units

(* Redis executes the command at the head of its input.                    *)
Server ==
  /\ requests # << >>
  /\ requests' = Tail(requests)
  /\ \E c \in {Head(requests)} :
       \/ /\ c.op = "cmd" /\ ~srvMulti
          /\ \E shape \in Shapes : Answers(Shaped(c.k, shape))
          /\ direct' = direct \cup {c.k}
          /\ UNCHANGED <<srvMulti, queued, dirty>>
       \/ /\ c.op = "cmd" /\ srvMulti
          /\ \/ /\ Answers(Shaped(c.k, "val"))
                /\ queued' = Append(queued, c.k) /\ UNCHANGED dirty
             \/ /\ Answers(Shaped(c.k, "err"))
                /\ dirty' = TRUE /\ UNCHANGED queued
          /\ UNCHANGED <<srvMulti, direct>>
       \/ /\ c.op = "multi"
          /\ \/ ~srvMulti /\ Answers(Shaped(c.k, "val")) /\ srvMulti' = TRUE
             \/ Answers(Shaped(c.k, "err")) /\ UNCHANGED srvMulti
          /\ UNCHANGED <<queued, dirty, direct>>
       \/ /\ c.op \in {"exec", "discard"} /\ ~srvMulti
          /\ Answers(Shaped(c.k, "err"))
          /\ UNCHANGED <<srvMulti, queued, dirty, direct>>
       \/ /\ c.op \in {"exec", "discard"} /\ srvMulti
          /\ Answers(IF c.op = "discard" THEN Shaped(c.k, "val")
                     ELSE IF dirty THEN Shaped(c.k, "err")
                     ELSE Executed(c.k, Len(queued)))
          /\ srvMulti' = FALSE /\ queued' = << >> /\ dirty' = FALSE
          /\ UNCHANGED direct
  /\ UNCHANGED <<clientVars, failed, refused, inTx>>

-----------------------------------------------------------------------------
Init ==
  /\ calls = 0 /\ open = TRUE /\ in_multi = FALSE
  /\ pc = "idle" /\ op = "cmd" /\ pending = 0 /\ expect = "reply"
  /\ entries = << >>
  /\ requests = << >> /\ srvMulti = FALSE /\ queued = << >> /\ dirty = FALSE
  /\ direct = {} /\ stream = << >>
  /\ failed = FALSE /\ refused = FALSE /\ inTx = {}

(* Response::operator bool                                                 *)
Good(es) == es # << >> /\ (Len(es) > 1 \/ es[1].kind \in {"val", "data"})

(* A slip: a transaction that failed to execute can be executed again.     *)
MultiAfterOk(o, es) ==
  CASE o = "multi" -> TRUE
    [] o = "exec" -> ~Good(es)
    [] o = "discard" -> FALSE
    [] OTHER -> in_multi

(* What multi(), exec() and discard() leave in in_multi, whatever the      *)
(* response es is.                                                         *)
MultiAfter(o, es) ==
  CASE o = "multi" -> TRUE
    [] o \in {"exec", "discard"} -> FALSE
    [] OTHER -> in_multi

(* The call o returns with the response es.                                *)
Return(o, es) ==
  /\ pc' = "idle"
  /\ pending' = 0
  /\ expect' = "reply"
  /\ entries' = es
  /\ in_multi' = MultiAfter(o, es)
  /\ refused' = (refused \/ (o = "multi" /\ ~Good(es)))

(* The response to what cannot be sent or received.                        *)
ErrorReply == <<Unit(calls, "err", 0)>>

(* dosend, up to the first read.                                           *)
Send(o) ==
  /\ calls' = calls + 1
  /\ op' = o
  /\ inTx' = IF o = "cmd" /\ in_multi THEN inTx \cup {calls + 1} ELSE inTx
  /\ \/ /\ requests' = Append(requests, [k |-> calls + 1, op |-> o])
        /\ pc' = "recv" /\ pending' = 1 /\ expect' = "reply"
        /\ entries' = << >>
        /\ UNCHANGED <<in_multi, failed, refused>>
     \/ /\ Return(o, <<Unit(calls + 1, "err", 0)>>)
        /\ failed' = TRUE
        /\ UNCHANGED requests
  /\ UNCHANGED <<srvMulti, queued, dirty, direct, stream>>

MayCall == pc = "idle" /\ calls < MaxCalls

(* BaseClient::send, or Transaction::operator() while in_multi.            *)
Cmd == MayCall /\ Send("cmd") /\ UNCHANGED open

(* The guards are the early returns.                                       *)
Multi == MayCall /\ open /\ ~in_multi /\ Send("multi") /\ UNCHANGED open
Exec == MayCall /\ open /\ in_multi /\ Send("exec") /\ UNCHANGED open
Discard == MayCall /\ open /\ in_multi /\ Send("discard") /\ UNCHANGED open

(* A slip: an open transaction is dropped.                                 *)
DestroyOnly ==
  /\ pc = "idle" /\ open
  /\ open' = FALSE
  /\ in_multi' = FALSE
  /\ UNCHANGED <<calls, pc, op, pending, expect, entries, serverVars, failed,
                 refused, inTx>>

(* ~Transaction; the bound leaves it one command.                          *)
Destroy ==
  /\ pc = "idle" /\ open
  /\ open' = FALSE
  /\ IF in_multi THEN Send("discard")
     ELSE UNCHANGED <<calls, in_multi, pc, op, pending, expect, entries,
                      serverVars, failed, refused, inTx>>

-----------------------------------------------------------------------------
(* recvresp                                                                *)

(* A reply, or a part of one, was read: es are the entries so far and n    *)
(* the replies still to come.                                              *)
Progress(es, n, next) ==
  IF n = 0 /\ next = "reply" THEN Return(op, es) /\ UNCHANGED failed
  ELSE /\ entries' = es /\ pending' = n /\ expect' = next
       /\ UNCHANGED <<pc, in_multi, failed, refused>>

Fail ==
  /\ Return(op, ErrorReply)
  /\ failed' = TRUE

(* A slip: the loop over an array ends one element early.                  *)
ElementsButOne(n, len) == IF len > 1 THEN n + len - 2 ELSE n + len - 1

(* The replies to be read after the header of an array.                    *)
Elements(n, len) == n + len - 1

(* A slip: a string is an entry before its bytes have been read.           *)
ReadReplyEarly(u) ==
  IF u.kind = "str" THEN Progress(Append(entries, u), pending, "data")
  ELSE Progress(Append(entries, u), pending - 1, "reply")

(* The prefix and its line.  Strings go on with their bytes; the header of *)
(* an empty array is followed by a line that the server does not send.     *)
ReadReply(u) ==
  CASE u.kind \in {"val", "err", "nil"} ->
         Progress(Append(entries, u), pending - 1, "reply")
    [] u.kind = "str" -> Progress(entries, pending, "data")
    [] u.kind = "array" ->
         Progress(entries, Elements(pending, u.n),
                  IF u.n = 0 THEN "line" ELSE "reply")
    [] OTHER -> Fail

Read ==
  /\ pc = "recv" /\ stream # << >>
  /\ \E u \in {Head(stream)} :
       CASE expect = "reply" -> ReadReply(u)
         [] expect = "data"  ->
              Progress(Append(entries, u), pending - 1, "reply")
         [] expect = "line"  -> Progress(entries, pending, "reply")
  /\ stream' = Tail(stream)
  /\ UNCHANGED <<calls, open, op, requests, srvMulti, queued, dirty, direct,
                 inTx>>

(* A slip: the reads have no deadline.                                     *)
NeverTimesOut == FALSE /\ UNCHANGED vars

(* The next unit does not arrive within config.timeout, or the connection  *)
(* fails.                                                                  *)
TimesOut ==
  /\ pc = "recv"
  /\ Fail
  /\ UNCHANGED <<calls, open, op, serverVars, inTx>>

Client == Cmd \/ Multi \/ Exec \/ Discard \/ Destroy
Receive == Read \/ TimesOut

Next == Client \/ Receive \/ Server

Spec == Init /\ [][Next]_vars

(* The reads end, if only by their deadline.  Nothing is asked of Redis.   *)
FairSpec == Spec /\ WF_vars(Receive)

-----------------------------------------------------------------------------
(* The counters and flags stay in their ranges: every entry is a whole     *)
(* reply of a command already sent, and while a reply is read something is *)
(* still missing.                                                          *)
TypeOK ==
  /\ calls \in 0 .. MaxCalls + 1
  /\ <<open, in_multi, srvMulti, dirty>> \in
       BOOLEAN \X BOOLEAN \X BOOLEAN \X BOOLEAN
  /\ <<failed, refused>> \in BOOLEAN \X BOOLEAN
  /\ pc \in {"idle", "recv"}
  /\ op \in {"multi", "exec", "discard", "cmd"}
  /\ expect \in {"reply", "data", "line"}
  /\ pc = "recv" => pending > 0 \/ expect = "line"
  /\ \A i \in DOMAIN entries : /\ entries[i].k \in 0 .. calls
                               /\ entries[i].kind \notin {"str", "array"}
  /\ direct \cup inTx \subseteq 1 .. calls

(* Until a send or a receive fails on the connection, a response is made   *)
(* of the replies to its own command, and nothing is left over for the     *)
(* next one, nested arrays and strings included (dosend, recvresp).  After *)
(* a time-out the next command may get the late reply.                     *)
OwnReply ==
  pc = "idle" /\ ~failed =>
    /\ requests = << >> /\ stream = << >>
    /\ \A i \in DOMAIN entries : entries[i].k = calls

(* As long as no call failed and no MULTI was refused, what is issued in   *)
(* a transaction is executed by EXEC or not at all (in_multi, set by       *)
(* multi() and cleared by exec() whatever the reply says).                 *)
TransactionIsAtomic == ~failed /\ ~refused => inTx \cap direct = {}

(* A Transaction that is destroyed leaves the connection out of MULTI, so  *)
(* that it can be used for ordinary commands (~Transaction).               *)
DestroyedLeavesNoMulti == ~open /\ pc = "idle" /\ ~failed => ~srvMulti

(* Every call returns, even if Redis never replies.                        *)
CallReturns == pc = "recv" ~> pc = "idle"
=============================================================================
