----------------------------- MODULE HttpServer -----------------------------
(***************************************************************************)
(* The HTTP server: the accept loop Server (src/suil/net.h:53-105), a      *)
(* Connection for every socket (src/suil/http/connection.h), its Request   *)
(* (src/suil/http/request.cpp:372-595) and the callbacks of the parser     *)
(* (src/suil/http/parser.cpp).                                             *)
(*                                                                         *)
(* A byte stream is a sequence of units: a request is kind.head units of   *)
(* header and kind.body units of body, numbered, so that lost, doubled and *)
(* foreign bytes show.  A unit in the queue of a connection has arrived;   *)
(* the others are with the client or on their way.                         *)
(*                                                                         *)
(* Coroutines are cooperative: an action runs one of them from one wait    *)
(* (accept, read, receive, the handler, the write of the response) to the  *)
(* next.  The handler and its middlewares are one step with an open result.*)
(***************************************************************************)
EXTENDS Integers, Sequences, FiniteSets

CONSTANTS
  Conn,          \* the connections clients may open
  Kinds,         \* the requests clients may send, a set of Kind
  Menu,          \* bound: the n-th request over c is one of Menu[c][n]
  Window,        \* how many requests a client sends without an answer
  Stage,         \* capacity of Request::stage, what one read can return
  MaxBody,       \* config.max_body_len
  Offload,       \* config.disk_offload
  OffloadMin     \* config.disk_offload_min

(* head, body: the length of its parts; close: it has a Connection: Close  *)
(* header; persist: http_should_keep_alive(); upgrade: it has an Upgrade   *)
(* header; bad: its header does not parse.                                 *)
Kind == [head : Nat \ {0}, body : Nat, close : BOOLEAN, persist : BOOLEAN,
         upgrade : BOOLEAN, bad : BOOLEAN]

ASSUME KindsAssumption ==
  /\ Kinds \subseteq Kind
  /\ \A k \in Kinds : k.close => ~k.persist
ASSUME BoundsAssumption ==
  /\ Menu \in [Conn -> Seq(SUBSET Kinds)]
  /\ Window \in Nat \ {0}
  /\ Stage \in Nat \ {0}
  /\ MaxBody \in Nat
  /\ Offload \in BOOLEAN
  /\ OffloadMin \in Nat

VARIABLES
  srv,           \* Server::run(): "accept", "ready" (after go()), "done"
  exiting,       \* Server::exiting
  pc,            \* the coroutine of c: "none", "queued" (in the backlog),
                 \* "headers", "body", "handle", "send", "proto", "done"
  sent,          \* sent[c]: the requests the client has begun to send
  unsent,        \* unsent[c]: the units of the last of them still to be sent
  up,            \* up[c]: the client has not closed its end
  inq,           \* inq[c]: the units that arrived and are not read
  answers,       \* answers[c]: the responses the client got, [req, status]
  overlap,       \* overlap[c]: the client once sent without awaiting an answer
  prs,           \* prs[c]: the state of the Request and its parser
  res            \* res[c]: the response to be written, [req, status, err]

clientVars == <<sent, unsent, up, overlap>>
vars == <<srv, exiting, pc, clientVars, inq, answers, prs, res>>

-----------------------------------------------------------------------------
(* The units of request number r.                                          *)
Unit(r, part, n) == [req |-> r, part |-> part, n |-> n]
HeadUnits(r, k) == [i \in 1 .. k.head |-> Unit(r, "head", i)]
BodyUnits(r, k) == [i \in 1 .. k.body |-> Unit(r, "body", i)]

LeastOf(a, b) == IF a <= b THEN a ELSE b

(* What parser::clear and Request::clear leave of request number r: st is  *)
(* the state of http_parser, which they do not touch.  halt says that      *)
(* http_parser_execute has returned before the end of its input.           *)
Cleared(r, st) ==
  [req |-> r, st |-> st, headers_complete |-> FALSE, body_complete |-> FALSE,
   length |-> 0, mem |-> << >>, offload |-> FALSE, file |-> << >>,
   left |-> 0, halt |-> FALSE, fail |-> FALSE]

(* on_msg_complete and msg_complete; the next state is _NEW_MESSAGE().     *)
MessageComplete(p, k) ==
  [p EXCEPT !.body_complete = TRUE, !.length = Len(p.mem), !.halt = k.upgrade,
            !.st = IF k.persist THEN "start" ELSE "dead"]

(* The end of the header: on_headers_complete, then s_headers_done.        *)
HeadersDone(p, k) ==
  LET q == [p EXCEPT !.headers_complete = TRUE, !.length = k.body]
  IN  IF k.upgrade \/ k.body = 0 THEN MessageComplete(q, k)
      ELSE [q EXCEPT !.st = "body"]

(* handle_body_part appends to the file if there is one.                   *)
BodyPart(p, u, k) ==
  LET q == IF p.offload THEN [p EXCEPT !.file = Append(@, u), !.length = @ - 1]
                        ELSE [p EXCEPT !.mem = Append(@, u), !.length = @ - 1]
  IN  IF q.length = 0 THEN MessageComplete(q, k) ELSE q

Failed(p, r) == [p EXCEPT !.fail = TRUE, !.req = r]

(* A slip: the Request is not cleared when a message begins.               *)
ParseUnitUncleared(p, u, k) ==
  IF p.fail \/ p.halt THEN p
  ELSE IF u.part = "body" THEN BodyPart(p, u, k)
  ELSE LET q == [p EXCEPT !.req = u.req]
       IN  IF u.n < k.head THEN q ELSE HeadersDone(q, k)

(* One unit u of a request of kind k goes through http_parser_execute.  A  *)
(* first unit calls on_message_begin, which clears the Request.            *)
ParseUnit(p, u, k) ==
  IF p.fail THEN p
  ELSE IF p.halt \/ p.st = "dead" THEN Failed(p, u.req)
  ELSE IF u.part = "body" THEN
    IF p.st = "body" THEN BodyPart(p, u, k) ELSE Failed(p, u.req)
  ELSE
    LET q == IF u.n = 1 THEN Cleared(u.req, "head") ELSE p
    IN  IF u.n < k.head THEN q
        ELSE IF k.bad THEN Failed(q, u.req) ELSE HeadersDone(q, k)

(* parser::feed                                                            *)
Feed(c, units) ==
  LET after[i \in 0 .. Len(units)] ==
        IF i = 0 THEN prs[c]
        ELSE ParseUnit(after[i - 1], units[i], sent[c][units[i].req])
  IN  [after[Len(units)] EXCEPT !.halt = FALSE]

-----------------------------------------------------------------------------
Init ==
  /\ srv = "accept"
  /\ exiting = FALSE
  /\ pc = [c \in Conn |-> "none"]
  /\ sent = [c \in Conn |-> << >>]
  /\ unsent = [c \in Conn |-> << >>]
  /\ up = [c \in Conn |-> FALSE]
  /\ inq = [c \in Conn |-> << >>]
  /\ answers = [c \in Conn |-> << >>]
  /\ overlap = [c \in Conn |-> FALSE]
  /\ prs = [c \in Conn |-> Cleared(0, "start")]
  /\ res = [c \in Conn |-> [req |-> 0, status |-> "ok", err |-> FALSE]]

-----------------------------------------------------------------------------
(* The clients: external.  What happens at the client's end of a stream    *)
(* that the server has closed or given to another protocol has no effect.  *)

Live(c) == up[c] /\ pc[c] \notin {"proto", "done"}

Dial(c) ==
  /\ pc[c] = "none" /\ ~exiting /\ srv # "done"
  /\ pc' = [pc EXCEPT ![c] = "queued"]
  /\ up' = [up EXCEPT ![c] = TRUE]
  /\ UNCHANGED <<srv, exiting, sent, unsent, overlap, inq, answers, prs, res>>

(* Begin the next request.                                                 *)
Ask(c) ==
  /\ Live(c) /\ unsent[c] = << >>
  /\ Len(sent[c]) < Len(Menu[c])
  /\ Len(sent[c]) - Len(answers[c]) < Window
  /\ LET r == Len(sent[c]) + 1 IN \E k \in Menu[c][r] :
       /\ sent' = [sent EXCEPT ![c] = Append(@, k)]
       /\ unsent' = [unsent EXCEPT ![c] = HeadUnits(r, k) \o BodyUnits(r, k)]
  /\ overlap' = [overlap EXCEPT ![c] = @ \/ Len(sent[c]) > Len(answers[c])]
  /\ UNCHANGED <<srv, exiting, pc, up, inq, answers, prs, res>>

SendUnit(c) ==
  /\ Live(c) /\ unsent[c] # << >>
  /\ inq' = [inq EXCEPT ![c] = Append(@, unsent[c][1])]
  /\ unsent' = [unsent EXCEPT ![c] = Tail(@)]
  /\ UNCHANGED <<srv, exiting, pc, sent, up, overlap, answers, prs, res>>

HangUp(c) ==
  /\ Live(c)
  /\ up' = [up EXCEPT ![c] = FALSE]
  /\ UNCHANGED <<srv, exiting, pc, sent, unsent, overlap, inq, answers, prs, res>>

-----------------------------------------------------------------------------
(* Server::run() and stop().                                               *)

(* accept() returns a connection.  go(handle(this, s)) suspends run() and  *)
(* runs the Connection up to its first read.                               *)
Accept(c) ==
  /\ srv = "accept" /\ ~exiting /\ pc[c] = "queued"
  /\ srv' = "ready"
  /\ pc' = [pc EXCEPT ![c] = "headers"]
  /\ UNCHANGED <<exiting, clientVars, inq, answers, prs, res>>

(* while (!exiting)                                                        *)
RunLoop ==
  /\ srv = "ready"
  /\ srv' = IF exiting THEN "done" ELSE "accept"
  /\ UNCHANGED <<exiting, pc, clientVars, inq, answers, prs, res>>

(* A listening socket that is shut or closed drops the connections queued. *)
DropQueued == [c \in Conn |-> IF pc[c] = "queued" THEN "done" ELSE pc[c]]

(* A slip: a failure to accept while the server is being stopped is taken  *)
(* for a time-out.                                                         *)
AcceptRetries ==
  /\ srv = "accept" /\ ~exiting
  /\ srv' = "done"
  /\ UNCHANGED <<exiting, pc, clientVars, inq, answers, prs, res>>

(* accept() fails, and not with a time-out: after shutdown(), or because   *)
(* there is no descriptor left.  The listening socket is closed and run()  *)
(* returns.                                                                *)
AcceptFails ==
  /\ srv = "accept"
  /\ srv' = "done"
  /\ pc' = DropQueued
  /\ UNCHANGED <<exiting, clientVars, inq, answers, prs, res>>

(* stop() shuts the listening socket.                                      *)
Stop ==
  /\ ~exiting
  /\ exiting' = TRUE
  /\ pc' = DropQueued
  /\ UNCHANGED <<srv, clientVars, inq, answers, prs, res>>

-----------------------------------------------------------------------------
(* Connection::start(): receiving.                                         *)

Respond(c, status, err) ==
  /\ res' = [res EXCEPT ![c] = [req |-> prs'[c].req, status |-> status, err |-> err]]
  /\ pc' = [pc EXCEPT ![c] = "send"]

GoOn(c, at) ==
  /\ pc' = [pc EXCEPT ![c] = at]
  /\ UNCHANGED res

(* A slip: what has been received is measured.                             *)
TooLargeSoFar(p) == Len(p.mem) > MaxBody

(* process_headers: the length is what the parser has not seen yet, or the *)
(* whole if it has seen everything.                                        *)
TooLarge(p) == p.length > MaxBody

Spill(p, k) == Offload /\ k.body > 0 /\ p.length > OffloadMin

(* A slip: the handler is called as soon as there is a header.             *)
HandleAtOnce(c, p) ==
  /\ prs' = [prs EXCEPT ![c] = p]
  /\ GoOn(c, "handle")

(* The body is complete after receive_body: the handler is called.  If not *)
(* it waits for the next piece.                                            *)
AwaitBody(c, p) ==
  /\ prs' = [prs EXCEPT ![c] = [p EXCEPT !.left = p.length]]
  /\ GoOn(c, IF p.body_complete THEN "handle" ELSE "body")

(* process_headers and what follows it.  The file may fail to open.        *)
ProcessHeaders(c, p, k) ==
  IF k.body > 0 /\ TooLarge(p) THEN
    /\ prs' = [prs EXCEPT ![c] = p]
    /\ Respond(c, "too_large", TRUE)
  ELSE IF Spill(p, k) THEN
    \/ AwaitBody(c, [p EXCEPT !.offload = TRUE])
    \/ /\ prs' = [prs EXCEPT ![c] = p]
       /\ Respond(c, "internal", TRUE)
  ELSE AwaitBody(c, p)

(* receive_headers reads what there is and feeds all of it to the parser.  *)
ReadHeaders(c) ==
  /\ pc[c] = "headers" /\ inq[c] # << >>
  /\ \E n \in {LeastOf(Len(inq[c]), Stage)} :
     \E p \in {Feed(c, SubSeq(inq[c], 1, n))} :
     /\ inq' = [inq EXCEPT ![c] = SubSeq(@, n + 1, Len(@))]
     /\ \/ /\ p.fail
           /\ prs' = [prs EXCEPT ![c] = p]
           /\ Respond(c, "bad_request", TRUE)
        \/ /\ ~p.fail /\ ~p.headers_complete
           /\ prs' = [prs EXCEPT ![c] = p]
           /\ GoOn(c, "headers")
        \/ /\ ~p.fail /\ p.headers_complete
           /\ ProcessHeaders(c, p, sent[c][p.req])
  /\ UNCHANGED <<srv, exiting, clientVars, answers>>

(* A slip: a read that times out is tried again.                           *)
KeepWaiting(c) ==
  /\ pc[c] = "headers" /\ inq[c] = << >> /\ up[c]
  /\ UNCHANGED vars

(* No header within connection_timeout: the connection ends, unanswered.   *)
HeadersTimeout(c) ==
  /\ pc[c] = "headers" /\ inq[c] = << >> /\ up[c]
  /\ pc' = [pc EXCEPT ![c] = "done"]
  /\ UNCHANGED <<srv, exiting, clientVars, inq, answers, prs, res>>

(* A slip: a whole stage is read if it is there.                           *)
PieceTooLong(c) == LeastOf(Stage, Len(inq[c]))

(* receive_body waits for a full piece of min(stage, left) units.          *)
Piece(c) == LeastOf(Stage, prs[c].left)

(* The peer has closed: the socket is closed, send_response writes nothing.*)
ReadFails(c) ==
  /\ ~up[c]
  /\ \/ pc[c] = "headers" /\ inq[c] = << >>
     \/ pc[c] = "body" /\ Len(inq[c]) < Piece(c)
  /\ pc' = [pc EXCEPT ![c] = "done"]
  /\ UNCHANGED <<srv, exiting, clientVars, inq, answers, prs, res>>

ReceiveBody(c) ==
  /\ pc[c] = "body" /\ Len(inq[c]) >= Piece(c)
  /\ \E len \in {Piece(c)} : \E p \in {Feed(c, SubSeq(inq[c], 1, len))} :
     LET q == [p EXCEPT !.left = prs[c].left - len] IN
     /\ inq' = [inq EXCEPT ![c] = SubSeq(@, len + 1, Len(@))]
     /\ \/ /\ prs[c].offload                   \* writing to the file fails
           /\ prs' = [prs EXCEPT ![c] = Failed(prs[c], prs[c].req)]
           /\ Respond(c, "bad_request", TRUE)
        \/ /\ prs' = [prs EXCEPT ![c] = q]
           /\ IF p.fail THEN Respond(c, "bad_request", TRUE)
              ELSE IF p.body_complete THEN GoOn(c, "handle")
              ELSE IF q.left > 0 THEN GoOn(c, "body")
              ELSE Respond(c, "bad_request", TRUE)
  /\ UNCHANGED <<srv, exiting, clientVars, answers>>

BodyTimeout(c) ==
  /\ pc[c] = "body" /\ up[c] /\ Len(inq[c]) < Piece(c)
  /\ UNCHANGED prs
  /\ Respond(c, "timeout", TRUE)
  /\ UNCHANGED <<srv, exiting, clientVars, inq, answers>>

-----------------------------------------------------------------------------
(* Connection::start(): handling and answering.                            *)

(* The handler and the middlewares return or throw, or the request is      *)
(* accepted with a protocol handler: WebSock::handshake looks at the       *)
(* headers Sec-WebSocket-Key and -Version, not at Upgrade.                 *)
Handle(c) ==
  /\ pc[c] = "handle"
  /\ UNCHANGED prs
  /\ \/ Respond(c, "ok", FALSE)
     \/ Respond(c, "error", TRUE)
     \/ Respond(c, "switching", FALSE)
  /\ UNCHANGED <<srv, exiting, clientVars, inq, answers>>

(* A slip: an error does not close the connection.                         *)
MustCloseIfAsked(c) == sent[c][res[c].req].close

(* close_ after send_response has written the response.                    *)
MustClose(c) ==
  \/ res[c].err
  \/ sent[c][res[c].req].close

(* req.clear(), and the loop.                                              *)
NextRequest(c) ==
  /\ pc' = [pc EXCEPT ![c] = "headers"]
  /\ prs' = [prs EXCEPT ![c] = Cleared(@.req, @.st)]

(* The response is written.                                                *)
SendResponse(c) ==
  /\ pc[c] = "send"
  /\ answers' = IF up[c]
                THEN [answers EXCEPT ![c] =
                        Append(@, [req |-> res[c].req, status |-> res[c].status])]
                ELSE answers
  /\ \/ /\ res[c].status = "switching"
        /\ pc' = [pc EXCEPT ![c] = "proto"]
        /\ UNCHANGED prs
     \/ /\ res[c].status # "switching" /\ MustClose(c)
        /\ pc' = [pc EXCEPT ![c] = "done"]
        /\ UNCHANGED prs
     \/ /\ res[c].status # "switching" /\ ~MustClose(c)
        /\ NextRequest(c)
  /\ UNCHANGED <<srv, exiting, clientVars, inq, res>>

(* Writing it fails or times out: close_ is set and the response cleared.  *)
SendFails(c) ==
  /\ pc[c] = "send"
  /\ pc' = [pc EXCEPT ![c] = "done"]
  /\ UNCHANGED <<srv, exiting, clientVars, inq, answers, prs, res>>

(* The protocol handler, WebSock::handle for one, returns, and close_ is   *)
(* set.  It need not: its waits have the time-out of its WebSockApi, which *)
(* is -1 unless it is set (wsock.h:43).                                    *)
ProtoEnds(c) ==
  /\ pc[c] = "proto"
  /\ pc' = [pc EXCEPT ![c] = "done"]
  /\ UNCHANGED <<srv, exiting, clientVars, inq, answers, prs, res>>

-----------------------------------------------------------------------------
ClientStep(c) == Dial(c) \/ Ask(c) \/ SendUnit(c) \/ HangUp(c)

(* Connection::start() up to the protocol handler.                         *)
StartStep(c) ==
  \/ ReadHeaders(c) \/ HeadersTimeout(c) \/ ReadFails(c)
  \/ ReceiveBody(c) \/ BodyTimeout(c)
  \/ Handle(c) \/ SendResponse(c) \/ SendFails(c)

ConnStep(c) == StartStep(c) \/ ProtoEnds(c)

Next ==
  \/ \E c \in Conn : ClientStep(c) \/ ConnStep(c) \/ Accept(c)
  \/ RunLoop \/ AcceptFails \/ Stop

Spec == Init /\ [][Next]_vars

(* Every wait of start() has the deadline connection_timeout, and Router:: *)
(* handle returns.  The accept loop is scheduled, and a shut listening     *)
(* socket fails to accept.  Nothing is assumed of the clients, nor of a    *)
(* protocol handler.                                                       *)
Fairness ==
  /\ \A c \in Conn : WF_vars(StartStep(c))
  /\ WF_vars(RunLoop)
  /\ WF_vars(exiting /\ AcceptFails)

FairSpec == Spec /\ Fairness

-----------------------------------------------------------------------------
Statuses == {"ok", "error", "switching", "bad_request", "too_large", "timeout",
             "internal"}
UnitType == [req : Nat \ {0}, part : {"head", "body"}, n : Nat \ {0}]

(* Types: the record fields the code keeps, within their ranges.           *)
TypeOK ==
  /\ srv \in {"accept", "ready", "done"}
  /\ exiting \in BOOLEAN
  /\ pc \in [Conn -> {"none", "queued", "headers", "body", "handle", "send",
                      "proto", "done"}]
  /\ sent \in [Conn -> Seq(Kinds)]
  /\ unsent \in [Conn -> Seq(UnitType)]
  /\ up \in [Conn -> BOOLEAN]
  /\ overlap \in [Conn -> BOOLEAN]
  /\ inq \in [Conn -> Seq(UnitType)]
  /\ answers \in [Conn -> Seq([req : Nat \ {0}, status : Statuses])]
  /\ prs \in [Conn ->
       [req : Nat, st : {"start", "head", "body", "dead"},
        headers_complete : BOOLEAN, body_complete : BOOLEAN, length : Nat,
        mem : Seq(UnitType), offload : BOOLEAN, file : Seq(UnitType),
        left : Nat, halt : {FALSE}, fail : BOOLEAN]]
  /\ res \in [Conn -> [req : Nat, status : Statuses, err : BOOLEAN]]

(* However the stream was cut into reads, a handler is called with all of  *)
(* the body of one request and nothing else: what came with the header is  *)
(* in memory, what receive_body read is behind it, in memory or in the     *)
(* file.  No request of the run has both a body and an Upgrade header:     *)
(* there it is false, as on_headers_complete ends such a message.          *)
WholeBody ==
  \A c \in Conn : pc[c] = "handle" =>
    LET p == prs[c] IN
    /\ p.headers_complete /\ p.body_complete
    /\ p.mem \o p.file = BodyUnits(p.req, sent[c][p.req])

(* The limits of the configuration hold up to one stage: process_headers   *)
(* compares them with what is left of the body, so what one read returned  *)
(* behind the header comes on top.                                         *)
BodyBounded ==
  \A c \in Conn : pc[c] \in {"body", "handle"} =>
    LET p == prs[c] IN
    /\ Len(p.mem) + Len(p.file) <= MaxBody + Stage - 1
    /\ Offload => Len(p.mem) <= OffloadMin + Stage - 1

(* A client that awaits every answer gets the n-th answer for its n-th     *)
(* request, whether it is served, refused or in error.  As WholeBody, not  *)
(* for an upgrade with a body, which is answered, then taken for another.  *)
OwnAnswer ==
  \A c \in Conn : ~overlap[c] =>
    \A i \in 1 .. Len(answers[c]) : answers[c][i].req = i

(* Also for a client that does not wait: no request is answered twice or   *)
(* after a later one, and an answer that says ok is to a request that was  *)
(* sent to its end.  That every request is answered is not said: one that  *)
(* is complete is lost if the same read holds the beginning of the next.   *)
AnswersInOrder ==
  \A c \in Conn : \A i \in 1 .. Len(answers[c]) :
    /\ i > 1 => answers[c][i - 1].req < answers[c][i].req
    /\ answers[c][i].status = "ok" =>
         answers[c][i].req < Len(sent[c]) \/ unsent[c] = << >>

Sends(c) == Ask(c) \/ SendUnit(c)

(* A connection whose client sends nothing any more, because it has no     *)
(* further request, stops in the middle of one or is gone, is closed in    *)
(* the end, wherever start() waits for it, or is with a protocol handler.  *)
(* A client that goes on asking keeps its connection: start() has no limit.*)
ConnectionEnds ==
  \A c \in Conn :
    <>[][~Sends(c)]_vars => (pc[c] = "headers" ~> pc[c] \in {"proto", "done"})

(* stop() ends run(), whether it comes while run() waits in accept(), has  *)
(* just begun a Connection, or has failed to accept.                       *)
StopReturns == exiting ~> srv = "done"
=============================================================================
