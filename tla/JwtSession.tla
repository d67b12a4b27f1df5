----------------------------- MODULE JwtSession -----------------------------
(***************************************************************************)
(* Requests that pass the middlewares Redis, JwtAuthorization, JwtSession  *)
(* (src/suil/http/middlewares.h, auth.cpp:121-211, auth.h:228-310) in the  *)
(* order of connection.h:155-210, and the Redis hash session_tokens, which *)
(* holds one token for every user.                                         *)
(*                                                                         *)
(* Every request runs in a coroutine of its own and talks to Redis over a  *)
(* connection of its own, so that a command sent may be executed much      *)
(* later, after its time-out even, or never.  The coroutine yields from    *)
(* the send of a command to its reply or its time-out, and nowhere else.   *)
(*                                                                         *)
(* A token is its audience and its expiry time: Jwt::encode is a function  *)
(* of the claims, and two logins of a user in the same second produce the  *)
(* same token.  A client shows a token the server sent, or None, which     *)
(* stands for every header Jwt::decode refuses.  Roles are left out.       *)
(***************************************************************************)
EXTENDS Integers

CONSTANTS
  N,             \* bound: how many requests there are
  User,          \* Jwt::aud() of the sessions
  MaxTime,       \* bound: the clock stops there
  expiry,        \* JwtAuthorization::expiry
  None           \* no token, no command

ASSUME NAssumption == N \in Nat
ASSUME TimeAssumption == MaxTime \in Nat /\ expiry \in Nat \ {0}
ASSUME NoneAssumption == None \notin [aud : User, exp : Nat]

Req == 1 .. N    \* numbered in the order in which they begin

Token == [aud : User, exp : 0 .. MaxTime + expiry]

(* The routes: a page and the logout have the attribute AUTHORIZE; the     *)
(* handler of the logout calls revoke(jwt), that of the login calls        *)
(* authorize(Jwt&&), that of resume calls authorize(user).                 *)
Protected == {"page", "logout"}
Route == Protected \cup {"login", "resume"}

Command == [op : {"hexists", "hget", "hset", "hdel"}, user : User,
            tok : Token \cup {None}]
Reply == [ready : BOOLEAN, n : 0 .. 1, tok : Token \cup {None}]

VARIABLES
  now,           \* time(nullptr)
  store,         \* session_tokens: the token of every user, or None
  wire,          \* wire[r]: the command of r that Redis has yet to execute
  reply,         \* reply[r]: the reply to the last command of r
  pc,            \* pc[r]: "new", the command r waits for, "done"
  ctx,           \* ctx[r]: the request, the context of JwtAuthorization, and
                 \* as history what was revoked when the request began
  answer,        \* answer[r]: the response, [status, token]; 0 if none yet
  handled,       \* handled[r]: Router::handle ran and returned
  known,         \* the tokens that clients have been sent
  seen           \* seen[r]: what the user's entry held while r was served

vars == <<now, store, wire, reply, pc, ctx, answer, handled, known, seen>>

NoReply == [ready |-> FALSE, n |-> 0, tok |-> None]
NoAnswerYet == [status |-> 0, token |-> None]

Waiting(r) == pc[r] \notin {"new", "done"}

Init ==
  /\ now = 0
  /\ store = [u \in User |-> None]
  /\ wire = [r \in Req |-> None]
  /\ reply = [r \in Req |-> NoReply]
  /\ pc = [r \in Req |-> "new"]
  /\ \E u \in User : ctx = [r \in Req |->
       [route |-> "page", user |-> u, token |-> None, at |-> 0,
        revoked |-> {}, sendTok |-> FALSE, requestAuth |-> FALSE]]
  /\ answer = [r \in Req |-> NoAnswerYet]
  /\ handled = [r \in Req |-> FALSE]
  /\ known = {}
  /\ seen = [r \in Req |-> {}]

-----------------------------------------------------------------------------
(* What the operations of a request end in.                                *)

(* A command is sent over the connection of r; c is the context of r.      *)
Send(r, c, at, op, tok) ==
  /\ pc' = [pc EXCEPT ![r] = at]
  /\ ctx' = [ctx EXCEPT ![r] = c]
  /\ wire' = [wire EXCEPT ![r] = [op |-> op, user |-> c.user, tok |-> tok]]
  /\ reply' = [reply EXCEPT ![r] = NoReply]
  /\ UNCHANGED <<answer, handled, known>>

(* The response goes out; the context and its connection are destroyed.    *)
Answer(r, c, status, tok) ==
  /\ pc' = [pc EXCEPT ![r] = "done"]
  /\ ctx' = [ctx EXCEPT ![r] = c]
  /\ reply' = [reply EXCEPT ![r] = NoReply]
  /\ answer' = [answer EXCEPT ![r] = [status |-> status, token |-> tok]]
  /\ known' = known \cup ({tok} \ {None})
  /\ UNCHANGED wire

(* A slip: the token goes out whenever there is one.                       *)
AfterEcho(r, c) ==
  Answer(r, c, IF c.requestAuth THEN 401 ELSE 200, c.token)

(* The after() of the middlewares: that of JwtAuthorization.               *)
After(r, c) ==
  IF c.sendTok THEN Answer(r, c, 200, c.token)
  ELSE Answer(r, c, IF c.requestAuth THEN 401 ELSE 200, None)

(* The flags of the context.                                               *)
Authorized(c, tok) ==
  [c EXCEPT !.sendTok = TRUE, !.requestAuth = FALSE, !.token = tok]
Unauthenticated(c) == [c EXCEPT !.sendTok = FALSE, !.requestAuth = TRUE]
LoggedOut(c) == [c EXCEPT !.sendTok = FALSE]

Fresh(u) == [aud |-> u, exp |-> now + expiry]

-----------------------------------------------------------------------------
(* A slip: a token dies the second it expires.                             *)
ExpiredEarly(tok) == tok.exp <= now

(* The test of JwtAuthorization::before.                                   *)
Expired(tok) == tok.exp < now

(* Context::authorize(Jwt&&) makes a token and saves it.                   *)
Login(r, c) == Send(r, Authorized(c, Fresh(c.user)), "hset", "hset",
                    Fresh(c.user))

(* The tokens with which logouts were called that were answered with 200.  *)
Revoked ==
  {ctx[s].token : s \in {l \in Req : /\ ctx[l].route = "logout"
                                     /\ answer[l].status = 200}}

(* JwtAuthorization::before, then JwtSession::before or, where the route   *)
(* is open, the handler.                                                   *)
Begin(r, route, u, tok) ==
  LET c == [ctx[r] EXCEPT !.route = route, !.user = u, !.token = tok,
                          !.at = now, !.revoked = Revoked]
  IN  /\ pc[r] = "new" /\ \A s \in 1 .. r - 1 : pc[s] # "new"
      /\ seen' = [seen EXCEPT ![r] = {store[u]}]
      /\ IF route \in Protected /\ (tok = None \/ Expired(tok))
         THEN Answer(r, c, 401, None) /\ UNCHANGED handled
         ELSE IF route = "login" THEN Login(r, c)
         ELSE Send(r, c, "exists", "hexists", None)
      /\ UNCHANGED <<now, store>>

(* The reply to HEXISTS.  With no session, JwtSession::before ends the     *)
(* response; authorize(user) returns false.                                *)
Exists(r) ==
  /\ pc[r] = "exists" /\ reply[r].ready
  /\ IF reply[r].n = 1 THEN Send(r, ctx[r], "get", "hget", None)
     ELSE /\ After(r, IF ctx[r].route = "resume" THEN ctx[r]
                      ELSE Unauthenticated(ctx[r]))
          /\ handled' = [handled EXCEPT ![r] = ctx[r].route = "resume"]
  /\ UNCHANGED <<now, store, seen>>

(* A slip: whatever token is stored will do.                               *)
AnySession(r, tok) == TRUE

(* cachedToken is the token of the request.                                *)
SameToken(r, tok) == tok = ctx[r].token

(* A slip: the logout is answered before the session is deleted.           *)
HandleAndForget(r) ==
  IF ctx[r].route = "logout"
  THEN /\ Answer(r, LoggedOut(ctx[r]), 200, None)
       /\ handled' = [handled EXCEPT ![r] = TRUE]
  ELSE After(r, ctx[r]) /\ handled' = [handled EXCEPT ![r] = TRUE]

(* The handler of the logout; the one of a page is done at once.           *)
Handle(r) ==
  IF ctx[r].route = "logout"
  THEN Send(r, ctx[r], "hdel", "hdel", None)
  ELSE After(r, ctx[r]) /\ handled' = [handled EXCEPT ![r] = TRUE]

(* The reply to HGET in JwtSession::before.  No value: hget throws.        *)
GetInBefore(r) ==
  /\ pc[r] = "get" /\ reply[r].ready /\ ctx[r].route \in Protected
  /\ IF reply[r].tok = None
     THEN Answer(r, ctx[r], 500, None) /\ UNCHANGED handled
     ELSE IF SameToken(r, reply[r].tok) THEN Handle(r)
     ELSE After(r, Unauthenticated(ctx[r])) /\ UNCHANGED handled
  /\ UNCHANGED <<now, store, seen>>

(* The reply to HGET in authorize(user), which hands out a token that has  *)
(* not expired and revokes any other.                                      *)
GetInResume(r) ==
  /\ pc[r] = "get" /\ reply[r].ready /\ ctx[r].route = "resume"
  /\ IF reply[r].tok = None
     THEN Answer(r, ctx[r], 500, None) /\ UNCHANGED handled
     ELSE IF reply[r].tok.exp > now
     THEN /\ After(r, Authorized(ctx[r], reply[r].tok))
          /\ handled' = [handled EXCEPT ![r] = TRUE]
     ELSE Send(r, ctx[r], "hdel", "hdel", None)
  /\ UNCHANGED <<now, store, seen>>

(* The reply to HDEL in revoke().                                          *)
Deleted(r) ==
  /\ pc[r] = "hdel" /\ reply[r].ready
  /\ After(r, LoggedOut(ctx[r]))
  /\ handled' = [handled EXCEPT ![r] = TRUE]
  /\ UNCHANGED <<now, store, seen>>

(* The reply to HSET: 0 if the user had a session, which it replaces.      *)
Saved(r) ==
  /\ pc[r] = "hset" /\ reply[r].ready
  /\ After(r, IF reply[r].n = 1 THEN ctx[r] ELSE Unauthenticated(ctx[r]))
  /\ handled' = [handled EXCEPT ![r] = TRUE]
  /\ UNCHANGED <<now, store, seen>>

(* A slip: the command is not limited in time.                             *)
WaitsOn(r) == FALSE /\ UNCHANGED vars

(* A slip: what Redis throws is ignored by the handler.                    *)
ThrowIgnored(r) ==
  /\ Waiting(r) /\ ~reply[r].ready
  /\ IF pc[r] = "hset" THEN After(r, ctx[r]) ELSE Answer(r, ctx[r], 500, None)
  /\ UNCHANGED <<now, store, seen, handled>>

(* The connection, the send or the reply fails or times out: conn() or the *)
(* command throws, and no after() runs.                                    *)
Throw(r) ==
  /\ Waiting(r) /\ ~reply[r].ready
  /\ Answer(r, ctx[r], 500, None)
  /\ UNCHANGED <<now, store, seen, handled>>

-----------------------------------------------------------------------------
(* The Redis server and the clock: external.                               *)

(* Redis executes the command of r.  The reply is lost on a request that   *)
(* has given up; seen is a history of the entry of a user.                 *)
Redis(r) ==
  /\ wire[r] # None
  /\ \E c \in {wire[r]} :
       /\ store' = CASE c.op = "hset" -> [store EXCEPT ![c.user] = c.tok]
                     [] c.op = "hdel" -> [store EXCEPT ![c.user] = None]
                     [] OTHER -> store
       /\ reply' = IF ~Waiting(r) THEN reply ELSE [reply EXCEPT ![r] =
            [ready |-> TRUE,
             n   |-> IF c.op # "hget"
                       /\ (c.op = "hset") = (store[c.user] = None)
                     THEN 1 ELSE 0,
             tok |-> IF c.op = "hget" THEN store[c.user] ELSE None]]
       /\ seen' = [s \in Req |-> IF Waiting(s) /\ ctx[s].user = c.user
                                 THEN seen[s] \cup {store'[c.user]}
                                 ELSE seen[s]]
  /\ wire' = [wire EXCEPT ![r] = None]
  /\ UNCHANGED <<now, pc, ctx, answer, handled, known>>

Tick ==
  /\ now < MaxTime
  /\ now' = now + 1
  /\ UNCHANGED <<store, wire, reply, pc, ctx, answer, handled, known, seen>>

Shown(u) == {None} \cup {t \in known : t.aud = u}

(* The coroutine of r goes on.                                             *)
Resumed(r) ==
  \/ Exists(r)
  \/ GetInBefore(r)
  \/ GetInResume(r)
  \/ Deleted(r)
  \/ Saved(r)
  \/ Throw(r)

Next ==
  \/ \E r \in Req, u \in User :
       \/ \E route \in Protected, tok \in Shown(u) : Begin(r, route, u, tok)
       \/ \E route \in Route \ Protected : Begin(r, route, u, None)
  \/ \E r \in Req : Resumed(r)
  \/ \E r \in Req : Redis(r)
  \/ Tick

Spec == Init /\ [][Next]_vars

(* Coroutines that are resumed run on, and every command has a time-out.   *)
(* Nothing is asked of Redis and of the network.                           *)
FairSpec == Spec /\ \A r \in Req : WF_vars(Resumed(r))

-----------------------------------------------------------------------------
(* The contexts, commands and answers are what the code says they are, and *)
(* a token only ever goes out with the context it belongs to.              *)
TypeOK ==
  /\ now \in 0 .. MaxTime
  /\ store \in [User -> Token \cup {None}]
  /\ wire \in [Req -> Command \cup {None}]
  /\ reply \in [Req -> Reply]
  /\ pc \in [Req -> {"new", "exists", "get", "hset", "hdel", "done"}]
  /\ ctx \in [Req -> [route : Route, user : User, token : Token \cup {None},
                      at : 0 .. MaxTime, revoked : SUBSET (Token \cup {None}),
                      sendTok : BOOLEAN, requestAuth : BOOLEAN]]
  /\ answer \in [Req -> [status : {0, 200, 401, 500},
                         token : Token \cup {None}]]
  /\ handled \in [Req -> BOOLEAN]
  /\ known \subseteq Token
  /\ \A r \in Req : \A t \in seen[r] : t \in Token \cup {None}
  /\ \A r \in Req : answer[r].token # None =>
       answer[r].token = ctx[r].token /\ ctx[r].sendTok

(* The request r is a login that made tok.                                 *)
Made(r, tok) == ctx[r].route = "login" /\ ctx[r].token = tok

MadeTwice(tok) ==
  \E r, s \in Req : r # s /\ Made(r, tok) /\ Made(s, tok)

(* A protected route is handled only for a token that had not expired and  *)
(* that the hash held at some moment while the request was served, which   *)
(* JwtSession::before reads in two commands and compares later.  A token   *)
(* revoked by a logout that was answered with 200 before the request began *)
(* opens nothing more, unless two logins in the same second made it: then  *)
(* the HSET of one may run behind the HDEL, even if it has given up.       *)
HandledIsCurrent ==
  \A r \in Req : handled[r] /\ ctx[r].route \in Protected =>
    /\ ctx[r].token \in seen[r]
    /\ ctx[r].token.exp >= ctx[r].at
    /\ ctx[r].token \in ctx[r].revoked => MadeTwice(ctx[r].token)

(* A token that is handed out is one the hash held while the request was   *)
(* served, and that had not expired when it began (both authorize()).      *)
SentIsStored ==
  \A r \in Req : answer[r].token # None =>
    /\ answer[r].token \in seen[r]
    /\ answer[r].token.exp > ctx[r].at

(* A logout that reports success has deleted the session, whatever logins  *)
(* and logouts of the same user ran in between (revoke()).  That it stays  *)
(* deleted is not said: see HandledIsCurrent.                              *)
LogoutTakesEffect ==
  \A r \in Req : answer[r].status = 200 /\ ctx[r].route = "logout" =>
    None \in seen[r]

(* A page is refused only for a reason: the token was missing or expired   *)
(* when the request began, or it was not the user's session all the time.  *)
RefusedWithReason ==
  \A r \in Req :
    answer[r].status = 401 /\ ctx[r].route \in Protected
      /\ ctx[r].token # None /\ ctx[r].token.exp >= ctx[r].at
    => seen[r] # {ctx[r].token}

(* Every request is answered, even if Redis never replies.                 *)
Answered == \A r \in Req : Waiting(r) ~> pc[r] = "done"
=============================================================================
