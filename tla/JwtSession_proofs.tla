------------------------- MODULE JwtSession_proofs -------------------------
(***************************************************************************)
(* The safety properties of JwtSession for any number of requests and      *)
(* users and any expiry.  The inductive invariant IInv says, for every     *)
(* place a request can wait at, what its context, its command and the      *)
(* reply to it have to do with the history of the user's entry.  A second  *)
(* one, RInv, follows what logins have made and logouts have revoked.      *)
(***************************************************************************)
EXTENDS JwtSession, TLAPS

(* Types, without the last conjunct of TypeOK.                             *)
Types ==
  /\ now \in 0 .. MaxTime
  /\ store \in [User -> Token \cup {None}]
  /\ wire \in [Req -> Command \cup {None}]
  /\ reply \in [Req -> Reply]
  /\ pc \in [Req -> {"new", "exists", "get", "hset", "hdel", "done"}]
  /\ ctx \in [Req -> [route : Route, user : User, token : Token \cup {None},
                      at : 0 .. MaxTime, revoked : SUBSET (Token \cup {None}),
                      sendTok : BOOLEAN, requestAuth : BOOLEAN]]
  /\ answer \in [Req -> [status : {0, 200, 401, 500},
                         token : Token \cup {None}]]
  /\ handled \in [Req -> BOOLEAN]
  /\ known \subseteq Token
  /\ seen \in [Req -> SUBSET (Token \cup {None})]

(* Nothing has been answered, and no flag is set that a login did not set. *)
Unanswered(r) ==
  /\ ~handled[r]
  /\ answer[r] = NoAnswerYet
  /\ ~ctx[r].requestAuth
  /\ ctx[r].sendTok => pc[r] = "hset"

(* The command of a request is the one it waits for.                       *)
OpOf(at) == IF at = "exists" THEN "hexists"
            ELSE IF at = "get" THEN "hget" ELSE at

OwnCommand(r) ==
  wire[r] # None =>
    /\ wire[r].user = ctx[r].user
    /\ wire[r].op = OpOf(pc[r])
    /\ pc[r] = "hset" => wire[r].tok = ctx[r].token

(* Where the request waits, and what brought it there.                     *)
Place(r) ==
  /\ pc[r] \in {"exists", "get"} => ctx[r].route # "login"
  /\ pc[r] = "hset" => /\ ctx[r].route = "login" /\ ctx[r].token # None
                       /\ ctx[r].token.exp > ctx[r].at
  /\ pc[r] = "hdel" => /\ ctx[r].route \in {"logout", "resume"}
                       /\ ctx[r].route = "logout" => ctx[r].token \in seen[r]
  /\ ctx[r].route \in Protected =>
       ctx[r].token # None /\ ctx[r].token.exp >= ctx[r].at

(* What a reply says was true of the user's entry.                         *)
ReplySeen(r) ==
  reply[r].ready =>
    /\ pc[r] = "exists" /\ reply[r].n = 0 => None \in seen[r]
    /\ pc[r] = "get" => reply[r].tok \in seen[r]
    /\ pc[r] = "hset" => ctx[r].token \in seen[r]
    /\ pc[r] = "hdel" => None \in seen[r]

Open(r) ==
  /\ ctx[r].at <= now
  /\ pc[r] # "done" => Unanswered(r)
  /\ Waiting(r) => OwnCommand(r) /\ Place(r) /\ ReplySeen(r)

(* What holds of an answer: the properties of one request.                 *)
Closed(r) ==
  /\ answer[r].token # None =>
       answer[r].token = ctx[r].token /\ ctx[r].sendTok
  /\ handled[r] /\ ctx[r].route \in Protected =>
       /\ ctx[r].token \in seen[r]
       /\ ctx[r].token.exp >= ctx[r].at
  /\ answer[r].token # None =>
       /\ answer[r].token \in seen[r]
       /\ answer[r].token.exp > ctx[r].at
  /\ answer[r].status = 200 /\ ctx[r].route = "logout" => None \in seen[r]
  /\ answer[r].status = 401 /\ ctx[r].route \in Protected
       /\ ctx[r].token # None /\ ctx[r].token.exp >= ctx[r].at
     => seen[r] # {ctx[r].token}

IInv == Types /\ \A r \in Req : Open(r) /\ Closed(r)

-----------------------------------------------------------------------------
LEMMA TokenNotNone == None \notin Token
BY NoneAssumption, TimeAssumption DEF Token

LEMMA InitIInv == Init => IInv
<1> SUFFICES ASSUME Init PROVE IInv
  OBVIOUS
<1>1. PICK u \in User : ctx = [r \in Req |->
       [route |-> "page", user |-> u, token |-> None, at |-> 0,
        revoked |-> {}, sendTok |-> FALSE, requestAuth |-> FALSE]]
  BY DEF Init
<1>2. Types
  BY <1>1, TimeAssumption DEF Init, Types, NoReply, NoAnswerYet, Reply, Route,
     Protected
<1>3. ASSUME NEW r \in Req PROVE Open(r) /\ Closed(r)
  BY <1>1 DEF Init, Open, Closed, Unanswered, Waiting, NoAnswerYet
<1> QED
  BY <1>2, <1>3 DEF IInv

(* Requests other than the one that takes a step.                          *)
LEMMA Others ==
  ASSUME NEW r \in Req, Types, Open(r), Closed(r), now <= now', now' \in Int,
         pc'[r] = pc[r], ctx'[r] = ctx[r], wire'[r] = wire[r],
         reply'[r] = reply[r], answer'[r] = answer[r],
         handled'[r] = handled[r], seen'[r] = seen[r]
  PROVE  Open(r)' /\ Closed(r)'
<1>1. ctx[r].at \in Int /\ now \in Int
  BY DEF Types
<1>2. Open(r)'
  BY <1>1 DEF Open, Unanswered, Waiting, OwnCommand, Place, ReplySeen
<1>3. Closed(r)'
  BY DEF Closed
<1> QED
  BY <1>2, <1>3

Contexts == [route : Route, user : User, token : Token \cup {None},
             at : 0 .. MaxTime, revoked : SUBSET (Token \cup {None}),
             sendTok : BOOLEAN, requestAuth : BOOLEAN]

(* A command is sent: what has to hold of it and of the context c.         *)
LEMMA SendKeeps ==
  ASSUME IInv, NEW r \in Req, NEW c \in Contexts,
         NEW at \in {"exists", "get", "hset", "hdel"}, NEW op,
         NEW tok \in Token \cup {None},
         Send(r, c, at, op, tok), op = OpOf(at),
         UNCHANGED <<now, store>>,
         seen' \in [Req -> SUBSET (Token \cup {None})],
         \A s \in Req \ {r} : seen'[s] = seen[s],
         pc[r] # "done",
         c.at <= now, ~c.requestAuth, c.sendTok => at = "hset",
         at \in {"exists", "get"} => c.route # "login",
         at = "hset" => /\ c.route = "login" /\ c.token # None
                        /\ c.token.exp > c.at /\ tok = c.token,
         at = "hdel" => /\ c.route \in {"logout", "resume"}
                        /\ c.route = "logout" => c.token \in seen'[r],
         c.route \in Protected => c.token # None /\ c.token.exp >= c.at
  PROVE  IInv'
<1>1. Types
  BY DEF IInv
<1>2. op \in {"hexists", "hget", "hset", "hdel"}
  BY DEF OpOf
<1>3. [op |-> op, user |-> c.user, tok |-> tok] \in Command
  BY <1>2 DEF Contexts, Command
<1>4. Types'
  BY <1>1, <1>3 DEF Types, Send, Contexts, NoReply, Reply
<1>5. ASSUME NEW s \in Req \ {r} PROVE Open(s)' /\ Closed(s)'
  <2>1. Open(s) /\ Closed(s) /\ now <= now' /\ now' \in Int
    BY <1>1 DEF IInv, Types
  <2>2. /\ pc'[s] = pc[s] /\ ctx'[s] = ctx[s] /\ wire'[s] = wire[s]
        /\ reply'[s] = reply[s] /\ answer'[s] = answer[s]
        /\ handled'[s] = handled[s] /\ seen'[s] = seen[s]
    BY <1>1 DEF Send, Types
  <2> QED
    BY <1>1, <2>1, <2>2, Others
<1>6. /\ pc'[r] = at /\ ctx'[r] = c /\ reply'[r] = NoReply
      /\ wire'[r] = [op |-> op, user |-> c.user, tok |-> tok]
      /\ answer'[r] = NoAnswerYet /\ handled'[r] = FALSE /\ now' = now
  BY <1>1 DEF Send, Types, IInv, Open, Unanswered
<1>7. Open(r)'
  <2>1. Unanswered(r)'
    BY <1>6 DEF Unanswered
  <2>2. OwnCommand(r)'
    BY <1>6 DEF OwnCommand
  <2>3. Place(r)'
    BY <1>6 DEF Place
  <2>4. ReplySeen(r)'
    BY <1>6 DEF ReplySeen, NoReply
  <2> QED
    BY <1>6, <2>1, <2>2, <2>3, <2>4 DEF Open
<1>8. Closed(r)'
  BY <1>6 DEF Closed, NoAnswerYet
<1> QED
  BY <1>4, <1>5, <1>7, <1>8 DEF IInv

(* A response goes out: what has to hold of it and of the context c.       *)
LEMMA AnswerKeeps ==
  ASSUME IInv, NEW r \in Req, NEW c \in Contexts,
         NEW status \in {200, 401, 500}, NEW tok \in Token \cup {None},
         Answer(r, c, status, tok), handled' \in [Req -> BOOLEAN],
         \A s \in Req \ {r} : handled'[s] = handled[s],
         UNCHANGED <<now, store>>,
         seen' \in [Req -> SUBSET (Token \cup {None})],
         \A s \in Req \ {r} : seen'[s] = seen[s],
         c.at <= now,
         tok # None => /\ tok = c.token /\ c.sendTok
                       /\ tok \in seen'[r] /\ tok.exp > c.at,
         handled'[r] /\ c.route \in Protected =>
           c.token \in seen'[r] /\ c.token.exp >= c.at,
         status = 200 /\ c.route = "logout" => None \in seen'[r],
         status = 401 /\ c.route \in Protected
           /\ c.token # None /\ c.token.exp >= c.at
         => seen'[r] # {c.token}
  PROVE  IInv'
<1>1. Types
  BY DEF IInv
<1>4. Types'
  BY <1>1 DEF Types, Answer, Contexts, NoReply, Reply
<1>5. ASSUME NEW s \in Req \ {r} PROVE Open(s)' /\ Closed(s)'
  <2>1. Open(s) /\ Closed(s) /\ now <= now' /\ now' \in Int
    BY <1>1 DEF IInv, Types
  <2>2. /\ pc'[s] = pc[s] /\ ctx'[s] = ctx[s] /\ wire'[s] = wire[s]
        /\ reply'[s] = reply[s] /\ answer'[s] = answer[s]
        /\ handled'[s] = handled[s] /\ seen'[s] = seen[s]
    BY <1>1 DEF Answer, Types
  <2> QED
    BY <1>1, <2>1, <2>2, Others
<1>6. /\ pc'[r] = "done" /\ ctx'[r] = c /\ now' = now
      /\ answer'[r] = [status |-> status, token |-> tok]
  BY <1>1 DEF Answer, Types
<1>7. Open(r)'
  BY <1>6 DEF Open, Waiting
<1>8. Closed(r)'
  BY <1>6 DEF Closed
<1> QED
  BY <1>4, <1>5, <1>7, <1>8 DEF IInv

(* What the invariant says of a request that is about to go on.            *)
LEMMA WaitingFacts ==
  ASSUME IInv, NEW r \in Req, pc[r] \in {"exists", "get", "hset", "hdel"}
  PROVE  /\ ctx[r] \in Contexts /\ ctx[r].at <= now
         /\ ctx[r].at \in Int /\ now \in Int
         /\ Unanswered(r) /\ Place(r) /\ ReplySeen(r) /\ OwnCommand(r)
         /\ reply[r] \in Reply
         /\ seen \in [Req -> SUBSET (Token \cup {None})]
         /\ handled \in [Req -> BOOLEAN]
<1>1. Types /\ Open(r)
  BY DEF IInv
<1> QED
  BY <1>1 DEF Types, Open, Waiting, Contexts

(* The same for the after() of the middlewares.                            *)
LEMMA AfterKeeps ==
  ASSUME IInv, NEW r \in Req, NEW c \in Contexts, After(r, c),
         handled' \in [Req -> BOOLEAN],
         \A s \in Req \ {r} : handled'[s] = handled[s],
         UNCHANGED <<now, store, seen>>, c.at <= now,
         c.sendTok => c.token \in seen[r] /\ c.token.exp > c.at,
         handled'[r] /\ c.route \in Protected =>
           c.token \in seen[r] /\ c.token.exp >= c.at,
         c.route = "logout" => None \in seen[r] \/ c.requestAuth,
         c.route = "logout" => ~c.sendTok,
         c.requestAuth /\ c.route \in Protected /\ c.token # None
           => seen[r] # {c.token}
  PROVE  IInv'
<1>1. /\ seen' \in [Req -> SUBSET (Token \cup {None})]
      /\ \A s \in Req \ {r} : seen'[s] = seen[s]
      /\ UNCHANGED <<now, store>> /\ seen'[r] = seen[r]
  BY DEF IInv, Types
<1>2. c.token \in Token \cup {None} /\ None \in Token \cup {None}
  BY DEF Contexts
<1>3. CASE c.sendTok
  <2>1. PICK st \in {200, 401, 500} : st = 200
    OBVIOUS
  <2>2. Answer(r, c, st, c.token) /\ st # 401
    BY <1>3, <2>1 DEF After
  <2> QED
    BY <1>1, <1>2, <1>3, <2>2, AnswerKeeps
<1>4. CASE ~c.sendTok /\ c.requestAuth
  <2>1. PICK st \in {200, 401, 500} : st = 401
    OBVIOUS
  <2>2. Answer(r, c, st, None) /\ st # 200
    BY <1>4, <2>1 DEF After
  <2> QED
    BY <1>1, <1>2, <1>4, <2>2, AnswerKeeps
<1>5. CASE ~c.sendTok /\ ~c.requestAuth
  <2>1. PICK st \in {200, 401, 500} : st = 200
    OBVIOUS
  <2>2. Answer(r, c, st, None) /\ st # 401
    BY <1>5, <2>1 DEF After
  <2> QED
    BY <1>1, <1>2, <1>5, <2>2, AnswerKeeps
<1> QED
  BY <1>3, <1>4, <1>5

(* An error: conn() or a command throws.                                   *)
LEMMA FailKeeps ==
  ASSUME IInv, NEW r \in Req, Waiting(r), Answer(r, ctx[r], 500, None),
         UNCHANGED <<now, store, seen, handled>>
  PROVE  IInv'
<1>1. Types /\ Open(r)
  BY DEF IInv
<1>2. ctx[r] \in Contexts /\ ctx[r].at <= now /\ ~handled[r]
  BY <1>1 DEF Types, Open, Contexts, Unanswered, Waiting
<1>3. /\ handled' \in [Req -> BOOLEAN] /\ ~handled'[r]
      /\ \A s \in Req \ {r} : handled'[s] = handled[s]
      /\ seen' \in [Req -> SUBSET (Token \cup {None})]
      /\ \A s \in Req \ {r} : seen'[s] = seen[s]
      /\ UNCHANGED <<now, store>>
  BY <1>1, <1>2 DEF Types
<1>4. PICK st \in {200, 401, 500} : st = 500
  OBVIOUS
<1>5. Answer(r, ctx[r], st, None) /\ st # 401 /\ st # 200
  BY <1>4
<1>6. None \in Token \cup {None}
  OBVIOUS
<1> QED
  BY <1>2, <1>3, <1>5, <1>6, AnswerKeeps

(* The context after a refusal, a revocation and an authorization.         *)
LEMMA Flags ==
  ASSUME NEW c \in Contexts
  PROVE  /\ Unauthenticated(c) \in Contexts
         /\ Unauthenticated(c).route = c.route
         /\ Unauthenticated(c).token = c.token
         /\ Unauthenticated(c).at = c.at
         /\ ~Unauthenticated(c).sendTok /\ Unauthenticated(c).requestAuth
         /\ LoggedOut(c) \in Contexts
         /\ LoggedOut(c).route = c.route
         /\ LoggedOut(c).token = c.token
         /\ LoggedOut(c).at = c.at
         /\ ~LoggedOut(c).sendTok
         /\ LoggedOut(c).requestAuth = c.requestAuth
BY DEF Unauthenticated, LoggedOut, Contexts

LEMMA AuthorizedFlags ==
  ASSUME NEW c \in Contexts, NEW tok \in Token
  PROVE  /\ Authorized(c, tok) \in Contexts
         /\ Authorized(c, tok).route = c.route
         /\ Authorized(c, tok).token = tok
         /\ Authorized(c, tok).at = c.at
         /\ ~Authorized(c, tok).requestAuth
BY DEF Authorized, Contexts

LEMMA BeginKeeps ==
  ASSUME IInv, NEW r \in Req, NEW route \in Route, NEW u \in User,
         NEW tok \in Token \cup {None}, Begin(r, route, u, tok)
  PROVE  IInv'
<1> DEFINE new == [ctx[r] EXCEPT !.route = route, !.user = u, !.token = tok,
                                 !.at = now, !.revoked = Revoked]
<1>1. PICK c : c = new
  OBVIOUS
<1>2. Types /\ Open(r)
  BY DEF IInv
<1>3. pc[r] = "new" /\ Unanswered(r)
  BY <1>2 DEF Begin, Open
<1>4. /\ ctx[r] \in Contexts /\ now \in 0 .. MaxTime
      /\ Revoked \subseteq Token \cup {None}
  BY <1>2 DEF Types, Contexts, Revoked
<1>5. /\ c \in Contexts /\ c.route = route /\ c.user = u /\ c.token = tok
      /\ c.at = now
  BY <1>1, <1>4 DEF Contexts
<1>6. c.sendTok = ctx[r].sendTok /\ c.requestAuth = ctx[r].requestAuth
  BY <1>1, <1>4 DEF Contexts
<1>7. ~c.sendTok /\ ~c.requestAuth
  BY <1>3, <1>6 DEF Unanswered
<1>8. /\ seen' \in [Req -> SUBSET (Token \cup {None})]
      /\ \A s \in Req \ {r} : seen'[s] = seen[s]
      /\ UNCHANGED <<now, store>>
  BY <1>2 DEF Begin, Types
<1>9. now \in Int /\ c.at <= now
  BY <1>4, <1>5
<1>10. IF route \in Protected /\ (tok = None \/ Expired(tok))
       THEN Answer(r, c, 401, None) /\ UNCHANGED handled
       ELSE IF route = "login" THEN Login(r, c)
       ELSE Send(r, c, "exists", "hexists", None)
  BY <1>1 DEF Begin
<1> HIDE DEF new
<1>11. CASE route \in Protected /\ (tok = None \/ Expired(tok))
  <2>1. PICK st \in {200, 401, 500} : st = 401
    OBVIOUS
  <2>2. /\ handled' \in [Req -> BOOLEAN] /\ ~handled'[r]
        /\ \A s \in Req \ {r} : handled'[s] = handled[s]
    BY <1>2, <1>3, <1>10, <1>11 DEF Types, Unanswered
  <2>3. ~(c.token # None /\ c.token.exp >= c.at)
    BY <1>5, <1>9, <1>11 DEF Expired, Token
  <2>4. Answer(r, c, st, None) /\ st # 200
    BY <1>10, <1>11, <2>1
  <2>5. None \in Token \cup {None}
    OBVIOUS
  <2> QED
    BY <1>5, <1>8, <1>9, <2>2, <2>3, <2>4, <2>5, AnswerKeeps
<1>12. CASE ~(route \in Protected /\ (tok = None \/ Expired(tok)))
            /\ route = "login"
  <2>1. Send(r, Authorized(c, Fresh(u)), "hset", "hset", Fresh(u))
    BY <1>5, <1>10, <1>12 DEF Login
  <2>2. Fresh(u) \in Token /\ Fresh(u).exp > now
    BY <1>4, TimeAssumption DEF Fresh, Token
  <2>3. PICK d : d = Authorized(c, Fresh(u))
    OBVIOUS
  <2>4. /\ d \in Contexts /\ d.route = "login" /\ d.token = Fresh(u)
        /\ d.at = now /\ ~d.requestAuth
    BY <1>5, <1>12, <2>2, <2>3 DEF Authorized, Contexts
  <2>5. Fresh(u) # None
    BY <2>2, TokenNotNone
  <2>6. d.route \notin Protected /\ d.route \notin {"logout", "resume"}
    BY <2>4 DEF Protected
  <2>7. "hset" = OpOf("hset")
    BY DEF OpOf
  <2>8. Send(r, d, "hset", "hset", Fresh(u)) /\ Fresh(u) \in Token \cup {None}
    BY <2>1, <2>2, <2>3
  <2>9. d.at <= now /\ Fresh(u).exp > d.at
    BY <1>9, <2>2, <2>4
  <2>10. pc[r] # "done"
    BY <1>3
  <2> QED
    BY <1>8, <2>4, <2>5, <2>6, <2>7, <2>8, <2>9, <2>10, SendKeeps
<1>13. CASE ~(route \in Protected /\ (tok = None \/ Expired(tok)))
            /\ route # "login"
  <2>1. Send(r, c, "exists", "hexists", None)
    BY <1>10, <1>13
  <2>2. c.route \in Protected => c.token # None /\ c.token.exp >= c.at
    BY <1>5, <1>9, <1>13 DEF Expired, Token
  <2>3. "hexists" = OpOf("exists") /\ pc[r] # "done" /\ c.route # "login"
    BY <1>3, <1>5, <1>13 DEF OpOf
  <2>4. None \in Token \cup {None}
    OBVIOUS
  <2> QED
    BY <1>5, <1>7, <1>8, <1>9, <2>1, <2>2, <2>3, <2>4, SendKeeps
<1> QED
  BY <1>11, <1>12, <1>13

LEMMA ExistsKeeps ==
  ASSUME IInv, NEW r \in Req, Exists(r)
  PROVE  IInv'
<1>1. pc[r] = "exists" /\ reply[r].ready /\ UNCHANGED <<now, store, seen>>
  BY DEF Exists
<1>2. PICK c : c = ctx[r]
  OBVIOUS
<1>3. /\ c \in Contexts /\ c.at <= now
      /\ Unanswered(r) /\ Place(r) /\ ReplySeen(r)
      /\ seen \in [Req -> SUBSET (Token \cup {None})]
      /\ handled \in [Req -> BOOLEAN]
  BY <1>1, <1>2, WaitingFacts
<1>4. /\ ~c.requestAuth /\ ~c.sendTok /\ c.route # "login"
      /\ c.route \in Protected => c.token # None /\ c.token.exp >= c.at
  BY <1>1, <1>2, <1>3 DEF Unanswered, Place
<1>5. CASE reply[r].n = 1
  <2>1. Send(r, c, "get", "hget", None)
    BY <1>2, <1>5 DEF Exists
  <2>2. "hget" = OpOf("get") /\ None \in Token \cup {None}
    BY DEF OpOf
  <2>3. /\ seen' \in [Req -> SUBSET (Token \cup {None})]
        /\ \A s \in Req \ {r} : seen'[s] = seen[s]
        /\ UNCHANGED <<now, store>> /\ pc[r] # "done"
    BY <1>1, <1>3
  <2> QED
    BY <1>3, <1>4, <2>1, <2>2, <2>3, SendKeeps
<1>6. CASE reply[r].n # 1
  <2>1. None \in seen[r]
    <3>1. reply[r] \in Reply
      BY <1>1, WaitingFacts
    <3>2. reply[r].n = 0
      BY <1>6, <3>1 DEF Reply
    <3> QED
      BY <1>1, <1>3, <3>2 DEF ReplySeen
  <2>2. /\ handled' = [handled EXCEPT ![r] = c.route = "resume"]
        /\ After(r, IF c.route = "resume" THEN c ELSE Unauthenticated(c))
    BY <1>2, <1>6 DEF Exists
  <2>3. /\ handled' \in [Req -> BOOLEAN]
        /\ \A s \in Req \ {r} : handled'[s] = handled[s]
        /\ handled'[r] => c.route = "resume"
    BY <1>3, <2>2
  <2>4. c.route = "resume" => c.route \notin Protected /\ c.route # "logout"
    BY DEF Protected
  <2>5. CASE c.route = "resume"
    <3>1. After(r, c)
      BY <2>2, <2>5
    <3> QED
      BY <1>1, <1>3, <1>4, <2>3, <2>4, <2>5, <3>1, AfterKeeps
  <2>6. CASE c.route # "resume"
    <3>1. PICK d : d = Unauthenticated(c)
      OBVIOUS
    <3>2. /\ d \in Contexts /\ d.route = c.route /\ d.token = c.token
          /\ d.at = c.at /\ ~d.sendTok /\ d.requestAuth
      BY <1>3, <3>1, Flags
    <3>3. After(r, d) /\ d.at <= now /\ ~handled'[r]
      BY <1>3, <2>2, <2>3, <2>6, <3>1, <3>2
    <3>4. d.token # None => seen[r] # {d.token}
      BY <2>1
    <3> QED
      BY <1>1, <2>1, <2>3, <3>2, <3>3, <3>4, AfterKeeps
  <2> QED
    BY <2>5, <2>6
<1> QED
  BY <1>5, <1>6

LEMMA GetInBeforeKeeps ==
  ASSUME IInv, NEW r \in Req, GetInBefore(r)
  PROVE  IInv'
<1>1. /\ pc[r] = "get" /\ reply[r].ready /\ UNCHANGED <<now, store, seen>>
      /\ ctx[r].route \in Protected
  BY DEF GetInBefore
<1>2. PICK c : c = ctx[r]
  OBVIOUS
<1>3. /\ c \in Contexts /\ c.at <= now
      /\ Unanswered(r) /\ Place(r) /\ ReplySeen(r)
      /\ seen \in [Req -> SUBSET (Token \cup {None})]
      /\ handled \in [Req -> BOOLEAN]
  BY <1>1, <1>2, WaitingFacts
<1>4. /\ ~c.requestAuth /\ ~c.sendTok /\ c.route # "login" /\ ~handled[r]
      /\ c.token # None /\ c.token.exp >= c.at
      /\ reply[r].tok \in seen[r] /\ c.route \in Protected
  BY <1>1, <1>2, <1>3 DEF Unanswered, Place, ReplySeen
<1>5. CASE reply[r].tok = None
  <2>1. Answer(r, ctx[r], 500, None) /\ UNCHANGED <<now, store, seen, handled>>
    BY <1>1, <1>5 DEF GetInBefore
  <2> QED
    BY <1>1, <2>1, FailKeeps DEF Waiting
<1>6. CASE reply[r].tok # None /\ reply[r].tok = c.token
  <2>1. c.token \in seen[r]
    BY <1>4, <1>6
  <2>2. CASE c.route = "logout"
    <3>1. Send(r, c, "hdel", "hdel", None)
      BY <1>2, <1>6, <2>2 DEF GetInBefore, SameToken, Handle
    <3>2. "hdel" = OpOf("hdel") /\ None \in Token \cup {None}
      BY DEF OpOf
    <3>3. /\ seen' \in [Req -> SUBSET (Token \cup {None})]
          /\ \A s \in Req \ {r} : seen'[s] = seen[s]
          /\ UNCHANGED <<now, store>> /\ pc[r] # "done"
          /\ c.token \in seen'[r]
      BY <1>1, <1>3, <2>1
    <3> QED
      BY <1>3, <1>4, <2>2, <3>1, <3>2, <3>3, SendKeeps
  <2>3. CASE c.route # "logout"
    <3>1. After(r, c) /\ handled' = [handled EXCEPT ![r] = TRUE]
      BY <1>2, <1>6, <2>3 DEF GetInBefore, SameToken, Handle
    <3>2. /\ handled' \in [Req -> BOOLEAN]
          /\ \A s \in Req \ {r} : handled'[s] = handled[s]
      BY <1>3, <3>1
    <3> QED
      BY <1>1, <1>3, <1>4, <2>1, <2>3, <3>1, <3>2, AfterKeeps
  <2> QED
    BY <2>2, <2>3
<1>7. CASE reply[r].tok # None /\ reply[r].tok # c.token
  <2>1. PICK d : d = Unauthenticated(c)
    OBVIOUS
  <2>2. /\ d \in Contexts /\ d.route = c.route /\ d.token = c.token
        /\ d.at = c.at /\ ~d.sendTok /\ d.requestAuth
    BY <1>3, <2>1, Flags
  <2>3. After(r, d) /\ UNCHANGED handled
    BY <1>2, <1>7, <2>1 DEF GetInBefore, SameToken
  <2>4. /\ handled' \in [Req -> BOOLEAN] /\ ~handled'[r]
        /\ \A s \in Req \ {r} : handled'[s] = handled[s]
        /\ d.at <= now /\ seen[r] # {d.token}
    BY <1>3, <1>4, <1>7, <2>2, <2>3
  <2> QED
    BY <1>1, <2>2, <2>3, <2>4, AfterKeeps
<1> QED
  BY <1>5, <1>6, <1>7

LEMMA GetInResumeKeeps ==
  ASSUME IInv, NEW r \in Req, GetInResume(r)
  PROVE  IInv'
<1>1. /\ pc[r] = "get" /\ reply[r].ready /\ UNCHANGED <<now, store, seen>>
      /\ ctx[r].route = "resume"
  BY DEF GetInResume
<1>2. PICK c : c = ctx[r]
  OBVIOUS
<1>3. /\ c \in Contexts /\ c.at <= now /\ c.at \in Int /\ now \in Int
      /\ Unanswered(r) /\ ReplySeen(r) /\ reply[r] \in Reply
      /\ seen \in [Req -> SUBSET (Token \cup {None})]
      /\ handled \in [Req -> BOOLEAN]
  BY <1>1, <1>2, WaitingFacts
<1>4. /\ ~c.requestAuth /\ ~c.sendTok /\ c.route = "resume"
      /\ reply[r].tok \in seen[r] /\ reply[r].tok \in Token \cup {None}
      /\ c.route \notin Protected /\ c.route # "login" /\ c.route # "logout"
  BY <1>1, <1>2, <1>3 DEF Unanswered, ReplySeen, Reply, Protected
<1>5. CASE reply[r].tok = None
  <2>1. Answer(r, ctx[r], 500, None) /\ UNCHANGED <<now, store, seen, handled>>
    BY <1>1, <1>5 DEF GetInResume
  <2> QED
    BY <1>1, <2>1, FailKeeps DEF Waiting
<1>6. CASE reply[r].tok # None /\ reply[r].tok.exp > now
  <2>1. PICK d : d = Authorized(c, reply[r].tok)
    OBVIOUS
  <2>2. reply[r].tok \in Token
    BY <1>4, <1>6
  <2>3. /\ d \in Contexts /\ d.route = c.route /\ d.token = reply[r].tok
        /\ d.at = c.at /\ ~d.requestAuth
    BY <1>3, <2>1, <2>2, AuthorizedFlags
  <2>4. After(r, d) /\ handled' = [handled EXCEPT ![r] = TRUE]
    BY <1>2, <1>6, <2>1 DEF GetInResume
  <2>5. reply[r].tok.exp \in Int
    BY <2>2, TimeAssumption DEF Token
  <2>6. d.at <= now /\ d.token \in seen[r] /\ d.token.exp > d.at
    BY <1>3, <1>4, <1>6, <2>3, <2>5
  <2>7. /\ handled' \in [Req -> BOOLEAN]
        /\ \A s \in Req \ {r} : handled'[s] = handled[s]
    BY <1>3, <2>4
  <2> QED
    BY <1>1, <1>4, <2>3, <2>4, <2>6, <2>7, AfterKeeps
<1>7. CASE reply[r].tok # None /\ ~(reply[r].tok.exp > now)
  <2>1. Send(r, c, "hdel", "hdel", None)
    BY <1>2, <1>7 DEF GetInResume
  <2>2. "hdel" = OpOf("hdel") /\ None \in Token \cup {None}
    BY DEF OpOf
  <2>3. /\ seen' \in [Req -> SUBSET (Token \cup {None})]
        /\ \A s \in Req \ {r} : seen'[s] = seen[s]
        /\ UNCHANGED <<now, store>> /\ pc[r] # "done"
    BY <1>1, <1>3
  <2> QED
    BY <1>3, <1>4, <2>1, <2>2, <2>3, SendKeeps
<1> QED
  BY <1>5, <1>6, <1>7

LEMMA DeletedKeeps ==
  ASSUME IInv, NEW r \in Req, Deleted(r)
  PROVE  IInv'
<1>1. /\ pc[r] = "hdel" /\ reply[r].ready /\ UNCHANGED <<now, store, seen>>
      /\ handled' = [handled EXCEPT ![r] = TRUE]
  BY DEF Deleted
<1>2. PICK c : c = ctx[r]
  OBVIOUS
<1>3. /\ c \in Contexts /\ c.at <= now
      /\ Unanswered(r) /\ Place(r) /\ ReplySeen(r)
      /\ handled \in [Req -> BOOLEAN]
  BY <1>1, <1>2, WaitingFacts
<1>4. /\ ~c.requestAuth /\ None \in seen[r]
      /\ c.route = "logout" => c.token \in seen[r]
      /\ c.route \in {"logout", "resume"}
      /\ c.route \in Protected => c.token.exp >= c.at
  BY <1>1, <1>2, <1>3 DEF Unanswered, Place, ReplySeen
<1>5. c.route \in Protected => c.token \in seen[r]
  BY <1>4 DEF Protected
<1>6. PICK d : d = LoggedOut(c)
  OBVIOUS
<1>7. /\ d \in Contexts /\ d.route = c.route /\ d.token = c.token
      /\ d.at = c.at /\ ~d.sendTok /\ d.requestAuth = c.requestAuth
  BY <1>3, <1>6, Flags
<1>8. /\ handled' \in [Req -> BOOLEAN]
      /\ \A s \in Req \ {r} : handled'[s] = handled[s]
  BY <1>1, <1>3
<1>9. After(r, d) /\ d.at <= now /\ ~d.requestAuth
  BY <1>2, <1>3, <1>4, <1>6, <1>7 DEF Deleted
<1> QED
  BY <1>1, <1>4, <1>5, <1>7, <1>8, <1>9, AfterKeeps

LEMMA SavedKeeps ==
  ASSUME IInv, NEW r \in Req, Saved(r)
  PROVE  IInv'
<1>1. /\ pc[r] = "hset" /\ reply[r].ready /\ UNCHANGED <<now, store, seen>>
      /\ handled' = [handled EXCEPT ![r] = TRUE]
  BY DEF Saved
<1>2. PICK c : c = ctx[r]
  OBVIOUS
<1>3. /\ c \in Contexts /\ c.at <= now
      /\ Unanswered(r) /\ Place(r) /\ ReplySeen(r)
      /\ handled \in [Req -> BOOLEAN]
  BY <1>1, <1>2, WaitingFacts
<1>4. /\ ~c.requestAuth /\ c.token \in seen[r] /\ c.token.exp > c.at
      /\ c.route = "login"
  BY <1>1, <1>2, <1>3 DEF Unanswered, Place, ReplySeen
<1>5. c.route \notin Protected /\ c.route # "logout"
  BY <1>4 DEF Protected
<1>6. /\ handled' \in [Req -> BOOLEAN]
      /\ \A s \in Req \ {r} : handled'[s] = handled[s]
  BY <1>1, <1>3
<1>7. CASE reply[r].n = 1
  <2>1. After(r, c)
    BY <1>2, <1>7 DEF Saved
  <2> QED
    BY <1>1, <1>3, <1>4, <1>5, <1>6, <2>1, AfterKeeps
<1>8. CASE reply[r].n # 1
  <2>1. PICK d : d = Unauthenticated(c)
    OBVIOUS
  <2>2. /\ d \in Contexts /\ d.route = c.route /\ d.at = c.at /\ ~d.sendTok
    BY <1>3, <2>1, Flags
  <2>3. After(r, d) /\ d.at <= now
    BY <1>2, <1>3, <1>8, <2>1, <2>2 DEF Saved
  <2> QED
    BY <1>1, <1>5, <1>6, <2>2, <2>3, AfterKeeps
<1> QED
  BY <1>7, <1>8

LEMMA ThrowKeeps ==
  ASSUME IInv, NEW r \in Req, Throw(r)
  PROVE  IInv'
BY FailKeeps DEF Throw

(* A history that grows while a request waits, and nothing else.           *)
LEMMA SeenGrows ==
  ASSUME NEW r \in Req, Types, Open(r), Closed(r), UNCHANGED now,
         pc'[r] = pc[r], ctx'[r] = ctx[r], reply'[r] = reply[r],
         answer'[r] = answer[r], handled'[r] = handled[r],
         wire'[r] \in {wire[r], None},
         seen[r] \subseteq seen'[r], ~Waiting(r) => seen'[r] = seen[r]
  PROVE  Open(r)' /\ Closed(r)'
<1>1. Waiting(r)' <=> Waiting(r)
  BY DEF Waiting
<1>2. CASE Waiting(r)
  <2>1. Unanswered(r) /\ Unanswered(r)'
    BY <1>2 DEF Open, Waiting, Unanswered
  <2>2. OwnCommand(r)'
    BY <1>2 DEF Open, OwnCommand
  <2>3. Place(r)'
    BY <1>2 DEF Open, Place
  <2>4. ReplySeen(r)'
    BY <1>2 DEF Open, ReplySeen
  <2>5. Open(r)'
    BY <2>1, <2>2, <2>3, <2>4 DEF Open
  <2>6. Closed(r)'
    BY <2>1 DEF Closed, Unanswered, NoAnswerYet
  <2> QED
    BY <2>5, <2>6
<1>3. CASE ~Waiting(r)
  <2>1. Open(r)'
    BY <1>1, <1>3 DEF Open, Unanswered
  <2>2. Closed(r)'
    BY <1>3 DEF Closed
  <2> QED
    BY <2>1, <2>2
<1> QED
  BY <1>2, <1>3

(* Redis executes a command: the reply tells what the history records.     *)
LEMMA RedisKeeps ==
  ASSUME IInv, NEW r \in Req, Redis(r)
  PROVE  IInv'
<1>1. Types /\ Open(r) /\ Closed(r)
  BY DEF IInv
<1>2. PICK c \in {wire[r]} :
      /\ store' = CASE c.op = "hset" -> [store EXCEPT ![c.user] = c.tok]
                    [] c.op = "hdel" -> [store EXCEPT ![c.user] = None]
                    [] OTHER -> store
      /\ reply' = IF ~Waiting(r) THEN reply ELSE [reply EXCEPT ![r] =
            [ready |-> TRUE,
             n   |-> IF c.op # "hget"
                       /\ (c.op = "hset") = (store[c.user] = None)
                     THEN 1 ELSE 0,
             tok |-> IF c.op = "hget" THEN store[c.user] ELSE None]]
      /\ seen' = [s \in Req |-> IF Waiting(s) /\ ctx[s].user = c.user
                                THEN seen[s] \cup {store'[c.user]}
                                ELSE seen[s]]
  BY Zenon DEF Redis
<1>3. c = wire[r] /\ c # None /\ c \in Command
  BY <1>1 DEF Redis, Types
<1>4. /\ wire' = [wire EXCEPT ![r] = None]
      /\ UNCHANGED <<now, pc, ctx, answer, handled, known>>
  BY DEF Redis
<1>5. c.op \in {"hexists", "hget", "hset", "hdel"} /\ c.user \in User
      /\ c.tok \in Token \cup {None}
  BY <1>3 DEF Command
<1>6. /\ store \in [User -> Token \cup {None}]
      /\ store' \in [User -> Token \cup {None}]
  BY <1>1, <1>2, <1>5 DEF Types
<1>7. Types'
  <2>1. seen' \in [Req -> SUBSET (Token \cup {None})]
    BY <1>1, <1>2, <1>5, <1>6 DEF Types
  <2>2. reply' \in [Req -> Reply]
    <3>1. PICK n \in 0 .. 1 : n = IF c.op # "hget"
                       /\ (c.op = "hset") = (store[c.user] = None)
                     THEN 1 ELSE 0
      OBVIOUS
    <3>2. PICK t \in Token \cup {None} :
            t = IF c.op = "hget" THEN store[c.user] ELSE None
      BY <1>5, <1>6
    <3>3. [ready |-> TRUE, n |-> n, tok |-> t] \in Reply
      BY DEF Reply
    <3>4. reply' = IF ~Waiting(r) THEN reply
                   ELSE [reply EXCEPT ![r] = [ready |-> TRUE, n |-> n, tok |-> t]]
      BY <1>2, <3>1, <3>2
    <3> QED
      BY <1>1, <3>3, <3>4 DEF Types
  <2> QED
    BY <1>1, <1>4, <1>6, <2>1, <2>2 DEF Types
<1>8. \A s \in Req : /\ seen[s] \subseteq seen'[s]
                     /\ ~Waiting(s) => seen'[s] = seen[s]
  BY <1>2
<1>9. ASSUME NEW s \in Req, s # r \/ ~Waiting(r) PROVE Open(s)' /\ Closed(s)'
  <2>1. /\ pc'[s] = pc[s] /\ ctx'[s] = ctx[s] /\ answer'[s] = answer[s]
        /\ handled'[s] = handled[s] /\ UNCHANGED now
    BY <1>4
  <2>2. reply'[s] = reply[s] /\ wire'[s] \in {wire[s], None}
    BY <1>1, <1>2, <1>4, <1>9 DEF Types
  <2>3. Open(s) /\ Closed(s)
    BY DEF IInv
  <2> QED
    BY <1>1, <1>8, <2>1, <2>2, <2>3, SeenGrows
<1>10. ASSUME Waiting(r) PROVE Open(r)' /\ Closed(r)'
  <2>1. /\ Unanswered(r) /\ OwnCommand(r) /\ Place(r)
    BY <1>1, <1>10 DEF Open, Waiting
  <2>2. /\ c.user = ctx[r].user /\ c.op = OpOf(pc[r])
        /\ pc[r] = "hset" => c.tok = ctx[r].token
    BY <1>3, <2>1 DEF OwnCommand
  <2>3. store'[ctx[r].user] \in seen'[r]
    BY <1>2, <1>10, <2>2
  <2>4. /\ pc'[r] = pc[r] /\ ctx'[r] = ctx[r] /\ answer'[r] = answer[r]
        /\ handled'[r] = handled[r] /\ now' = now /\ wire'[r] = None
    BY <1>1, <1>4 DEF Types
  <2>5. Unanswered(r)'
    BY <2>1, <2>4 DEF Unanswered
  <2>6. OwnCommand(r)'
    BY <2>4 DEF OwnCommand
  <2>7. Place(r)'
    BY <1>8, <2>1, <2>4 DEF Place
  <2>8. /\ reply'[r].n = IF c.op # "hget"
                         /\ (c.op = "hset") = (store[c.user] = None)
                       THEN 1 ELSE 0
        /\ reply'[r].tok = IF c.op = "hget" THEN store[c.user] ELSE None
    BY <1>1, <1>2, <1>10 DEF Types
  <2>9. pc[r] = "exists" /\ reply'[r].n = 0 => None \in seen'[r]
    <3> SUFFICES ASSUME pc[r] = "exists", reply'[r].n = 0
                 PROVE  None \in seen'[r]
      OBVIOUS
    <3>1. c.op = "hexists"
      BY <2>2 DEF OpOf
    <3>2. store' = store
      BY <1>2, <3>1
    <3>3. store[c.user] = None
      BY <2>8, <3>1
    <3> QED
      BY <2>2, <2>3, <3>2, <3>3
  <2>10. pc[r] = "get" => reply'[r].tok \in seen'[r]
    <3> SUFFICES ASSUME pc[r] = "get" PROVE reply'[r].tok \in seen'[r]
      OBVIOUS
    <3>1. c.op = "hget"
      BY <2>2 DEF OpOf
    <3>2. store' = store
      BY <1>2, <3>1
    <3> QED
      BY <2>2, <2>3, <2>8, <3>1, <3>2
  <2>11. pc[r] = "hset" => ctx[r].token \in seen'[r]
    <3> SUFFICES ASSUME pc[r] = "hset" PROVE ctx[r].token \in seen'[r]
      OBVIOUS
    <3>1. c.op = "hset"
      BY <2>2 DEF OpOf
    <3>2. store'[c.user] = c.tok
      BY <1>2, <1>5, <1>6, <3>1
    <3> QED
      BY <2>2, <2>3, <3>2
  <2>12. pc[r] = "hdel" => None \in seen'[r]
    <3> SUFFICES ASSUME pc[r] = "hdel" PROVE None \in seen'[r]
      OBVIOUS
    <3>1. c.op = "hdel"
      BY <2>2 DEF OpOf
    <3>2. store'[c.user] = None
      BY <1>2, <1>5, <1>6, <3>1
    <3> QED
      BY <2>2, <2>3, <3>2
  <2>13. ReplySeen(r)'
    BY <2>4, <2>9, <2>10, <2>11, <2>12 DEF ReplySeen
  <2>14. Open(r)'
    BY <1>1, <2>4, <2>5, <2>6, <2>7, <2>13 DEF Open
  <2>15. Closed(r)'
    BY <2>5 DEF Closed, Unanswered, NoAnswerYet
  <2> QED
    BY <2>14, <2>15
<1> QED
  BY <1>7, <1>9, <1>10 DEF IInv

LEMMA TickKeeps ==
  ASSUME IInv, Tick
  PROVE  IInv'
<1>1. Types
  BY DEF IInv
<1>2. now' \in 0 .. MaxTime /\ now <= now' /\ now' \in Int
  BY <1>1, TimeAssumption DEF Types, Tick
<1>3. Types'
  BY <1>1, <1>2 DEF Types, Tick
<1>4. ASSUME NEW r \in Req PROVE Open(r)' /\ Closed(r)'
  <2>1. Open(r) /\ Closed(r)
    BY DEF IInv
  <2> QED
    BY <1>1, <1>2, <2>1, Others DEF Tick
<1> QED
  BY <1>3, <1>4 DEF IInv

LEMMA StutterKeeps ==
  ASSUME IInv, UNCHANGED vars
  PROVE  IInv'
<1>1. Types
  BY DEF IInv
<1>2. Types' /\ now <= now' /\ now' \in Int
  BY <1>1 DEF Types, vars
<1>3. ASSUME NEW r \in Req PROVE Open(r)' /\ Closed(r)'
  <2>1. Open(r) /\ Closed(r)
    BY DEF IInv
  <2> QED
    BY <1>1, <1>2, <2>1, Others DEF vars
<1> QED
  BY <1>2, <1>3 DEF IInv

LEMMA NextKeeps ==
  ASSUME IInv, [Next]_vars
  PROVE  IInv'
<1>1. Types
  BY DEF IInv
<1>2. ASSUME NEW r \in Req, NEW u \in User, NEW route \in Protected,
             NEW tok \in Shown(u), Begin(r, route, u, tok)
      PROVE  IInv'
  <2>1. tok \in Token \cup {None} /\ route \in Route
    BY <1>1 DEF Types, Shown, Route
  <2> QED
    BY <1>2, <2>1, BeginKeeps
<1>3. ASSUME NEW r \in Req, NEW u \in User, NEW route \in Route \ Protected,
             Begin(r, route, u, None)
      PROVE  IInv'
  BY <1>3, BeginKeeps
<1>4. ASSUME NEW r \in Req, Resumed(r)
      PROVE  IInv'
  BY <1>4, ExistsKeeps, GetInBeforeKeeps, GetInResumeKeeps, DeletedKeeps,
     SavedKeeps, ThrowKeeps DEF Resumed
<1> QED
  BY <1>2, <1>3, <1>4, RedisKeeps, TickKeeps, StutterKeeps DEF Next

-----------------------------------------------------------------------------
(* The invariant holds in every reachable state.                           *)
THEOREM Safe == Spec => []IInv
<1>1. Init => IInv
  BY InitIInv
<1>2. IInv /\ [Next]_vars => IInv'
  BY NextKeeps
<1> QED
  BY <1>1, <1>2, PTL DEF Spec

(* Contexts, commands and answers keep their types, and a token goes out   *)
(* only with the context that Context::authorize made for it.              *)
THEOREM TypeCorrect == Spec => []TypeOK
<1>1. IInv => TypeOK
  <2> SUFFICES ASSUME IInv PROVE TypeOK
    OBVIOUS
  <2>1. Types /\ \A r \in Req : Closed(r)
    BY DEF IInv
  <2>2. \A r \in Req : \A t \in seen[r] : t \in Token \cup {None}
    BY <2>1 DEF Types
  <2>3. \A r \in Req : answer[r].token # None =>
          answer[r].token = ctx[r].token /\ ctx[r].sendTok
    BY <2>1 DEF Closed
  <2> QED
    BY <2>1, <2>2, <2>3 DEF TypeOK, Types
<1> QED
  BY <1>1, Safe, PTL

-----------------------------------------------------------------------------
(* Revoked tokens.  What is in the hash was put there by a login that made *)
(* it, and every login sends one HSET.  So a token that was deleted after  *)
(* its HSET had been executed comes back only by that of another login.    *)

(* A login that made tok has had its HSET executed.                        *)
Executed(tok) == \E s \in Req : Made(s, tok) /\ wire[s] = None

Gone(tok) ==
  /\ tok # None /\ Executed(tok)
  /\ ~MadeTwice(tok) => \A u \in User : store[u] # tok

(* The HDEL of the logout r was executed.                                  *)
HasRevoked(r) ==
  /\ ctx[r].route = "logout"
  /\ (pc[r] = "hdel" /\ reply[r].ready) \/ answer[r].status = 200

Stores == \A u \in User : store[u] # None => store[u].aud = u /\ Executed(store[u])

(* The command of a login is the HSET of what it made.                     *)
Commands(r) ==
  /\ pc[r] = "new" => wire[r] = None /\ ctx[r].route # "login"
  /\ reply[r].ready => wire[r] = None
  /\ wire[r] # None /\ wire[r].op = "hset" =>
       /\ Made(r, wire[r].tok)
       /\ wire[r].tok # None /\ wire[r].tok.aud = wire[r].user
  /\ ctx[r].route \in Protected /\ ctx[r].token # None =>
       ctx[r].token.aud = ctx[r].user

History(r) ==
  /\ \A tok \in seen[r] \ {None} : Executed(tok)
  /\ HasRevoked(r) => Gone(ctx[r].token)
  /\ \A tok \in ctx[r].revoked :
       Gone(tok) /\ (~MadeTwice(tok) => tok \notin seen[r])

RInv == Stores /\ \A r \in Req : Commands(r) /\ History(r)

LEMMA InitRInv == Init => RInv
<1> SUFFICES ASSUME Init PROVE RInv
  OBVIOUS
<1>1. PICK u \in User : ctx = [r \in Req |->
       [route |-> "page", user |-> u, token |-> None, at |-> 0,
        revoked |-> {}, sendTok |-> FALSE, requestAuth |-> FALSE]]
  BY DEF Init
<1>2. Stores
  BY DEF Init, Stores
<1>3. ASSUME NEW r \in Req PROVE Commands(r) /\ History(r)
  <2>1. ctx[r].route = "page" /\ ctx[r].token = None /\ ctx[r].revoked = {}
    BY <1>1
  <2>2. wire[r] = None /\ ~reply[r].ready /\ seen[r] = {}
    BY DEF Init, NoReply
  <2> QED
    BY <2>1, <2>2 DEF Commands, History, HasRevoked
<1> QED
  BY <1>2, <1>3 DEF RInv

(* A step in which the logins keep what they made, and none sends again.   *)
Lasting ==
  \A s \in Req : ctx[s].route = "login" =>
    /\ ctx'[s].route = "login" /\ ctx'[s].token = ctx[s].token
    /\ wire'[s] \in {wire[s], None}

LEMMA ExecutedLasts ==
  ASSUME Lasting, NEW tok
  PROVE  /\ Executed(tok) => Executed(tok)'
         /\ MadeTwice(tok) => MadeTwice(tok)'
         /\ Gone(tok) /\ UNCHANGED store => Gone(tok)'
<1>1. ASSUME NEW s \in Req, Made(s, tok)
      PROVE  Made(s, tok)' /\ (wire[s] = None => wire'[s] = None)
  BY <1>1 DEF Lasting, Made
<1>2. Executed(tok) => Executed(tok)'
  BY <1>1 DEF Executed
<1>3. MadeTwice(tok) => MadeTwice(tok)'
  BY <1>1 DEF MadeTwice
<1> QED
  BY <1>2, <1>3 DEF Gone

(* Nothing happens to the request r that its history would notice.         *)
Idle(r) ==
  /\ pc'[r] = pc[r] /\ ctx'[r] = ctx[r] /\ wire'[r] = wire[r]
  /\ reply'[r] = reply[r] /\ answer'[r] = answer[r] /\ seen'[r] = seen[r]

LEMMA IdleKeeps ==
  ASSUME NEW r \in Req, Commands(r), History(r), Idle(r), Lasting,
         UNCHANGED store
  PROVE  Commands(r)' /\ History(r)'
<1>1. Commands(r)'
  BY DEF Commands, Idle, Made
<1>2. HasRevoked(r)' => HasRevoked(r)
  BY DEF HasRevoked, Idle
<1>3. ASSUME NEW tok \in seen'[r] \ {None} PROVE Executed(tok)'
  BY ExecutedLasts DEF History, Idle
<1>4. HasRevoked(r)' => Gone(ctx[r].token)'
  <2>1. PICK tok : tok = ctx[r].token
    OBVIOUS
  <2>2. HasRevoked(r)' => Gone(tok)
    BY <1>2, <2>1 DEF History
  <2>3. HasRevoked(r)' => Gone(tok)'
    BY <2>2, ExecutedLasts
  <2>4. tok = ctx'[r].token
    BY <2>1 DEF Idle
  <2> QED
    BY <2>3, <2>4 DEF Gone, Executed, MadeTwice, Made
<1>5. ASSUME NEW tok \in ctx'[r].revoked
      PROVE  Gone(tok)' /\ (~MadeTwice(tok)' => tok \notin seen'[r])
  <2>1. Gone(tok) /\ (~MadeTwice(tok) => tok \notin seen[r])
    BY DEF History, Idle
  <2> QED
    BY <2>1, ExecutedLasts DEF Idle
<1> QED
  BY <1>1, <1>3, <1>4, <1>5 DEF History

(* What the steps of a request have in common after its first.             *)
Continues(r) ==
  /\ UNCHANGED <<store, seen>>
  /\ \A s \in Req \ {r} : Idle(s)
  /\ pc'[r] # "new" /\ ~reply'[r].ready
  /\ ctx'[r].route = ctx[r].route /\ ctx'[r].user = ctx[r].user
  /\ ctx'[r].revoked = ctx[r].revoked
  /\ ctx[r].route # "resume" => ctx'[r].token = ctx[r].token
  /\ \/ wire'[r] = wire[r]
     \/ ctx[r].route # "login" /\ wire'[r].op # "hset"
  /\ HasRevoked(r)' => HasRevoked(r)

LEMMA ContinueKeeps ==
  ASSUME RInv, NEW r \in Req, Continues(r)
  PROVE  RInv'
<1>1. Stores /\ \A s \in Req : Commands(s) /\ History(s)
  BY DEF RInv
<1>2. Lasting
  <2> SUFFICES ASSUME NEW s \in Req, ctx[s].route = "login"
               PROVE  /\ ctx'[s].route = "login" /\ ctx'[s].token = ctx[s].token
                      /\ wire'[s] \in {wire[s], None}
    BY DEF Lasting
  <2>1. CASE s = r
    BY <2>1 DEF Continues
  <2>2. CASE s # r
    BY <2>2 DEF Continues, Idle
  <2> QED
    BY <2>1, <2>2
<1>3. UNCHANGED store
  BY DEF Continues
<1>4. Stores'
  BY <1>1, <1>2, <1>3, ExecutedLasts DEF Stores
<1>5. ASSUME NEW s \in Req \ {r} PROVE Commands(s)' /\ History(s)'
  BY <1>1, <1>2, <1>3, IdleKeeps DEF Continues
<1>6. Commands(r)'
  BY <1>1 DEF Commands, Continues, Made, Protected
<1>7. History(r)'
  <2>1. ASSUME NEW tok \in seen'[r] \ {None} PROVE Executed(tok)'
    BY <1>1, <1>2, ExecutedLasts DEF History, Continues
  <2>2. HasRevoked(r)' => Gone(ctx[r].token)'
    <3>1. PICK tok : tok = ctx[r].token
      OBVIOUS
    <3>2. HasRevoked(r)' => Gone(tok)
      BY <1>1, <3>1 DEF History, Continues
    <3>3. HasRevoked(r)' => Gone(tok)'
      BY <1>2, <1>3, <3>2, ExecutedLasts
    <3>4. HasRevoked(r)' => tok = ctx'[r].token
      BY <3>1 DEF Continues, HasRevoked
    <3> QED
      BY <3>3, <3>4 DEF Gone, Executed, MadeTwice, Made
  <2>3. ASSUME NEW tok \in ctx'[r].revoked
        PROVE  Gone(tok)' /\ (~MadeTwice(tok)' => tok \notin seen'[r])
    <3>1. Gone(tok) /\ (~MadeTwice(tok) => tok \notin seen[r])
      BY <1>1 DEF History, Continues
    <3> QED
      BY <1>2, <1>3, <3>1, ExecutedLasts DEF Continues
  <2> QED
    BY <2>1, <2>2, <2>3 DEF History
<1> QED
  BY <1>4, <1>5, <1>6, <1>7 DEF RInv

LEMMA SendContinues ==
  ASSUME Types, NEW r \in Req, NEW c \in Contexts,
         NEW at \in {"get", "hdel"}, NEW op \in {"hget", "hdel"},
         Send(r, c, at, op, None), UNCHANGED <<store, seen>>,
         c = ctx[r], c.route # "login", answer[r].status # 200
  PROVE  Continues(r)
<1>1. \A s \in Req \ {r} : Idle(s)
  BY DEF Types, Send, Idle
<1>2. /\ pc'[r] = at /\ ctx'[r] = c /\ reply'[r] = NoReply
      /\ wire'[r] = [op |-> op, user |-> c.user, tok |-> None]
      /\ answer'[r] = answer[r]
  BY DEF Types, Send
<1>3. ~HasRevoked(r)'
  BY <1>2 DEF HasRevoked, NoReply
<1> QED
  BY <1>1, <1>2, <1>3 DEF Continues, NoReply

LEMMA AnswerContinues ==
  ASSUME Types, NEW r \in Req, NEW c \in Contexts, NEW status, NEW tok,
         Answer(r, c, status, tok), UNCHANGED <<store, seen>>,
         c.route = ctx[r].route, c.user = ctx[r].user,
         c.revoked = ctx[r].revoked,
         c.route # "resume" => c.token = ctx[r].token,
         status = 200 /\ c.route = "logout" => HasRevoked(r)
  PROVE  Continues(r)
<1>1. \A s \in Req \ {r} : Idle(s)
  BY DEF Types, Answer, Idle
<1>2. /\ pc'[r] = "done" /\ ctx'[r] = c /\ reply'[r] = NoReply
      /\ wire'[r] = wire[r]
      /\ answer'[r] = [status |-> status, token |-> tok]
  BY DEF Types, Answer
<1>3. HasRevoked(r)' => HasRevoked(r)
  BY <1>2 DEF HasRevoked
<1> QED
  BY <1>1, <1>2, <1>3 DEF Continues, NoReply

LEMMA AfterContinues ==
  ASSUME Types, NEW r \in Req, NEW c \in Contexts,
         After(r, c), UNCHANGED <<store, seen>>,
         c.route = ctx[r].route, c.user = ctx[r].user,
         c.revoked = ctx[r].revoked,
         c.route # "resume" => c.token = ctx[r].token,
         c.route = "logout" => HasRevoked(r) \/ (~c.sendTok /\ c.requestAuth)
  PROVE  Continues(r)
<1>1. PICK status, tok :
        /\ Answer(r, c, status, tok)
        /\ status = 200 /\ c.route = "logout" => HasRevoked(r)
  <2>1. CASE c.sendTok
    BY <2>1 DEF After
  <2>2. CASE ~c.sendTok /\ c.requestAuth
    <3>1. Answer(r, c, 401, None) /\ 401 # 200
      BY <2>2 DEF After
    <3> QED
      BY <3>1
  <2>3. CASE ~c.sendTok /\ ~c.requestAuth
    BY <2>3 DEF After
  <2> QED
    BY <2>1, <2>2, <2>3
<1> QED
  BY <1>1, AnswerContinues

(* What the two invariants say of a request that has a reply or waits.     *)
LEMMA ResumeFacts ==
  ASSUME IInv, RInv, NEW r \in Req, pc[r] \in {"exists", "get", "hset", "hdel"}
  PROVE  /\ Types /\ ctx[r] \in Contexts /\ answer[r].status # 200
         /\ pc[r] \in {"exists", "get"} => ctx[r].route # "login"
         /\ pc[r] = "hset" => ctx[r].route = "login"
         /\ pc[r] = "hdel" => ctx[r].route \in {"logout", "resume"}
<1>1. Types /\ ctx[r] \in Contexts /\ Unanswered(r) /\ Place(r)
  BY WaitingFacts DEF IInv
<1> QED
  BY <1>1 DEF Unanswered, Place, NoAnswerYet

(* The flags leave the user and the history alone.                         *)
LEMMA FlagsKeep ==
  ASSUME NEW c \in Contexts
  PROVE  /\ Unauthenticated(c).user = c.user
         /\ Unauthenticated(c).revoked = c.revoked
         /\ LoggedOut(c).user = c.user /\ LoggedOut(c).revoked = c.revoked
         /\ \A tok \in Token : /\ Authorized(c, tok).user = c.user
                               /\ Authorized(c, tok).revoked = c.revoked
BY DEF Unauthenticated, LoggedOut, Authorized, Contexts

LEMMA ThrowContinues ==
  ASSUME Types, NEW r \in Req, Answer(r, ctx[r], 500, None),
         UNCHANGED <<store, seen>>
  PROVE  Continues(r)
<1>1. PICK st : st = 500
  OBVIOUS
<1>2. ctx[r] \in Contexts /\ st # 200
  BY <1>1 DEF Types, Contexts
<1>3. Answer(r, ctx[r], st, None)
  BY <1>1
<1> QED
  BY <1>2, <1>3, AnswerContinues

LEMMA ExistsContinues ==
  ASSUME IInv, RInv, NEW r \in Req, Exists(r)
  PROVE  Continues(r)
<1>1. pc[r] = "exists" /\ UNCHANGED <<store, seen>>
  BY DEF Exists
<1>2. Types /\ ctx[r] \in Contexts /\ answer[r].status # 200 /\ ctx[r].route # "login"
  BY <1>1, ResumeFacts
<1>3. PICK c \in Contexts : c = ctx[r]
  BY <1>2
<1>4. CASE Send(r, ctx[r], "get", "hget", None)
  BY <1>1, <1>2, <1>3, <1>4, SendContinues
<1>5. CASE After(r, c) /\ c.route = "resume"
  BY <1>1, <1>2, <1>3, <1>5, AfterContinues
<1>6. CASE After(r, Unauthenticated(c))
  <2>1. PICK d : d = Unauthenticated(c)
    OBVIOUS
  <2>2. /\ d \in Contexts /\ d.route = c.route /\ d.token = c.token
        /\ d.user = c.user /\ d.revoked = c.revoked /\ ~d.sendTok /\ d.requestAuth
    BY <1>3, <2>1, Flags, FlagsKeep
  <2> QED
    BY <1>1, <1>2, <1>3, <1>6, <2>1, <2>2, AfterContinues
<1> QED
  BY <1>3, <1>4, <1>5, <1>6 DEF Exists

LEMMA GetInBeforeContinues ==
  ASSUME IInv, RInv, NEW r \in Req, GetInBefore(r)
  PROVE  Continues(r)
<1>1. pc[r] = "get" /\ UNCHANGED <<store, seen>>
  BY DEF GetInBefore
<1>2. Types /\ ctx[r] \in Contexts /\ answer[r].status # 200 /\ ctx[r].route # "login"
  BY <1>1, ResumeFacts
<1>3. PICK c \in Contexts : c = ctx[r]
  BY <1>2
<1>4. CASE Answer(r, ctx[r], 500, None)
  BY <1>1, <1>2, <1>4, ThrowContinues
<1>5. CASE Handle(r)
  <2>1. CASE ctx[r].route = "logout"
    <3>1. Send(r, c, "hdel", "hdel", None)
      BY <1>3, <1>5, <2>1 DEF Handle
    <3> QED
      BY <1>1, <1>2, <1>3, <3>1, SendContinues
  <2>2. CASE ctx[r].route # "logout"
    <3>1. After(r, c)
      BY <1>3, <1>5, <2>2 DEF Handle
    <3> QED
      BY <1>1, <1>2, <1>3, <2>2, <3>1, AfterContinues
  <2> QED
    BY <2>1, <2>2
<1>6. CASE After(r, Unauthenticated(c))
  <2>1. PICK d : d = Unauthenticated(c)
    OBVIOUS
  <2>2. /\ d \in Contexts /\ d.route = c.route /\ d.token = c.token
        /\ d.user = c.user /\ d.revoked = c.revoked /\ ~d.sendTok /\ d.requestAuth
    BY <1>3, <2>1, Flags, FlagsKeep
  <2> QED
    BY <1>1, <1>2, <1>3, <1>6, <2>1, <2>2, AfterContinues
<1> QED
  BY <1>3, <1>4, <1>5, <1>6 DEF GetInBefore

LEMMA GetInResumeContinues ==
  ASSUME IInv, RInv, NEW r \in Req, GetInResume(r)
  PROVE  Continues(r)
<1>1. pc[r] = "get" /\ UNCHANGED <<store, seen>> /\ ctx[r].route = "resume"
  BY DEF GetInResume
<1>2. Types /\ ctx[r] \in Contexts /\ answer[r].status # 200
  BY <1>1, ResumeFacts
<1>3. PICK c \in Contexts : c = ctx[r]
  BY <1>2
<1>4. CASE Answer(r, ctx[r], 500, None)
  BY <1>1, <1>2, <1>4, ThrowContinues
<1>5. CASE reply[r].tok # None /\ After(r, Authorized(c, reply[r].tok))
  <2>1. PICK tok : tok = reply[r].tok
    OBVIOUS
  <2>2. tok \in Token
    BY <1>2, <1>5, <2>1 DEF Types, Reply
  <2>3. PICK d : d = Authorized(c, tok)
    OBVIOUS
  <2>4. /\ d \in Contexts /\ d.route = c.route /\ d.user = c.user
        /\ d.revoked = c.revoked
    BY <1>3, <2>2, <2>3, AuthorizedFlags, FlagsKeep
  <2>5. After(r, d)
    BY <1>5, <2>1, <2>3
  <2> QED
    BY <1>1, <1>2, <1>3, <2>4, <2>5, AfterContinues
<1>6. CASE Send(r, c, "hdel", "hdel", None)
  BY <1>1, <1>2, <1>3, <1>6, SendContinues
<1> QED
  BY <1>3, <1>4, <1>5, <1>6 DEF GetInResume

LEMMA DeletedContinues ==
  ASSUME IInv, RInv, NEW r \in Req, Deleted(r)
  PROVE  Continues(r)
<1>1. /\ pc[r] = "hdel" /\ reply[r].ready /\ UNCHANGED <<store, seen>>
      /\ After(r, LoggedOut(ctx[r]))
  BY DEF Deleted
<1>2. Types /\ ctx[r] \in Contexts /\ ctx[r].route \in {"logout", "resume"}
  BY <1>1, ResumeFacts
<1>3. PICK d : d = LoggedOut(ctx[r])
  OBVIOUS
<1>4. /\ d \in Contexts /\ d.route = ctx[r].route /\ d.token = ctx[r].token
      /\ d.user = ctx[r].user /\ d.revoked = ctx[r].revoked
  BY <1>2, <1>3, Flags, FlagsKeep
<1>5. d.route = "logout" => HasRevoked(r)
  BY <1>1, <1>4 DEF HasRevoked
<1>6. After(r, d) /\ UNCHANGED <<store, seen>>
  BY <1>1, <1>3
<1>7. Types /\ d \in Contexts /\ (d.route # "resume" => d.token = ctx[r].token)
  BY <1>2, <1>4
<1>8. d.route = "logout" => HasRevoked(r) \/ (~d.sendTok /\ d.requestAuth)
  BY <1>5
<1> QED
  BY <1>4, <1>6, <1>7, <1>8, AfterContinues

LEMMA SavedContinues ==
  ASSUME IInv, RInv, NEW r \in Req, Saved(r)
  PROVE  Continues(r)
<1>1. pc[r] = "hset" /\ UNCHANGED <<store, seen>>
  BY DEF Saved
<1>2. Types /\ ctx[r] \in Contexts /\ ctx[r].route = "login"
  BY <1>1, ResumeFacts
<1>3. PICK d \in {ctx[r], Unauthenticated(ctx[r])} : After(r, d)
  BY DEF Saved
<1>4. /\ d \in Contexts /\ d.route = ctx[r].route /\ d.token = ctx[r].token
      /\ d.user = ctx[r].user /\ d.revoked = ctx[r].revoked
  BY <1>2, Flags, FlagsKeep
<1> QED
  BY <1>1, <1>2, <1>3, <1>4, AfterContinues

LEMMA ResumedKeeps ==
  ASSUME IInv, RInv, NEW r \in Req, Resumed(r)
  PROVE  RInv'
<1>1. CASE Throw(r)
  <2>1. Types
    BY DEF IInv
  <2> QED
    BY <1>1, <2>1, ThrowContinues, ContinueKeeps DEF Throw
<1> QED
  BY <1>1, ExistsContinues, GetInBeforeContinues, GetInResumeContinues,
     DeletedContinues, SavedContinues, ContinueKeeps DEF Resumed

(* The first step of a request.                                            *)
LEMMA BeginsKeeps ==
  ASSUME IInv, RInv, NEW r \in Req, NEW route \in Route, NEW u \in User,
         NEW tok \in Token \cup {None}, tok # None => tok.aud = u,
         Begin(r, route, u, tok)
  PROVE  RInv'
<1> DEFINE new == [ctx[r] EXCEPT !.route = route, !.user = u, !.token = tok,
                                 !.at = now, !.revoked = Revoked]
<1>1. PICK c : c = new
  OBVIOUS
<1>2. Types /\ Open(r) /\ Stores /\ \A s \in Req : Commands(s) /\ History(s)
  BY DEF IInv, RInv
<1>3. /\ ctx[r] \in Contexts /\ now \in 0 .. MaxTime
      /\ Revoked \subseteq Token \cup {None}
  BY <1>2 DEF Types, Contexts, Revoked
<1>4. /\ c \in Contexts /\ c.route = route /\ c.user = u /\ c.token = tok
      /\ c.revoked = Revoked
  BY <1>1, <1>3 DEF Contexts
<1>5. /\ pc[r] = "new" /\ seen' = [seen EXCEPT ![r] = {store[u]}]
      /\ UNCHANGED store
      /\ IF route \in Protected /\ (tok = None \/ Expired(tok))
         THEN Answer(r, c, 401, None) /\ UNCHANGED handled
         ELSE IF route = "login" THEN Login(r, c)
         ELSE Send(r, c, "exists", "hexists", None)
  BY <1>1 DEF Begin
<1> HIDE DEF new
<1>6. answer[r] = NoAnswerYet /\ wire[r] = None /\ ctx[r].route # "login"
  BY <1>2, <1>5 DEF Open, Unanswered, Commands
<1>7. /\ \A s \in Req \ {r} : Idle(s)
      /\ seen'[r] = {store[u]} /\ ~reply'[r].ready
      /\ ctx'[r].route = route /\ ctx'[r].user = u /\ ctx'[r].revoked = Revoked
      /\ \/ /\ pc'[r] = "done" /\ answer'[r].status = 401
            /\ wire'[r] = None /\ ctx'[r].token = tok
         \/ /\ pc'[r] = "hset" /\ answer'[r] = NoAnswerYet /\ route = "login"
            /\ ctx'[r].token = Fresh(u)
            /\ wire'[r] = [op |-> "hset", user |-> u, tok |-> Fresh(u)]
         \/ /\ pc'[r] = "exists" /\ answer'[r] = NoAnswerYet
            /\ ctx'[r].token = tok
            /\ wire'[r] = [op |-> "hexists", user |-> u, tok |-> None]
  <2>0. answer[r] = NoAnswerYet
    BY <1>2, <1>5 DEF Open, Unanswered
  <2>1. CASE Answer(r, c, 401, None)
    BY <1>2, <1>4, <1>5, <1>6, <2>1 DEF Types, Answer, Idle, NoReply
  <2>2. CASE route = "login" /\ Login(r, c)
    <3>1. PICK d : d = Authorized(c, Fresh(u))
      OBVIOUS
    <3>2. Fresh(u) \in Token
      BY <1>3, TimeAssumption DEF Fresh, Token
    <3>3. /\ d.route = route /\ d.user = u /\ d.token = Fresh(u)
          /\ d.revoked = Revoked
      BY <1>4, <3>1, <3>2, AuthorizedFlags, FlagsKeep
    <3>4. Send(r, d, "hset", "hset", Fresh(u))
      BY <1>4, <2>2, <3>1 DEF Login
    <3> QED
      BY <1>2, <1>5, <2>0, <2>2, <3>3, <3>4 DEF Types, Send, Idle, NoReply
  <2>3. CASE Send(r, c, "exists", "hexists", None)
    BY <1>2, <1>4, <1>5, <2>0, <2>3 DEF Types, Send, Idle, NoReply
  <2> QED
    BY <1>5, <2>1, <2>2, <2>3
<1>8. Lasting
  BY <1>6, <1>7 DEF Lasting, Idle
<1>9. Stores'
  BY <1>2, <1>5, <1>8, ExecutedLasts DEF Stores
<1>10. ASSUME NEW s \in Req \ {r} PROVE Commands(s)' /\ History(s)'
  BY <1>2, <1>5, <1>7, <1>8, IdleKeeps
<1>11. Commands(r)'
  <2>1. Fresh(u) # None /\ Fresh(u).aud = u
    <3>1. Fresh(u) \in Token
      BY <1>3, TimeAssumption DEF Fresh, Token
    <3> QED
      BY <3>1, TokenNotNone DEF Fresh
  <2> QED
    BY <1>7, <2>1 DEF Commands, Made, Protected
<1>12. History(r)'
  <2>1. ASSUME NEW t \in seen'[r] \ {None} PROVE Executed(t)'
    BY <1>2, <1>7, <1>8, <2>1, ExecutedLasts DEF Stores
  <2>2. ~HasRevoked(r)'
    BY <1>7 DEF HasRevoked, NoAnswerYet
  <2>3. ASSUME NEW t \in ctx'[r].revoked
        PROVE  Gone(t)' /\ (~MadeTwice(t)' => t \notin seen'[r])
    <3>1. PICK l \in Req :
            ctx[l].route = "logout" /\ answer[l].status = 200 /\ t = ctx[l].token
      BY <1>7 DEF Revoked
    <3>2. Gone(t)
      BY <1>2, <3>1 DEF History, HasRevoked
    <3>3. Gone(t)' /\ (~MadeTwice(t)' => ~MadeTwice(t))
      BY <1>5, <1>8, <3>2, ExecutedLasts
    <3>4. ~MadeTwice(t) => t \notin seen'[r]
      BY <1>7, <3>2 DEF Gone
    <3> QED
      BY <3>3, <3>4
  <2> QED
    BY <2>1, <2>2, <2>3 DEF History
<1> QED
  BY <1>9, <1>10, <1>11, <1>12 DEF RInv

(* Redis executes a command: a token that was gone comes back only if      *)
(* another login has made it too.                                          *)
LEMMA ExecutesKeeps ==
  ASSUME IInv, RInv, NEW r \in Req, Redis(r)
  PROVE  RInv'
<1>1. Types /\ Open(r) /\ Stores /\ \A s \in Req : Commands(s) /\ History(s)
  BY DEF IInv, RInv
<1>2. PICK c \in {wire[r]} :
      /\ store' = CASE c.op = "hset" -> [store EXCEPT ![c.user] = c.tok]
                    [] c.op = "hdel" -> [store EXCEPT ![c.user] = None]
                    [] OTHER -> store
      /\ reply' = IF ~Waiting(r) THEN reply ELSE [reply EXCEPT ![r] =
            [ready |-> TRUE,
             n   |-> IF c.op # "hget"
                       /\ (c.op = "hset") = (store[c.user] = None)
                     THEN 1 ELSE 0,
             tok |-> IF c.op = "hget" THEN store[c.user] ELSE None]]
      /\ seen' = [s \in Req |-> IF Waiting(s) /\ ctx[s].user = c.user
                                THEN seen[s] \cup {store'[c.user]}
                                ELSE seen[s]]
  BY Zenon DEF Redis
<1>3. c = wire[r] /\ c # None /\ c \in Command
  BY <1>1 DEF Redis, Types
<1>4. wire' = [wire EXCEPT ![r] = None] /\ UNCHANGED <<pc, ctx, answer>>
  BY DEF Redis
<1>5. /\ c.user \in User /\ c.op \in {"hexists", "hget", "hset", "hdel"}
      /\ store \in [User -> Token \cup {None}]
      /\ c.op = "hset" => Made(r, c.tok) /\ c.tok # None /\ c.tok.aud = c.user
  BY <1>1, <1>3 DEF Command, Types, Commands
<1>6. Lasting /\ \A s \in Req : wire'[s] = IF s = r THEN None ELSE wire[s]
  BY <1>1, <1>4 DEF Lasting, Types
<1>7. ASSUME NEW s, NEW tok PROVE Made(s, tok)' <=> Made(s, tok)
  BY <1>4 DEF Made
<1>8. c.op = "hset" => Executed(c.tok)'
  BY <1>5, <1>6, <1>7 DEF Executed
<1>9. \A v \in User :
        \/ store'[v] = store[v]
        \/ c.op = "hset" /\ v = c.user /\ store'[v] = c.tok
        \/ c.op = "hdel" /\ v = c.user /\ store'[v] = None
  <2>1. CASE c.op = "hset"
    BY <1>2, <1>5, <2>1
  <2>2. CASE c.op = "hdel"
    BY <1>2, <1>5, <2>2
  <2>3. CASE c.op \notin {"hset", "hdel"}
    BY <1>2, <2>3
  <2> QED
    BY <2>1, <2>2, <2>3
<1>10. ASSUME NEW v \in User, NEW tok, tok = store'[v], tok # None
       PROVE  tok.aud = v /\ Executed(tok)'
  <2>1. CASE tok = store[v]
    BY <1>1, <1>6, <1>10, <2>1, ExecutedLasts DEF Stores
  <2>2. CASE c.op = "hset" /\ v = c.user /\ tok = c.tok
    BY <1>5, <1>8, <2>2
  <2> QED
    BY <1>9, <1>10, <2>1, <2>2
<1>11. ASSUME NEW tok, Gone(tok) PROVE Gone(tok)'
  <2>1. tok # None /\ Executed(tok)' /\ (MadeTwice(tok) => MadeTwice(tok)')
    BY <1>6, <1>11, ExecutedLasts DEF Gone
  <2>2. ASSUME ~MadeTwice(tok), NEW v \in User PROVE store'[v] # tok
    <3>1. store[v] # tok
      BY <1>11, <2>2 DEF Gone
    <3>2. ASSUME c.op = "hset", c.tok = tok PROVE FALSE
      <4>1. PICK s \in Req : Made(s, tok) /\ wire[s] = None
        BY <1>11 DEF Gone, Executed
      <4>2. Made(r, tok) /\ s # r
        BY <1>3, <1>5, <3>2, <4>1
      <4> QED
        BY <2>2, <4>1, <4>2 DEF MadeTwice
    <3> QED
      BY <1>9, <2>1, <3>1, <3>2
  <2> QED
    BY <2>1, <2>2 DEF Gone
<1>12. ASSUME NEW s \in Req PROVE Commands(s)'
  <2>1. reply'[s].ready => wire'[s] = None
    <3>1. CASE s = r
      BY <1>6, <3>1
    <3>2. CASE s # r
      <4>1. reply'[s] = reply[s]
        BY <1>1, <1>2, <3>2 DEF Types
      <4> QED
        BY <1>1, <1>6, <4>1 DEF Commands
    <3> QED
      BY <3>1, <3>2
  <2> QED
    BY <1>1, <1>4, <1>6, <1>7, <2>1 DEF Commands
<1>13. ASSUME NEW s \in Req PROVE History(s)'
  <2>1. /\ ctx'[s] = ctx[s] /\ pc'[s] = pc[s] /\ answer'[s] = answer[s]
        /\ seen'[s] \subseteq seen[s] \cup {store'[c.user]}
    BY <1>2, <1>4
  <2>2. ASSUME NEW tok \in seen'[s] \ {None} PROVE Executed(tok)'
    <3>1. CASE tok \in seen[s]
      BY <1>1, <1>6, <2>2, <3>1, ExecutedLasts DEF History
    <3>2. CASE tok = store'[c.user]
      BY <1>5, <1>10, <2>2, <3>2
    <3> QED
      BY <2>1, <3>1, <3>2
  <2>3. PICK tok : tok = ctx[s].token
    OBVIOUS
  <2>4. ASSUME HasRevoked(s)' PROVE Gone(tok)'
    <3>1. CASE HasRevoked(s)
      BY <1>1, <1>11, <2>3, <3>1 DEF History
    <3>2. CASE ~HasRevoked(s)
      <4>1. /\ ctx[s].route = "logout" /\ pc[s] = "hdel"
            /\ reply'[s].ready /\ ~reply[s].ready
        BY <2>1, <2>4, <3>2 DEF HasRevoked
      <4>2. s = r
        BY <1>1, <1>2, <4>1 DEF Types
      <4>3. OwnCommand(r) /\ Place(r)
        BY <1>1, <4>1, <4>2 DEF Open, Waiting
      <4>4. /\ c.op = "hdel" /\ c.user = ctx[r].user
            /\ tok \in seen[r] /\ tok # None
        BY <1>3, <2>3, <4>1, <4>2, <4>3 DEF OwnCommand, OpOf, Place, Protected
      <4>5. tok.aud = c.user
        BY <1>1, <2>3, <4>1, <4>2, <4>4 DEF Commands, Protected
      <4>6. Executed(tok)'
        BY <1>1, <1>6, <4>4, ExecutedLasts DEF History
      <4>7. ASSUME NEW v \in User PROVE store'[v] # tok
        <5>1. CASE v = c.user
          BY <1>2, <1>5, <4>4, <5>1
        <5>2. CASE v # c.user
          BY <1>10, <4>4, <4>5, <5>2
        <5> QED
          BY <5>1, <5>2
      <4> QED
        BY <4>4, <4>6, <4>7 DEF Gone
    <3> QED
      BY <3>1, <3>2
  <2>5. HasRevoked(s)' => Gone(ctx[s].token)'
    <3>1. tok = ctx'[s].token
      BY <2>1, <2>3
    <3> QED
      BY <2>4, <3>1 DEF Gone, Executed, MadeTwice, Made
  <2>6. ASSUME NEW t \in ctx'[s].revoked
        PROVE  Gone(t)' /\ (~MadeTwice(t)' => t \notin seen'[s])
    <3>1. Gone(t) /\ (~MadeTwice(t) => t \notin seen[s])
      BY <1>1, <2>1 DEF History
    <3>2. Gone(t)' /\ (~MadeTwice(t)' => ~MadeTwice(t))
      BY <1>6, <1>11, <3>1, ExecutedLasts
    <3>3. ~MadeTwice(t)' => store'[c.user] # t
      BY <1>5, <3>2 DEF Gone
    <3> QED
      BY <2>1, <3>1, <3>2, <3>3
  <2> QED
    BY <2>2, <2>5, <2>6 DEF History
<1>14. Stores'
  <2> SUFFICES ASSUME NEW v \in User, store'[v] # None
               PROVE  /\ store'[v].aud = v
                      /\ \E s \in Req : Made(s, store[v])' /\ wire'[s] = None
    BY DEF Stores, Executed
  <2>1. PICK tok : tok = store'[v]
    OBVIOUS
  <2>2. tok.aud = v /\ \E s \in Req : Made(s, tok)' /\ wire'[s] = None
    BY <1>10, <2>1 DEF Executed
  <2> QED
    BY <2>1, <2>2 DEF Made
<1> QED
  BY <1>12, <1>13, <1>14 DEF RInv

(* The clock, and a step in which nothing happens.                         *)
LEMMA StandsKeeps ==
  ASSUME RInv, UNCHANGED <<store, wire, reply, pc, ctx, answer, seen>>
  PROVE  RInv'
<1>1. Lasting /\ \A s \in Req : Idle(s)
  BY DEF Lasting, Idle
<1>2. Stores'
  BY <1>1, ExecutedLasts DEF RInv, Stores
<1>3. ASSUME NEW s \in Req PROVE Commands(s)' /\ History(s)'
  BY <1>1, IdleKeeps DEF RInv
<1> QED
  BY <1>2, <1>3 DEF RInv

LEMMA RevokedKept == Spec => []RInv
<1>1. Init => RInv
  BY InitRInv
<1>2. IInv /\ RInv /\ [Next]_vars => RInv'
  <2> SUFFICES ASSUME IInv, RInv, [Next]_vars PROVE RInv'
    OBVIOUS
  <2>1. ASSUME NEW r \in Req, NEW u \in User, NEW route \in Protected,
               NEW tok \in Shown(u), Begin(r, route, u, tok)
        PROVE  RInv'
    <3>1. /\ tok \in Token \cup {None} /\ route \in Route
          /\ tok # None => tok.aud = u
      BY <2>1 DEF IInv, Types, Shown, Route
    <3> QED
      BY <2>1, <3>1, BeginsKeeps
  <2>2. ASSUME NEW r \in Req, NEW u \in User, NEW route \in Route \ Protected,
               Begin(r, route, u, None)
        PROVE  RInv'
    <3>1. PICK tok \in Token \cup {None} : tok = None
      OBVIOUS
    <3>2. route \in Route /\ Begin(r, route, u, tok)
      BY <2>2, <3>1
    <3> QED
      BY <3>1, <3>2, BeginsKeeps
  <2>3. ASSUME NEW r \in Req, Resumed(r) \/ Redis(r) PROVE RInv'
    BY <2>3, ResumedKeeps, ExecutesKeeps
  <2>4. CASE Tick \/ UNCHANGED vars
    <3>1. UNCHANGED <<store, wire, reply, pc, ctx, answer, seen>>
      BY <2>4 DEF Tick, vars
    <3> QED
      BY <3>1, StandsKeeps
  <2> QED
    BY <2>1, <2>2, <2>3, <2>4 DEF Next
<1> QED
  BY <1>1, <1>2, Safe, PTL DEF Spec

(* JwtSession::before lets a request through only for a token that was the *)
(* user's session while the request was served, for any interleaving of    *)
(* its two commands with the logins and logouts of others; and for one     *)
(* that a logout had revoked before, and reported so, only if two logins   *)
(* have made it.                                                           *)
THEOREM OnlyCurrentHandled == Spec => []HandledIsCurrent
<1>1. IInv /\ RInv => HandledIsCurrent
  <2> SUFFICES ASSUME IInv, RInv, NEW r \in Req, handled[r],
                      ctx[r].route \in Protected
               PROVE  /\ ctx[r].token \in seen[r]
                      /\ ctx[r].token.exp >= ctx[r].at
                      /\ ctx[r].token \in ctx[r].revoked => MadeTwice(ctx[r].token)
    BY DEF HandledIsCurrent
  <2>1. ctx[r].token \in seen[r] /\ ctx[r].token.exp >= ctx[r].at
    BY DEF IInv, Closed
  <2>2. \A tok \in ctx[r].revoked : ~MadeTwice(tok) => tok \notin seen[r]
    BY DEF RInv, History
  <2> QED
    BY <2>1, <2>2
<1> QED
  BY <1>1, Safe, RevokedKept, PTL

(* Both Context::authorize hand out only tokens that the hash held.        *)
THEOREM SentStored == Spec => []SentIsStored
<1>1. IInv => SentIsStored
  BY DEF IInv, Closed, SentIsStored
<1> QED
  BY <1>1, Safe, PTL

(* A logout that Context::revoke reports as done has deleted the session.  *)
THEOREM LogoutWorks == Spec => []LogoutTakesEffect
<1>1. IInv => LogoutTakesEffect
  BY DEF IInv, Closed, LogoutTakesEffect
<1> QED
  BY <1>1, Safe, PTL

(* Context::authenticate is called only when the session of the user was,  *)
(* at some moment, not the token of the request.                           *)
THEOREM RefusalsJustified == Spec => []RefusedWithReason
<1>1. IInv => RefusedWithReason
  BY DEF IInv, Closed, RefusedWithReason
<1> QED
  BY <1>1, Safe, PTL
=============================================================================
