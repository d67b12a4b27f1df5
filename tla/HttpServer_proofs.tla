------------------------- MODULE HttpServer_proofs -------------------------
(***************************************************************************)
(* Proofs about the HTTP server (module HttpServer), for all connections,  *)
(* requests, stage sizes and limits of the configuration.                  *)
(*                                                                         *)
(* The argument has three parts.  The units a client has sent and the      *)
(* server has not read, in the queue of the connection and with the        *)
(* client, follow each other to the end of the last request (Chained).     *)
(* The parser and the Request fit the first of them (Parsed): this is kept *)
(* by ParseUnit, hence by parser::feed, whose recursion over the units is  *)
(* unfolded in FeedRuns and followed with a least counterexample in        *)
(* FeedKeeps.  And what each wait of Connection::start() may rely on is    *)
(* stated for that wait (Receiving, InTheBody, Handling, Responding).      *)
(***************************************************************************)
EXTENDS HttpServer, SequenceTheorems, NaturalsInduction, WellFoundedInduction, TLAPS

(* Nobody asks for another protocol in a request with a body.              *)
BareUpgrades == \A k \in Kinds : k.upgrade => k.body = 0

PrsType ==
  [req : Nat, st : {"start", "head", "body", "dead"},
   headers_complete : BOOLEAN, body_complete : BOOLEAN, length : Nat,
   mem : Seq(UnitType), offload : BOOLEAN, file : Seq(UnitType),
   left : Nat, halt : BOOLEAN, fail : BOOLEAN]

-----------------------------------------------------------------------------
(* The stream of a connection over which the requests ks are sent.         *)

IsUnit(ks, u) ==
  /\ u \in UnitType /\ u.req \in 1 .. Len(ks)
  /\ u.part = "head" => u.n <= ks[u.req].head
  /\ u.part = "body" => u.n <= ks[u.req].body

Start(r) == Unit(r, "head", 1)

Last(ks, u) == IF u.part = "head" THEN u.n = ks[u.req].head
               ELSE u.n = ks[u.req].body

After(ks, u) ==
  IF ~Last(ks, u) THEN Unit(u.req, u.part, u.n + 1)
  ELSE IF u.part = "head" /\ ks[u.req].body > 0 THEN Unit(u.req, "body", 1)
  ELSE Start(u.req + 1)

(* What comes behind the first i units of s.                               *)
Behind(ks, s, i) == IF i < Len(s) THEN s[i + 1] ELSE Start(Len(ks) + 1)

(* The units of s follow each other up to the end of the last request.     *)
Chained(ks, s) ==
  \A i \in 1 .. Len(s) : /\ IsUnit(ks, s[i])
                          /\ Behind(ks, s, i) = After(ks, s[i])

-----------------------------------------------------------------------------
(* The parser and the Request before the unit v.                           *)

(* The body so far, in memory and then in the file.                        *)
BodySoFar(p) ==
  /\ \A j \in 1 .. Len(p.mem) : p.mem[j] = Unit(p.req, "body", j)
  /\ \A j \in 1 .. Len(p.file) : p.file[j] = Unit(p.req, "body", Len(p.mem) + j)
  /\ ~p.offload => p.file = << >>

AtStart(ks, p, v) ==
  p.st \in {"start", "dead"} =>
    \/ v = Start(p.req + 1)
    \/ p.req \in 1 .. Len(ks) /\ ks[p.req].upgrade /\ v = Unit(p.req, "body", 1)

AtHead(p, v) ==
  /\ p.st = "head" =>
       ~p.headers_complete /\ v.part = "head" /\ v.n > 1 /\ v.req = p.req
  /\ ~p.headers_complete =>
       /\ p.st # "body" /\ ~p.body_complete /\ ~p.offload
       /\ p.mem = << >> /\ p.file = << >>

AtBody(ks, p, v) ==
  p.st = "body" =>
    /\ v.part = "body" /\ v.req = p.req /\ p.req \in 1 .. Len(ks)
    /\ p.headers_complete /\ ~p.body_complete /\ ~p.halt
    /\ BodySoFar(p) /\ Len(p.mem) + Len(p.file) = v.n - 1
    /\ p.length = ks[p.req].body - (v.n - 1) /\ p.length > 0
    /\ ~ks[p.req].upgrade

AtEnd(ks, p) ==
  p.headers_complete /\ p.st # "body" =>
    /\ p.body_complete /\ p.req \in 1 .. Len(ks) /\ BodySoFar(p)
    /\ Len(p.mem) + Len(p.file) = IF ks[p.req].upgrade THEN 0 ELSE ks[p.req].body
    /\ p.length = Len(p.mem)

Parsed(ks, p, v) ==
  /\ p \in PrsType
  /\ p.fail => p.req \in 1 .. Len(ks)
  /\ ~p.fail => AtStart(ks, p, v) /\ AtHead(p, v) /\ AtBody(ks, p, v) /\ AtEnd(ks, p)

-----------------------------------------------------------------------------
(* A connection with the requests ks, of which ans were answered, and v    *)
(* the next unit of its stream.                                            *)

(* No answer yet to request r or a later one.                              *)
Unanswered(ans, r) ==
  BareUpgrades => \A i \in 1 .. Len(ans) : ans[i].req < r

(* A body that process_headers let pass.                                   *)
Fits(ks, p) ==
  /\ ks[p.req].upgrade \/ ks[p.req].body <= MaxBody + Stage - 1
  /\ p.offload => Len(p.mem) <= Stage - 1
  /\ Offload /\ ~p.offload => \/ ks[p.req].upgrade
                              \/ ks[p.req].body <= OffloadMin + Stage - 1

Receiving(ks, ans, p, v) ==
  /\ Parsed(ks, p, v) /\ ~p.fail /\ ~p.halt /\ ~p.headers_complete
  /\ Unanswered(ans, v.req)

InTheBody(ks, ans, p, v) ==
  /\ Parsed(ks, p, v) /\ ~p.fail /\ ~p.halt /\ p.st = "body" /\ p.left = p.length
  /\ Fits(ks, p) /\ Unanswered(ans, p.req)

Complete(ks, p, v) ==
  Parsed(ks, p, v) /\ ~p.fail /\ ~p.halt /\ p.body_complete /\ p.headers_complete

Handling(ks, ans, p, v) ==
  Complete(ks, p, v) /\ Fits(ks, p) /\ Unanswered(ans, p.req)

Responding(ks, ans, p, v, r) ==
  /\ p \in PrsType /\ ~p.halt
  /\ r.req \in 1 .. Len(ks) /\ Unanswered(ans, r.req)
  /\ ~r.err => Complete(ks, p, v) /\ r.req = p.req
  /\ r.status = "ok" => ~r.err

(* The answers that were given.                                            *)
Answered(ks, uns, ovl, ans) ==
  /\ \A i \in 1 .. Len(ans) : ans[i].req <= Len(ks)
  /\ ~ovl => Len(ks) <= Len(ans) + 1
  /\ BareUpgrades => \A i \in 1 .. Len(ans) :
       /\ i > 1 => ans[i - 1].req < ans[i].req
       /\ ans[i].status = "ok" => ans[i].req < Len(ks) \/ uns = << >>
       /\ ~ovl => ans[i].req = i

ConnInv(at, ks, uns, ovl, q, ans, p, r) ==
  LET v == Behind(ks, q \o uns, 0) IN
  /\ Chained(ks, q \o uns)
  /\ p \in PrsType /\ ~p.halt
  /\ Answered(ks, uns, ovl, ans)
  /\ at \in {"none", "queued", "headers"} => Receiving(ks, ans, p, v)
  /\ at = "body" => InTheBody(ks, ans, p, v)
  /\ at = "handle" => Handling(ks, ans, p, v)
  /\ at = "send" => Responding(ks, ans, p, v, r)

Inv(c) ==
  ConnInv(pc[c], sent[c], unsent[c], overlap[c], inq[c], answers[c], prs[c], res[c])

IInv == TypeOK /\ \A c \in Conn : Inv(c)

-----------------------------------------------------------------------------
(* f is a run of the parser from p over the first n of the units.          *)
Parses(f, p, units, ks, n) ==
  /\ f = [i \in 0 .. n |-> f[i]]
  /\ f[0] = p
  /\ \A i \in 1 .. n : f[i] = ParseUnit(f[i - 1], units[i], ks[units[i].req])

LEMMA LeastNat ==
  ASSUME NEW T, T \subseteq Nat, T # {}
  PROVE  \E m \in T : \A i \in T : m <= i
<1>1. IsWellFoundedOn(OpToRel(<, Nat), Nat)
  BY NatLessThanWellFounded
<1>2. PICK m \in T : \A i \in T : ~(<<i, m>> \in OpToRel(<, Nat))
  BY <1>1, WFMin
<1>3. \A i \in T : ~(i < m)
  BY <1>2 DEF OpToRel
<1> QED
  BY <1>3

LEMMA Run ==
  ASSUME NEW p, NEW units, NEW ks, NEW n \in Nat
  PROVE  \E f : Parses(f, p, units, ks, n)
<1> DEFINE T == {m \in Nat : ~ \E f : Parses(f, p, units, ks, m)}
<1> SUFFICES T = {}
  OBVIOUS
<1> SUFFICES ASSUME T # {} PROVE FALSE
  OBVIOUS
<1>1. PICK m \in T : \A i \in T : m <= i
  BY LeastNat
<1>2. CASE m = 0
  <2>1. Parses([i \in 0 .. 0 |-> p], p, units, ks, 0)
    BY DEF Parses
  <2> QED
    BY <1>1, <1>2, <2>1
<1>3. CASE m # 0
  <2>1. m - 1 \in Nat /\ m - 1 \notin T /\ m \in Nat
    BY <1>1, <1>3
  <2>2. PICK f : Parses(f, p, units, ks, m - 1)
    BY <2>1
  <2> DEFINE g == [i \in 0 .. m |-> IF i < m THEN f[i] ELSE
                     ParseUnit(f[m - 1], units[m], ks[units[m].req])]
  <2>3. g = [i \in 0 .. m |-> g[i]] /\ g[0] = p
    BY <2>1, <2>2, <1>3 DEF Parses
  <2>4. ASSUME NEW i \in 1 .. m
        PROVE  g[i] = ParseUnit(g[i - 1], units[i], ks[units[i].req])
    <3>0. i - 1 \in 0 .. m /\ i - 1 < m /\ g[i - 1] = f[i - 1]
      BY <2>1
    <3>1. CASE i = m
      BY <2>1, <3>0, <3>1
    <3>2. CASE i # m
      <4>1. i \in 1 .. m - 1 /\ i < m /\ i \in 0 .. m
        BY <2>1, <3>2
      <4>2. g[i] = f[i]
        BY <4>1
      <4> QED
        BY <2>2, <3>0, <4>1, <4>2 DEF Parses
    <3> QED
      BY <3>1, <3>2
  <2>5. Parses(g, p, units, ks, m)
    BY <2>3, <2>4 DEF Parses
  <2> QED
    BY <1>1, <2>5
<1> QED
  BY <1>2, <1>3

LEMMA FeedRuns ==
  ASSUME NEW c, NEW units, Len(units) \in Nat
  PROVE  \E f : /\ Parses(f, prs[c], units, sent[c], Len(units))
                /\ Feed(c, units) = [f[Len(units)] EXCEPT !.halt = FALSE]
<1> DEFINE R(f) == f = [i \in 0 .. Len(units) |->
                    IF i = 0 THEN prs[c]
                    ELSE ParseUnit(f[i - 1], units[i], sent[c][units[i].req])]
           after == CHOOSE f : R(f)
<1>1. PICK f : Parses(f, prs[c], units, sent[c], Len(units))
  BY Run
<1>2. R(f)
  <2> DEFINE step(i) == IF i = 0 THEN prs[c]
                        ELSE ParseUnit(f[i - 1], units[i], sent[c][units[i].req])
  <2>1. ASSUME NEW i \in 0 .. Len(units) PROVE f[i] = step(i)
    <3>1. i = 0 \/ i \in 1 .. Len(units)
      OBVIOUS
    <3> QED
      BY <1>1, <3>1 DEF Parses
  <2>2. f = [i \in 0 .. Len(units) |-> f[i]]
    BY <1>1 DEF Parses
  <2> HIDE DEF step
  <2>3. f = [i \in 0 .. Len(units) |-> step(i)]
    BY <2>1, <2>2
  <2> QED
    BY <2>3 DEF step
<1>3. R(after)
  BY <1>2
<1>4. Parses(after, prs[c], units, sent[c], Len(units))
  <2>1. PICK g : g = after /\ R(g)
    BY <1>3
  <2> DEFINE step(i) == IF i = 0 THEN prs[c]
                        ELSE ParseUnit(g[i - 1], units[i], sent[c][units[i].req])
  <2>2. g = [i \in 0 .. Len(units) |-> step(i)]
    BY <2>1
  <2> HIDE DEF step
  <2>3. g = [i \in 0 .. Len(units) |-> g[i]]
        /\ \A i \in 0 .. Len(units) : g[i] = step(i)
    BY <2>2
  <2>4. 0 \in 0 .. Len(units) /\ \A i \in 1 .. Len(units) :
          i \in 0 .. Len(units) /\ i # 0
    OBVIOUS
  <2>5. Parses(g, prs[c], units, sent[c], Len(units))
    BY <2>3, <2>4 DEF Parses, step
  <2> QED
    BY <2>1, <2>5
<1>5. Feed(c, units) = [after[Len(units)] EXCEPT !.halt = FALSE]
  BY DEF Feed
<1> QED
  BY <1>4, <1>5

-----------------------------------------------------------------------------
(* What the callbacks of the parser change.                                *)

DoesComplete(p, k, q) ==
  /\ q \in PrsType
  /\ q.body_complete = TRUE /\ q.length = Len(p.mem) /\ q.halt = k.upgrade
  /\ q.st \in {"start", "dead"} /\ q.req = p.req
  /\ q.headers_complete = p.headers_complete /\ q.mem = p.mem
  /\ q.offload = p.offload /\ q.file = p.file /\ q.fail = p.fail

LEMMA MessageCompleteFields ==
  ASSUME NEW p \in PrsType, NEW k \in Kind
  PROVE  DoesComplete(p, k, MessageComplete(p, k))
<1>1. Len(p.mem) \in Nat /\ k.upgrade \in BOOLEAN
  BY DEF PrsType, Kind
<1> QED
  BY <1>1 DEF PrsType, MessageComplete, DoesComplete

DoesHeaders(p, k, q) ==
  /\ q \in PrsType /\ q.req = p.req /\ q.headers_complete = TRUE
  /\ q.mem = p.mem /\ q.offload = p.offload /\ q.file = p.file
  /\ q.fail = p.fail
  /\ IF k.upgrade \/ k.body = 0
     THEN /\ q.body_complete = TRUE /\ q.length = Len(p.mem)
          /\ q.halt = k.upgrade /\ q.st \in {"start", "dead"}
     ELSE /\ q.st = "body" /\ q.length = k.body /\ q.halt = p.halt
          /\ q.body_complete = p.body_complete

LEMMA HeadersDoneFields ==
  ASSUME NEW p \in PrsType, NEW k \in Kind
  PROVE  DoesHeaders(p, k, HeadersDone(p, k))
<1>0. PICK q : q = HeadersDone(p, k)
  OBVIOUS
<1>1. PICK h : h = [p EXCEPT !.headers_complete = TRUE, !.length = k.body]
  OBVIOUS
<1>2. k.body \in Nat
  BY DEF Kind
<1>3. /\ h \in PrsType /\ h.headers_complete = TRUE /\ h.length = k.body
      /\ h.req = p.req /\ h.mem = p.mem /\ h.offload = p.offload
      /\ h.file = p.file /\ h.fail = p.fail /\ h.halt = p.halt
      /\ h.body_complete = p.body_complete
  BY <1>1, <1>2 DEF PrsType
<1>4. CASE k.upgrade \/ k.body = 0
  <2>1. q = MessageComplete(h, k)
    BY <1>0, <1>1, <1>4 DEF HeadersDone
  <2>2. /\ q \in PrsType
        /\ q.body_complete = TRUE /\ q.length = Len(h.mem) /\ q.halt = k.upgrade
        /\ q.st \in {"start", "dead"} /\ q.req = h.req
        /\ q.headers_complete = h.headers_complete /\ q.mem = h.mem
        /\ q.offload = h.offload /\ q.file = h.file /\ q.fail = h.fail
    BY <1>3, <2>1, MessageCompleteFields DEF DoesComplete
  <2> QED
    BY <1>0, <1>3, <1>4, <2>2 DEF DoesHeaders
<1>5. CASE ~(k.upgrade \/ k.body = 0)
  <2>1. q = [h EXCEPT !.st = "body"]
    BY <1>0, <1>1, <1>5 DEF HeadersDone
  <2> QED
    BY <1>0, <1>3, <1>5, <2>1 DEF PrsType, DoesHeaders
<1> QED
  BY <1>4, <1>5

DoesBody(p, u, k, q) ==
  /\ q \in PrsType /\ q.req = p.req /\ q.fail = p.fail
  /\ q.headers_complete = p.headers_complete /\ q.offload = p.offload
  /\ IF p.offload THEN q.file = Append(p.file, u) /\ q.mem = p.mem
     ELSE q.mem = Append(p.mem, u) /\ q.file = p.file
  /\ IF p.length = 1
     THEN /\ q.body_complete = TRUE /\ q.length = Len(q.mem)
          /\ q.halt = k.upgrade /\ q.st \in {"start", "dead"}
     ELSE /\ q.st = p.st /\ q.length = p.length - 1 /\ q.halt = p.halt
          /\ q.body_complete = p.body_complete

LEMMA BodyPartFields ==
  ASSUME NEW p \in PrsType, NEW k \in Kind, NEW u \in UnitType, p.length > 0
  PROVE  DoesBody(p, u, k, BodyPart(p, u, k))
<1>0. PICK q : q = BodyPart(p, u, k)
  OBVIOUS
<1>1. PICK h : h = IF p.offload
                   THEN [p EXCEPT !.file = Append(@, u), !.length = @ - 1]
                   ELSE [p EXCEPT !.mem = Append(@, u), !.length = @ - 1]
  OBVIOUS
<1>2. /\ p.length - 1 \in Nat /\ p.length \in Nat
      /\ Append(p.file, u) \in Seq(UnitType) /\ Append(p.mem, u) \in Seq(UnitType)
  BY AppendProperties DEF PrsType
<1>3. /\ h \in PrsType /\ h.length = p.length - 1 /\ h.req = p.req
      /\ h.fail = p.fail /\ h.headers_complete = p.headers_complete
      /\ h.offload = p.offload /\ h.halt = p.halt /\ h.st = p.st
      /\ h.body_complete = p.body_complete
  BY <1>1, <1>2 DEF PrsType
<1>4. IF p.offload THEN h.file = Append(p.file, u) /\ h.mem = p.mem
      ELSE h.mem = Append(p.mem, u) /\ h.file = p.file
  BY <1>1 DEF PrsType
<1>5. CASE p.length = 1
  <2>1. q = MessageComplete(h, k)
    BY <1>0, <1>1, <1>3, <1>5 DEF BodyPart
  <2>2. /\ q \in PrsType
        /\ q.body_complete = TRUE /\ q.length = Len(h.mem) /\ q.halt = k.upgrade
        /\ q.st \in {"start", "dead"} /\ q.req = h.req
        /\ q.headers_complete = h.headers_complete /\ q.mem = h.mem
        /\ q.offload = h.offload /\ q.file = h.file /\ q.fail = h.fail
    BY <1>3, <2>1, MessageCompleteFields DEF DoesComplete
  <2> QED
    BY <1>0, <1>3, <1>4, <1>5, <2>2 DEF DoesBody
<1>6. CASE p.length # 1
  <2>1. q = h
    BY <1>0, <1>1, <1>2, <1>3, <1>6 DEF BodyPart
  <2> QED
    BY <1>0, <1>3, <1>4, <1>6, <2>1 DEF DoesBody
<1> QED
  BY <1>5, <1>6

DoesClear(r, st, q) ==
  /\ q \in PrsType /\ q.req = r /\ q.st = st /\ q.headers_complete = FALSE
  /\ q.body_complete = FALSE /\ q.mem = << >> /\ q.file = << >>
  /\ q.offload = FALSE /\ q.halt = FALSE /\ q.fail = FALSE

LEMMA ClearedFields ==
  ASSUME NEW r \in Nat, NEW st \in {"start", "head", "body", "dead"}
  PROVE  DoesClear(r, st, Cleared(r, st))
  BY DEF Cleared, PrsType, DoesClear

DoesFail(p, r, q) ==
  /\ q \in PrsType /\ q.req = r /\ q.fail = TRUE /\ q.halt = p.halt
  /\ q.offload = p.offload /\ q.file = p.file /\ q.mem = p.mem
  /\ q.headers_complete = p.headers_complete

LEMMA FailedFields ==
  ASSUME NEW p \in PrsType, NEW r \in Nat
  PROVE  DoesFail(p, r, Failed(p, r))
  BY DEF Failed, PrsType, DoesFail

(* The Request in the header of u's request.                               *)
InHead(h, u) ==
  /\ h \in PrsType /\ h.req = u.req /\ h.st = "head" /\ ~h.headers_complete
  /\ ~h.body_complete /\ h.mem = << >> /\ h.file = << >> /\ ~h.offload
  /\ ~h.halt /\ ~h.fail

(* What ParseUnit can do with the unit that is due.                        *)
LEMMA ParseCases ==
  ASSUME NEW ks \in Seq(Kinds), NEW p, NEW u, IsUnit(ks, u), Parsed(ks, p, u),
         NEW k, k = ks[u.req], NEW q, q = ParseUnit(p, u, k)
  PROVE  /\ k \in Kind /\ u \in UnitType /\ p \in PrsType
         /\ \/ p.fail /\ q = p
            \/ ~p.fail /\ q = Failed(p, u.req)
            \/ ~p.fail /\ u.part = "body" /\ p.st = "body" /\ q = BodyPart(p, u, k)
            \/ /\ ~p.fail /\ u.part = "head"
               /\ \E h : /\ InHead(h, u)
                         /\ \/ u.n < k.head /\ q = h
                            \/ u.n = k.head /\ q = Failed(h, u.req)
                            \/ u.n = k.head /\ q = HeadersDone(h, k)
<1>1. u \in UnitType /\ u.req \in 1 .. Len(ks) /\ (u.part = "head" => u.n <= k.head)
  BY DEF IsUnit
<1>2. k \in Kind
  BY <1>1, KindsAssumption
<1>3. p \in PrsType
  BY DEF Parsed
<1>4. CASE p.fail
  BY <1>2, <1>1, <1>3, <1>4 DEF ParseUnit
<1>5. CASE ~p.fail /\ (p.halt \/ p.st = "dead")
  BY <1>2, <1>1, <1>3, <1>5 DEF ParseUnit
<1>6. CASE ~p.fail /\ ~p.halt /\ p.st # "dead" /\ u.part = "body"
  BY <1>2, <1>1, <1>3, <1>6 DEF ParseUnit
<1>7. CASE ~p.fail /\ ~p.halt /\ p.st # "dead" /\ u.part = "head"
  <2>1. PICK h : h = IF u.n = 1 THEN Cleared(u.req, "head") ELSE p
    OBVIOUS
  <2>2. u.n \in Nat \ {0} /\ u.req \in Nat /\ k.head \in Nat
    BY <1>1, <1>2 DEF UnitType, Kind
  <2>3. InHead(h, u)
    <3>1. CASE u.n = 1
      <4>1. h = Cleared(u.req, "head")
        BY <2>1, <3>1
      <4>2. DoesClear(u.req, "head", h)
        BY <2>2, <4>1, ClearedFields
      <4> QED
        BY <4>2 DEF InHead, DoesClear
    <3>2. CASE u.n # 1
      <4>1. p.st # "start"
        <5>1. AtStart(ks, p, u)
          BY <1>7 DEF Parsed
        <5>2. Start(p.req + 1).n = 1 /\ Unit(p.req, "body", 1).part = "body"
          BY DEF Start, Unit
        <5> QED
          BY <1>7, <3>2, <5>1, <5>2 DEF AtStart
      <4>2. p.st # "body"
        BY <1>7 DEF Parsed, AtBody
      <4>3. p.st = "head"
        BY <1>3, <1>7, <4>1, <4>2 DEF PrsType
      <4>4. AtHead(p, u)
        BY <1>7 DEF Parsed
      <4> QED
        BY <1>3, <1>7, <2>1, <3>2, <4>3, <4>4 DEF AtHead, InHead
    <3> QED
      BY <3>1, <3>2
  <2>4. q = IF u.n < k.head THEN h
            ELSE IF k.bad THEN Failed(h, u.req) ELSE HeadersDone(h, k)
    BY <1>7, <2>1 DEF ParseUnit
  <2>5. u.n < k.head \/ u.n = k.head
    BY <1>1, <1>7, <2>2
  <2>6. \/ u.n < k.head /\ q = h
        \/ u.n = k.head /\ q = Failed(h, u.req)
        \/ u.n = k.head /\ q = HeadersDone(h, k)
    BY <2>2, <2>4, <2>5
  <2> QED
    BY <1>1, <1>2, <1>3, <1>7, <2>3, <2>6
<1>8. u.part \in {"head", "body"}
  BY <1>1 DEF UnitType
<1> QED
  BY <1>4, <1>5, <1>6, <1>7, <1>8

(* A unit later the parser is where it should be.                          *)
LEMMA ParseKeeps ==
  ASSUME NEW ks \in Seq(Kinds), NEW p, NEW u, IsUnit(ks, u), Parsed(ks, p, u)
  PROVE  Parsed(ks, ParseUnit(p, u, ks[u.req]), After(ks, u))
<1>1. PICK k : k = ks[u.req]
  OBVIOUS
<1>2. PICK q : q = ParseUnit(p, u, k)
  OBVIOUS
<1>3. PICK v : v = After(ks, u)
  OBVIOUS
<1> SUFFICES Parsed(ks, q, v)
  BY <1>1, <1>2, <1>3
<1>4. /\ k \in Kind /\ u \in UnitType /\ p \in PrsType
      /\ u.req \in 1 .. Len(ks) /\ u.req \in Nat /\ u.n \in Nat \ {0}
      /\ k.body \in Nat /\ k.head \in Nat \ {0} /\ k.upgrade \in BOOLEAN
  BY <1>1, <1>2, ParseCases DEF IsUnit, UnitType, Kind
<1>5. CASE p.fail /\ q = p
  BY <1>5 DEF Parsed
<1>6. CASE q = Failed(p, u.req)
  <2>1. q \in PrsType /\ q.req = u.req /\ q.fail = TRUE
    BY <1>4, <1>6, FailedFields DEF DoesFail
  <2> QED
    BY <1>4, <2>1 DEF Parsed
<1>7. CASE ~p.fail /\ u.part = "body" /\ p.st = "body" /\ q = BodyPart(p, u, k)
  <2>1. /\ u.req = p.req /\ p.headers_complete /\ ~p.body_complete /\ ~p.halt
        /\ BodySoFar(p) /\ Len(p.mem) + Len(p.file) = u.n - 1
        /\ p.length = k.body - (u.n - 1) /\ p.length > 0 /\ ~k.upgrade
    BY <1>1, <1>7 DEF Parsed, AtBody
  <2>2. /\ q \in PrsType /\ q.req = p.req /\ q.fail = p.fail
        /\ q.headers_complete = p.headers_complete /\ q.offload = p.offload
        /\ IF p.offload THEN q.file = Append(p.file, u) /\ q.mem = p.mem
           ELSE q.mem = Append(p.mem, u) /\ q.file = p.file
        /\ IF p.length = 1
           THEN /\ q.body_complete = TRUE /\ q.length = Len(q.mem)
                /\ q.halt = k.upgrade /\ q.st \in {"start", "dead"}
           ELSE /\ q.st = p.st /\ q.length = p.length - 1 /\ q.halt = p.halt
                /\ q.body_complete = p.body_complete
    <3>1. DoesBody(p, u, k, q)
      BY <1>4, <1>7, <2>1, BodyPartFields
    <3> QED
      BY <3>1 DEF DoesBody
  <2>3. u = Unit(p.req, "body", u.n)
    BY <1>4, <1>7, <2>1 DEF Unit, UnitType
  <2>4. BodySoFar(q) /\ Len(q.mem) + Len(q.file) = u.n
    <3>1. p.mem \in Seq(UnitType) /\ p.file \in Seq(UnitType) /\ Len(p.mem) \in Nat
          /\ Len(p.file) \in Nat
      BY <1>4 DEF PrsType
    <3>4. Len(p.mem) + Len(p.file) = u.n - 1 /\ u.n \in Nat
      BY <1>4, <2>1
    <3>5. Len(p.mem) + (Len(p.file) + 1) = u.n
      <4>1. PICK a \in Nat : a = Len(p.mem)
        BY <3>1
      <4>2. PICK b \in Nat : b = Len(p.file)
        BY <3>1
      <4>3. PICK m \in Nat : m = u.n
        BY <3>4
      <4>4. a + b = m - 1
        BY <3>4, <4>1, <4>2, <4>3
      <4>5. a + (b + 1) = m
        BY <4>4
      <4> QED
        BY <4>1, <4>2, <4>3, <4>5
    <3>2. CASE p.offload
      <4>1. /\ Len(q.file) = Len(p.file) + 1 /\ q.mem = p.mem
            /\ \A j \in 1 .. Len(p.file) : q.file[j] = p.file[j]
            /\ q.file[Len(p.file) + 1] = u
        BY <1>4, <2>2, <3>1, <3>2, AppendProperties
      <4>2. u = Unit(p.req, "body", Len(p.mem) + (Len(p.file) + 1))
        <5>1. Len(p.mem) + (Len(p.file) + 1) = u.n
          BY <3>5
        <5> QED
          BY <2>3, <5>1
      <4>3. \A j \in 1 .. Len(q.file) : q.file[j] = Unit(q.req, "body", Len(q.mem) + j)
        <5>1. \A j \in 1 .. Len(q.file) :
                j \in 1 .. Len(p.file) \/ j = Len(p.file) + 1
          BY <3>1, <4>1
        <5>2. \A j \in 1 .. Len(p.file) :
                p.file[j] = Unit(p.req, "body", Len(p.mem) + j)
          BY <2>1 DEF BodySoFar
        <5> QED
          BY <2>2, <4>1, <4>2, <5>1, <5>2
      <4>4. Len(q.mem) + Len(q.file) = u.n
        BY <3>5, <4>1
      <4>5. q.offload /\ \A j \in 1 .. Len(q.mem) : q.mem[j] = Unit(q.req, "body", j)
        BY <2>1, <2>2, <3>2, <4>1 DEF BodySoFar
      <4> QED
        BY <4>3, <4>4, <4>5 DEF BodySoFar
    <3>3. CASE ~p.offload
      <4>0. p.file = << >> /\ Len(p.file) = 0
        BY <2>1, <3>3 DEF BodySoFar
      <4>1. /\ Len(q.mem) = Len(p.mem) + 1 /\ q.file = << >> /\ Len(q.file) = 0
            /\ \A j \in 1 .. Len(p.mem) : q.mem[j] = p.mem[j]
            /\ q.mem[Len(p.mem) + 1] = u
        BY <1>4, <2>2, <3>1, <3>3, <4>0, AppendProperties
      <4>5. PICK a \in Nat : a = Len(p.mem)
        BY <3>1
      <4>6. a + 1 = u.n
        <5>1. a + (0 + 1) = u.n
          BY <3>5, <4>0, <4>5
        <5> QED
          BY <5>1
      <4>2. u = Unit(p.req, "body", Len(p.mem) + 1)
        BY <2>3, <4>5, <4>6
      <4>3. \A j \in 1 .. Len(q.mem) : q.mem[j] = Unit(q.req, "body", j)
        <5>1. \A j \in 1 .. Len(q.mem) :
                j \in 1 .. Len(p.mem) \/ j = Len(p.mem) + 1
          BY <3>1, <4>1
        <5>2. \A j \in 1 .. Len(p.mem) : p.mem[j] = Unit(p.req, "body", j)
          BY <2>1 DEF BodySoFar
        <5> QED
          BY <2>2, <4>1, <4>2, <5>1, <5>2
      <4> QED
        BY <1>4, <2>1, <3>1, <4>0, <4>1, <4>3 DEF BodySoFar
    <3> QED
      BY <3>2, <3>3
  <2>5. CASE p.length = 1
    <3>1. u.n = k.body
      BY <1>4, <2>1, <2>5
    <3>2. v = Start(q.req + 1)
      BY <1>1, <1>3, <1>7, <2>1, <2>2, <3>1 DEF After, Last
    <3> QED
      BY <1>1, <1>4, <2>1, <2>2, <2>4, <2>5, <3>1, <3>2
         DEF Parsed, AtStart, AtHead, AtBody, AtEnd
  <2>6. CASE p.length # 1
    <3>1. u.n # k.body
      BY <1>4, <2>1, <2>6
    <3>2. v = Unit(u.req, "body", u.n + 1)
      BY <1>1, <1>3, <1>7, <3>1 DEF After, Last
    <3>3. v.part = "body" /\ v.req = q.req /\ v.n = u.n + 1
      BY <2>1, <2>2, <3>2 DEF Unit
    <3>4. q.length = k.body - (v.n - 1) /\ q.length > 0
      <4>1. q.length = (k.body - (u.n - 1)) - 1 /\ v.n - 1 = u.n
        BY <1>4, <2>1, <2>2, <2>6, <3>3
      <4>2. k.body - (u.n - 1) > 0 /\ k.body - (u.n - 1) # 1
        BY <2>1, <2>6
      <4> QED
        BY <1>4, <4>1, <4>2
    <3>5. Len(q.mem) + Len(q.file) = v.n - 1
      <4>1. v.n - 1 = u.n
        BY <1>4, <3>3
      <4> QED
        BY <2>4, <4>1
    <3> QED
      BY <1>1, <1>4, <1>7, <2>1, <2>2, <2>4, <2>6, <3>3, <3>4, <3>5
         DEF Parsed, AtStart, AtHead, AtBody, AtEnd
  <2> QED
    BY <2>5, <2>6
<1>8. ASSUME NEW h, InHead(h, u), u.part = "head", u.n < k.head, q = h
      PROVE  Parsed(ks, q, v)
  <2>1. v = Unit(u.req, "head", u.n + 1)
    BY <1>1, <1>3, <1>4, <1>8 DEF After, Last
  <2>2. v.part = "head" /\ v.n > 1 /\ v.req = q.req
    BY <1>4, <1>8, <2>1 DEF Unit, InHead
  <2> QED
    BY <1>8, <2>2 DEF InHead, Parsed, AtStart, AtHead, AtBody, AtEnd
<1>9. ASSUME NEW h, InHead(h, u), q = Failed(h, u.req)
      PROVE  Parsed(ks, q, v)
  <2>1. h \in PrsType
    BY <1>9 DEF InHead
  <2>2. q \in PrsType /\ q.req = u.req /\ q.fail = TRUE
    BY <1>4, <1>9, <2>1, FailedFields DEF DoesFail
  <2> QED
    BY <1>4, <2>2 DEF Parsed
<1>10. ASSUME NEW h, InHead(h, u), u.part = "head", u.n = k.head,
              q = HeadersDone(h, k)
       PROVE  Parsed(ks, q, v)
  <2>1. /\ q \in PrsType /\ q.req = u.req /\ q.headers_complete = TRUE
        /\ q.mem = << >> /\ ~q.offload /\ q.file = << >> /\ ~q.fail
        /\ IF k.upgrade \/ k.body = 0
           THEN /\ q.body_complete = TRUE /\ q.length = Len(h.mem)
                /\ q.halt = k.upgrade /\ q.st \in {"start", "dead"}
           ELSE /\ q.st = "body" /\ q.length = k.body /\ ~q.halt
                /\ ~q.body_complete
    <3>1. h \in PrsType
      BY <1>10 DEF InHead
    <3>2. DoesHeaders(h, k, q)
      BY <1>4, <1>10, <3>1, HeadersDoneFields
    <3> QED
      BY <1>10, <3>2 DEF DoesHeaders, InHead
  <2>2. v = IF k.body > 0 THEN Unit(q.req, "body", 1) ELSE Start(q.req + 1)
    BY <1>1, <1>3, <1>10, <2>1 DEF After, Last
  <2>3. Len(q.mem) = 0 /\ Len(q.file) = 0 /\ Len(h.mem) = 0
    BY <1>10, <2>1 DEF InHead
  <2>4. BodySoFar(q)
    BY <2>1, <2>3 DEF BodySoFar
  <2>5. CASE k.upgrade \/ k.body = 0
    BY <1>1, <1>4, <2>1, <2>2, <2>3, <2>4, <2>5
       DEF Parsed, AtStart, AtHead, AtBody, AtEnd
  <2>6. CASE ~(k.upgrade \/ k.body = 0)
    <3>1. v.part = "body" /\ v.req = q.req /\ v.n = 1
      BY <1>4, <2>2, <2>6 DEF Unit
    <3> QED
      BY <1>1, <1>4, <2>1, <2>3, <2>4, <2>6, <3>1
         DEF Parsed, AtStart, AtHead, AtBody, AtEnd
  <2> QED
    BY <2>5, <2>6
<1> QED
  BY <1>1, <1>2, <1>5, <1>6, <1>7, <1>8, <1>9, <1>10, ParseCases

(* receive_headers after i units: what there is of a body came with the    *)
(* header, and neither it nor a failure is of a request before r.          *)
HeadOK(q, r, i) ==
  /\ ~q.offload /\ q.file = << >>
  /\ q.fail \/ q.headers_complete => q.req >= r
  /\ q.headers_complete => Len(q.mem) < i

LEMMA HeadKeeps ==
  ASSUME NEW ks \in Seq(Kinds), NEW p, NEW u, IsUnit(ks, u), Parsed(ks, p, u),
         NEW r \in Nat, u.req >= r, NEW i \in Nat, HeadOK(p, r, i)
  PROVE  HeadOK(ParseUnit(p, u, ks[u.req]), r, i + 1)
<1>1. PICK k : k = ks[u.req]
  OBVIOUS
<1>2. PICK q : q = ParseUnit(p, u, k)
  OBVIOUS
<1> SUFFICES HeadOK(q, r, i + 1)
  BY <1>1, <1>2
<1>3. /\ k \in Kind /\ u \in UnitType /\ p \in PrsType /\ u.req \in Nat
  BY <1>1, <1>2, ParseCases DEF UnitType
<1>4. Len(p.mem) \in Nat /\ p.mem \in Seq(UnitType)
  BY <1>3 DEF PrsType
<1>5. CASE q = p
  BY <1>4, <1>5 DEF HeadOK
<1>6. CASE q = Failed(p, u.req)
  <2>1. DoesFail(p, u.req, q)
    BY <1>3, <1>6, FailedFields
  <2> QED
    BY <1>4, <2>1 DEF HeadOK, DoesFail
<1>7. CASE ~p.fail /\ u.part = "body" /\ p.st = "body" /\ q = BodyPart(p, u, k)
  <2>1. p.headers_complete /\ p.length > 0
    BY <1>7 DEF Parsed, AtBody
  <2>2. DoesBody(p, u, k, q)
    BY <1>3, <1>7, <2>1, BodyPartFields
  <2>3. q.mem = Append(p.mem, u) /\ q.file = << >> /\ ~q.offload /\ q.req = p.req
    BY <2>2 DEF DoesBody, HeadOK
  <2>4. Len(q.mem) = Len(p.mem) + 1
    BY <1>3, <1>4, <2>3, AppendProperties
  <2> QED
    BY <1>4, <2>1, <2>3, <2>4 DEF HeadOK
<1>8. ASSUME NEW h, InHead(h, u), q = h
      PROVE  HeadOK(q, r, i + 1)
  BY <1>8 DEF InHead, HeadOK
<1>9. ASSUME NEW h, InHead(h, u), q = Failed(h, u.req)
      PROVE  HeadOK(q, r, i + 1)
  <2>1. DoesFail(h, u.req, q)
    BY <1>3, <1>9, FailedFields DEF InHead
  <2> QED
    BY <1>9, <2>1 DEF HeadOK, DoesFail, InHead
<1>10. ASSUME NEW h, InHead(h, u), q = HeadersDone(h, k)
       PROVE  HeadOK(q, r, i + 1)
  <2>1. DoesHeaders(h, k, q)
    BY <1>3, <1>10, HeadersDoneFields DEF InHead
  <2>2. q.mem = << >> /\ q.file = << >> /\ ~q.offload /\ q.req = u.req
    BY <1>10, <2>1 DEF DoesHeaders, InHead
  <2>3. Len(q.mem) = 0
    BY <2>2
  <2> QED
    BY <2>2, <2>3 DEF HeadOK
<1> QED
  BY <1>1, <1>2, <1>5, <1>6, <1>7, <1>8, <1>9, <1>10, ParseCases

(* receive_body after i units of the rest of the body of p.                *)
BodyOK(q, p, i) ==
  /\ ~q.fail /\ q.req = p.req /\ q.offload = p.offload /\ q.headers_complete
  /\ q.offload => q.mem = p.mem
  /\ i < p.length => q.st = "body" /\ q.length = p.length - i
  /\ i = p.length => q.body_complete /\ q.st # "body"

LEMMA BodyKeeps ==
  ASSUME NEW ks \in Seq(Kinds), NEW p, NEW u, IsUnit(ks, u), Parsed(ks, p, u),
         NEW p0 \in PrsType, NEW i \in Nat, i < p0.length, BodyOK(p, p0, i)
  PROVE  BodyOK(ParseUnit(p, u, ks[u.req]), p0, i + 1)
<1>1. PICK k : k = ks[u.req]
  OBVIOUS
<1>2. PICK q : q = ParseUnit(p, u, k)
  OBVIOUS
<1> SUFFICES BodyOK(q, p0, i + 1)
  BY <1>1, <1>2
<1>3. /\ k \in Kind /\ u \in UnitType /\ p \in PrsType
  BY <1>1, <1>2, ParseCases
<1>4. /\ ~p.fail /\ p.req = p0.req /\ p.offload = p0.offload
      /\ p.headers_complete /\ (p.offload => p.mem = p0.mem)
      /\ p.st = "body" /\ p.length = p0.length - i
  BY DEF BodyOK
<1>5. u.part = "body" /\ ~p.halt /\ p.length > 0
  BY <1>4 DEF Parsed, AtBody
<1>6. q = BodyPart(p, u, k)
  BY <1>2, <1>4, <1>5 DEF ParseUnit
<1>7. DoesBody(p, u, k, q)
  BY <1>3, <1>5, <1>6, BodyPartFields
<1>8. p0.length \in Nat
  BY DEF PrsType
<1>9. /\ ~q.fail /\ q.req = p0.req /\ q.offload = p0.offload /\ q.headers_complete
      /\ q.offload => q.mem = p0.mem
  BY <1>4, <1>7 DEF DoesBody
<1>10. CASE i + 1 = p0.length
  <2>1. p.length = 1
    BY <1>4, <1>8, <1>10
  <2>2. q.body_complete /\ q.st # "body"
    BY <1>7, <2>1 DEF DoesBody
  <2> QED
    BY <1>9, <1>10, <2>2 DEF BodyOK
<1>11. CASE i + 1 # p0.length
  <2>1. p.length # 1 /\ p.length - 1 = p0.length - (i + 1)
    BY <1>4, <1>8, <1>11
  <2>2. q.st = "body" /\ q.length = p0.length - (i + 1)
    BY <1>4, <1>7, <2>1 DEF DoesBody
  <2> QED
    BY <1>9, <1>11, <2>2 DEF BodyOK
<1> QED
  BY <1>10, <1>11

-----------------------------------------------------------------------------
(* parser::feed over the first n units of the stream s.                    *)

LEMMA AfterLater ==
  ASSUME NEW ks, NEW u, IsUnit(ks, u)
  PROVE  After(ks, u).req \in Nat /\ After(ks, u).req >= u.req
<1>1. u.req \in Nat
  BY DEF IsUnit, UnitType
<1> QED
  BY <1>1 DEF After, Start, Unit

Fed(c, s, n, p, q) ==
  /\ Parsed(sent[c], q, Behind(sent[c], s, n)) /\ ~q.halt
  /\ Behind(sent[c], s, n).req >= Behind(sent[c], s, 0).req
  /\ ~p.fail /\ ~p.headers_complete => HeadOK(q, Behind(sent[c], s, 0).req, n)
  /\ ~p.fail /\ p.st = "body" /\ n <= p.length => BodyOK(q, p, n)

LEMMA FeedKeeps ==
  ASSUME NEW c \in Conn, sent[c] \in Seq(Kinds), NEW s \in Seq(UnitType),
         Chained(sent[c], s), NEW n \in 0 .. Len(s), NEW units,
         Len(units) = n, \A i \in 1 .. n : units[i] = s[i],
         Parsed(sent[c], prs[c], Behind(sent[c], s, 0))
  PROVE  Fed(c, s, n, prs[c], Feed(c, units))
<1>1. PICK ks : ks = sent[c]
  OBVIOUS
<1>2. PICK p : p = prs[c]
  OBVIOUS
<1>3. n \in Nat /\ Len(s) \in Nat /\ Len(ks) \in Nat /\ p \in PrsType
      /\ ks \in Seq(Kinds) /\ p.length \in Nat
  BY <1>1, <1>2 DEF Parsed, PrsType
<1>4. PICK f : /\ Parses(f, p, units, ks, n)
               /\ Feed(c, units) = [f[n] EXCEPT !.halt = FALSE]
  BY <1>1, <1>2, <1>3, FeedRuns
<1> DEFINE at(i) == Behind(ks, s, i)
           r == at(0).req
           J(i) == /\ Parsed(ks, f[i], at(i)) /\ at(i).req >= r
                   /\ ~p.fail /\ ~p.headers_complete => HeadOK(f[i], r, i)
                   /\ ~p.fail /\ p.st = "body" /\ i <= p.length => BodyOK(f[i], p, i)
           T == {i \in 0 .. n : ~J(i)}
<1>5. r \in Nat
  <2>1. CASE Len(s) = 0
    BY <1>3, <2>1 DEF Behind, Start, Unit
  <2>2. CASE Len(s) > 0
    <3>1. at(0) = s[1] /\ s[1] \in UnitType
      BY <1>3, <2>2 DEF Behind
    <3> QED
      BY <3>1 DEF UnitType
  <2> QED
    BY <1>3, <2>1, <2>2
<1>6. J(0)
  <2>1. f[0] = p
    BY <1>4 DEF Parses
  <2>2. Parsed(ks, f[0], at(0))
    BY <1>1, <1>2, <2>1
  <2>3. ASSUME ~p.fail, ~p.headers_complete PROVE HeadOK(f[0], r, 0)
    BY <1>1, <1>2, <2>1, <2>2, <2>3 DEF Parsed, AtHead, HeadOK
  <2>4. ASSUME ~p.fail, p.st = "body" PROVE BodyOK(f[0], p, 0)
    <3>1. p.headers_complete /\ p.length > 0
      BY <1>1, <1>2, <2>1, <2>2, <2>4 DEF Parsed, AtBody
    <3> QED
      BY <1>3, <2>1, <2>4, <3>1 DEF BodyOK
  <2>5. at(0).req >= r
    BY <1>5
  <2> HIDE DEF at, r
  <2> QED
    BY <2>2, <2>3, <2>4, <2>5
<1>7. ASSUME NEW i \in 0 .. n - 1, J(i) PROVE J(i + 1)
  <2>1. PICK u : u = s[i + 1]
    OBVIOUS
  <2>2. i + 1 \in 1 .. Len(s) /\ i + 1 \in 1 .. n /\ i < Len(s) /\ i \in Nat
    BY <1>3
  <2>3. at(i) = u /\ units[i + 1] = u
    BY <2>1, <2>2 DEF Behind
  <2>4. IsUnit(ks, u) /\ at(i + 1) = After(ks, u)
    BY <1>1, <2>1, <2>2 DEF Chained
  <2>5. f[i + 1] = ParseUnit(f[i], u, ks[u.req])
    <3>1. f[i + 1] = ParseUnit(f[(i + 1) - 1], units[i + 1], ks[units[i + 1].req])
      BY <1>4, <2>2 DEF Parses
    <3>2. (i + 1) - 1 = i
      BY <2>2
    <3> QED
      BY <2>3, <3>1, <3>2
  <2> HIDE DEF at, r
  <2>6. Parsed(ks, f[i], u) /\ u.req >= r
    BY <1>7, <2>3
  <2>7. Parsed(ks, f[i + 1], at(i + 1))
    BY <1>3, <2>4, <2>5, <2>6, ParseKeeps
  <2>8. at(i + 1).req >= r
    <3>1. After(ks, u).req \in Nat /\ After(ks, u).req >= u.req /\ u.req \in Nat
      BY <2>4, AfterLater DEF IsUnit, UnitType
    <3> QED
      BY <1>5, <2>4, <2>6, <3>1
  <2>9. ASSUME ~p.fail, ~p.headers_complete PROVE HeadOK(f[i + 1], r, i + 1)
    <3>1. HeadOK(f[i], r, i)
      BY <1>7, <2>9
    <3> QED
      BY <1>3, <1>5, <2>2, <2>4, <2>5, <2>6, <3>1, HeadKeeps
  <2>10. ASSUME ~p.fail, p.st = "body", i + 1 <= p.length PROVE BodyOK(f[i + 1], p, i + 1)
    <3>1. i < p.length /\ i <= p.length
      BY <1>3, <2>2, <2>10
    <3>2. BodyOK(f[i], p, i)
      BY <1>7, <2>10, <3>1
    <3> QED
      BY <1>3, <2>2, <2>4, <2>5, <2>6, <3>1, <3>2, BodyKeeps
  <2> QED
    BY <2>7, <2>8, <2>9, <2>10
<1> HIDE DEF J
<1>8. T = {}
  <2> SUFFICES ASSUME T # {} PROVE FALSE
    OBVIOUS
  <2>0. T \subseteq Nat
    BY <1>3
  <2>6. PICK S : S = T
    OBVIOUS
  <2>1. PICK m \in S : \A i \in S : m <= i
    <3> HIDE DEF T
    <3> QED
      BY <2>0, <2>6, LeastNat
  <2>2. m \in 0 .. n /\ ~J(m)
    BY <2>6
  <2>3. m # 0
    BY <1>6, <2>2
  <2>4. m - 1 \in 0 .. n - 1 /\ m - 1 \in 0 .. n /\ ~(m <= m - 1) /\ (m - 1) + 1 = m
    BY <1>3, <2>2, <2>3
  <2>5. J(m - 1)
    BY <2>6, <2>1, <2>4
  <2> QED
    BY <1>7, <2>2, <2>4, <2>5
<1>9. J(n)
  BY <1>3, <1>8
<1>10. PICK g : g = f[n]
  OBVIOUS
<1>11. PICK q : q = [g EXCEPT !.halt = FALSE]
  OBVIOUS
<1> USE DEF J
<1>12. g \in PrsType
  BY <1>9, <1>10 DEF Parsed
<1>13. /\ q \in PrsType /\ q.halt = FALSE /\ q.req = g.req /\ q.st = g.st
       /\ q.headers_complete = g.headers_complete
       /\ q.body_complete = g.body_complete /\ q.length = g.length
       /\ q.mem = g.mem /\ q.offload = g.offload /\ q.file = g.file
       /\ q.fail = g.fail
  BY <1>11, <1>12 DEF PrsType
<1>14. Parsed(ks, q, at(n))
  <2> HIDE DEF at
  <2>1. Parsed(ks, g, at(n))
    BY <1>9, <1>10
  <2>2. BodySoFar(g) => BodySoFar(q)
    BY <1>13 DEF BodySoFar
  <2> QED
    BY <1>13, <2>1, <2>2 DEF Parsed, AtStart, AtHead, AtBody, AtEnd
<1>15. HeadOK(g, r, n) => HeadOK(q, r, n)
  BY <1>13 DEF HeadOK
<1>16. BodyOK(g, p, n) => BodyOK(q, p, n)
  BY <1>13 DEF BodyOK
<1>17. Fed(c, s, n, p, q)
  BY <1>1, <1>9, <1>10, <1>13, <1>14, <1>15, <1>16 DEF Fed
<1> QED
  BY <1>2, <1>4, <1>10, <1>11, <1>17

-----------------------------------------------------------------------------
(* The stream as the client sends and the server reads.                    *)

(* What is left of the stream s when n units are read.                     *)
StreamFrom(ks, q, uns, v) ==
  /\ q \in Seq(UnitType) /\ Chained(ks, q \o uns) /\ Behind(ks, q \o uns, 0) = v

LEMMA ReadStream ==
  ASSUME NEW ks, NEW q \in Seq(UnitType), NEW uns \in Seq(UnitType),
         Chained(ks, q \o uns), NEW n \in 0 .. Len(q)
  PROVE  StreamFrom(ks, SubSeq(q, n + 1, Len(q)), uns, Behind(ks, q \o uns, n))
<1>12. PICK q2 : q2 = SubSeq(q, n + 1, Len(q))
  OBVIOUS
<1>1. Len(q) \in Nat /\ Len(uns) \in Nat /\ n \in Nat
  OBVIOUS
<1>2. /\ q2 \in Seq(UnitType) /\ Len(q2) = Len(q) - n
      /\ \A i \in 1 .. Len(q) - n : q2[i] = q[i + n]
  BY <1>1, <1>12
<1>3. PICK s : s = q \o uns
  OBVIOUS
<1>4. PICK t : t = q2 \o uns
  OBVIOUS
<1>5. /\ s \in Seq(UnitType) /\ Len(s) = Len(q) + Len(uns)
      /\ \A i \in 1 .. Len(q) + Len(uns) :
           s[i] = IF i <= Len(q) THEN q[i] ELSE uns[i - Len(q)]
  BY <1>3, ConcatProperties
<1>6. /\ t \in Seq(UnitType) /\ Len(t) = Len(q2) + Len(uns)
      /\ \A i \in 1 .. Len(q2) + Len(uns) :
           t[i] = IF i <= Len(q2) THEN q2[i] ELSE uns[i - Len(q2)]
  BY <1>2, <1>4, ConcatProperties
<1>7. Len(t) \in Nat /\ Len(s) \in Nat /\ Len(t) = Len(s) - n
  BY <1>1, <1>2, <1>5, <1>6
<1>8. ASSUME NEW i \in 1 .. Len(t) PROVE t[i] = s[i + n] /\ i + n \in 1 .. Len(s)
  <2>0. i \in Nat /\ i + n \in 1 .. Len(q) + Len(uns) /\ i \in 1 .. Len(q2) + Len(uns)
    BY <1>1, <1>2, <1>5, <1>6, <1>7
  <2>3. PICK m \in Int : m = Len(q2) /\ m = Len(q) - n
    BY <1>1, <1>2
  <2>1. CASE i <= Len(q2)
    <3>1. i \in 1 .. Len(q) - n /\ i + n <= Len(q)
      BY <1>1, <2>0, <2>1, <2>3
    <3>2. t[i] = q2[i] /\ s[i + n] = q[i + n]
      BY <1>5, <1>6, <2>0, <2>1, <3>1
    <3> QED
      BY <1>2, <1>5, <2>0, <3>1, <3>2
  <2>2. CASE ~(i <= Len(q2))
    <3>2. ~(i <= m) /\ m = Len(q2)
      BY <2>2, <2>3
    <3>3. PICK a \in Nat : a = Len(q) /\ m = a - n
      BY <1>1, <2>3
    <3>5. i \in Nat /\ n \in Nat /\ m = a - n /\ ~(i <= m)
      BY <1>1, <2>0, <3>2, <3>3
    <3>6. ASSUME NEW x \in Nat, NEW y \in Nat, NEW b \in Nat, ~(x <= b - y)
          PROVE  ~(x + y <= b) /\ (x + y) - b = x - (b - y)
      BY <3>6
    <3>4. ~(i + n <= a) /\ (i + n) - a = i - m
      BY <3>5, <3>6
    <3>1. ~(i + n <= Len(q)) /\ (i + n) - Len(q) = i - Len(q2)
      BY <3>2, <3>3, <3>4, Zenon
    <3> QED
      BY <1>5, <1>6, <2>0, <2>2, <3>1
  <2> QED
    BY <2>1, <2>2
<1>9. ASSUME NEW i \in 0 .. Len(t) PROVE Behind(ks, t, i) = Behind(ks, s, i + n)
  <2>1. CASE i < Len(t)
    <3>1. i + 1 \in 1 .. Len(t) /\ i + n < Len(s) /\ (i + 1) + n = (i + n) + 1
      BY <1>1, <1>7, <2>1
    <3> QED
      BY <1>8, <2>1, <3>1 DEF Behind
  <2>2. CASE ~(i < Len(t))
    <3>1. ~(i + n < Len(s))
      BY <1>1, <1>7, <2>2
    <3> QED
      BY <2>2, <3>1 DEF Behind
  <2> QED
    BY <2>1, <2>2
<1>10. Chained(ks, t)
  <2> SUFFICES ASSUME NEW i \in 1 .. Len(t)
               PROVE  IsUnit(ks, t[i]) /\ Behind(ks, t, i) = After(ks, t[i])
    BY DEF Chained
  <2>1. i \in 0 .. Len(t) /\ t[i] = s[i + n] /\ i + n \in 1 .. Len(s)
    BY <1>7, <1>8
  <2>2. IsUnit(ks, s[i + n]) /\ Behind(ks, s, i + n) = After(ks, s[i + n])
    BY <1>3, <2>1 DEF Chained
  <2> QED
    BY <1>9, <2>1, <2>2
<1>11. 0 \in 0 .. Len(t) /\ 0 + n = n
  BY <1>1, <1>7
<1> QED
  BY <1>2, <1>3, <1>4, <1>9, <1>10, <1>11, <1>12 DEF StreamFrom

(* The unit that arrives is the next of the stream.                        *)
LEMMA SentStream ==
  ASSUME NEW q \in Seq(UnitType), NEW uns \in Seq(UnitType), uns # << >>
  PROVE  /\ Append(q, uns[1]) \o Tail(uns) = q \o uns
         /\ Append(q, uns[1]) \in Seq(UnitType) /\ Tail(uns) \in Seq(UnitType)
<1>1. Len(uns) \in Nat /\ Len(uns) > 0 /\ Len(q) \in Nat
  BY EmptySeq
<1>2. PICK a : a = Append(q, uns[1])
  OBVIOUS
<1>3. PICK t : t = Tail(uns)
  OBVIOUS
<1>4. uns[1] \in UnitType
  BY <1>1
<1>5. /\ a \in Seq(UnitType) /\ Len(a) = Len(q) + 1 /\ a[Len(q) + 1] = uns[1]
      /\ \A i \in 1 .. Len(q) : a[i] = q[i]
  BY <1>2, <1>4, AppendProperties
<1>6. /\ t \in Seq(UnitType) /\ Len(t) = Len(uns) - 1
      /\ \A i \in 1 .. Len(uns) - 1 : t[i] = uns[i + 1]
  BY <1>1, <1>3
<1>7. /\ q \o uns \in Seq(UnitType) /\ Len(q \o uns) = Len(q) + Len(uns)
      /\ \A i \in 1 .. Len(q) + Len(uns) :
           (q \o uns)[i] = IF i <= Len(q) THEN q[i] ELSE uns[i - Len(q)]
  BY ConcatProperties
<1>8. /\ a \o t \in Seq(UnitType) /\ Len(a \o t) = Len(a) + Len(t)
      /\ \A i \in 1 .. Len(a) + Len(t) :
           (a \o t)[i] = IF i <= Len(a) THEN a[i] ELSE t[i - Len(a)]
  BY <1>5, <1>6, ConcatProperties
<1>9. Len(a \o t) = Len(q \o uns)
  BY <1>1, <1>5, <1>6, <1>7, <1>8
<1>10. ASSUME NEW i \in 1 .. Len(q) + Len(uns) PROVE (a \o t)[i] = (q \o uns)[i]
  <2>0. i \in Nat /\ i >= 1 /\ i \in 1 .. Len(a) + Len(t)
    BY <1>1, <1>5, <1>6
  <2>1. CASE i <= Len(q)
    <3>1. i \in 1 .. Len(q) /\ i <= Len(a)
      BY <1>1, <1>5, <2>0, <2>1
    <3> QED
      BY <1>5, <1>7, <1>8, <2>0, <2>1, <3>1
  <2>2. CASE i = Len(q) + 1
    <3>1. i <= Len(a) /\ ~(i <= Len(q)) /\ i - Len(q) = 1
      BY <1>1, <1>5, <2>2
    <3> QED
      BY <1>5, <1>7, <1>8, <2>0, <2>2, <3>1
  <2>3. CASE i > Len(q) + 1
    <3>1. /\ ~(i <= Len(a)) /\ ~(i <= Len(q)) /\ i - Len(a) \in 1 .. Len(uns) - 1
          /\ (i - Len(a)) + 1 = i - Len(q)
      BY <1>1, <1>5, <2>0, <2>3
    <3> QED
      BY <1>6, <1>7, <1>8, <2>0, <3>1
  <2> QED
    BY <1>1, <2>0, <2>1, <2>2, <2>3
<1>11. a \o t = q \o uns
  BY <1>7, <1>8, <1>9, <1>10, SeqEqual
<1> QED
  BY <1>2, <1>3, <1>5, <1>6, <1>11

(* A request behind those in ks changes nothing for theirs.                *)
Longer(ks, ks2) ==
  /\ ks \in Seq(Kinds) /\ ks2 \in Seq(Kinds) /\ Len(ks2) = Len(ks) + 1
  /\ \A r \in 1 .. Len(ks) : ks2[r] = ks[r] /\ r \in 1 .. Len(ks2)

LEMMA LongerUnit ==
  ASSUME NEW ks, NEW ks2, Longer(ks, ks2), NEW u, IsUnit(ks, u)
  PROVE  IsUnit(ks2, u) /\ After(ks2, u) = After(ks, u)
<1>1. u.req \in 1 .. Len(ks) /\ ks2[u.req] = ks[u.req] /\ u.req \in 1 .. Len(ks2)
  BY DEF IsUnit, Longer
<1> QED
  BY <1>1 DEF IsUnit, After, Last

(* The units of the request asked for.                                     *)
IsRequest(r, hd, bd, t) ==
  /\ t \in Seq(UnitType) /\ Len(t) = hd + bd
  /\ \A i \in 1 .. hd + bd :
       t[i] = IF i <= hd THEN Unit(r, "head", i) ELSE Unit(r, "body", i - hd)

LEMMA AskedUnits ==
  ASSUME NEW k \in Kind, NEW r \in Nat \ {0}
  PROVE  IsRequest(r, k.head, k.body, HeadUnits(r, k) \o BodyUnits(r, k))
<1>1. k.head \in Nat \ {0} /\ k.body \in Nat
  BY DEF Kind
<1>2. PICK h : h = HeadUnits(r, k)
  OBVIOUS
<1>3. PICK b : b = BodyUnits(r, k)
  OBVIOUS
<1>4. /\ h \in Seq(UnitType) /\ Len(h) = k.head
      /\ \A i \in 1 .. k.head : h[i] = Unit(r, "head", i)
  <2>1. \A i \in 1 .. k.head : Unit(r, "head", i) \in UnitType
    BY <1>1 DEF Unit, UnitType
  <2> QED
    BY <1>1, <1>2, <2>1 DEF HeadUnits
<1>5. /\ b \in Seq(UnitType) /\ Len(b) = k.body
      /\ \A i \in 1 .. k.body : b[i] = Unit(r, "body", i)
  <2>1. \A i \in 1 .. k.body : Unit(r, "body", i) \in UnitType
    BY <1>1 DEF Unit, UnitType
  <2> QED
    BY <1>1, <1>3, <2>1 DEF BodyUnits
<1>6. PICK t : t = h \o b
  OBVIOUS
<1>7. /\ t \in Seq(UnitType) /\ Len(t) = Len(h) + Len(b)
      /\ \A i \in 1 .. Len(h) + Len(b) :
           t[i] = IF i <= Len(h) THEN h[i] ELSE b[i - Len(h)]
  BY <1>4, <1>5, <1>6, ConcatProperties
<1>8. ASSUME NEW i \in 1 .. k.head + k.body
      PROVE  t[i] = IF i <= k.head THEN Unit(r, "head", i)
                    ELSE Unit(r, "body", i - k.head)
  <2>1. CASE i <= k.head
    <3>1. i \in 1 .. k.head /\ i \in 1 .. Len(h) + Len(b) /\ i <= Len(h)
      BY <1>1, <1>4, <1>5, <2>1
    <3> QED
      BY <1>4, <1>7, <2>1, <3>1
  <2>2. CASE ~(i <= k.head)
    <3>1. i - k.head \in 1 .. k.body
      BY <1>1, <2>2
    <3> QED
      BY <1>4, <1>5, <1>7, <2>2, <3>1
  <2> QED
    BY <2>1, <2>2
<1> QED
  BY <1>2, <1>3, <1>4, <1>5, <1>6, <1>7, <1>8 DEF IsRequest

LEMMA AskedStream ==
  ASSUME NEW ks, NEW ks2, Longer(ks, ks2), NEW q \in Seq(UnitType), Chained(ks, q),
         NEW t, IsRequest(Len(ks2), ks2[Len(ks2)].head, ks2[Len(ks2)].body, t)
  PROVE  /\ t \in Seq(UnitType) /\ Chained(ks2, q \o t)
         /\ Behind(ks2, q \o t, 0) = Behind(ks, q, 0)
<1>1. PICK r \in Nat \ {0} : Len(ks) \in Nat /\ r = Len(ks) + 1 /\ r = Len(ks2)
      /\ Len(q) \in Nat
  BY DEF Longer
<1>2. ks2[r] \in Kind
  BY <1>1, KindsAssumption DEF Longer
<1>3. PICK hd \in Nat \ {0} : hd = ks2[r].head
  BY <1>2 DEF Kind
<1>4. PICK bd \in Nat : bd = ks2[r].body
  BY <1>2 DEF Kind
<1>13. PICK m \in Nat : m = hd + bd
  OBVIOUS
<1>14. IsRequest(r, hd, bd, t)
  BY <1>1, <1>3, <1>4
<1>5. /\ t \in Seq(UnitType) /\ Len(t) = m
      /\ \A i \in 1 .. m :
           t[i] = IF i <= hd THEN Unit(r, "head", i) ELSE Unit(r, "body", i - hd)
  BY <1>13, <1>14 DEF IsRequest
<1>6. PICK s : s = q \o t
  OBVIOUS
<1>7. /\ s \in Seq(UnitType) /\ Len(s) = Len(q) + m
      /\ \A i \in 1 .. Len(q) + m : s[i] = IF i <= Len(q) THEN q[i] ELSE t[i - Len(q)]
  BY <1>5, <1>6, ConcatProperties
<1>8. t[1] = Start(Len(ks) + 1) /\ m > 0
  BY <1>1, <1>13, <1>5 DEF Start
<1>9. ASSUME NEW i \in 0 .. Len(q) PROVE Behind(ks2, s, i) = Behind(ks, q, i)
  <2>1. i < Len(s) /\ i + 1 \in 1 .. Len(q) + m
    BY <1>1, <1>7, <1>8
  <2>2. CASE i < Len(q)
    <3>1. i + 1 <= Len(q)
      BY <1>1, <2>2
    <3> QED
      BY <1>7, <2>1, <2>2, <3>1 DEF Behind
  <2>3. CASE i = Len(q)
    <3>1. ~(i + 1 <= Len(q)) /\ (i + 1) - Len(q) = 1 /\ ~(i < Len(q))
      BY <1>1, <2>3
    <3> QED
      BY <1>7, <1>8, <2>1, <2>3, <3>1 DEF Behind
  <2> QED
    BY <1>1, <2>2, <2>3
<1>10. ASSUME NEW i \in 1 .. Len(q)
       PROVE  IsUnit(ks2, s[i]) /\ Behind(ks2, s, i) = After(ks2, s[i])
  <2>1. i \in 0 .. Len(q) /\ i \in 1 .. Len(q) + m /\ i <= Len(q)
    BY <1>1
  <2>2. s[i] = q[i]
    BY <1>7, <2>1
  <2>3. IsUnit(ks, q[i]) /\ Behind(ks, q, i) = After(ks, q[i])
    BY DEF Chained
  <2> QED
    BY <1>9, <2>1, <2>2, <2>3, LongerUnit
<1>15. ASSUME NEW x
       PROVE  After(ks2, Unit(r, "head", x)) =
                IF x # hd THEN Unit(r, "head", x + 1)
                ELSE IF bd > 0 THEN Unit(r, "body", 1) ELSE Start(r + 1)
  <2>1. PICK u : u = Unit(r, "head", x)
    OBVIOUS
  <2>2. u.req = r /\ u.part = "head" /\ u.n = x
    BY <2>1 DEF Unit
  <2>3. After(ks2, u) = IF x # hd THEN Unit(r, "head", x + 1)
                ELSE IF bd > 0 THEN Unit(r, "body", 1) ELSE Start(r + 1)
    BY <1>3, <1>4, <2>2 DEF After, Last
  <2> QED
    BY <2>1, <2>3
<1>16. ASSUME NEW x
       PROVE  After(ks2, Unit(r, "body", x)) =
                IF x # bd THEN Unit(r, "body", x + 1) ELSE Start(r + 1)
  <2>1. PICK u : u = Unit(r, "body", x)
    OBVIOUS
  <2>2. u.req = r /\ u.part = "body" /\ u.n = x
    BY <2>1 DEF Unit
  <2>3. After(ks2, u) = IF x # bd THEN Unit(r, "body", x + 1) ELSE Start(r + 1)
    BY <1>4, <2>2 DEF After, Last
  <2> QED
    BY <2>1, <2>3
<1>11. ASSUME NEW j \in 1 .. m
       PROVE  IsUnit(ks2, t[j]) /\ Behind(ks2, s, Len(q) + j) = After(ks2, t[j])
  <2>0. j \in Nat /\ t[j] \in UnitType
    BY <1>5
  <2>1. IsUnit(ks2, t[j])
    <3>1. CASE j <= hd
      BY <1>1, <1>3, <1>5, <2>0, <3>1 DEF IsUnit, Unit
    <3>2. CASE ~(j <= hd)
      <4>1. j - hd <= bd
        BY <1>13, <2>0
      <4> QED
        BY <1>1, <1>4, <1>5, <2>0, <3>2, <4>1 DEF IsUnit, Unit
    <3> QED
      BY <3>1, <3>2
  <2>2. CASE j < m
    <3>1. Len(q) + j < Len(s) /\ (Len(q) + j) + 1 \in 1 .. Len(q) + m
          /\ ~((Len(q) + j) + 1 <= Len(q)) /\ ((Len(q) + j) + 1) - Len(q) = j + 1
          /\ j + 1 \in 1 .. m
      BY <1>1, <1>7, <2>0, <2>2
    <3>2. Behind(ks2, s, Len(q) + j) = t[j + 1]
      BY <1>7, <3>1 DEF Behind
    <3>3. CASE j < hd
      <4>1. t[j] = Unit(r, "head", j) /\ t[j + 1] = Unit(r, "head", j + 1)
        BY <1>5, <2>0, <3>1, <3>3
      <4> QED
        BY <1>15, <2>1, <2>0, <3>2, <3>3, <4>1
    <3>4. CASE j = hd
      <4>1. ~(j + 1 <= hd) /\ (j + 1) - hd = 1 /\ bd > 0 /\ j <= hd
        BY <1>13, <2>0, <2>2, <3>4
      <4>2. t[j] = Unit(r, "head", j) /\ t[j + 1] = Unit(r, "body", 1)
        BY <1>5, <3>1, <4>1
      <4> QED
        BY <1>15, <2>1, <3>2, <3>4, <4>1, <4>2
    <3>5. CASE j > hd
      <4>1. /\ ~(j + 1 <= hd) /\ (j + 1) - hd = (j - hd) + 1
            /\ j - hd # bd /\ ~(j <= hd)
        BY <1>13, <2>0, <2>2, <3>5
      <4>2. t[j] = Unit(r, "body", j - hd) /\ t[j + 1] = Unit(r, "body", (j - hd) + 1)
        BY <1>5, <3>1, <4>1
      <4> QED
        BY <1>16, <2>1, <3>2, <4>1, <4>2
    <3> QED
      BY <2>0, <3>3, <3>4, <3>5
  <2>3. CASE j = m
    <3>1. ~(Len(q) + j < Len(s))
      BY <1>1, <1>7, <2>3
    <3>2. Behind(ks2, s, Len(q) + j) = Start(r + 1)
      BY <1>1, <3>1 DEF Behind
    <3>3. CASE bd = 0
      <4>1. j = hd /\ t[j] = Unit(r, "head", j)
        BY <1>13, <1>5, <2>0, <2>3, <3>3
      <4> QED
        BY <1>15, <2>1, <3>2, <3>3, <4>1
    <3>4. CASE bd # 0
      <4>1. ~(j <= hd) /\ j - hd = bd
        BY <1>13, <2>0, <2>3, <3>4
      <4>2. t[j] = Unit(r, "body", bd)
        BY <1>5, <4>1
      <4> QED
        BY <1>16, <2>1, <3>2, <4>2
    <3> QED
      BY <3>3, <3>4
  <2> QED
    BY <2>0, <2>1, <2>2, <2>3
<1>12. Chained(ks2, s)
  <2> SUFFICES ASSUME NEW i \in 1 .. Len(s)
               PROVE  IsUnit(ks2, s[i]) /\ Behind(ks2, s, i) = After(ks2, s[i])
    BY DEF Chained
  <2>1. CASE i <= Len(q)
    BY <1>1, <1>7, <1>10, <2>1
  <2>2. CASE ~(i <= Len(q))
    <3>1. i - Len(q) \in 1 .. m /\ Len(q) + (i - Len(q)) = i /\ i \in 1 .. Len(q) + m
      BY <1>1, <1>7, <2>2
    <3>2. s[i] = t[i - Len(q)]
      BY <1>7, <2>2, <3>1
    <3> QED
      BY <1>11, <3>1, <3>2
  <2> QED
    BY <2>1, <2>2
<1> QED
  BY <1>1, <1>5, <1>6, <1>9, <1>12

LEMMA LongerKeeps ==
  ASSUME NEW ks, NEW ks2, Longer(ks, ks2), NEW p, NEW v, Parsed(ks, p, v)
  PROVE  Parsed(ks2, p, v)
<1>1. \A r \in 1 .. Len(ks) : ks2[r] = ks[r] /\ r \in 1 .. Len(ks2)
  BY DEF Longer
<1>2. AtStart(ks, p, v) => AtStart(ks2, p, v)
  BY <1>1 DEF AtStart
<1>3. AtBody(ks, p, v) => AtBody(ks2, p, v)
  BY <1>1 DEF AtBody
<1>4. AtEnd(ks, p) => AtEnd(ks2, p)
  BY <1>1 DEF AtEnd
<1> QED
  BY <1>1, <1>2, <1>3, <1>4 DEF Parsed

LEMMA LongerFits ==
  ASSUME NEW ks, NEW ks2, Longer(ks, ks2), NEW p, p.req \in 1 .. Len(ks),
         Fits(ks, p)
  PROVE  Fits(ks2, p)
  BY DEF Fits, Longer

-----------------------------------------------------------------------------
(* The steps of one connection do not concern the others.                  *)
Same(d) ==
  /\ pc'[d] = pc[d] /\ sent'[d] = sent[d] /\ unsent'[d] = unsent[d]
  /\ overlap'[d] = overlap[d] /\ inq'[d] = inq[d] /\ answers'[d] = answers[d]
  /\ prs'[d] = prs[d] /\ res'[d] = res[d]

LEMMA Elsewhere ==
  ASSUME NEW c \in Conn, IInv, Inv(c)', \A d \in Conn \ {c} : Same(d)
  PROVE  \A d \in Conn : Inv(d)'
<1> SUFFICES ASSUME NEW d \in Conn, d # c PROVE Inv(d)'
  OBVIOUS
<1>1. Inv(d) /\ Same(d)
  BY DEF IInv
<1> QED
  BY <1>1 DEF Inv, Same

(* A connection that ends, or never had to do with the parser again.       *)
LEMMA Ends ==
  ASSUME NEW c \in Conn, Inv(c), pc'[c] \in {"done", "proto"},
         sent'[c] = sent[c], unsent'[c] = unsent[c], overlap'[c] = overlap[c],
         inq'[c] = inq[c], answers'[c] = answers[c], prs'[c] = prs[c]
  PROVE  Inv(c)'
  BY DEF Inv, ConnInv

LEMMA InitInv == Init => IInv
<1> SUFFICES ASSUME Init PROVE IInv
  OBVIOUS
<1>1. DoesClear(0, "start", Cleared(0, "start"))
  BY ClearedFields
<1>2. Cleared(0, "start") \in PrsType /\ Cleared(0, "start").halt = FALSE
  BY <1>1 DEF DoesClear
<1>3. TypeOK
  <2>1. prs \in [Conn ->
       [req : Nat, st : {"start", "head", "body", "dead"},
        headers_complete : BOOLEAN, body_complete : BOOLEAN, length : Nat,
        mem : Seq(UnitType), offload : BOOLEAN, file : Seq(UnitType),
        left : Nat, halt : {FALSE}, fail : BOOLEAN]]
    BY DEF Init, Cleared
  <2>2. /\ sent \in [Conn -> Seq(Kinds)] /\ unsent \in [Conn -> Seq(UnitType)]
        /\ inq \in [Conn -> Seq(UnitType)]
        /\ answers \in [Conn -> Seq([req : Nat \ {0}, status : Statuses])]
    BY EmptySeq DEF Init
  <2>3. res \in [Conn -> [req : Nat, status : Statuses, err : BOOLEAN]]
    BY DEF Init, Statuses
  <2> QED
    BY <2>1, <2>2, <2>3 DEF Init, TypeOK
<1>4. ASSUME NEW c \in Conn PROVE Inv(c)
  <2>1. PICK p : p = Cleared(0, "start")
    OBVIOUS
  <2>2. DoesClear(0, "start", p)
    BY <1>1, <2>1
  <2>3. << >> \o << >> = << >> /\ Len(<< >>) = 0
    OBVIOUS
  <2>4. Behind(<< >>, << >>, 0) = Start(1)
    BY DEF Behind
  <2>5. Receiving(<< >>, << >>, p, Start(1))
    BY <2>2 DEF Receiving, Parsed, Unanswered, DoesClear, AtStart, AtHead, AtBody, AtEnd
  <2>6. Chained(<< >>, << >>)
    BY DEF Chained
  <2>7. Answered(<< >>, << >>, FALSE, << >>)
    BY DEF Answered
  <2>8. ConnInv("none", << >>, << >>, FALSE, << >>, << >>, p, res[c])
    BY <2>2, <2>3, <2>4, <2>5, <2>6, <2>7 DEF ConnInv, DoesClear
  <2> QED
    BY <2>1, <2>8 DEF Init, Inv
<1> QED
  BY <1>3, <1>4 DEF IInv

-----------------------------------------------------------------------------
(* The clients.                                                            *)

LEMMA DialKeeps ==
  ASSUME IInv, NEW c \in Conn, Dial(c)
  PROVE  IInv'
<1>1. TypeOK'
  BY DEF IInv, TypeOK, Dial
<1>2. pc[c] = "none" /\ pc'[c] = "queued" /\ Inv(c)
  BY DEF IInv, TypeOK, Dial
<1>3. Inv(c)'
  BY <1>2 DEF Dial, Inv, ConnInv
<1>4. \A d \in Conn \ {c} : Same(d)
  BY DEF IInv, TypeOK, Dial, Same
<1> QED
  BY <1>1, <1>3, <1>4, Elsewhere DEF IInv

LEMMA HangUpKeeps ==
  ASSUME IInv, NEW c \in Conn, HangUp(c)
  PROVE  IInv'
<1>1. TypeOK'
  BY DEF IInv, TypeOK, HangUp
<1>2. \A d \in Conn : Same(d) /\ Inv(d)
  BY DEF IInv, HangUp, Same
<1> QED
  BY <1>1, <1>2, Elsewhere DEF IInv, Inv, Same

LEMMA SendUnitKeeps ==
  ASSUME IInv, NEW c \in Conn, SendUnit(c)
  PROVE  IInv'
<1>1. /\ inq[c] \in Seq(UnitType) /\ unsent[c] \in Seq(UnitType)
      /\ unsent[c] # << >>
      /\ inq'[c] = Append(inq[c], unsent[c][1]) /\ unsent'[c] = Tail(unsent[c])
      /\ Inv(c)
  BY DEF IInv, TypeOK, SendUnit
<1>2. /\ inq'[c] \o unsent'[c] = inq[c] \o unsent[c]
      /\ inq'[c] \in Seq(UnitType) /\ unsent'[c] \in Seq(UnitType)
  BY <1>1, SentStream
<1>3. TypeOK'
  BY <1>1, <1>2 DEF IInv, TypeOK, SendUnit
<1>4. Inv(c)'
  <2>1. Answered(sent[c], unsent[c], overlap[c], answers[c])
        => Answered(sent[c], unsent'[c], overlap[c], answers[c])
    BY <1>1 DEF Answered
  <2>2. /\ pc'[c] = pc[c] /\ sent'[c] = sent[c] /\ overlap'[c] = overlap[c]
        /\ answers'[c] = answers[c] /\ prs'[c] = prs[c] /\ res'[c] = res[c]
    BY DEF SendUnit
  <2> QED
    BY <1>1, <1>2, <2>1, <2>2 DEF Inv, ConnInv
<1>5. \A d \in Conn \ {c} : Same(d)
  BY DEF IInv, TypeOK, SendUnit, Same
<1> QED
  BY <1>3, <1>4, <1>5, Elsewhere DEF IInv

LEMMA AskKeeps ==
  ASSUME IInv, NEW c \in Conn, Ask(c)
  PROVE  IInv'
<1>1. PICK k \in Menu[c][Len(sent[c]) + 1] :
        /\ sent' = [sent EXCEPT ![c] = Append(@, k)]
        /\ unsent' = [unsent EXCEPT ![c] = HeadUnits(Len(sent[c]) + 1, k)
                                           \o BodyUnits(Len(sent[c]) + 1, k)]
  BY DEF Ask
<1>2. /\ sent[c] \in Seq(Kinds) /\ inq[c] \in Seq(UnitType) /\ Len(sent[c]) \in Nat
      /\ Inv(c) /\ overlap[c] \in BOOLEAN /\ Len(answers[c]) \in Nat
      /\ \A i \in 1 .. Len(answers[c]) : answers[c][i].req \in Nat \ {0}
  <2>1. PICK A : A = [req : Nat \ {0}, status : Statuses]
    OBVIOUS
  <2>2. answers[c] \in Seq(A)
    BY <2>1 DEF IInv, TypeOK
  <2>3. Len(answers[c]) \in Nat /\ \A i \in 1 .. Len(answers[c]) : answers[c][i] \in A
    BY <2>2
  <2>4. \A i \in 1 .. Len(answers[c]) : answers[c][i].req \in Nat \ {0}
    BY <2>1, <2>3
  <2> QED
    BY <2>3, <2>4 DEF IInv, TypeOK
<1>3. k \in Kinds /\ k \in Kind
  <2>1. Menu[c] \in Seq(SUBSET Kinds) /\ Len(Menu[c]) \in Nat
    BY BoundsAssumption
  <2>2. Len(sent[c]) + 1 \in 1 .. Len(Menu[c])
    BY <1>2, <2>1 DEF Ask
  <2>3. Menu[c][Len(sent[c]) + 1] \in SUBSET Kinds
    BY <2>1, <2>2
  <2> QED
    BY <1>1, <2>3, KindsAssumption
<1>4. PICK ks : ks = sent[c]
  OBVIOUS
<1>5. PICK ks2 : ks2 = Append(ks, k)
  OBVIOUS
<1>6. /\ ks2 \in Seq(Kinds) /\ Len(ks2) = Len(ks) + 1 /\ ks2[Len(ks) + 1] = k
      /\ \A r \in 1 .. Len(ks) : ks2[r] = ks[r]
  BY <1>2, <1>3, <1>4, <1>5, AppendProperties
<1>7. Longer(ks, ks2)
  BY <1>2, <1>4, <1>6 DEF Longer
<1>8. PICK t : t = unsent'[c]
  OBVIOUS
<1>9. /\ sent'[c] = ks2 /\ overlap'[c] = (overlap[c] \/ Len(ks) > Len(answers[c]))
      /\ pc'[c] = pc[c] /\ inq'[c] = inq[c] /\ answers'[c] = answers[c]
      /\ prs'[c] = prs[c] /\ res'[c] = res[c] /\ unsent[c] = << >>
  BY <1>1, <1>4, <1>5 DEF Ask, IInv, TypeOK
<1>10. IsRequest(Len(ks2), ks2[Len(ks2)].head, ks2[Len(ks2)].body, t)
  <2>1. t = HeadUnits(Len(ks) + 1, k) \o BodyUnits(Len(ks) + 1, k)
    BY <1>1, <1>4, <1>8 DEF IInv, TypeOK
  <2>2. Len(ks) + 1 \in Nat \ {0} /\ ks2[Len(ks2)] = k /\ Len(ks2) = Len(ks) + 1
    BY <1>2, <1>4, <1>6
  <2>3. IsRequest(Len(ks) + 1, k.head, k.body, t)
    BY <1>3, <2>1, <2>2, AskedUnits
  <2> QED
    BY <2>2, <2>3
<1>11. Chained(ks, inq[c]) /\ inq[c] \o unsent[c] = inq[c]
  BY <1>2, <1>4, <1>9, ConcatEmptySeq DEF Inv, ConnInv
<1>12. PICK v : v = Behind(ks, inq[c] \o unsent[c], 0)
  OBVIOUS
<1>13. /\ t \in Seq(UnitType) /\ Chained(ks2, inq[c] \o t)
       /\ Behind(ks2, inq[c] \o t, 0) = v
  BY <1>2, <1>7, <1>10, <1>11, <1>12, AskedStream
<1>14. TypeOK'
  BY <1>1, <1>4, <1>5, <1>6, <1>8, <1>13 DEF IInv, TypeOK, Ask
<1>15. PICK ans : ans = answers[c]
  OBVIOUS
<1>16. PICK p : p = prs[c]
  OBVIOUS
<1>17. Answered(ks2, t, overlap'[c], ans)
  <2>1. Answered(ks, unsent[c], overlap[c], ans)
    BY <1>2, <1>4, <1>15 DEF Inv, ConnInv
  <2>2. \A i \in 1 .. Len(ans) : ans[i].req \in Nat /\ Len(ans) \in Nat
    BY <1>2, <1>15
  <2>3. \A i \in 1 .. Len(ans) : ans[i].req <= Len(ks2) /\ ans[i].req < Len(ks2)
    BY <1>2, <1>4, <1>6, <2>1, <2>2 DEF Answered
  <2>4. ~overlap'[c] => ~overlap[c] /\ Len(ks2) <= Len(ans) + 1
    <3>1. ~overlap'[c] => ~overlap[c] /\ ~(Len(ks) > Len(ans))
      BY <1>9, <1>15, Zenon
    <3>2. Len(ks) \in Nat /\ Len(ans) \in Nat /\ Len(ks2) = Len(ks) + 1
      BY <1>2, <1>4, <1>6, <1>15
    <3>3. ~(Len(ks) > Len(ans)) => Len(ks2) <= Len(ans) + 1
      BY <3>2
    <3> QED
      BY <3>1, <3>3
  <2> QED
    BY <2>1, <2>3, <2>4 DEF Answered
<1>18. ConnInv(pc[c], ks, unsent[c], overlap[c], inq[c], ans, p, res[c])
  BY <1>2, <1>4, <1>15, <1>16 DEF Inv
<1>19. Receiving(ks, ans, p, v) => Receiving(ks2, ans, p, v)
  BY <1>7, LongerKeeps DEF Receiving
<1>20. InTheBody(ks, ans, p, v) => InTheBody(ks2, ans, p, v)
  BY <1>7, LongerKeeps, LongerFits DEF InTheBody, Parsed, AtBody
<1>21. Complete(ks, p, v) => Complete(ks2, p, v)
  BY <1>7, LongerKeeps DEF Complete
<1>22. Handling(ks, ans, p, v) => Handling(ks2, ans, p, v)
  <2>1. Complete(ks, p, v) => p.req \in 1 .. Len(ks)
    BY DEF Complete, Parsed, AtEnd, AtBody
  <2> QED
    BY <1>7, <1>21, <2>1, LongerFits DEF Handling
<1>23. Responding(ks, ans, p, v, res[c]) => Responding(ks2, ans, p, v, res[c])
  BY <1>7, <1>21 DEF Responding, Longer
<1>24. ConnInv(pc[c], ks2, t, overlap'[c], inq[c], ans, p, res[c])
  BY <1>12, <1>13, <1>17, <1>18, <1>19, <1>20, <1>22, <1>23 DEF ConnInv
<1>25. Inv(c)'
  BY <1>8, <1>9, <1>15, <1>16, <1>24 DEF Inv
<1>26. \A d \in Conn \ {c} : Same(d)
  BY <1>1 DEF IInv, TypeOK, Ask, Same
<1> QED
  BY <1>14, <1>25, <1>26, Elsewhere DEF IInv

-----------------------------------------------------------------------------
(* Server::run() and stop().                                               *)

LEMMA AcceptKeeps ==
  ASSUME IInv, NEW c \in Conn, Accept(c)
  PROVE  IInv'
<1>1. TypeOK'
  BY DEF IInv, TypeOK, Accept, clientVars
<1>2. pc[c] = "queued" /\ pc'[c] = "headers" /\ Inv(c)
  BY DEF IInv, TypeOK, Accept
<1>3. Inv(c)'
  BY <1>2 DEF Accept, clientVars, Inv, ConnInv
<1>4. \A d \in Conn \ {c} : Same(d)
  BY DEF IInv, TypeOK, Accept, clientVars, Same
<1> QED
  BY <1>1, <1>3, <1>4, Elsewhere DEF IInv

LEMMA RunLoopKeeps ==
  ASSUME IInv, RunLoop
  PROVE  IInv'
<1>1. TypeOK'
  BY DEF IInv, TypeOK, RunLoop, clientVars
<1>2. \A d \in Conn : Inv(d) /\ Same(d)
  BY DEF IInv, RunLoop, clientVars, Same
<1> QED
  BY <1>1, <1>2 DEF IInv, Inv, Same

(* The connections in the backlog end.                                     *)
LEMMA DropKeeps ==
  ASSUME IInv, pc' = DropQueued, UNCHANGED <<clientVars, inq, answers, prs, res>>
  PROVE  \A d \in Conn : Inv(d)'
<1> SUFFICES ASSUME NEW d \in Conn PROVE Inv(d)'
  OBVIOUS
<1>1. Inv(d) /\ pc'[d] \in {pc[d], "done"}
  BY DEF IInv, DropQueued
<1>2. CASE pc'[d] = pc[d]
  BY <1>1, <1>2 DEF Inv, clientVars
<1>3. CASE pc'[d] = "done"
  BY <1>1, <1>3, Ends DEF clientVars
<1> QED
  BY <1>1, <1>2, <1>3

LEMMA StopKeeps ==
  ASSUME IInv, AcceptFails \/ Stop
  PROVE  IInv'
<1>1. TypeOK'
  BY DEF IInv, TypeOK, AcceptFails, Stop, DropQueued, clientVars
<1>2. pc' = DropQueued /\ UNCHANGED <<clientVars, inq, answers, prs, res>>
  BY DEF AcceptFails, Stop
<1> QED
  BY <1>1, <1>2, DropKeeps DEF IInv

-----------------------------------------------------------------------------
(* Connection::start().                                                    *)

LEMMA EndKeeps ==
  ASSUME IInv, NEW c \in Conn,
         HeadersTimeout(c) \/ ReadFails(c) \/ SendFails(c) \/ ProtoEnds(c)
  PROVE  IInv'
<1>1. /\ pc' = [pc EXCEPT ![c] = "done"]
      /\ UNCHANGED <<srv, exiting, clientVars, inq, answers, prs, res>>
  BY DEF HeadersTimeout, ReadFails, SendFails, ProtoEnds
<1>2. TypeOK'
  BY <1>1 DEF IInv, TypeOK, clientVars
<1>3. pc'[c] = "done" /\ Inv(c)
  BY <1>1 DEF IInv, TypeOK
<1>4. Inv(c)'
  BY <1>1, <1>3, Ends DEF clientVars
<1>5. \A d \in Conn \ {c} : Same(d)
  BY <1>1 DEF IInv, TypeOK, clientVars, Same
<1> QED
  BY <1>2, <1>4, <1>5, Elsewhere DEF IInv

(* What Respond leaves, if the parser did not move.                        *)
LEMMA RespondKeeps ==
  ASSUME IInv, NEW c \in Conn, NEW status \in Statuses, NEW err \in BOOLEAN,
         UNCHANGED <<srv, exiting, clientVars, inq, answers, prs>>,
         Respond(c, status, err),
         LET v == Behind(sent[c], inq[c] \o unsent[c], 0)
             r == [req |-> prs[c].req, status |-> status, err |-> err]
         IN  Responding(sent[c], answers[c], prs[c], v, r)
  PROVE  IInv'
<1>1. PICK r : r = [req |-> prs[c].req, status |-> status, err |-> err]
  OBVIOUS
<1>2. res' = [res EXCEPT ![c] = r] /\ pc' = [pc EXCEPT ![c] = "send"]
  BY <1>1 DEF Respond
<1>3. r \in [req : Nat, status : Statuses, err : BOOLEAN]
  BY <1>1 DEF IInv, TypeOK
<1>4. TypeOK'
  BY <1>2, <1>3 DEF IInv, TypeOK, clientVars
<1>5. pc'[c] = "send" /\ res'[c] = r /\ Inv(c)
  BY <1>2 DEF IInv, TypeOK
<1>6. Inv(c)'
  BY <1>1, <1>5 DEF Inv, ConnInv, clientVars
<1>7. \A d \in Conn \ {c} : Same(d)
  BY <1>2 DEF IInv, TypeOK, clientVars, Same
<1> QED
  BY <1>4, <1>6, <1>7, Elsewhere DEF IInv

LEMMA BodyTimeoutKeeps ==
  ASSUME IInv, NEW c \in Conn, BodyTimeout(c)
  PROVE  IInv'
<1>1. PICK v : v = Behind(sent[c], inq[c] \o unsent[c], 0)
  OBVIOUS
<1>2. InTheBody(sent[c], answers[c], prs[c], v)
  BY <1>1 DEF IInv, Inv, ConnInv, BodyTimeout
<1>3. PICK r : r = [req |-> prs[c].req, status |-> "timeout", err |-> TRUE]
  OBVIOUS
<1>4. r.req = prs[c].req /\ r.status = "timeout" /\ r.err = TRUE
  BY <1>3
<1>5. Responding(sent[c], answers[c], prs[c], v, r)
  BY <1>2, <1>4 DEF InTheBody, Parsed, AtBody, Responding
<1> QED
  BY <1>1, <1>3, <1>5, RespondKeeps DEF BodyTimeout, Statuses

LEMMA HandleKeeps ==
  ASSUME IInv, NEW c \in Conn, Handle(c)
  PROVE  IInv'
<1>1. PICK v : v = Behind(sent[c], inq[c] \o unsent[c], 0)
  OBVIOUS
<1>2. Handling(sent[c], answers[c], prs[c], v)
  BY <1>1 DEF IInv, Inv, ConnInv, Handle
<1>3. PICK status \in {"ok", "error", "switching"} :
        Respond(c, status, status = "error")
  <2>1. ("error" = "error") = TRUE /\ ("ok" = "error") = FALSE
        /\ ("switching" = "error") = FALSE
    OBVIOUS
  <2> QED
    BY <2>1 DEF Handle
<1>4. PICK r : r = [req |-> prs[c].req, status |-> status, err |-> status = "error"]
  OBVIOUS
<1>5. r.req = prs[c].req /\ r.status = status /\ r.err = (status = "error")
  BY <1>4
<1>6. prs[c].req \in 1 .. Len(sent[c]) /\ prs[c] \in PrsType /\ ~prs[c].halt
  BY <1>2 DEF Handling, Complete, Parsed, AtEnd, AtBody
<1>7. Responding(sent[c], answers[c], prs[c], v, r)
  BY <1>2, <1>5, <1>6 DEF Handling, Responding
<1>8. (status = "error") \in BOOLEAN /\ status \in Statuses
  BY DEF Statuses
<1> QED
  BY <1>1, <1>3, <1>4, <1>7, <1>8, RespondKeeps DEF Handle

(* Behind a complete request comes the next one, or nothing.               *)
LEMMA CompleteNext ==
  ASSUME NEW ks \in Seq(Kinds), NEW s \in Seq(UnitType), Chained(ks, s), NEW p,
         Complete(ks, p, Behind(ks, s, 0)), BareUpgrades
  PROVE  /\ Behind(ks, s, 0) = Start(p.req + 1)
         /\ p.req < Len(ks) \/ s = << >>
<1>1. PICK v : v = Behind(ks, s, 0)
  OBVIOUS
<1>2. Parsed(ks, p, v) /\ ~p.fail /\ p.body_complete /\ p.headers_complete
      /\ p \in PrsType
  BY <1>1 DEF Complete, Parsed
<1>3. p.st \in {"start", "dead"}
  BY <1>2 DEF Parsed, AtHead, AtBody, PrsType
<1>4. p.req \in 1 .. Len(ks) /\ p.req \in Nat /\ Len(ks) \in Nat /\ Len(s) \in Nat
  <2>1. AtEnd(ks, p) /\ p.st # "body"
    BY <1>2, <1>3 DEF Parsed
  <2>2. p.req \in 1 .. Len(ks)
    BY <1>2, <2>1 DEF AtEnd
  <2> QED
    BY <2>2
<1>5. \/ v = Start(p.req + 1)
      \/ ks[p.req].upgrade /\ v = Unit(p.req, "body", 1)
  BY <1>2, <1>3 DEF Parsed, AtStart
<1>6. CASE Len(s) = 0
  <2>1. v = Start(Len(ks) + 1) /\ s = << >>
    BY <1>1, <1>6, EmptySeq DEF Behind
  <2>2. v.part = "head" /\ Unit(p.req, "body", 1).part = "body"
    BY <2>1 DEF Start, Unit
  <2> QED
    BY <1>1, <1>5, <2>1, <2>2
<1>7. CASE Len(s) > 0
  <2>1. v = s[1] /\ IsUnit(ks, v)
    BY <1>1, <1>4, <1>7 DEF Behind, Chained
  <2>2. v # Unit(p.req, "body", 1) \/ ~ks[p.req].upgrade
    <3> SUFFICES ASSUME v = Unit(p.req, "body", 1), ks[p.req].upgrade PROVE FALSE
      OBVIOUS
    <3>1. v.part = "body" /\ v.n = 1 /\ v.req = p.req
      BY DEF Unit
    <3>2. ks[p.req].body = 0
      BY <1>4 DEF BareUpgrades
    <3> QED
      BY <2>1, <3>1, <3>2 DEF IsUnit
  <2>3. v = Start(p.req + 1)
    BY <1>5, <2>2
  <2>4. p.req + 1 \in 1 .. Len(ks)
    <3>1. v.req = p.req + 1
      BY <2>3 DEF Start, Unit
    <3> QED
      BY <2>1, <3>1 DEF IsUnit
  <2> QED
    BY <1>1, <1>4, <2>3, <2>4
<1> QED
  BY <1>4, <1>6, <1>7

AnsType == [req : Nat \ {0}, status : Statuses]

LEMMA AnsTyped ==
  ASSUME NEW ans \in Seq(AnsType)
  PROVE  Len(ans) \in Nat /\ \A i \in 1 .. Len(ans) : ans[i].req \in Nat \ {0}
<1>1. Len(ans) \in Nat /\ \A i \in 1 .. Len(ans) : ans[i] \in AnsType
  OBVIOUS
<1> QED
  BY <1>1 DEF AnsType

AnsweredUpTo(ks, uns, ovl, r, ans) ==
  /\ ans \in Seq(AnsType) /\ Answered(ks, uns, ovl, ans) /\ Unanswered(ans, r + 1)

(* The answers with one more to request r.                                 *)
LEMMA AnswerKeeps ==
  ASSUME NEW ks \in Seq(Kinds), NEW uns, NEW ovl \in BOOLEAN,
         NEW ans \in Seq(AnsType),
         Answered(ks, uns, ovl, ans),
         NEW r \in Nat, r \in 1 .. Len(ks), NEW status \in Statuses,
         Unanswered(ans, r),
         BareUpgrades /\ status = "ok" => r < Len(ks) \/ uns = << >>
  PROVE  AnsweredUpTo(ks, uns, ovl, r, Append(ans, [req |-> r, status |-> status]))
<1>2. PICK a : a = [req |-> r, status |-> status]
  OBVIOUS
<1>3. PICK b : b = Append(ans, a)
  OBVIOUS
<1>4. a \in AnsType /\ a.req = r /\ a.status = status
  BY <1>2 DEF AnsType
<1>5. ans \in Seq(AnsType) /\ Len(ans) \in Nat /\ Len(ks) \in Nat
  BY AnsTyped
<1>6. /\ b \in Seq(AnsType) /\ Len(b) = Len(ans) + 1 /\ b[Len(ans) + 1] = a
      /\ \A i \in 1 .. Len(ans) : b[i] = ans[i]
  BY <1>3, <1>4, <1>5, AppendProperties
<1>7. PICK n \in Nat : n = Len(ans) /\ Len(b) = n + 1
  BY <1>5, <1>6
<1>8. \A i \in 1 .. n + 1 : i \in 1 .. n \/ i = n + 1
  OBVIOUS
<1>9. \A i \in 1 .. n : ans[i].req \in Nat /\ b[i] = ans[i]
  BY <1>5, <1>6, <1>7, AnsTyped
<1>10. b[n + 1].req = r /\ b[n + 1].status = status
  BY <1>4, <1>6, <1>7
<1>11. \A i \in 1 .. n + 1 : b[i].req <= Len(ks)
  BY <1>7, <1>8, <1>9, <1>10 DEF Answered
<1>12. ~ovl => Len(ks) <= n + 1 /\ Len(ks) <= Len(b) + 1
  BY <1>5, <1>7 DEF Answered
<1>13. ASSUME BareUpgrades, NEW i \in 1 .. n + 1
       PROVE  /\ i > 1 => b[i - 1].req < b[i].req
              /\ b[i].status = "ok" => b[i].req < Len(ks) \/ uns = << >>
              /\ ~ovl => b[i].req = i
  <2>1. CASE i \in 1 .. n
    <3>1. i > 1 => i - 1 \in 1 .. n
      OBVIOUS
    <3> QED
      BY <1>7, <1>9, <1>13, <2>1, <3>1 DEF Answered
  <2>2. CASE i = n + 1
    <3>1. i > 1 => i - 1 \in 1 .. n /\ b[i - 1].req < r
      <4>1. i > 1 => i - 1 \in 1 .. n
        BY <2>2
      <4> QED
        BY <1>7, <1>9, <1>13, <4>1 DEF Unanswered
    <3>2. ~ovl => r = n + 1
      <4>1. CASE n = 0
        BY <1>5, <1>12, <4>1
      <4>2. CASE n # 0
        <5>1. n \in 1 .. n
          BY <4>2
        <5>2. ~ovl => ans[n].req = n
          BY <1>7, <1>13, <5>1 DEF Answered
        <5>3. ans[n].req < r
          BY <1>7, <1>13, <5>1 DEF Unanswered
        <5> QED
          BY <1>5, <1>12, <5>2, <5>3
      <4> QED
        BY <4>1, <4>2
    <3> QED
      BY <1>10, <1>13, <2>2, <3>1, <3>2
  <2> QED
    BY <1>8, <2>1, <2>2
<1>14. Answered(ks, uns, ovl, b)
  BY <1>7, <1>11, <1>12, <1>13 DEF Answered
<1>15. Unanswered(b, r + 1)
  <2> SUFFICES ASSUME BareUpgrades, NEW i \in 1 .. n + 1 PROVE b[i].req < r + 1
    BY <1>7 DEF Unanswered
  <2>1. CASE i \in 1 .. n
    <3>1. ans[i].req < r /\ ans[i].req \in Nat /\ b[i] = ans[i]
      BY <1>7, <1>9, <2>1 DEF Unanswered
    <3> QED
      BY <3>1
  <2>2. CASE i = n + 1
    BY <1>10, <2>2
  <2> QED
    BY <1>8, <2>1, <2>2
<1> QED
  BY <1>2, <1>3, <1>6, <1>14, <1>15 DEF AnsweredUpTo

LEMMA SendResponseKeeps ==
  ASSUME IInv, NEW c \in Conn, SendResponse(c)
  PROVE  IInv'
<1>1. PICK ks : ks = sent[c]
  OBVIOUS
<1>2. PICK s : s = inq[c] \o unsent[c]
  OBVIOUS
<1>3. PICK ans : ans = answers[c]
  OBVIOUS
<1>4. PICK p : p = prs[c]
  OBVIOUS
<1>5. PICK r : r = res[c]
  OBVIOUS
<1>6. PICK v : v = Behind(ks, s, 0)
  OBVIOUS
<1>7. /\ ks \in Seq(Kinds) /\ r \in [req : Nat, status : Statuses, err : BOOLEAN]
      /\ overlap[c] \in BOOLEAN
      /\ ans \in Seq(AnsType)
      /\ inq[c] \in Seq(UnitType) /\ unsent[c] \in Seq(UnitType)
  BY <1>1, <1>3, <1>5 DEF IInv, TypeOK, AnsType
<1>8. r.req \in Nat /\ r.status \in Statuses /\ r.err \in BOOLEAN
  BY <1>7
<1>9. s \in Seq(UnitType) /\ (s = << >> => unsent[c] = << >>)
  <2>1. s \in Seq(UnitType) /\ Len(s) = Len(inq[c]) + Len(unsent[c])
    BY <1>2, <1>7, ConcatProperties
  <2>2. Len(inq[c]) \in Nat /\ Len(unsent[c]) \in Nat
    BY <1>7
  <2>3. ASSUME s = << >> PROVE Len(unsent[c]) = 0
    <3>1. Len(s) = 0
      BY <2>3
    <3>2. PICK a \in Nat, b \in Nat : a = Len(inq[c]) /\ b = Len(unsent[c])
      BY <2>2
    <3>3. a + b = 0
      BY <2>1, <3>1, <3>2, Zenon
    <3>4. b = 0
      BY <3>3
    <3> QED
      BY <3>2, <3>4
  <2> QED
    BY <1>7, <2>1, <2>3, EmptySeq
<1>10. /\ Chained(ks, s) /\ Answered(ks, unsent[c], overlap[c], ans)
       /\ p \in PrsType /\ ~p.halt /\ Responding(ks, ans, p, v, r)
  BY <1>1, <1>2, <1>3, <1>4, <1>5, <1>6 DEF IInv, Inv, ConnInv, SendResponse
<1>11. /\ r.req \in 1 .. Len(ks) /\ Unanswered(ans, r.req)
       /\ (~r.err => Complete(ks, p, v) /\ r.req = p.req)
       /\ (r.status = "ok" => ~r.err)
  BY <1>10 DEF Responding
<1>12. BareUpgrades /\ ~r.err =>
         v = Start(r.req + 1) /\ (r.req < Len(ks) \/ unsent[c] = << >>)
  BY <1>6, <1>7, <1>9, <1>10, <1>11, CompleteNext
<1>13. PICK ans2 : ans2 = Append(ans, [req |-> r.req, status |-> r.status])
  OBVIOUS
<1>14. /\ Answered(ks, unsent[c], overlap[c], ans2)
       /\ ans2 \in Seq(AnsType)
       /\ Unanswered(ans2, r.req + 1)
  <2>1. BareUpgrades /\ r.status = "ok" => r.req < Len(ks) \/ unsent[c] = << >>
    BY <1>11, <1>12
  <2>2. AnsweredUpTo(ks, unsent[c], overlap[c], r.req, ans2)
    BY <1>7, <1>8, <1>10, <1>11, <1>13, <2>1, AnswerKeeps
  <2> QED
    BY <2>2 DEF AnsweredUpTo
<1>15. /\ answers' = [answers EXCEPT ![c] = answers'[c]]
       /\ answers'[c] = ans2 \/ answers'[c] = ans
  <2>1. DOMAIN answers = Conn
    BY DEF IInv, TypeOK
  <2>2. CASE up[c]
    BY <1>3, <1>5, <1>13, <2>1, <2>2 DEF SendResponse, IInv, TypeOK
  <2>3. CASE ~up[c]
    BY <1>3, <2>3 DEF SendResponse, IInv, TypeOK
  <2> QED
    BY <2>2, <2>3
<1>16. Unanswered(ans, r.req + 1)
  <2>1. \A i \in 1 .. Len(ans) : ans[i].req \in Nat
    BY <1>7, AnsTyped
  <2> QED
    BY <1>8, <1>11, <2>1 DEF Unanswered
<1>17. PICK b : b = answers'[c]
  OBVIOUS
<1>18. /\ Answered(ks, unsent[c], overlap[c], b) /\ Unanswered(b, r.req + 1)
       /\ b \in Seq(AnsType)
  BY <1>7, <1>10, <1>14, <1>15, <1>16, <1>17
<1>19. UNCHANGED <<srv, exiting, clientVars, inq, res>>
  BY DEF SendResponse
<1>20. CASE pc' = [pc EXCEPT ![c] = "proto"] /\ UNCHANGED prs
  <2>1. TypeOK'
    BY <1>15, <1>17, <1>18, <1>19, <1>20 DEF IInv, TypeOK, AnsType, clientVars
  <2>2. pc'[c] = "proto"
    BY <1>20 DEF IInv, TypeOK
  <2>3. Inv(c)'
    BY <1>1, <1>2, <1>4, <1>10, <1>17, <1>18, <1>19, <1>20, <2>2 DEF Inv, ConnInv, clientVars
  <2>4. \A d \in Conn \ {c} : Same(d)
    BY <1>15, <1>19, <1>20 DEF IInv, TypeOK, clientVars, Same
  <2> QED
    BY <2>1, <2>3, <2>4, Elsewhere DEF IInv
<1>21. CASE pc' = [pc EXCEPT ![c] = "done"] /\ UNCHANGED prs
  <2>1. TypeOK'
    BY <1>15, <1>17, <1>18, <1>19, <1>21 DEF IInv, TypeOK, AnsType, clientVars
  <2>2. pc'[c] = "done"
    BY <1>21 DEF IInv, TypeOK
  <2>3. Inv(c)'
    BY <1>1, <1>2, <1>4, <1>10, <1>17, <1>18, <1>19, <1>21, <2>2 DEF Inv, ConnInv, clientVars
  <2>4. \A d \in Conn \ {c} : Same(d)
    BY <1>15, <1>19, <1>21 DEF IInv, TypeOK, clientVars, Same
  <2> QED
    BY <2>1, <2>3, <2>4, Elsewhere DEF IInv
<1>22. CASE ~MustClose(c) /\ NextRequest(c)
  <2>1. ~r.err
    BY <1>5, <1>22 DEF MustClose
  <2>2. Complete(ks, p, v) /\ r.req = p.req
    BY <1>11, <2>1
  <2>3. PICK q : q = Cleared(p.req, p.st)
    OBVIOUS
  <2>4. p.req \in Nat /\ p.st \in {"start", "head", "body", "dead"}
    BY <1>10 DEF PrsType
  <2>5. DoesClear(p.req, p.st, q)
    BY <2>3, <2>4, ClearedFields
  <2>6. p.st \notin {"head", "body"} /\ AtStart(ks, p, v)
    BY <2>2 DEF Complete, Parsed, AtHead, AtBody
  <2>7. Parsed(ks, q, v)
    BY <2>5, <2>6 DEF Parsed, DoesClear, AtStart, AtHead, AtBody, AtEnd
  <2>8. Unanswered(b, v.req)
    <3>1. Start(r.req + 1).req = r.req + 1
      BY DEF Start, Unit
    <3> QED
      BY <1>12, <1>18, <2>1, <3>1 DEF Unanswered
  <2>9. Receiving(ks, b, q, v) /\ q \in PrsType /\ ~q.halt
    BY <2>5, <2>7, <2>8 DEF Receiving, DoesClear
  <2>10. pc' = [pc EXCEPT ![c] = "headers"] /\ prs' = [prs EXCEPT ![c] = q]
    BY <1>4, <1>22, <2>3 DEF NextRequest, IInv, TypeOK
  <2>11. TypeOK'
    <3>1. q \in [req : Nat, st : {"start", "head", "body", "dead"},
        headers_complete : BOOLEAN, body_complete : BOOLEAN, length : Nat,
        mem : Seq(UnitType), offload : BOOLEAN, file : Seq(UnitType),
        left : Nat, halt : {FALSE}, fail : BOOLEAN]
      BY <2>9 DEF PrsType
    <3> QED
      BY <1>15, <1>17, <1>18, <1>19, <2>10, <3>1 DEF IInv, TypeOK, AnsType, clientVars
  <2>12. pc'[c] = "headers" /\ prs'[c] = q
    BY <2>10 DEF IInv, TypeOK
  <2>13. Inv(c)'
    BY <1>1, <1>2, <1>6, <1>10, <1>17, <1>18, <1>19, <2>9, <2>12 DEF Inv, ConnInv, clientVars
  <2>14. \A d \in Conn \ {c} : Same(d)
    BY <1>15, <1>19, <2>10 DEF IInv, TypeOK, clientVars, Same
  <2> QED
    BY <2>11, <2>13, <2>14, Elsewhere DEF IInv
<1> QED
  BY <1>20, <1>21, <1>22 DEF SendResponse

ResType == [req : Nat, status : Statuses, err : BOOLEAN]

(* A connection that is at the wait at, v being the next unit.             *)
Waits(at, ks, ans, p, v, r) ==
  /\ at \in {"headers", "body", "handle", "send"}
  /\ p \in PrsType /\ ~p.halt /\ r \in ResType
  /\ at = "headers" => Receiving(ks, ans, p, v)
  /\ at = "body" => InTheBody(ks, ans, p, v)
  /\ at = "handle" => Handling(ks, ans, p, v)
  /\ at = "send" => Responding(ks, ans, p, v, r)

(* n units are read and the connection waits again.                        *)
LEMMA ReadKeeps ==
  ASSUME IInv, NEW c \in Conn, NEW n \in 0 .. Len(inq[c]),
         inq' = [inq EXCEPT ![c] = SubSeq(@, n + 1, Len(@))],
         UNCHANGED <<srv, exiting, clientVars, answers>>,
         NEW at, NEW p, NEW r,
         Waits(at, sent[c], answers[c], p,
               Behind(sent[c], inq[c] \o unsent[c], n), r),
         pc' = [pc EXCEPT ![c] = at], prs' = [prs EXCEPT ![c] = p],
         res' = [res EXCEPT ![c] = r]
  PROVE  IInv'
<1>1. inq[c] \in Seq(UnitType) /\ unsent[c] \in Seq(UnitType) /\ Inv(c)
  BY DEF IInv, TypeOK
<1>2. PICK q2 : q2 = SubSeq(inq[c], n + 1, Len(inq[c]))
  OBVIOUS
<1>3. Chained(sent[c], inq[c] \o unsent[c])
      /\ Answered(sent[c], unsent[c], overlap[c], answers[c])
  BY <1>1 DEF Inv, ConnInv
<1>4. PICK v : v = Behind(sent[c], inq[c] \o unsent[c], n)
  OBVIOUS
<1>5. /\ q2 \in Seq(UnitType) /\ Chained(sent[c], q2 \o unsent[c])
      /\ Behind(sent[c], q2 \o unsent[c], 0) = v
  BY <1>1, <1>2, <1>3, <1>4, ReadStream DEF StreamFrom
<1>6. inq' = [inq EXCEPT ![c] = q2]
  BY <1>2
<1>7. TypeOK'
  <2>1. p \in [req : Nat, st : {"start", "head", "body", "dead"},
        headers_complete : BOOLEAN, body_complete : BOOLEAN, length : Nat,
        mem : Seq(UnitType), offload : BOOLEAN, file : Seq(UnitType),
        left : Nat, halt : {FALSE}, fail : BOOLEAN]
    BY DEF Waits, PrsType
  <2>2. at \in {"headers", "body", "handle", "send"}
        /\ r \in [req : Nat, status : Statuses, err : BOOLEAN]
    BY DEF Waits, ResType
  <2>3. inq' \in [Conn -> Seq(UnitType)]
    BY <1>5, <1>6 DEF IInv, TypeOK
  <2>4. /\ pc' \in [Conn -> {"none", "queued", "headers", "body", "handle", "send",
                            "proto", "done"}]
        /\ res' \in [Conn -> [req : Nat, status : Statuses, err : BOOLEAN]]
    BY <2>2 DEF IInv, TypeOK
  <2>5. prs' \in [Conn -> [req : Nat, st : {"start", "head", "body", "dead"},
          headers_complete : BOOLEAN, body_complete : BOOLEAN, length : Nat,
          mem : Seq(UnitType), offload : BOOLEAN, file : Seq(UnitType),
          left : Nat, halt : {FALSE}, fail : BOOLEAN]]
    BY <2>1 DEF IInv, TypeOK
  <2> QED
    BY <2>3, <2>4, <2>5 DEF IInv, TypeOK, clientVars
<1>8. pc'[c] = at /\ prs'[c] = p /\ res'[c] = r /\ inq'[c] = q2
      /\ sent'[c] = sent[c] /\ unsent'[c] = unsent[c] /\ overlap'[c] = overlap[c]
      /\ answers'[c] = answers[c]
  BY <1>6 DEF IInv, TypeOK, clientVars
<1>9. Waits(at, sent[c], answers[c], p, v, r)
  BY <1>4
<1>10. ConnInv(at, sent[c], unsent[c], overlap[c], q2, answers[c], p, r)
  BY <1>3, <1>5, <1>9 DEF Waits, ConnInv
<1>11. Inv(c)'
  BY <1>8, <1>10 DEF Inv
<1>12. \A d \in Conn \ {c} : Same(d)
  BY <1>6 DEF IInv, TypeOK, clientVars, Same
<1> QED
  BY <1>7, <1>11, <1>12, Elsewhere DEF IInv

LEMMA FeedRead ==
  ASSUME IInv, NEW c \in Conn, NEW n \in 0 .. Len(inq[c]),
         Parsed(sent[c], prs[c], Behind(sent[c], inq[c] \o unsent[c], 0))
  PROVE  Fed(c, inq[c] \o unsent[c], n, prs[c], Feed(c, SubSeq(inq[c], 1, n)))
<1>1. /\ inq[c] \in Seq(UnitType) /\ unsent[c] \in Seq(UnitType)
      /\ sent[c] \in Seq(Kinds) /\ Inv(c)
  BY DEF IInv, TypeOK
<1>2. PICK q : q = inq[c]
  OBVIOUS
<1>3. PICK s : s = inq[c] \o unsent[c]
  OBVIOUS
<1>4. Chained(sent[c], s)
  BY <1>1, <1>3 DEF Inv, ConnInv
<1>5. /\ s \in Seq(UnitType) /\ Len(s) = Len(q) + Len(unsent[c])
      /\ \A i \in 1 .. Len(q) + Len(unsent[c]) :
           s[i] = IF i <= Len(q) THEN q[i] ELSE unsent[c][i - Len(q)]
  BY <1>1, <1>2, <1>3, ConcatProperties
<1>6. Len(q) \in Nat /\ Len(unsent[c]) \in Nat /\ n \in 0 .. Len(q)
  BY <1>1, <1>2
<1>7. n \in 0 .. Len(s) /\ \A i \in 1 .. n : i \in 1 .. Len(q) + Len(unsent[c]) /\ i <= Len(q)
  BY <1>5, <1>6
<1>8. PICK units : units = SubSeq(q, 1, n)
  OBVIOUS
<1>9. Len(units) = n /\ \A i \in 1 .. n : units[i] = q[i]
  BY <1>1, <1>2, <1>6, <1>8
<1>10. \A i \in 1 .. n : units[i] = s[i]
  BY <1>5, <1>7, <1>9
<1>11. Fed(c, s, n, prs[c], Feed(c, units))
  BY <1>1, <1>3, <1>4, <1>5, <1>7, <1>9, <1>10, FeedKeeps
<1> QED
  BY <1>2, <1>3, <1>8, <1>11

(* process_headers lets q pass, with or without a file: q2 is left.        *)
Passes(q, off, q2) ==
  /\ q2 \in PrsType /\ q2.offload = off /\ q2.left = q.length
  /\ q2.req = q.req /\ q2.st = q.st /\ q2.headers_complete = q.headers_complete
  /\ q2.body_complete = q.body_complete /\ q2.length = q.length
  /\ q2.mem = q.mem /\ q2.file = q.file /\ q2.halt = q.halt /\ q2.fail = q.fail

LEMMA PassedKeeps ==
  ASSUME NEW ks \in Seq(Kinds), NEW q, NEW v, Parsed(ks, q, v), ~q.fail, ~q.halt,
         q.headers_complete, NEW r0, NEW n \in Nat, n <= Stage, HeadOK(q, r0, n),
         NEW ans, Unanswered(ans, q.req), NEW r \in ResType,
         NEW off \in BOOLEAN, NEW q2, Passes(q, off, q2),
         ~(ks[q.req].body > 0 /\ TooLarge(q)), off \/ ~Spill(q, ks[q.req])
  PROVE  Waits(IF q.body_complete THEN "handle" ELSE "body", ks, ans, q2, v, r)
<1>1. /\ q \in PrsType /\ ~q.offload /\ q.file = << >> /\ Len(q.mem) < n
      /\ AtStart(ks, q, v) /\ AtHead(q, v) /\ AtBody(ks, q, v) /\ AtEnd(ks, q)
  BY DEF Parsed, HeadOK
<1>2. q.req \in 1 .. Len(ks)
  BY <1>1 DEF AtBody, AtEnd
<1>3. ks[q.req] \in Kind
  BY <1>2, KindsAssumption
<1>4. PICK bd \in Nat : bd = ks[q.req].body
  BY <1>3 DEF Kind
<1>5. PICK a \in Nat : a = Len(q.mem) /\ a < n
  BY <1>1 DEF PrsType
<1>6. PICK len \in Nat : len = q.length
  BY <1>1 DEF PrsType
<1>7. Len(q.file) = 0 /\ Len(q.mem) + Len(q.file) = a
  <2>1. Len(q.file) = 0
    BY <1>1
  <2> QED
    BY <1>5, <2>1
<1>8. \/ ks[q.req].upgrade
      \/ bd = a + len /\ q.st = "body"
      \/ bd = a /\ len = a
  <2>1. CASE q.st = "body"
    <3>1. Len(q.mem) + Len(q.file) = v.n - 1 /\ q.length = ks[q.req].body - (v.n - 1)
      BY <1>1, <2>1 DEF AtBody
    <3>2. a = v.n - 1 /\ len = bd - (v.n - 1)
      BY <1>4, <1>6, <1>7, <3>1
    <3>3. len = bd - a
      BY <3>2
    <3> QED
      BY <2>1, <3>3
  <2>2. CASE q.st # "body"
    <3>1. /\ Len(q.mem) + Len(q.file) = IF ks[q.req].upgrade THEN 0 ELSE ks[q.req].body
          /\ q.length = Len(q.mem)
      BY <1>1, <2>2 DEF AtEnd
    <3> QED
      BY <1>4, <1>5, <1>6, <1>7, <3>1
  <2> QED
    BY <2>1, <2>2
<1>9. MaxBody \in Nat /\ OffloadMin \in Nat /\ Stage \in Nat /\ Stage >= 1
  BY BoundsAssumption
<1>10. bd = 0 \/ len <= MaxBody
  BY <1>4, <1>6, <1>9 DEF TooLarge
<1>11. Offload /\ ~off => bd = 0 \/ len <= OffloadMin
  BY <1>4, <1>6, <1>9 DEF Spill
<1>12. ks[q.req].upgrade \/ bd <= MaxBody + Stage - 1
  <2>1. bd = 0 => bd <= MaxBody + Stage - 1
    BY <1>9
  <2>2. bd = a + len /\ len <= MaxBody => bd <= MaxBody + Stage - 1
    BY <1>5, <1>9
  <2>3. bd = a /\ len = a /\ len <= MaxBody => bd <= MaxBody + Stage - 1
    BY <1>9
  <2> QED
    BY <1>8, <1>10, <2>1, <2>2, <2>3
<1>13. Offload /\ ~off => ks[q.req].upgrade \/ bd <= OffloadMin + Stage - 1
  <2>1. bd = 0 => bd <= OffloadMin + Stage - 1
    BY <1>9
  <2>2. bd = a + len /\ len <= OffloadMin => bd <= OffloadMin + Stage - 1
    BY <1>5, <1>9
  <2>3. bd = a /\ len = a /\ len <= OffloadMin => bd <= OffloadMin + Stage - 1
    BY <1>9
  <2> QED
    BY <1>8, <1>11, <2>1, <2>2, <2>3
<1>14. Len(q.mem) <= Stage - 1
  BY <1>5, <1>9
<1>15. Fits(ks, q2)
  BY <1>4, <1>12, <1>13, <1>14 DEF Fits, Passes
<1>16. Parsed(ks, q2, v)
  <2>1. BodySoFar(q) => BodySoFar(q2)
    BY <1>1 DEF BodySoFar, Passes
  <2>2. AtStart(ks, q2, v)
    BY <1>1 DEF AtStart, Passes
  <2>3. AtHead(q2, v)
    BY <1>1 DEF AtHead, Passes
  <2>4. AtBody(ks, q2, v)
    BY <1>1, <2>1 DEF AtBody, Passes
  <2>5. AtEnd(ks, q2)
    BY <1>1, <2>1 DEF AtEnd, Passes
  <2> QED
    BY <2>2, <2>3, <2>4, <2>5 DEF Parsed, Passes
<1>17. q2 \in PrsType /\ ~q2.halt /\ ~q2.fail /\ q2.headers_complete
       /\ q2.left = q2.length /\ q2.req = q.req /\ q2.st = q.st
       /\ q2.body_complete = q.body_complete
  BY DEF Passes
<1>18. CASE q.body_complete
  <2>1. Handling(ks, ans, q2, v)
    BY <1>15, <1>16, <1>17, <1>18 DEF Handling, Complete
  <2> QED
    BY <1>17, <1>18, <2>1 DEF Waits
<1>19. CASE ~q.body_complete
  <2>1. q.st = "body"
    BY <1>1, <1>19 DEF AtEnd
  <2>2. InTheBody(ks, ans, q2, v)
    BY <1>15, <1>16, <1>17, <2>1 DEF InTheBody
  <2> QED
    BY <1>17, <1>19, <2>2 DEF Waits
<1> QED
  BY <1>18, <1>19

(* An answer that closes the connection.                                   *)
LEMMA RefusedKeeps ==
  ASSUME NEW ks \in Seq(Kinds), NEW p \in PrsType, ~p.halt, NEW v, NEW ans,
         p.req \in 1 .. Len(ks), Unanswered(ans, p.req),
         NEW status \in Statuses \ {"ok"},
         NEW r, r = [req |-> p.req, status |-> status, err |-> TRUE]
  PROVE  Waits("send", ks, ans, p, v, r)
<1>1. r \in ResType /\ r.req = p.req /\ r.status # "ok" /\ r.err = TRUE
  BY DEF ResType, PrsType
<1> QED
  BY <1>1 DEF Waits, Responding

LEMMA BehindReq ==
  ASSUME NEW ks \in Seq(Kinds), NEW s \in Seq(UnitType), NEW n \in Nat
  PROVE  Behind(ks, s, n).req \in Nat
<1>1. Len(s) \in Nat /\ Len(ks) \in Nat
  OBVIOUS
<1>2. CASE n < Len(s)
  <2>1. n + 1 \in 1 .. Len(s)
    BY <1>1, <1>2
  <2>2. Behind(ks, s, n) = s[n + 1] /\ s[n + 1] \in UnitType
    BY <1>2, <2>1 DEF Behind
  <2> QED
    BY <2>2 DEF UnitType
<1>3. CASE ~(n < Len(s))
  BY <1>1, <1>3 DEF Behind, Start, Unit
<1> QED
  BY <1>2, <1>3

LEMMA ReadHeadersKeeps ==
  ASSUME IInv, NEW c \in Conn, ReadHeaders(c)
  PROVE  IInv'
<1>1. PICK ks : ks = sent[c]
  OBVIOUS
<1>2. PICK ans : ans = answers[c]
  OBVIOUS
<1>3. PICK n : n = LeastOf(Len(inq[c]), Stage)
  OBVIOUS
<1>4. PICK p : p = Feed(c, SubSeq(inq[c], 1, n))
  OBVIOUS
<1>5. /\ pc[c] = "headers"
      /\ inq' = [inq EXCEPT ![c] = SubSeq(@, n + 1, Len(@))]
      /\ \/ /\ p.fail
            /\ prs' = [prs EXCEPT ![c] = p]
            /\ Respond(c, "bad_request", TRUE)
         \/ /\ ~p.fail /\ ~p.headers_complete
            /\ prs' = [prs EXCEPT ![c] = p]
            /\ GoOn(c, "headers")
         \/ /\ ~p.fail /\ p.headers_complete
            /\ ProcessHeaders(c, p, ks[p.req])
      /\ UNCHANGED <<srv, exiting, clientVars, answers>>
  BY <1>1, <1>3, <1>4 DEF ReadHeaders
<1>6. n \in 0 .. Len(inq[c]) /\ n \in Nat /\ n <= Stage
  <2>1. Len(inq[c]) \in Nat /\ Stage \in Nat
    BY BoundsAssumption DEF IInv, TypeOK
  <2> QED
    BY <1>3, <2>1 DEF LeastOf
<1>7. PICK v0 : v0 = Behind(ks, inq[c] \o unsent[c], 0)
  OBVIOUS
<1>8. PICK v : v = Behind(ks, inq[c] \o unsent[c], n)
  OBVIOUS
<1>9. Receiving(ks, ans, prs[c], v0)
  BY <1>1, <1>2, <1>5, <1>7 DEF IInv, Inv, ConnInv
<1>10. Fed(c, inq[c] \o unsent[c], n, prs[c], p)
  BY <1>1, <1>4, <1>6, <1>7, <1>9, FeedRead DEF Receiving
<1>11. Parsed(ks, p, v) /\ ~p.halt /\ HeadOK(p, v0.req, n) /\ v.req >= v0.req
  BY <1>1, <1>7, <1>8, <1>9, <1>10 DEF Fed, Receiving
<1>12. p \in PrsType /\ ks \in Seq(Kinds) /\ res[c] \in ResType
       /\ res = [res EXCEPT ![c] = res[c]]
  BY <1>1, <1>11 DEF Parsed, IInv, TypeOK, ResType
<1>13. ASSUME NEW r, r >= v0.req, r \in Nat PROVE Unanswered(ans, r)
  <2>1. \A i \in 1 .. Len(ans) : ans[i].req \in Nat
    BY <1>2, AnsTyped DEF IInv, TypeOK, AnsType
  <2>2. inq[c] \o unsent[c] \in Seq(UnitType)
    BY DEF IInv, TypeOK
  <2>3. v0.req \in Nat
    BY <1>7, <1>12, <2>2, BehindReq
  <2> QED
    BY <1>9, <1>13, <2>1, <2>3 DEF Receiving, Unanswered
<1>14. p.req \in Nat /\ (p.fail \/ p.headers_complete => Unanswered(ans, p.req))
  BY <1>11, <1>12, <1>13 DEF HeadOK, PrsType
<1>15. p.fail \/ p.headers_complete => p.req \in 1 .. Len(ks)
  BY <1>11 DEF Parsed, AtBody, AtEnd
<1>16. ASSUME NEW status \in Statuses \ {"ok"}, p.fail \/ p.headers_complete,
              prs' = [prs EXCEPT ![c] = p], Respond(c, status, TRUE)
       PROVE  IInv'
  <2>1. prs'[c] = p
    BY <1>16 DEF IInv, TypeOK
  <2>2. PICK r : r = [req |-> p.req, status |-> status, err |-> TRUE]
    OBVIOUS
  <2>3. res' = [res EXCEPT ![c] = r] /\ pc' = [pc EXCEPT ![c] = "send"]
    BY <1>16, <2>1, <2>2 DEF Respond
  <2>4. Waits("send", ks, ans, p, v, r)
    BY <1>11, <1>12, <1>14, <1>15, <1>16, <2>2, RefusedKeeps
  <2> QED
    BY <1>1, <1>2, <1>5, <1>6, <1>8, <1>16, <2>3, <2>4, ReadKeeps
<1>17. ASSUME ~p.fail, ~p.headers_complete, prs' = [prs EXCEPT ![c] = p],
              GoOn(c, "headers")
       PROVE  IInv'
  <2>0. inq[c] \o unsent[c] \in Seq(UnitType)
    BY DEF IInv, TypeOK
  <2>1. v.req \in Nat
    BY <1>6, <1>8, <1>12, <2>0, BehindReq
  <2>2. Receiving(ks, ans, p, v)
    BY <1>11, <1>13, <1>17, <2>1 DEF Receiving
  <2>3. Waits("headers", ks, ans, p, v, res[c])
    BY <1>11, <1>12, <2>2 DEF Waits
  <2>4. res' = [res EXCEPT ![c] = res[c]] /\ pc' = [pc EXCEPT ![c] = "headers"]
    BY <1>12, <1>17 DEF GoOn
  <2> QED
    BY <1>1, <1>2, <1>5, <1>6, <1>8, <1>17, <2>3, <2>4, ReadKeeps
<1>18. ASSUME ~p.fail, p.headers_complete, NEW off \in BOOLEAN, NEW p1,
              p1 = IF off THEN [p EXCEPT !.offload = TRUE] ELSE p,
              ~(ks[p.req].body > 0 /\ TooLarge(p)), off \/ ~Spill(p, ks[p.req]),
              AwaitBody(c, p1)
       PROVE  IInv'
  <2>1. PICK q2 : q2 = [p1 EXCEPT !.left = p1.length]
    OBVIOUS
  <2>2. ~p.offload
    BY <1>11 DEF HeadOK
  <2>3. Passes(p, off, q2)
    <3>1. CASE off
      BY <1>12, <1>18, <2>1, <3>1 DEF Passes, PrsType
    <3>2. CASE ~off
      BY <1>12, <1>18, <2>1, <2>2, <3>2 DEF Passes, PrsType
    <3> QED
      BY <3>1, <3>2
  <2>4. p1.body_complete = p.body_complete
    BY <1>12, <1>18 DEF PrsType
  <2>5. PICK at : at = IF p.body_complete THEN "handle" ELSE "body"
    OBVIOUS
  <2>6. /\ prs' = [prs EXCEPT ![c] = q2] /\ pc' = [pc EXCEPT ![c] = at]
        /\ res' = [res EXCEPT ![c] = res[c]]
    BY <1>12, <1>18, <2>1, <2>4, <2>5 DEF AwaitBody, GoOn
  <2>7. Waits(at, ks, ans, q2, v, res[c])
    BY <1>6, <1>11, <1>12, <1>14, <1>18, <2>3, <2>5, PassedKeeps
  <2> QED
    BY <1>1, <1>2, <1>5, <1>6, <1>8, <2>6, <2>7, ReadKeeps
<1>19. ASSUME ~p.fail, p.headers_complete, ProcessHeaders(c, p, ks[p.req])
       PROVE  IInv'
  <2>1. {"too_large", "internal", "bad_request"} \subseteq Statuses \ {"ok"}
    BY DEF Statuses
  <2>2. CASE ks[p.req].body > 0 /\ TooLarge(p)
    BY <1>16, <1>19, <2>1, <2>2 DEF ProcessHeaders
  <2>3. CASE ~(ks[p.req].body > 0 /\ TooLarge(p)) /\ Spill(p, ks[p.req])
    <3>1. \/ AwaitBody(c, [p EXCEPT !.offload = TRUE])
          \/ prs' = [prs EXCEPT ![c] = p] /\ Respond(c, "internal", TRUE)
      BY <1>19, <2>3 DEF ProcessHeaders
    <3>2. CASE AwaitBody(c, [p EXCEPT !.offload = TRUE])
      <4>1. PICK p1 : p1 = IF TRUE THEN [p EXCEPT !.offload = TRUE] ELSE p
        OBVIOUS
      <4> QED
        BY <1>18, <1>19, <2>3, <3>2, <4>1
    <3> QED
      BY <1>16, <1>19, <2>1, <3>1, <3>2
  <2>4. CASE ~(ks[p.req].body > 0 /\ TooLarge(p)) /\ ~Spill(p, ks[p.req])
    <3>1. AwaitBody(c, p)
      BY <1>19, <2>4 DEF ProcessHeaders
    <3>2. PICK p1 : p1 = IF FALSE THEN [p EXCEPT !.offload = TRUE] ELSE p
      OBVIOUS
    <3> QED
      BY <1>18, <1>19, <2>4, <3>1, <3>2
  <2> QED
    BY <2>2, <2>3, <2>4
<1>20. "bad_request" \in Statuses \ {"ok"}
  BY DEF Statuses
<1> QED
  BY <1>5, <1>16, <1>17, <1>19, <1>20

LEMMA ReceiveBodyKeeps ==
  ASSUME IInv, NEW c \in Conn, ReceiveBody(c)
  PROVE  IInv'
<1>1. PICK ks : ks = sent[c]
  OBVIOUS
<1>2. PICK ans : ans = answers[c]
  OBVIOUS
<1>3. PICK n : n = Piece(c)
  OBVIOUS
<1>4. PICK p : p = Feed(c, SubSeq(inq[c], 1, n))
  OBVIOUS
<1>5. PICK p0 : p0 = prs[c]
  OBVIOUS
<1>6. PICK q : q = [p EXCEPT !.left = p0.left - n]
  OBVIOUS
<1>7. /\ pc[c] = "body" /\ Len(inq[c]) >= n
      /\ inq' = [inq EXCEPT ![c] = SubSeq(@, n + 1, Len(@))]
      /\ \/ /\ p0.offload
            /\ prs' = [prs EXCEPT ![c] = Failed(p0, p0.req)]
            /\ Respond(c, "bad_request", TRUE)
         \/ /\ prs' = [prs EXCEPT ![c] = q]
            /\ IF p.fail THEN Respond(c, "bad_request", TRUE)
               ELSE IF p.body_complete THEN GoOn(c, "handle")
               ELSE IF q.left > 0 THEN GoOn(c, "body")
               ELSE Respond(c, "bad_request", TRUE)
      /\ UNCHANGED <<srv, exiting, clientVars, answers>>
  BY <1>3, <1>4, <1>5, <1>6 DEF ReceiveBody
<1>8. PICK v0 : v0 = Behind(ks, inq[c] \o unsent[c], 0)
  OBVIOUS
<1>9. PICK v : v = Behind(ks, inq[c] \o unsent[c], n)
  OBVIOUS
<1>10. InTheBody(ks, ans, p0, v0)
  BY <1>1, <1>2, <1>5, <1>7, <1>8 DEF IInv, Inv, ConnInv
<1>11. /\ Parsed(ks, p0, v0) /\ ~p0.fail /\ ~p0.halt /\ p0.st = "body"
       /\ p0.left = p0.length /\ Fits(ks, p0) /\ Unanswered(ans, p0.req)
       /\ p0 \in PrsType /\ p0.req \in 1 .. Len(ks)
  BY <1>10 DEF InTheBody, Parsed, AtBody
<1>12. PICK len \in Nat : len = p0.length
  BY <1>11 DEF PrsType
<1>13. n \in 0 .. Len(inq[c]) /\ n \in Nat /\ n <= len
  <2>1. Len(inq[c]) \in Nat /\ Stage \in Nat
    BY BoundsAssumption DEF IInv, TypeOK
  <2>2. n = LeastOf(Stage, len)
    BY <1>3, <1>5, <1>11, <1>12 DEF Piece
  <2>3. n \in Nat /\ n <= len
    BY <2>1, <2>2 DEF LeastOf
  <2> QED
    BY <1>7, <2>1, <2>3
<1>14. Fed(c, inq[c] \o unsent[c], n, p0, p)
  BY <1>1, <1>4, <1>5, <1>8, <1>11, <1>13, FeedRead
<1>15. Parsed(ks, p, v) /\ ~p.halt /\ BodyOK(p, p0, n)
  BY <1>1, <1>9, <1>11, <1>12, <1>13, <1>14 DEF Fed
<1>16. p \in PrsType /\ ks \in Seq(Kinds) /\ res[c] \in ResType
       /\ res = [res EXCEPT ![c] = res[c]]
  BY <1>1, <1>15 DEF Parsed, IInv, TypeOK, ResType
<1>17. p0.left - n \in Nat /\ p0.left - n = len - n
  BY <1>11, <1>12, <1>13
<1>18. /\ q \in PrsType /\ q.left = len - n
       /\ q.req = p.req /\ q.st = p.st /\ q.headers_complete = p.headers_complete
       /\ q.body_complete = p.body_complete /\ q.length = p.length
       /\ q.mem = p.mem /\ q.offload = p.offload /\ q.file = p.file
       /\ q.halt = p.halt /\ q.fail = p.fail
  BY <1>6, <1>16, <1>17 DEF PrsType
<1>19. Parsed(ks, q, v)
  <2>1. BodySoFar(p) => BodySoFar(q)
    BY <1>18 DEF BodySoFar
  <2> QED
    BY <1>15, <1>18, <2>1 DEF Parsed, AtStart, AtHead, AtBody, AtEnd
<1>20. Fits(ks, q) /\ q.req = p0.req /\ ~q.fail /\ ~q.halt /\ q.headers_complete
       /\ Unanswered(ans, q.req)
  BY <1>11, <1>15, <1>18 DEF BodyOK, Fits
<1>21. CASE /\ p0.offload
            /\ prs' = [prs EXCEPT ![c] = Failed(p0, p0.req)]
            /\ Respond(c, "bad_request", TRUE)
  <2>1. PICK f : f = Failed(p0, p0.req)
    OBVIOUS
  <2>2. f \in PrsType /\ f.req = p0.req /\ ~f.halt
    <3>1. p0.req \in Nat
      BY <1>11 DEF PrsType
    <3>2. DoesFail(p0, p0.req, f)
      BY <1>11, <2>1, <3>1, FailedFields
    <3> QED
      BY <1>11, <3>2 DEF DoesFail
  <2>3. prs' = [prs EXCEPT ![c] = f] /\ prs'[c] = f
    BY <1>21, <2>1 DEF IInv, TypeOK
  <2>4. PICK r : r = [req |-> f.req, status |-> "bad_request", err |-> TRUE]
    OBVIOUS
  <2>5. res' = [res EXCEPT ![c] = r] /\ pc' = [pc EXCEPT ![c] = "send"]
    BY <1>21, <2>3, <2>4 DEF Respond
  <2>6. "bad_request" \in Statuses \ {"ok"}
    BY DEF Statuses
  <2>7. Waits("send", ks, ans, f, v, r)
    BY <1>11, <1>16, <2>2, <2>4, <2>6, RefusedKeeps
  <2> QED
    BY <1>1, <1>2, <1>7, <1>9, <1>13, <2>3, <2>5, <2>7, ReadKeeps
<1>22. CASE prs' = [prs EXCEPT ![c] = q] /\ p.body_complete /\ GoOn(c, "handle")
  <2>1. Handling(ks, ans, q, v)
    BY <1>18, <1>19, <1>20, <1>22 DEF Handling, Complete
  <2>2. Waits("handle", ks, ans, q, v, res[c])
    BY <1>16, <1>18, <1>20, <2>1 DEF Waits
  <2>3. res' = [res EXCEPT ![c] = res[c]] /\ pc' = [pc EXCEPT ![c] = "handle"]
    BY <1>16, <1>22 DEF GoOn
  <2> QED
    BY <1>1, <1>2, <1>7, <1>9, <1>13, <1>22, <2>2, <2>3, ReadKeeps
<1>23. CASE /\ prs' = [prs EXCEPT ![c] = q] /\ ~p.body_complete /\ q.left > 0
            /\ GoOn(c, "body")
  <2>1. n < len
    BY <1>13, <1>18, <1>23
  <2>2. q.st = "body" /\ q.length = len - n
    BY <1>12, <1>15, <1>18, <2>1 DEF BodyOK
  <2>3. InTheBody(ks, ans, q, v)
    BY <1>18, <1>19, <1>20, <2>2 DEF InTheBody
  <2>4. Waits("body", ks, ans, q, v, res[c])
    BY <1>16, <1>18, <1>20, <2>3 DEF Waits
  <2>5. res' = [res EXCEPT ![c] = res[c]] /\ pc' = [pc EXCEPT ![c] = "body"]
    BY <1>16, <1>23 DEF GoOn
  <2> QED
    BY <1>1, <1>2, <1>7, <1>9, <1>13, <1>23, <2>4, <2>5, ReadKeeps
<1>24. ~p.fail /\ (~p.body_complete => q.left > 0)
  <2>1. ASSUME ~p.body_complete PROVE q.left > 0
    <3>1. n # len
      BY <1>12, <1>15, <2>1 DEF BodyOK
    <3> QED
      BY <1>13, <1>18, <3>1
  <2> QED
    BY <1>15, <2>1 DEF BodyOK
<1> QED
  BY <1>7, <1>21, <1>22, <1>23, <1>24

-----------------------------------------------------------------------------
LEMMA NextKeeps == IInv /\ [Next]_vars => IInv'
<1> SUFFICES ASSUME IInv, [Next]_vars PROVE IInv'
  OBVIOUS
<1>1. ASSUME NEW c \in Conn, ClientStep(c) PROVE IInv'
  BY <1>1, DialKeeps, AskKeeps, SendUnitKeeps, HangUpKeeps DEF ClientStep
<1>2. ASSUME NEW c \in Conn, ConnStep(c) PROVE IInv'
  BY <1>2, ReadHeadersKeeps, ReceiveBodyKeeps, EndKeeps, BodyTimeoutKeeps,
     HandleKeeps, SendResponseKeeps DEF ConnStep, StartStep
<1>3. ASSUME NEW c \in Conn, Accept(c) PROVE IInv'
  BY <1>3, AcceptKeeps
<1>4. CASE RunLoop
  BY <1>4, RunLoopKeeps
<1>5. CASE AcceptFails \/ Stop
  BY <1>5, StopKeeps
<1>6. CASE UNCHANGED vars
  BY <1>6 DEF IInv, TypeOK, Inv, vars, clientVars
<1> QED
  BY <1>1, <1>2, <1>3, <1>4, <1>5, <1>6 DEF Next

(* The inductive invariant of the HTTP server.                             *)
THEOREM Inductive == Spec => []IInv
<1>1. Init => IInv
  BY InitInv
<1>2. IInv /\ [Next]_vars => IInv'
  BY NextKeeps
<1> QED
  BY <1>1, <1>2, PTL DEF Spec

(* Every variable stays within its type, in particular the lengths that    *)
(* handle_body_part and receive_body count down stay natural numbers.      *)
THEOREM TypeCorrect == Spec => []TypeOK
<1>1. IInv => TypeOK
  BY DEF IInv
<1> QED
  BY <1>1, Inductive, PTL

(* However the stream was cut into reads of at most a stage, and whether   *)
(* the body went to memory or to a file, the handler is called with the    *)
(* whole body of one request and nothing else.  A request that asks for    *)
(* another protocol has no body: HeadersDone ends such a message, and the  *)
(* handler of one with a body would run without it.                        *)
THEOREM WholeBodies ==
  ASSUME BareUpgrades
  PROVE  Spec => []WholeBody
<1>1. IInv => WholeBody
  <2> SUFFICES ASSUME IInv, NEW c \in Conn, pc[c] = "handle"
               PROVE  LET p == prs[c] IN
                 /\ p.headers_complete /\ p.body_complete
                 /\ p.mem \o p.file = BodyUnits(p.req, sent[c][p.req])
    BY DEF WholeBody
  <2>1. PICK ks : ks = sent[c]
    OBVIOUS
  <2>2. PICK p : p = prs[c]
    OBVIOUS
  <2>3. PICK v : v = Behind(ks, inq[c] \o unsent[c], 0)
    OBVIOUS
  <2>4. Complete(ks, p, v)
    BY <2>1, <2>2, <2>3 DEF IInv, Inv, ConnInv, Handling
  <2>5. /\ p.headers_complete /\ p.body_complete /\ p \in PrsType
        /\ p.req \in 1 .. Len(ks) /\ BodySoFar(p)
        /\ Len(p.mem) + Len(p.file) = IF ks[p.req].upgrade THEN 0 ELSE ks[p.req].body
    BY <2>4 DEF Complete, Parsed, AtBody, AtEnd
  <2>6. /\ p.req \in Nat /\ ks[p.req] \in Kind
        /\ ks[p.req].upgrade => ks[p.req].body = 0
    BY <2>1, <2>5, KindsAssumption DEF IInv, TypeOK, PrsType, BareUpgrades
  <2>7. PICK bd \in Nat : bd = ks[p.req].body
    BY <2>6 DEF Kind
  <2>8. PICK m : m = p.mem
    OBVIOUS
  <2>9. PICK f : f = p.file
    OBVIOUS
  <2>10. m \in Seq(UnitType) /\ f \in Seq(UnitType) /\ Len(m) \in Nat /\ Len(f) \in Nat
    BY <2>5, <2>8, <2>9 DEF PrsType
  <2>11. PICK s : s = m \o f
    OBVIOUS
  <2>12. /\ s \in Seq(UnitType) /\ Len(s) = Len(m) + Len(f)
         /\ \A i \in 1 .. Len(m) + Len(f) :
              s[i] = IF i <= Len(m) THEN m[i] ELSE f[i - Len(m)]
    BY <2>10, <2>11, ConcatProperties
  <2>13. ASSUME NEW i \in 1 .. Len(m) + Len(f) PROVE s[i] = Unit(p.req, "body", i)
    <3>1. CASE i <= Len(m)
      <4>1. i \in 1 .. Len(m)
        BY <2>10, <3>1
      <4> QED
        BY <2>5, <2>8, <2>12, <3>1, <4>1 DEF BodySoFar
    <3>2. CASE ~(i <= Len(m))
      <4>1. i - Len(m) \in 1 .. Len(f) /\ Len(m) + (i - Len(m)) = i
        BY <2>10, <3>2
      <4>2. f[i - Len(m)] = Unit(p.req, "body", Len(m) + (i - Len(m)))
        BY <2>5, <2>8, <2>9, <4>1 DEF BodySoFar
      <4> QED
        BY <2>12, <3>2, <4>1, <4>2
    <3> QED
      BY <3>1, <3>2
  <2>14. Len(s) = bd /\ Len(m) + Len(f) = bd
    BY <2>5, <2>6, <2>7, <2>8, <2>9, <2>12
  <2>15. PICK b : b = BodyUnits(p.req, ks[p.req])
    OBVIOUS
  <2>16. b = [i \in 1 .. bd |-> Unit(p.req, "body", i)]
    BY <2>7, <2>15 DEF BodyUnits
  <2>17. \A i \in 1 .. bd : s[i] = Unit(p.req, "body", i)
    BY <2>13, <2>14
  <2>18. s = [i \in 1 .. bd |-> s[i]]
    BY <2>12, <2>14
  <2>19. s = b
    BY <2>16, <2>17, <2>18
  <2> QED
    BY <2>1, <2>2, <2>5, <2>8, <2>9, <2>11, <2>15, <2>19
<1> QED
  BY <1>1, Inductive, PTL

(* What a connection keeps of a body exceeds max_body_len, and what it     *)
(* keeps of it in memory disk_offload_min, by less than one stage: what    *)
(* receive_headers read behind the header before process_headers compared. *)
THEOREM BodiesBounded == Spec => []BodyBounded
<1>1. IInv => BodyBounded
  <2> SUFFICES ASSUME IInv, NEW c \in Conn, pc[c] \in {"body", "handle"}
               PROVE  LET p == prs[c] IN
                 /\ Len(p.mem) + Len(p.file) <= MaxBody + Stage - 1
                 /\ Offload => Len(p.mem) <= OffloadMin + Stage - 1
    BY DEF BodyBounded
  <2>1. PICK ks : ks = sent[c]
    OBVIOUS
  <2>2. PICK p : p = prs[c]
    OBVIOUS
  <2>3. PICK v : v = Behind(ks, inq[c] \o unsent[c], 0)
    OBVIOUS
  <2>4. /\ Parsed(ks, p, v) /\ ~p.fail /\ p \in PrsType /\ Fits(ks, p)
        /\ p.headers_complete
    BY <2>1, <2>2, <2>3 DEF IInv, Inv, ConnInv, InTheBody, Handling, Complete, Parsed, AtBody
  <2>5. p.req \in 1 .. Len(ks)
    BY <2>4 DEF Parsed, AtBody, AtEnd
  <2>6. ks[p.req] \in Kind
    BY <2>1, <2>5, KindsAssumption DEF IInv, TypeOK
  <2>7. PICK bd \in Nat : bd = ks[p.req].body
    BY <2>6 DEF Kind
  <2>8. PICK a \in Nat : a = Len(p.mem)
    BY <2>4 DEF PrsType
  <2>9. PICK b \in Nat : b = Len(p.file)
    BY <2>4 DEF PrsType
  <2>10. \/ ks[p.req].upgrade /\ a + b = 0
         \/ ~ks[p.req].upgrade /\ a + b <= bd
    <3>1. CASE p.st = "body"
      <4>1. /\ Len(p.mem) + Len(p.file) = v.n - 1 /\ ~ks[p.req].upgrade
            /\ p.length = ks[p.req].body - (v.n - 1) /\ p.length > 0
        BY <2>4, <3>1 DEF Parsed, AtBody
      <4>2. PICK len \in Nat : len = p.length
        BY <2>4 DEF PrsType
      <4>3. a + b = v.n - 1 /\ len = bd - (v.n - 1)
        BY <2>7, <2>8, <2>9, <4>1, <4>2
      <4>4. len = bd - (a + b)
        BY <4>3
      <4>5. a + b <= bd
        BY <4>4
      <4> QED
        BY <4>1, <4>5
    <3>2. CASE p.st # "body"
      <4>1. Len(p.mem) + Len(p.file) = IF ks[p.req].upgrade THEN 0 ELSE ks[p.req].body
        BY <2>4, <3>2 DEF Parsed, AtEnd
      <4>2. a + b = IF ks[p.req].upgrade THEN 0 ELSE bd
        BY <2>7, <2>8, <2>9, <4>1
      <4>3. a + b = bd => a + b <= bd
        OBVIOUS
      <4> QED
        BY <4>2, <4>3
    <3> QED
      BY <3>1, <3>2
  <2>11. MaxBody \in Nat /\ OffloadMin \in Nat /\ Stage \in Nat /\ Stage >= 1
    BY BoundsAssumption
  <2>12. /\ ks[p.req].upgrade \/ bd <= MaxBody + Stage - 1
         /\ p.offload => a <= Stage - 1
         /\ Offload /\ ~p.offload => ks[p.req].upgrade \/ bd <= OffloadMin + Stage - 1
    BY <2>4, <2>7, <2>8 DEF Fits
  <2>13. a + b <= MaxBody + Stage - 1
    BY <2>10, <2>11, <2>12
  <2>14. Offload => a <= OffloadMin + Stage - 1
    BY <2>10, <2>11, <2>12
  <2> QED
    BY <2>2, <2>8, <2>9, <2>13, <2>14
<1> QED
  BY <1>1, Inductive, PTL

(* No request is answered twice or after a later one, and ok is never the  *)
(* answer to a request that is still being sent, whatever the client sends *)
(* without waiting.  A request that asks for another protocol has no body: *)
(* http_parser_execute completes an upgrade at the end of its header, and  *)
(* takes a body behind it for the next message.                            *)
THEOREM AnswersOrdered ==
  ASSUME BareUpgrades
  PROVE  Spec => []AnswersInOrder
<1>1. IInv => AnswersInOrder
  BY DEF IInv, Inv, ConnInv, Answered, AnswersInOrder
<1> QED
  BY <1>1, Inductive, PTL

(* A client that awaits every answer gets the n-th answer for its n-th     *)
(* request, served, refused or in error.                                   *)
THEOREM OwnAnswers ==
  ASSUME BareUpgrades
  PROVE  Spec => []OwnAnswer
<1>1. IInv => OwnAnswer
  BY DEF IInv, Inv, ConnInv, Answered, OwnAnswer
<1> QED
  BY <1>1, Inductive, PTL
=============================================================================
