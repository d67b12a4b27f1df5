---------------------------- MODULE Router_proofs ----------------------------
(***************************************************************************)
(* Trie::find gives every url to the rule that fits it best, with the      *)
(* values of its own parameters, whatever the rules and the urls are: the  *)
(* theorems about module Router.  What the search relies on, Good, is      *)
(* proved of the trie in RouterTrie_proofs.                                *)
(*                                                                         *)
(* The reference parser reads a pattern token by token.  A call of find at *)
(* node i and position pos is Reached when the parser, having read sp[i],  *)
(* is at pos: the rest of the search is then about the patterns below i.   *)
(***************************************************************************)
EXTENDS RouterTrie_proofs, FiniteSetTheorems

Url == Seq(Char)
Start == [ok |-> TRUE, pos |-> 1, params |-> NoParams]

-----------------------------------------------------------------------------
(* The reference parser.                                                   *)

ParseLoop(pattern, url) == [kind |-> "parse", pattern |-> pattern, url |-> url]

LEMMA ParseRuns ==
  ASSUME NEW pattern, NEW url, Len(pattern) \in Nat
  PROVE  \E f : /\ f[0] = Start
                /\ \A n \in 1 .. Len(pattern) : f[n] = Read(f[n - 1], pattern[n], url)
                /\ Parse(pattern, url) = f[Len(pattern)]
<1> DEFINE R(f) == f = [n \in 0 .. Len(pattern) |->
                          IF n = 0 THEN Start ELSE Read(f[n - 1], pattern[n], url)]
           parse == CHOOSE f : R(f)
           loop == ParseLoop(pattern, url)
<1>1. \A x, n : Turn(loop, x, n) = Read(x, pattern[n], url)
  BY DEF Turn, ParseLoop
<1> HIDE DEF loop
<1>2. ASSUME NEW f PROVE R(f) <=> Turns(f, loop, Start, Len(pattern))
  <2>1. Turns(f, loop, Start, Len(pattern)) <=>
          f = [n \in 0 .. Len(pattern) |->
                 IF n = 0 THEN Start ELSE Turn(loop, f[n - 1], n)]
    BY TurnsFixed
  <2> QED
    BY <1>1, <2>1
<1>3. \E f : R(f)
  BY <1>2, LoopRuns
<1>4. R(parse)
  BY <1>3
<1>5. Parse(pattern, url) = parse[Len(pattern)]
  BY DEF Parse, Start
<1>6. Turns(parse, loop, Start, Len(pattern))
  BY <1>2, <1>4
<1> HIDE DEF parse
<1> QED
  BY <1>1, <1>5, <1>6 DEF Turns

LEMMA ParseEmpty ==
  ASSUME NEW url
  PROVE  Parse(<< >>, url) = Start
<1>1. Len(<< >>) = 0 /\ Len(<< >>) \in Nat
  OBVIOUS
<1>2. PICK p : p = << >>
  OBVIOUS
<1>3. Len(p) = 0 /\ Len(p) \in Nat
  BY <1>1, <1>2
<1>4. PICK f : f[0] = Start /\ Parse(p, url) = f[Len(p)]
  BY <1>3, ParseRuns
<1> QED
  BY <1>2, <1>3, <1>4

LEMMA ParseMore ==
  ASSUME NEW q \in Pattern, NEW tok \in Char \cup ParamType, NEW url
  PROVE  Parse(q \o <<tok>>, url) = Read(Parse(q, url), tok, url)
<1>1. PICK p : p = q \o <<tok>>
  OBVIOUS
<1>2. /\ p \in Pattern /\ Len(q) \in Nat /\ Len(p) = Len(q) + 1
      /\ p[Len(q) + 1] = tok /\ \A x \in 1 .. Len(q) : p[x] = q[x]
  BY <1>1, ConcatOne
<1>3. PICK f : /\ f[0] = Start
               /\ \A n \in 1 .. Len(q) : f[n] = Read(f[n - 1], q[n], url)
               /\ Parse(q, url) = f[Len(q)]
  BY <1>2, ParseRuns
<1>4. PICK g : /\ g[0] = Start
               /\ \A n \in 1 .. Len(p) : g[n] = Read(g[n - 1], p[n], url)
               /\ Parse(p, url) = g[Len(p)]
  <2>1. Len(p) \in Nat
    BY <1>2
  <2> QED
    BY <2>1, ParseRuns
<1>5. f[Len(q)] = g[Len(q)]
  <2> DEFINE T == {n \in 0 .. Len(q) : f[n] # g[n]}
  <2> SUFFICES ASSUME T # {} PROVE FALSE
    BY <1>2
  <2>1. PICK m \in T : \A i \in T : m <= i
    <3>1. T \subseteq Nat
      BY <1>2
    <3> QED
      BY <3>1, LeastNat
  <2>2. /\ m # 0 /\ m \in 1 .. Len(q) /\ m - 1 \in 0 .. Len(q) /\ m - 1 \notin T
        /\ m \in 1 .. Len(p)
    BY <1>2, <1>3, <1>4, <2>1
  <2>3. f[m - 1] = g[m - 1]
    BY <2>2
  <2> QED
    BY <1>2, <1>3, <1>4, <2>1, <2>2, <2>3
<1>6. Len(q) + 1 \in 1 .. Len(p) /\ (Len(q) + 1) - 1 = Len(q)
  BY <1>2
<1> QED
  BY <1>1, <1>2, <1>3, <1>4, <1>5, <1>6

(* A pattern is empty or ends in a token.                                  *)
LEMMA PatternEnd ==
  ASSUME NEW p \in Pattern, p # << >>
  PROVE  \E q \in Pattern, tok \in Char \cup ParamType :
           p = q \o <<tok>> /\ Len(q) = Len(p) - 1
<1>1. Len(p) \in Nat /\ Len(p) # 0
  BY EmptySeq DEF Pattern
<1>2. PICK q : q = SubSeq(p, 1, Len(p) - 1)
  OBVIOUS
<1>3. /\ q \in Pattern /\ Len(q) = Len(p) - 1
      /\ \A x \in 1 .. Len(p) - 1 : q[x] = p[x]
  <2>1. PICK n \in Int : n = Len(p) - 1
    BY <1>1
  <2>2. \A i \in 1 .. n : p[i] \in Char \cup ParamType
    BY <1>1, <2>1 DEF Pattern
  <2>3. /\ SubSeq(p, 1, n) \in Pattern
        /\ Len(SubSeq(p, 1, n)) = IF 1 <= n THEN n - 1 + 1 ELSE 0
        /\ \A i \in 1 .. n - 1 + 1 : SubSeq(p, 1, n)[i] = p[1 + i - 1]
    BY <2>2, SubSeqProperties DEF Pattern
  <2>4. q = SubSeq(p, 1, n)
    BY <1>2, <2>1
  <2>5. q \in Pattern /\ Len(q) = n
    BY <1>1, <2>1, <2>3, <2>4
  <2>6. ASSUME NEW x \in 1 .. n PROVE q[x] = p[x]
    <3>1. x \in 1 .. n - 1 + 1 /\ 1 + x - 1 = x
      BY <2>1
    <3> QED
      BY <2>3, <2>4, <3>1
  <2> QED
    BY <2>1, <2>5, <2>6
<1>4. Begins(q, p) /\ Len(q) # Len(p)
  BY <1>1, <1>3 DEF Begins
<1>5. PICK tok : tok = p[Len(q) + 1]
  OBVIOUS
<1>6. tok \in Char \cup ParamType /\ Begins(q \o <<tok>>, p)
  BY <1>3, <1>4, <1>5, BeginsMore
<1>7. PICK r : r = q \o <<tok>>
  OBVIOUS
<1>8. r \in Pattern /\ Len(r) = Len(p) /\ Begins(r, p)
  BY <1>1, <1>3, <1>6, <1>7, ConcatOne
<1>9. r = p
  BY <1>1, <1>8, BeginsSame
<1> QED
  BY <1>3, <1>6, <1>7, <1>9

(* What the parser keeps of a text it could read.                          *)
LEMMA RunFacts ==
  ASSUME NEW url \in Url, NEW pos \in 1 .. Len(url) + 1, NEW C
  PROVE  Run(url, pos, C) \in 0 .. Len(url) + 1 - pos
<1> DEFINE Stops == {i \in pos .. Len(url) : url[i] \notin C}
<1>1. Len(url) \in Nat
  BY DEF Url
<1>2. CASE Stops = {}
  <2>1. Run(url, pos, C) = Len(url) + 1 - pos
    BY <1>2 DEF Run
  <2> QED
    BY <1>1, <2>1
<1>3. CASE Stops # {}
  <2>1. Run(url, pos, C) = Min(Stops) - pos
    BY <1>3 DEF Run
  <2>2. Stops \subseteq Nat /\ Stops \subseteq pos .. Len(url)
    BY <1>1
  <2> HIDE DEF Stops
  <2>3. \E m \in Stops : \A i \in Stops : m <= i
    BY <1>3, <2>2, LeastNat
  <2>4. Min(Stops) \in Stops
    BY <2>3 DEF Min
  <2>5. PICK m : m = Min(Stops)
    OBVIOUS
  <2>6. m \in pos .. Len(url)
    BY <2>2, <2>4, <2>5
  <2> QED
    BY <1>1, <2>1, <2>5, <2>6
<1> QED
  BY <1>2, <1>3

LEMMA ExtentFacts ==
  ASSUME NEW url \in Url, NEW pos \in 1 .. Len(url) + 1, NEW t \in ParamType
  PROVE  Extent(url, pos, t) \in 0 .. Len(url) + 1 - pos
<1>1. Len(url) \in Nat
  BY DEF Url
<1>2. CASE t = "int"
  <2>1. PICK d : d = Run(url, pos, Digit)
    OBVIOUS
  <2>2. d \in 0 .. Len(url) + 1 - pos
    BY <2>1, RunFacts
  <2>3. Extent(url, pos, t) = IF d <= MaxDigits THEN d ELSE 0
    BY <1>2, <2>1 DEF Extent
  <2> QED
    BY <1>1, <2>2, <2>3
<1>3. CASE t = "str"
  <2>1. Extent(url, pos, t) = Run(url, pos, Char \ {"/"})
    BY <1>3 DEF Extent
  <2> QED
    BY <2>1, RunFacts
<1>4. CASE t = "path"
  <2>1. Extent(url, pos, t) = Len(url) + 1 - pos
    BY <1>4 DEF Extent
  <2> QED
    BY <1>1, <2>1
<1> QED
  BY <1>2, <1>3, <1>4 DEF ParamType

LEMMA TextFacts ==
  ASSUME NEW url \in Url, NEW pos \in 1 .. Len(url) + 1, NEW n \in 0 .. Len(url) + 1 - pos
  PROVE  SubSeq(url, pos, pos + n - 1) \in Url
<1>1. Len(url) \in Nat
  BY DEF Url
<1>2. pos \in Int /\ pos + n - 1 \in Int /\ pos + n - 1 <= Len(url)
  BY <1>1
<1>3. \A i \in pos .. pos + n - 1 : url[i] \in Char
  BY <1>1, <1>2 DEF Url
<1> QED
  BY <1>2, <1>3, SubSeqProperties DEF Url

LEMMA FrontAppend ==
  ASSUME NEW S, NEW s \in Seq(S), NEW x \in S
  PROVE  Append(s, x) # << >> /\ Front(Append(s, x)) = s
<1>1. PICK t : t = Append(s, x)
  OBVIOUS
<1>2. /\ t \in Seq(S) /\ Len(t) = Len(s) + 1 /\ Len(s) \in Nat
      /\ \A i \in 1 .. Len(s) : t[i] = s[i]
  BY <1>1, AppendProperties
<1>3. t # << >>
  BY <1>2
<1>4. PICK u : u = SubSeq(t, 1, Len(s))
  OBVIOUS
<1>5. \A i \in 1 .. Len(s) : t[i] \in S
  BY <1>2
<1>6. /\ u \in Seq(S) /\ Len(u) = IF 1 <= Len(s) THEN Len(s) - 1 + 1 ELSE 0
      /\ \A i \in 1 .. Len(s) - 1 + 1 : u[i] = t[1 + i - 1]
  BY <1>2, <1>4, <1>5, SubSeqProperties
<1>7. Len(u) = Len(s)
  BY <1>2, <1>6
<1>8. ASSUME NEW i \in 1 .. Len(s) PROVE u[i] = s[i]
  <2>1. i \in 1 .. Len(s) - 1 + 1 /\ 1 + i - 1 = i
    BY <1>2
  <2> QED
    BY <1>2, <1>6, <2>1
<1>9. u = s
  BY <1>6, <1>7, <1>8, SeqEqual
<1>10. Front(t) = u
  <2>1. Len(t) - 1 = Len(s)
    BY <1>2
  <2> QED
    BY <1>4, <2>1 DEF Front
<1> QED
  BY <1>1, <1>3, <1>9, <1>10

LEMMA PushFacts ==
  ASSUME NEW params \in Params, NEW t \in ParamType, NEW text \in Url
  PROVE  /\ Container(t) \in {"int", "str"} /\ Push(params, t, text) \in Params
         /\ \A c \in {"int", "str"} :
              Push(params, t, text)[c] =
                IF c = Container(t) THEN Append(params[c], text) ELSE params[c]
         /\ Pop(Push(params, t, text), t) = params
<1>1. Container(t) \in {"int", "str"}
  BY DEF Container, ParamType
<1>2. \A c \in {"int", "str"} : params[c] \in Seq(Url)
  BY DEF Params, Url
<1>3. PICK k \in {"int", "str"} : k = Container(t)
  BY <1>1
<1>4. PICK s : s = Append(params[k], text)
  OBVIOUS
<1>5. s \in Seq(Url) /\ s # << >> /\ Front(s) = params[k]
  BY <1>2, <1>4, FrontAppend
<1>6. PICK p : p = [params EXCEPT ![k] = s]
  OBVIOUS
<1>7. Push(params, t, text) = p
  BY <1>3, <1>4, <1>6 DEF Push, Params
<1>8. p \in Params /\ \A c \in {"int", "str"} : p[c] = IF c = k THEN s ELSE params[c]
  BY <1>5, <1>6 DEF Params, Url
<1>9. Pop(p, t) = [p EXCEPT ![k] = Front(s)]
  <2>1. PICK v : v = IF p[k] = << >> THEN p[k] ELSE Front(p[k])
    OBVIOUS
  <2>2. Pop(p, t) = [p EXCEPT ![k] = v]
    BY <1>3, <1>8, <2>1 DEF Pop, Params
  <2>3. v = Front(s)
    BY <1>5, <1>8, <2>1
  <2> QED
    BY <2>2, <2>3
<1>10. [p EXCEPT ![k] = params[k]] = params
  BY <1>6, <1>8 DEF Params
<1>11. Pop(Push(params, t, text), t) = params
  BY <1>5, <1>7, <1>9, <1>10
<1>12. \A c \in {"int", "str"} :
         p[c] = IF c = Container(t) THEN Append(params[c], text) ELSE params[c]
  BY <1>3, <1>4, <1>8
<1> QED
  BY <1>1, <1>7, <1>8, <1>11, <1>12

LEMMA NoParamsFacts ==
  /\ NoParams \in Params /\ DOMAIN NoParams = {"int", "str"}
  /\ \A c \in {"int", "str"} : NoParams[c] = << >>
  /\ \A t \in ParamType : Pop(NoParams, t) = NoParams
<1>1. /\ NoParams \in Params /\ DOMAIN NoParams = {"int", "str"}
      /\ \A c \in {"int", "str"} : NoParams[c] = << >>
  BY DEF NoParams, Params
<1>2. ASSUME NEW t \in ParamType PROVE Pop(NoParams, t) = NoParams
  <2>1. PICK k \in {"int", "str"} : k = Container(t)
    BY DEF Container, ParamType
  <2>2. Pop(NoParams, t) = [NoParams EXCEPT ![k] = NoParams[k]]
    BY <1>1, <2>1 DEF Pop
  <2> QED
    BY <1>1, <2>1, <2>2 DEF Params
<1> QED
  BY <1>1, <1>2

(* The parser has read q of url; where it is then, and what it has taken.  *)
Reads(q, url) == Parse(q, url).ok
PosOf(q, url) == Parse(q, url).pos
Own(q, url) == Parse(q, url).params

LEMMA ParseParam ==
  ASSUME NEW q \in Pattern, NEW t \in ParamType, NEW url
  PROVE  LET n == Extent(url, PosOf(q, url), t)
         IN  /\ Reads(q \o <<t>>, url) <=> Reads(q, url) /\ n > 0
             /\ PosOf(q \o <<t>>, url) = PosOf(q, url) + n
             /\ Own(q \o <<t>>, url) =
                  Push(Own(q, url), t,
                       SubSeq(url, PosOf(q, url), PosOf(q, url) + n - 1))
<1>1. PICK p : p = Parse(q, url)
  OBVIOUS
<1>2. PICK n : n = Extent(url, p.pos, t)
  OBVIOUS
<1>3. PICK x : x = Push(p.params, t, SubSeq(url, p.pos, p.pos + n - 1))
  OBVIOUS
<1>4. PICK b : b = (p.ok /\ n > 0)
  OBVIOUS
<1>5. Read(p, t, url) = [ok |-> b, pos |-> p.pos + n, params |-> x]
  BY <1>2, <1>3, <1>4 DEF Read
<1>6. PICK r : r = Parse(q \o <<t>>, url)
  OBVIOUS
<1>7. r = [ok |-> b, pos |-> p.pos + n, params |-> x]
  BY <1>1, <1>5, <1>6, ParseMore
<1>8. r.ok = b /\ r.pos = p.pos + n /\ r.params = x
  BY <1>7
<1>9. r.ok <=> p.ok /\ n > 0
  BY <1>4, <1>8
<1> QED
  BY <1>1, <1>2, <1>3, <1>6, <1>8, <1>9 DEF Reads, PosOf, Own

LEMMA ParseChar ==
  ASSUME NEW q \in Pattern, NEW ch \in Char, NEW url
  PROVE  /\ Reads(q \o <<ch>>, url) <=> /\ Reads(q, url) /\ PosOf(q, url) <= Len(url)
                                        /\ url[PosOf(q, url)] = ch
         /\ PosOf(q \o <<ch>>, url) = PosOf(q, url) + 1
         /\ Own(q \o <<ch>>, url) = Own(q, url)
<1>1. PICK p : p = Parse(q, url)
  OBVIOUS
<1>2. PICK b : b = (p.ok /\ p.pos <= Len(url) /\ url[p.pos] = ch)
  OBVIOUS
<1>3. ch \notin ParamType
  BY CharAssumption
<1>4. Read(p, ch, url) = [ok |-> b, pos |-> p.pos + 1, params |-> p.params]
  BY <1>2, <1>3 DEF Read
<1>5. PICK r : r = Parse(q \o <<ch>>, url)
  OBVIOUS
<1>6. r = [ok |-> b, pos |-> p.pos + 1, params |-> p.params]
  BY <1>1, <1>4, <1>5, ParseMore
<1>7. r.ok = b /\ r.pos = p.pos + 1 /\ r.params = p.params
  BY <1>6
<1>8. r.ok <=> p.ok /\ p.pos <= Len(url) /\ url[p.pos] = ch
  BY <1>2, <1>7
<1> QED
  BY <1>1, <1>5, <1>7, <1>8 DEF Reads, PosOf, Own

LEMMA ParseStart ==
  ASSUME NEW url
  PROVE  Reads(<< >>, url) /\ PosOf(<< >>, url) = 1 /\ Own(<< >>, url) = NoParams
BY ParseEmpty DEF Reads, PosOf, Own, Start

LEMMA ReadsLess ==
  ASSUME NEW q \in Pattern, NEW tok \in Char \cup ParamType, NEW url,
         Reads(q \o <<tok>>, url)
  PROVE  Reads(q, url)
<1>1. CASE tok \in Char
  BY <1>1, ParseChar
<1>2. CASE tok \in ParamType
  BY <1>2, ParseParam
<1> QED
  BY <1>1, <1>2

LEMMA ReadsBegins ==
  ASSUME NEW q \in Pattern, NEW p \in Pattern, NEW url, Begins(q, p), Reads(p, url)
  PROVE  Reads(q, url)
<1> DEFINE T == {n \in Nat : \E r \in Pattern : /\ Len(r) = n /\ Begins(q, r)
                                                /\ Reads(r, url)}
<1> SUFFICES ASSUME ~Reads(q, url) PROVE FALSE
  OBVIOUS
<1>1. T # {} /\ T \subseteq Nat
  <2>1. Len(p) \in Nat
    BY DEF Pattern
  <2> QED
    BY <2>1
<1>2. PICK m \in T : \A i \in T : m <= i
  BY <1>1, LeastNat
<1>3. PICK r \in Pattern : Len(r) = m /\ Begins(q, r) /\ Reads(r, url)
  BY <1>2
<1>4. Len(q) \in Nat /\ m \in Nat /\ Len(q) < m
  <2>1. Len(q) \in Nat /\ Len(q) <= m /\ m \in Nat
    BY <1>2, <1>3 DEF Pattern, Begins
  <2>2. Len(q) # m
    BY <1>3, BeginsSame
  <2> QED
    BY <2>1, <2>2
<1>5. r # << >>
  BY <1>3, <1>4
<1>6. PICK s \in Pattern, tok \in Char \cup ParamType :
        r = s \o <<tok>> /\ Len(s) = m - 1
  BY <1>3, <1>5, PatternEnd
<1>7. Reads(s, url)
  BY <1>3, <1>6, ReadsLess
<1>8. Begins(s, r)
  <2>1. <<tok>> \in Pattern
    BY One
  <2> QED
    BY <1>6, <2>1, BeginsConcat
<1>9. Begins(q, s)
  BY <1>3, <1>4, <1>6, <1>8, BeginsLinear
<1>10. m - 1 \in T
  BY <1>4, <1>6, <1>7, <1>9
<1> QED
  BY <1>2, <1>4, <1>10

LEMMA ParsedFacts ==
  ASSUME NEW q \in Pattern, NEW url \in Url, Reads(q, url)
  PROVE  PosOf(q, url) \in 1 .. Len(url) + 1 /\ Own(q, url) \in Params
<1>0. Len(url) \in Nat
  BY DEF Url
<1> DEFINE G(r) == PosOf(r, url) \in 1 .. Len(url) + 1 /\ Own(r, url) \in Params
           T == {n \in Nat : \E r \in Pattern : Len(r) = n /\ Reads(r, url) /\ ~G(r)}
<1> SUFFICES ASSUME ~G(q) PROVE FALSE
  OBVIOUS
<1>1. T # {} /\ T \subseteq Nat
  <2>1. Len(q) \in Nat
    BY DEF Pattern
  <2> HIDE DEF G
  <2> QED
    BY <2>1
<1>2. PICK m \in T : \A i \in T : m <= i
  BY <1>1, LeastNat
<1>3. PICK r \in Pattern : Len(r) = m /\ Reads(r, url) /\ ~G(r)
  BY <1>2
<1>4. G(<< >>)
  BY <1>0, ParseStart, NoParamsFacts
<1>5. r # << >> /\ m \in Nat
  BY <1>2, <1>3, <1>4
<1>6. PICK s \in Pattern, tok \in Char \cup ParamType :
        r = s \o <<tok>> /\ Len(s) = m - 1
  BY <1>3, <1>5, PatternEnd
<1>7. Reads(s, url)
  BY <1>3, <1>6, ReadsLess
<1>8. Len(s) \in Nat
  BY DEF Pattern
<1>9. G(s)
  <2> HIDE DEF G
  <2>1. m - 1 \in Nat /\ ~(m <= m - 1)
    BY <1>5, <1>6, <1>8
  <2>2. m - 1 \notin T
    BY <1>2, <2>1
  <2> QED
    BY <1>6, <1>7, <2>1, <2>2
<1>10. CASE tok \in Char
  <2>1. /\ PosOf(s, url) <= Len(url) /\ PosOf(r, url) = PosOf(s, url) + 1
        /\ Own(r, url) = Own(s, url)
    BY <1>3, <1>6, <1>10, ParseChar
  <2> QED
    BY <1>0, <1>3, <1>9, <2>1
<1>11. CASE tok \in ParamType
  <2>1. PICK n : n = Extent(url, PosOf(s, url), tok)
    OBVIOUS
  <2>2. PICK text : text = SubSeq(url, PosOf(s, url), PosOf(s, url) + n - 1)
    OBVIOUS
  <2>3. PosOf(r, url) = PosOf(s, url) + n /\ Own(r, url) = Push(Own(s, url), tok, text)
    BY <1>6, <1>11, <2>1, <2>2, ParseParam
  <2>4. n \in 0 .. Len(url) + 1 - PosOf(s, url)
    BY <1>9, <1>11, <2>1, ExtentFacts
  <2>5. text \in Url
    BY <1>9, <2>2, <2>4, TextFacts
  <2>6. Own(r, url) \in Params
    BY <1>9, <1>11, <2>3, <2>5, PushFacts
  <2>7. PosOf(r, url) \in 1 .. Len(url) + 1
    BY <1>0, <1>9, <2>3, <2>4
  <2> QED
    BY <1>3, <2>6, <2>7
<1> QED
  BY <1>10, <1>11

(* Fragments.                                                              *)
Matches(f, url, pos) ==
  pos + Len(f) - 1 <= Len(url) /\ \A x \in 1 .. Len(f) : url[pos + x - 1] = f[x]

LEMMA MatchesIs ==
  ASSUME NEW f \in Seq(Char), NEW url \in Url, NEW pos \in 1 .. Len(url) + 1
  PROVE  Matches(f, url, pos) <=>
           /\ pos + Len(f) - 1 <= Len(url)
           /\ f = SubSeq(url, pos, pos + Len(f) - 1)
<1>1. Len(f) \in Nat /\ Len(url) \in Nat
  BY DEF Url
<1> SUFFICES ASSUME pos + Len(f) - 1 <= Len(url)
             PROVE  (\A x \in 1 .. Len(f) : url[pos + x - 1] = f[x]) <=>
                      f = SubSeq(url, pos, pos + Len(f) - 1)
  BY DEF Matches
<1>2. PICK m : m = pos + Len(f) - 1
  OBVIOUS
<1>3. PICK s : s = SubSeq(url, pos, m)
  OBVIOUS
<1>4. m \in Int /\ pos \in Int /\ \A i \in pos .. m : url[i] \in Char
  BY <1>1, <1>2 DEF Url
<1>5. /\ s \in Seq(Char) /\ Len(s) = IF pos <= m THEN m - pos + 1 ELSE 0
      /\ \A i \in 1 .. m - pos + 1 : s[i] = url[pos + i - 1]
  BY <1>3, <1>4, SubSeqProperties
<1>6. m - pos + 1 = Len(f) /\ Len(s) = Len(f)
  BY <1>1, <1>2, <1>5
<1>7. \A i \in 1 .. Len(f) : s[i] = url[pos + i - 1]
  BY <1>5, <1>6
<1>8. ASSUME \A x \in 1 .. Len(f) : url[pos + x - 1] = f[x] PROVE f = s
  BY <1>5, <1>6, <1>7, <1>8, SeqEqual
<1> QED
  BY <1>2, <1>3, <1>7, <1>8

FragmentRead(q, f, url) ==
  /\ Reads(q \o f, url) <=> Matches(f, url, PosOf(q, url))
  /\ PosOf(q \o f, url) = PosOf(q, url) + Len(f)
  /\ Own(q \o f, url) = Own(q, url)

LEMMA CharsArePattern ==
  ASSUME NEW f \in Seq(Char)
  PROVE  f \in Pattern
<1>1. Char \subseteq Char \cup ParamType
  OBVIOUS
<1> QED
  BY <1>1, SeqMonotonic DEF Pattern

LEMMA ReadsFragment ==
  ASSUME NEW q \in Pattern, NEW url \in Url, Reads(q, url), NEW f \in Seq(Char)
  PROVE  FragmentRead(q, f, url)
<1> DEFINE T == {n \in Nat : \E g \in Seq(Char) : Len(g) = n /\ ~FragmentRead(q, g, url)}
<1> SUFFICES ASSUME ~FragmentRead(q, f, url) PROVE FALSE
  OBVIOUS
<1>0. Len(url) \in Nat /\ PosOf(q, url) \in 1 .. Len(url) + 1
  BY ParsedFacts DEF Url
<1>1. T # {} /\ T \subseteq Nat
  <2>1. Len(f) \in Nat
    OBVIOUS
  <2> QED
    BY <2>1
<1>2. PICK m \in T : \A i \in T : m <= i
  BY <1>1, LeastNat
<1>3. PICK g \in Seq(Char) : Len(g) = m /\ ~FragmentRead(q, g, url)
  BY <1>2
<1>4. FragmentRead(q, << >>, url)
  <2>1. q \o << >> = q
    BY ConcatEmpty
  <2>2. Len(<< >>) = 0
    OBVIOUS
  <2>3. PICK e : e = << >>
    OBVIOUS
  <2>4. q \o e = q /\ Len(e) = 0
    BY <2>1, <2>2, <2>3
  <2>5. Matches(e, url, PosOf(q, url))
    BY <1>0, <2>4 DEF Matches
  <2> QED
    BY <1>0, <2>3, <2>4, <2>5 DEF FragmentRead
<1>5. g # << >> /\ m \in Nat
  BY <1>2, <1>3, <1>4
<1>6. PICK h \in Seq(Char), ch \in Char : g = Append(h, ch)
  BY <1>5, SequenceEmptyOrAppend
<1>7. /\ g = h \o <<ch>> /\ Len(h) \in Nat /\ Len(h) = m - 1 /\ Len(g) = Len(h) + 1
      /\ g[Len(h) + 1] = ch /\ \A x \in 1 .. Len(h) : g[x] = h[x]
  BY <1>3, <1>6, AppendProperties, AppendIsConcat
<1>8. FragmentRead(q, h, url)
  <2>1. m - 1 \in Nat /\ ~(m <= m - 1)
    BY <1>5, <1>7
  <2>2. m - 1 \notin T
    BY <1>2, <2>1
  <2> QED
    BY <1>7, <2>1, <2>2
<1>9. PICK p : p = q \o h
  OBVIOUS
<1>10. p \in Pattern /\ p \o <<ch>> = q \o g
  <2>1. h \in Pattern /\ <<ch>> \in Pattern
    BY CharsArePattern, One
  <2>2. p \in Pattern
    BY <1>9, <2>1, Concat
  <2>3. (q \o h) \o <<ch>> = q \o (h \o <<ch>>)
    BY <2>1, ConcatAssoc
  <2> QED
    BY <1>7, <1>9, <2>2, <2>3
<1>11. /\ Reads(q \o g, url) <=> /\ Reads(p, url) /\ PosOf(p, url) <= Len(url)
                                 /\ url[PosOf(p, url)] = ch
       /\ PosOf(q \o g, url) = PosOf(p, url) + 1
       /\ Own(q \o g, url) = Own(p, url)
  <2>1. /\ Reads(p \o <<ch>>, url) <=> /\ Reads(p, url) /\ PosOf(p, url) <= Len(url)
                                       /\ url[PosOf(p, url)] = ch
        /\ PosOf(p \o <<ch>>, url) = PosOf(p, url) + 1
        /\ Own(p \o <<ch>>, url) = Own(p, url)
    BY <1>10, ParseChar
  <2> QED
    BY <1>10, <2>1
<1>12. PICK pos \in 1 .. Len(url) + 1 : pos = PosOf(q, url)
  BY <1>0
<1>13. /\ Reads(p, url) <=> Matches(h, url, pos)
       /\ PosOf(p, url) = pos + Len(h) /\ Own(p, url) = Own(q, url)
  BY <1>8, <1>9, <1>12 DEF FragmentRead
<1>14. Matches(g, url, pos) <=>
         /\ Matches(h, url, pos) /\ pos + Len(h) <= Len(url) /\ url[pos + Len(h)] = ch
  <2>1. pos + Len(g) - 1 = pos + Len(h) /\ Len(h) + 1 \in 1 .. Len(g)
        /\ pos + (Len(h) + 1) - 1 = pos + Len(h)
    <3>1. Len(h) \in Nat /\ Len(g) = Len(h) + 1 /\ pos \in Nat
      BY <1>0, <1>7
    <3> QED
      BY <3>1
  <2>2. ASSUME Matches(g, url, pos)
        PROVE  /\ Matches(h, url, pos) /\ pos + Len(h) <= Len(url)
               /\ url[pos + Len(h)] = ch
    <3>1. pos + Len(h) <= Len(url)
      BY <2>1, <2>2 DEF Matches
    <3>2. url[pos + Len(h)] = ch
      BY <1>7, <2>1, <2>2 DEF Matches
    <3>3. pos + Len(h) - 1 <= Len(url)
      BY <1>0, <1>7, <3>1
    <3>4. ASSUME NEW x \in 1 .. Len(h) PROVE url[pos + x - 1] = h[x]
      <4>1. x \in 1 .. Len(g)
        BY <1>7
      <4> QED
        BY <1>7, <2>2, <4>1 DEF Matches
    <3> QED
      BY <3>1, <3>2, <3>3, <3>4 DEF Matches
  <2>3. ASSUME Matches(h, url, pos), pos + Len(h) <= Len(url), url[pos + Len(h)] = ch
        PROVE  Matches(g, url, pos)
    <3>1. ASSUME NEW x \in 1 .. Len(g) PROVE url[pos + x - 1] = g[x]
      <4>1. CASE x = Len(h) + 1
        BY <1>7, <2>1, <2>3, <4>1
      <4>2. CASE x # Len(h) + 1
        <5>1. x \in 1 .. Len(h)
          BY <1>7, <4>2
        <5> QED
          BY <1>7, <2>3, <5>1 DEF Matches
      <4> QED
        BY <4>1, <4>2
    <3> QED
      BY <2>1, <2>3, <3>1 DEF Matches
  <2> QED
    BY <2>2, <2>3
<1>15. Reads(q \o g, url) <=> Matches(g, url, pos)
  BY <1>11, <1>13, <1>14
<1>16. PosOf(q \o g, url) = pos + Len(g)
  <2>1. Len(h) \in Nat /\ Len(g) = Len(h) + 1 /\ pos \in Nat
    BY <1>0, <1>7
  <2>2. PosOf(q \o g, url) = pos + Len(h) + 1
    BY <1>11, <1>13
  <2> QED
    BY <2>1, <2>2
<1>17. FragmentRead(q, g, url)
  BY <1>11, <1>12, <1>13, <1>15, <1>16 DEF FragmentRead
<1> QED
  BY <1>3, <1>17

(* At the end of the url nothing more can be read.                         *)
LEMMA ReadsEnd ==
  ASSUME NEW q \in Pattern, NEW p \in Pattern, NEW url \in Url,
         Reads(q, url), PosOf(q, url) = Len(url) + 1, Begins(q, p), Reads(p, url)
  PROVE  p = q
<1>1. Len(q) \in Nat /\ Len(p) \in Nat /\ Len(url) \in Nat
  BY DEF Pattern, Url
<1> SUFFICES ASSUME p # q PROVE FALSE
  OBVIOUS
<1>2. Len(q) # Len(p)
  BY <1>1, BeginsSame
<1>3. PICK tok : tok = p[Len(q) + 1]
  OBVIOUS
<1>4. tok \in Char \cup ParamType /\ Begins(q \o <<tok>>, p)
  BY <1>2, <1>3, BeginsMore
<1>5. q \o <<tok>> \in Pattern
  BY <1>4, ConcatOne
<1>6. Reads(q \o <<tok>>, url)
  BY <1>4, <1>5, ReadsBegins
<1>7. CASE tok \in Char
  <2>1. PosOf(q, url) <= Len(url)
    BY <1>6, <1>7, ParseChar
  <2> QED
    BY <1>1, <2>1
<1>8. CASE tok \in ParamType
  <2>1. Extent(url, PosOf(q, url), tok) > 0
    BY <1>6, <1>8, ParseParam
  <2>2. PosOf(q, url) \in 1 .. Len(url) + 1
    BY <1>1
  <2>3. Extent(url, PosOf(q, url), tok) \in 0 .. Len(url) + 1 - PosOf(q, url)
    BY <1>8, <2>2, ExtentFacts
  <2> QED
    BY <1>1, <2>1, <2>3
<1> QED
  BY <1>4, <1>7, <1>8

(* One value for every parameter.                                          *)
LEMMA NeedsEmpty ==
  ASSUME NEW c
  PROVE  Needs(<< >>, c) = 0
<1>1. {i \in DOMAIN << >> : << >>[i] \in ParamType /\ Container(<< >>[i]) = c} = {}
  OBVIOUS
<1> QED
  BY <1>1, FS_EmptySet DEF Needs

LEMMA NeedsMore ==
  ASSUME NEW q \in Pattern, NEW tok \in Char \cup ParamType, NEW c
  PROVE  /\ Needs(q, c) \in Nat
         /\ Needs(q \o <<tok>>, c) =
              IF tok \in ParamType /\ Container(tok) = c THEN Needs(q, c) + 1
              ELSE Needs(q, c)
<1>1. PICK p : p = q \o <<tok>>
  OBVIOUS
<1>2. /\ p \in Pattern /\ Len(q) \in Nat /\ Len(p) = Len(q) + 1
      /\ p[Len(q) + 1] = tok /\ \A x \in 1 .. Len(q) : p[x] = q[x]
  BY <1>1, ConcatOne
<1>3. DOMAIN q = 1 .. Len(q) /\ DOMAIN p = 1 .. Len(q) + 1
  BY <1>2 DEF Pattern
<1> DEFINE S(r) == {i \in DOMAIN r : r[i] \in ParamType /\ Container(r[i]) = c}
<1>4. IsFiniteSet(S(q)) /\ Cardinality(S(q)) \in Nat
  <2>1. IsFiniteSet(1 .. Len(q))
    BY <1>2, FS_Interval
  <2>2. S(q) \subseteq 1 .. Len(q)
    BY <1>3
  <2> HIDE DEF S
  <2> QED
    BY <2>1, <2>2, FS_Subset, FS_CardinalityType
<1>5. Needs(q, c) = Cardinality(S(q)) /\ Needs(p, c) = Cardinality(S(p))
  BY DEF Needs
<1>6. \A i \in 1 .. Len(q) + 1 : i \in 1 .. Len(q) \/ i = Len(q) + 1
  BY <1>2
<1>7. 1 .. Len(q) \subseteq 1 .. Len(q) + 1 /\ Len(q) + 1 \in 1 .. Len(q) + 1
      /\ Len(q) + 1 \notin 1 .. Len(q)
  BY <1>2
<1>8. CASE tok \in ParamType /\ Container(tok) = c
  <2>1. S(p) = S(q) \cup {Len(q) + 1}
    BY <1>2, <1>3, <1>6, <1>7, <1>8
  <2>2. Len(q) + 1 \notin S(q)
    BY <1>3, <1>7
  <2> HIDE DEF S
  <2>3. Cardinality(S(p)) = Cardinality(S(q)) + 1
    BY <1>4, <2>1, <2>2, FS_AddElement
  <2> QED
    BY <1>1, <1>4, <1>5, <1>8, <2>3
<1>9. CASE ~(tok \in ParamType /\ Container(tok) = c)
  <2>1. S(p) = S(q)
    BY <1>2, <1>3, <1>6, <1>7, <1>9
  <2> HIDE DEF S
  <2> QED
    BY <1>1, <1>4, <1>5, <1>9, <2>1
<1> QED
  BY <1>8, <1>9

LEMMA OwnValuesNeeded ==
  ASSUME NEW q \in Pattern, NEW url \in Url, Reads(q, url), NEW c \in {"int", "str"}
  PROVE  Len(Own(q, url)[c]) = Needs(q, c)
<1> DEFINE G(r) == Len(Own(r, url)[c]) = Needs(r, c)
           T == {n \in Nat : \E r \in Pattern : Len(r) = n /\ Reads(r, url) /\ ~G(r)}
<1> SUFFICES ASSUME ~G(q) PROVE FALSE
  OBVIOUS
<1>1. T # {} /\ T \subseteq Nat
  <2>1. Len(q) \in Nat
    BY DEF Pattern
  <2> HIDE DEF G
  <2> QED
    BY <2>1
<1>2. PICK m \in T : \A i \in T : m <= i
  BY <1>1, LeastNat
<1>3. PICK r \in Pattern : Len(r) = m /\ Reads(r, url) /\ ~G(r)
  BY <1>2
<1>4. G(<< >>)
  <2>1. Own(<< >>, url)[c] = << >>
    BY ParseStart, NoParamsFacts
  <2> QED
    BY <2>1, NeedsEmpty
<1>5. r # << >> /\ m \in Nat
  BY <1>2, <1>3, <1>4
<1>6. PICK s \in Pattern, tok \in Char \cup ParamType :
        r = s \o <<tok>> /\ Len(s) = m - 1
  BY <1>3, <1>5, PatternEnd
<1>7. Reads(s, url)
  BY <1>3, <1>6, ReadsLess
<1>8. Len(s) \in Nat
  BY DEF Pattern
<1>9. G(s)
  <2> HIDE DEF G
  <2>1. m - 1 \in Nat /\ ~(m <= m - 1)
    BY <1>5, <1>6, <1>8
  <2>2. m - 1 \notin T
    BY <1>2, <2>1
  <2> QED
    BY <1>6, <1>7, <2>1, <2>2
<1>10. /\ Needs(s, c) \in Nat
       /\ Needs(r, c) = IF tok \in ParamType /\ Container(tok) = c
                        THEN Needs(s, c) + 1 ELSE Needs(s, c)
  BY <1>6, NeedsMore
<1>11. PosOf(s, url) \in 1 .. Len(url) + 1 /\ Own(s, url) \in Params
  BY <1>7, ParsedFacts
<1>12. CASE tok \in Char
  <2>1. Own(r, url) = Own(s, url)
    BY <1>6, <1>12, ParseChar
  <2>2. tok \notin ParamType
    BY <1>12, CharAssumption
  <2> QED
    BY <1>3, <1>9, <1>10, <2>1, <2>2
<1>13. CASE tok \in ParamType
  <2>1. PICK n : n = Extent(url, PosOf(s, url), tok)
    OBVIOUS
  <2>2. PICK text : text = SubSeq(url, PosOf(s, url), PosOf(s, url) + n - 1)
    OBVIOUS
  <2>3. Own(r, url) = Push(Own(s, url), tok, text)
    BY <1>6, <1>13, <2>1, <2>2, ParseParam
  <2>4. n \in 0 .. Len(url) + 1 - PosOf(s, url)
    BY <1>11, <1>13, <2>1, ExtentFacts
  <2>5. text \in Url
    BY <1>11, <2>2, <2>4, TextFacts
  <2>6. Own(r, url)[c] = IF c = Container(tok) THEN Append(Own(s, url)[c], text)
                         ELSE Own(s, url)[c]
    BY <1>11, <1>13, <2>3, <2>5, PushFacts
  <2>7. PICK v : v = Own(s, url)[c]
    OBVIOUS
  <2>8. v \in Seq(Url) /\ Len(v) = Needs(s, c)
    BY <1>9, <1>11, <2>7 DEF Params, Url
  <2>9. Len(Append(v, text)) = Len(v) + 1
    BY <2>5, <2>8, AppendProperties
  <2> QED
    BY <1>3, <1>10, <1>13, <2>6, <2>7, <2>8, <2>9
<1> QED
  BY <1>12, <1>13

-----------------------------------------------------------------------------
(* Trie::find is a function: a call only calls itself further on in url.   *)

Res == [index : Nat, decoded : Params, left : Params]
None(a) == [index |-> 0, decoded |-> NoParams, left |-> a.params]

(* The four ways on from a node, in the order they are tried.              *)
Tried(find, ns, url, a, x1, x2, x3, x4) ==
  /\ x1 = Try(find, a, url, None(a), ByParam(ns[a.at], url, a.pos, "int"))
  /\ x2 = Try(find, a, url, x1, ByParam(ns[a.at], url, a.pos, "str"))
  /\ x3 = Try(find, a, url, x2, ByParam(ns[a.at], url, a.pos, "path"))
  /\ x4 = Try(find, a, url, x3, ByFragment(ns[a.at], url, a.pos))

LEMMA SearchIs ==
  ASSUME NEW find, NEW ns, NEW url, NEW a, ~(a.pos > Len(url)), NEW r
  PROVE  r = Search(find, ns, url, a) <=>
           \E x1, x2, x3 : Tried(find, ns, url, a, x1, x2, x3, r)
<1>1. PICK x1 : x1 = Try(find, a, url, None(a), ByParam(ns[a.at], url, a.pos, "int"))
  OBVIOUS
<1>2. PICK x2 : x2 = Try(find, a, url, x1, ByParam(ns[a.at], url, a.pos, "str"))
  OBVIOUS
<1>3. PICK x3 : x3 = Try(find, a, url, x2, ByParam(ns[a.at], url, a.pos, "path"))
  OBVIOUS
<1>4. PICK x4 : x4 = Try(find, a, url, x3, ByFragment(ns[a.at], url, a.pos))
  OBVIOUS
<1>5. Search(find, ns, url, a) = x4
  BY <1>1, <1>2, <1>3, <1>4 DEF Search, None
<1> QED
  BY <1>1, <1>2, <1>3, <1>4, <1>5 DEF Tried

LEMMA SearchAtEnd ==
  ASSUME NEW find, NEW ns, NEW url, NEW a, a.pos > Len(url)
  PROVE  Search(find, ns, url, a) =
           [index |-> ns[a.at].rule_index, decoded |-> a.params, left |-> NoParams]
BY DEF Search

(* A way on that find can take.                                            *)
Way(ns, url, a, b) ==
  b.len # 0 => /\ b.len \in 1 .. Len(url) + 1 - a.pos /\ b.node \in DOMAIN ns
               /\ b.type \in ParamType \cup {"none"}

LEMMA ArgsFacts ==
  ASSUME NEW ns, NEW sp, Good(ns, sp), NEW url \in Url, NEW a \in Args(ns, url)
  PROVE  /\ a.at \in 1 .. Len(ns) /\ DOMAIN ns = 1 .. Len(ns) /\ Len(ns) \in Nat
         /\ a.pos \in 1 .. Len(url) + 1 /\ a.params \in Params /\ Len(url) \in Nat
         /\ ns[a.at] \in Node
<1>1. ns \in Seq(Node) /\ DOMAIN ns = 1 .. Len(ns) /\ Len(ns) \in Nat
  BY DEF Good, Typed
<1>2. a.at \in DOMAIN ns /\ a.pos \in 1 .. Len(url) + 1 /\ a.params \in Params
  BY DEF Args
<1> QED
  BY <1>1, <1>2 DEF Url

LEMMA ParamWay ==
  ASSUME NEW ns, NEW sp, Good(ns, sp), NEW url \in Url, NEW a \in Args(ns, url),
         NEW t \in ParamType
  PROVE  Way(ns, url, a, ByParam(ns[a.at], url, a.pos, t))
<1>1. /\ a.at \in 1 .. Len(ns) /\ DOMAIN ns = 1 .. Len(ns) /\ Len(ns) \in Nat
      /\ a.pos \in 1 .. Len(url) + 1 /\ Len(url) \in Nat /\ ns[a.at] \in Node
  BY ArgsFacts
<1>2. PICK b : b = ByParam(ns[a.at], url, a.pos, t)
  OBVIOUS
<1>3. /\ b.node = ns[a.at].param[t] /\ b.type = t
      /\ b.len = IF ns[a.at].param[t] = 0 THEN 0 ELSE Extent(url, a.pos, t)
  BY <1>2 DEF ByParam
<1>4. Extent(url, a.pos, t) \in 0 .. Len(url) + 1 - a.pos
  BY <1>1, ExtentFacts
<1>5. ASSUME b.len # 0 PROVE b.node \in 1 .. Len(ns)
  <2>1. ns[a.at].param[t] # 0
    BY <1>3, <1>5
  <2>2. <<t>> \in Labels(ns[a.at]) /\ Target(ns[a.at], <<t>>) = ns[a.at].param[t]
    BY <1>1, <2>1, LabelFacts
  <2>3. Target(ns[a.at], <<t>>) \in a.at + 1 .. Len(ns)
    BY <1>1, <2>2 DEF Good, Edges
  <2>4. b.node \in a.at + 1 .. Len(ns)
    BY <1>3, <2>2, <2>3
  <2> QED
    BY <1>1, <2>4
<1>6. ASSUME b.len # 0 PROVE b.len \in 1 .. Len(url) + 1 - a.pos
  BY <1>1, <1>3, <1>4, <1>6
<1> QED
  BY <1>1, <1>2, <1>3, <1>5, <1>6 DEF Way

(* The fragment that is taken.                                             *)
TakesFragment(n, url, pos, b, f) ==
  /\ f \in DOMAIN n.children /\ f \in Labels(n) /\ f \in Fragment
  /\ b.node = n.children[f] /\ b.node = Target(n, f) /\ b.type = "none"
  /\ b.len = Len(f) /\ Len(f) \in Nat /\ Len(f) >= 1 /\ Matches(f, url, pos)

LEMMA FragmentTaken ==
  ASSUME NEW n \in Node, NEW url \in Url, NEW pos \in 1 .. Len(url) + 1
  PROVE  LET b == ByFragment(n, url, pos)
         IN  /\ b.len = 0 => \A f \in DOMAIN n.children : ~Matches(f, url, pos)
             /\ b.len # 0 => \E f : TakesFragment(n, url, pos, b, f)
<1>1. PICK b : b = ByFragment(n, url, pos)
  OBVIOUS
<1>2. /\ DOMAIN n.children \subseteq Fragment
      /\ \A f \in DOMAIN n.children :
           /\ f \in Labels(n) /\ Target(n, f) = n.children[f]
           /\ Len(f) \in Nat /\ Len(f) >= 1
  BY NodeFacts, LabelFacts
<1>3. \A f \in DOMAIN n.children : f \in FragmentsAt(n, url, pos) <=> Matches(f, url, pos)
  <2> SUFFICES ASSUME NEW f \in DOMAIN n.children
               PROVE  f \in FragmentsAt(n, url, pos) <=> Matches(f, url, pos)
    OBVIOUS
  <2>1. f \in Seq(Char)
    BY <1>2 DEF Fragment
  <2> QED
    BY <2>1, MatchesIs DEF FragmentsAt
<1>4. FragmentsAt(n, url, pos) \subseteq DOMAIN n.children
  BY DEF FragmentsAt
<1>5. CASE FragmentsAt(n, url, pos) = {}
  <2>1. b = [node |-> 0, type |-> "none", len |-> 0]
    BY <1>1, <1>5 DEF ByFragment
  <2>2. b.len = 0
    BY <2>1
  <2> QED
    BY <1>1, <1>3, <1>5, <2>2
<1>6. CASE FragmentsAt(n, url, pos) # {}
  <2>1. PICK f : f = CHOOSE g \in FragmentsAt(n, url, pos) : TRUE
    OBVIOUS
  <2>2. f \in FragmentsAt(n, url, pos)
    BY <1>6, <2>1
  <2>3. b = [node |-> n.children[f], type |-> "none", len |-> Len(f)]
    BY <1>1, <1>6, <2>1 DEF ByFragment
  <2>4. b.node = n.children[f] /\ b.type = "none" /\ b.len = Len(f)
    BY <2>3
  <2>5. f \in DOMAIN n.children /\ Matches(f, url, pos)
    BY <1>3, <1>4, <2>2
  <2>6. Len(f) \in Nat /\ Len(f) >= 1 /\ f \in Labels(n) /\ f \in Fragment
        /\ n.children[f] = Target(n, f)
    BY <1>2, <2>5
  <2>7. TakesFragment(n, url, pos, b, f)
    BY <2>4, <2>5, <2>6 DEF TakesFragment
  <2>8. b.len # 0
    BY <2>4, <2>6
  <2> QED
    BY <1>1, <2>7, <2>8
<1> QED
  BY <1>5, <1>6

LEMMA FragmentWay ==
  ASSUME NEW ns, NEW sp, Good(ns, sp), NEW url \in Url, NEW a \in Args(ns, url)
  PROVE  Way(ns, url, a, ByFragment(ns[a.at], url, a.pos))
<1>1. /\ a.at \in 1 .. Len(ns) /\ DOMAIN ns = 1 .. Len(ns) /\ Len(ns) \in Nat
      /\ a.pos \in 1 .. Len(url) + 1 /\ Len(url) \in Nat /\ ns[a.at] \in Node
  BY ArgsFacts
<1>2. PICK b : b = ByFragment(ns[a.at], url, a.pos)
  OBVIOUS
<1> SUFFICES ASSUME b.len # 0
             PROVE  /\ b.len \in 1 .. Len(url) + 1 - a.pos /\ b.node \in DOMAIN ns
                    /\ b.type \in ParamType \cup {"none"}
  BY <1>2 DEF Way
<1>3. PICK f : TakesFragment(ns[a.at], url, a.pos, b, f)
  BY <1>1, <1>2, FragmentTaken
<1>4. Target(ns[a.at], f) \in a.at + 1 .. Len(ns)
  BY <1>1, <1>3 DEF Good, Edges, TakesFragment
<1>5. b.node \in a.at + 1 .. Len(ns)
  BY <1>3, <1>4 DEF TakesFragment
<1>6. b.node \in DOMAIN ns
  BY <1>1, <1>5
<1>7. b.len \in Nat /\ b.len >= 1 /\ a.pos + b.len - 1 <= Len(url) /\ b.type = "none"
  BY <1>3 DEF TakesFragment, Matches
<1>8. b.len \in 1 .. Len(url) + 1 - a.pos
  BY <1>1, <1>7
<1> QED
  BY <1>6, <1>7, <1>8

LEMMA PopTyped ==
  ASSUME NEW params \in Params, NEW t \in ParamType
  PROVE  Pop(params, t) \in Params
<1>1. PICK k \in {"int", "str"} : k = Container(t)
  BY DEF Container, ParamType
<1>2. PICK s : s = params[k]
  OBVIOUS
<1>3. s \in Seq(Url)
  BY <1>2 DEF Params, Url
<1>4. PICK v : v = IF s = << >> THEN s ELSE Front(s)
  OBVIOUS
<1>5. v \in Seq(Url)
  <2>1. CASE s = << >>
    BY <1>3, <1>4, <2>1
  <2>2. CASE s # << >>
    <3>1. PICK r \in Seq(Url), e \in Url : s = Append(r, e)
      BY <1>3, <2>2, SequenceEmptyOrAppend
    <3> QED
      BY <1>4, <2>2, <3>1, FrontAppend
  <2> QED
    BY <2>1, <2>2
<1>6. Pop(params, t) = [params EXCEPT ![k] = v]
  BY <1>1, <1>2, <1>4 DEF Pop, Params
<1> QED
  BY <1>5, <1>6 DEF Params, Url

LEMMA EnterTyped ==
  ASSUME NEW ns, NEW sp, Good(ns, sp), NEW url \in Url, NEW a \in Args(ns, url),
         NEW b, Way(ns, url, a, b), b.len # 0, NEW left \in Params
  PROVE  /\ Enter(a, url, left, b) \in Args(ns, url)
         /\ Enter(a, url, left, b).pos > a.pos
         /\ Enter(a, url, left, b).pos = a.pos + b.len
         /\ Enter(a, url, left, b).at = b.node
         /\ b.len \in 1 .. Len(url) + 1 - a.pos
         /\ SubSeq(url, a.pos, a.pos + b.len - 1) \in Url
<1>1. a.pos \in 1 .. Len(url) + 1 /\ Len(url) \in Nat
  BY ArgsFacts
<1>2. /\ b.len \in 1 .. Len(url) + 1 - a.pos /\ b.node \in DOMAIN ns
      /\ b.type \in ParamType \cup {"none"}
  BY DEF Way
<1>3. PICK text : text = SubSeq(url, a.pos, a.pos + b.len - 1)
  OBVIOUS
<1>4. b.len \in 0 .. Len(url) + 1 - a.pos
  BY <1>1, <1>2
<1>5. text \in Url
  BY <1>1, <1>3, <1>4, TextFacts
<1>6. PICK p : p = IF b.type = "none" THEN left ELSE Push(left, b.type, text)
  OBVIOUS
<1>7. p \in Params
  <2>1. CASE b.type = "none"
    BY <1>6, <2>1
  <2>2. CASE b.type # "none"
    <3>1. b.type \in ParamType
      BY <1>2, <2>2
    <3> QED
      BY <1>5, <1>6, <2>2, <3>1, PushFacts
  <2> QED
    BY <2>1, <2>2
<1>8. Enter(a, url, left, b) = [at |-> b.node, pos |-> a.pos + b.len, params |-> p]
  BY <1>3, <1>6 DEF Enter
<1>9. a.pos + b.len \in 1 .. Len(url) + 1 /\ a.pos + b.len > a.pos
  BY <1>1, <1>2
<1>10. PICK e : e = Enter(a, url, left, b)
  OBVIOUS
<1>11. e = [at |-> b.node, pos |-> a.pos + b.len, params |-> p]
  BY <1>8, <1>10
<1>12. e \in Args(ns, url) /\ e.pos = a.pos + b.len /\ e.at = b.node
  BY <1>2, <1>7, <1>9, <1>11 DEF Args
<1> QED
  BY <1>2, <1>3, <1>5, <1>9, <1>10, <1>12

LEMMA LeaveTyped ==
  ASSUME NEW acc \in Res, NEW r \in Res, NEW b, b.type \in ParamType \cup {"none"}
  PROVE  Leave(acc, b, r) \in Res
<1>1. PICK left : left = IF b.type = "none" THEN r.left ELSE Pop(r.left, b.type)
  OBVIOUS
<1>2. left \in Params
  <2>1. CASE b.type = "none"
    BY <1>1, <2>1 DEF Res
  <2>2. CASE b.type # "none"
    <3>1. b.type \in ParamType /\ r.left \in Params
      BY <2>2 DEF Res
    <3> QED
      BY <1>1, <2>2, <3>1, PopTyped
  <2> QED
    BY <2>1, <2>2
<1>3. Leave(acc, b, r) = IF Better(acc.index, r.index) THEN [r EXCEPT !.left = left]
                         ELSE [acc EXCEPT !.left = left]
  BY <1>1 DEF Leave
<1>4. [r EXCEPT !.left = left] \in Res /\ [acc EXCEPT !.left = left] \in Res
  BY <1>2 DEF Res
<1> QED
  BY <1>3, <1>4

(* g is f for the calls from further on.                                   *)
Agree(f, g, ns, url, a) == \A e \in Args(ns, url) : e.pos > a.pos => f[e] = g[e]

LEMMA TryTyped ==
  ASSUME NEW ns, NEW sp, Good(ns, sp), NEW url \in Url, NEW a \in Args(ns, url),
         NEW f \in [Args(ns, url) -> Res], NEW g, Agree(f, g, ns, url, a),
         NEW acc \in Res, NEW b, Way(ns, url, a, b)
  PROVE  Try(f, a, url, acc, b) \in Res /\ Try(g, a, url, acc, b) = Try(f, a, url, acc, b)
<1>1. CASE b.len = 0
  BY <1>1 DEF Try
<1>2. CASE b.len # 0
  <2>1. acc.left \in Params
    BY DEF Res
  <2>2. PICK e : e = Enter(a, url, acc.left, b)
    OBVIOUS
  <2>3. e \in Args(ns, url) /\ e.pos > a.pos
    BY <1>2, <2>1, <2>2, EnterTyped
  <2>4. f[e] = g[e] /\ f[e] \in Res
    BY <2>3 DEF Agree
  <2>5. /\ Try(f, a, url, acc, b) = Leave(acc, b, f[e])
        /\ Try(g, a, url, acc, b) = Leave(acc, b, g[e])
    BY <1>2, <2>2 DEF Try
  <2>6. Leave(acc, b, f[e]) \in Res
    <3>1. b.type \in ParamType \cup {"none"}
      BY <1>2 DEF Way
    <3> QED
      BY <2>4, <3>1, LeaveTyped
  <2> QED
    BY <2>4, <2>5, <2>6
<1> QED
  BY <1>1, <1>2

LEMMA SearchTyped ==
  ASSUME NEW ns, NEW sp, Good(ns, sp), NEW url \in Url, NEW a \in Args(ns, url),
         NEW f \in [Args(ns, url) -> Res], NEW g, Agree(f, g, ns, url, a)
  PROVE  /\ Search(f, ns, url, a) \in Res
         /\ Search(g, ns, url, a) = Search(f, ns, url, a)
<1>1. /\ a.pos \in 1 .. Len(url) + 1 /\ Len(url) \in Nat /\ a.params \in Params
      /\ ns[a.at] \in Node
  BY ArgsFacts
<1>2. CASE a.pos > Len(url)
  <2>1. ns[a.at].rule_index \in Nat
    BY <1>1, NodeFacts
  <2>2. [index |-> ns[a.at].rule_index, decoded |-> a.params, left |-> NoParams] \in Res
    BY <1>1, <2>1, NoParamsFacts DEF Res
  <2> QED
    BY <1>2, <2>2, SearchAtEnd
<1>3. CASE ~(a.pos > Len(url))
  <2>1. PICK b1, b2, b3, b4 : /\ b1 = ByParam(ns[a.at], url, a.pos, "int")
                              /\ b2 = ByParam(ns[a.at], url, a.pos, "str")
                              /\ b3 = ByParam(ns[a.at], url, a.pos, "path")
                              /\ b4 = ByFragment(ns[a.at], url, a.pos)
    OBVIOUS
  <2>2. "int" \in ParamType /\ "str" \in ParamType /\ "path" \in ParamType
    BY DEF ParamType
  <2>3. Way(ns, url, a, b1) /\ Way(ns, url, a, b2) /\ Way(ns, url, a, b3)
    BY <2>1, <2>2, ParamWay
  <2>4. Way(ns, url, a, b4)
    BY <2>1, FragmentWay
  <2>5. None(a) \in Res
    BY <1>1, NoParamsFacts DEF None, Res
  <2>6. PICK x1 : x1 = Try(f, a, url, None(a), b1)
    OBVIOUS
  <2>7. PICK x2 : x2 = Try(f, a, url, x1, b2)
    OBVIOUS
  <2>8. PICK x3 : x3 = Try(f, a, url, x2, b3)
    OBVIOUS
  <2>9. PICK x4 : x4 = Try(f, a, url, x3, b4)
    OBVIOUS
  <2>10. x1 \in Res /\ x1 = Try(g, a, url, None(a), b1)
    BY <2>3, <2>5, <2>6, TryTyped
  <2>11. x2 \in Res /\ x2 = Try(g, a, url, x1, b2)
    BY <2>3, <2>7, <2>10, TryTyped
  <2>12. x3 \in Res /\ x3 = Try(g, a, url, x2, b3)
    BY <2>3, <2>8, <2>11, TryTyped
  <2>13. x4 \in Res /\ x4 = Try(g, a, url, x3, b4)
    BY <2>4, <2>9, <2>12, TryTyped
  <2>14. Tried(f, ns, url, a, x1, x2, x3, x4) /\ Tried(g, ns, url, a, x1, x2, x3, x4)
    BY <2>1, <2>6, <2>7, <2>8, <2>9, <2>10, <2>11, <2>12, <2>13 DEF Tried
  <2>15. x4 = Search(f, ns, url, a) /\ x4 = Search(g, ns, url, a)
    BY <1>3, <2>14, SearchIs
  <2> QED
    BY <2>13, <2>15
<1> QED
  BY <1>2, <1>3

(* f is what find computes for the last m positions.                       *)
Computes(f, ns, url, m) ==
  /\ f \in [Args(ns, url) -> Res]
  /\ \A a \in Args(ns, url) : Len(url) + 1 - a.pos < m => f[a] = Search(f, ns, url, a)

LEMMA FindComputed ==
  ASSUME NEW ns, NEW sp, Good(ns, sp), NEW url \in Url, NEW m \in Nat
  PROVE  \E f : Computes(f, ns, url, m)
<1> DEFINE T == {n \in Nat : ~ \E f : Computes(f, ns, url, n)}
<1> SUFFICES ASSUME T # {} PROVE FALSE
  OBVIOUS
<1>1. PICK n \in T : \A i \in T : n <= i
  BY LeastNat
<1>2. \A a \in Args(ns, url) : a.pos \in 1 .. Len(url) + 1 /\ a.params \in Params
                               /\ Len(url) \in Nat
  BY ArgsFacts
<1>3. CASE n = 0
  <2>1. PICK f : f = [a \in Args(ns, url) |-> None(a)]
    OBVIOUS
  <2>2. ASSUME NEW a \in Args(ns, url) PROVE None(a) \in Res
    BY <1>2, NoParamsFacts DEF None, Res
  <2>3. f \in [Args(ns, url) -> Res]
    BY <2>1, <2>2
  <2>4. ASSUME NEW a \in Args(ns, url) PROVE ~(Len(url) + 1 - a.pos < 0)
    BY <1>2
  <2>5. Computes(f, ns, url, 0)
    BY <2>3, <2>4 DEF Computes
  <2> QED
    BY <1>1, <1>3, <2>5
<1>4. CASE n # 0
  <2>1. n - 1 \in Nat /\ n - 1 \notin T /\ n \in Nat
    BY <1>1, <1>4
  <2>2. PICK f : Computes(f, ns, url, n - 1)
    BY <2>1
  <2>3. f \in [Args(ns, url) -> Res]
    BY <2>2 DEF Computes
  <2>4. PICK g : g = [a \in Args(ns, url) |-> Search(f, ns, url, a)]
    OBVIOUS
  <2>5. ASSUME NEW a \in Args(ns, url) PROVE Search(f, ns, url, a) \in Res
    <3>1. Agree(f, f, ns, url, a)
      BY DEF Agree
    <3> QED
      BY <2>3, <3>1, SearchTyped
  <2>6. /\ g \in [Args(ns, url) -> Res]
        /\ \A a \in Args(ns, url) : g[a] = Search(f, ns, url, a)
    BY <2>4, <2>5
  <2>7. ASSUME NEW a \in Args(ns, url), Len(url) + 1 - a.pos < n
        PROVE  g[a] = Search(g, ns, url, a)
    <3>1. ASSUME NEW e \in Args(ns, url), e.pos > a.pos PROVE f[e] = g[e]
      <4>1. Len(url) + 1 - e.pos < n - 1
        BY <1>2, <2>1, <2>7, <3>1
      <4> QED
        BY <2>2, <2>6, <4>1 DEF Computes
    <3>2. Agree(f, g, ns, url, a)
      BY <3>1 DEF Agree
    <3>3. Search(g, ns, url, a) = Search(f, ns, url, a)
      BY <2>3, <3>2, SearchTyped
    <3> QED
      BY <2>6, <3>3
  <2>8. Computes(g, ns, url, n)
    BY <2>6, <2>7 DEF Computes
  <2> QED
    BY <1>1, <2>8
<1> QED
  BY <1>3, <1>4

(* What find returns for every call.                                       *)
Finds(find, ns, url) ==
  /\ find \in [Args(ns, url) -> Res]
  /\ \A a \in Args(ns, url) : find[a] = Search(find, ns, url, a)

HeadCall == [at |-> 1, pos |-> 1, params |-> NoParams]

LEMMA FindRuns ==
  ASSUME NEW ns, NEW sp, Good(ns, sp), NEW url \in Url
  PROVE  \E find : Finds(find, ns, url) /\ Find(ns, url) = find[HeadCall]
<1> DEFINE R(f) == f = [a \in Args(ns, url) |-> Search(f, ns, url, a)]
           find == CHOOSE f : R(f)
<1>1. Len(url) \in Nat /\ Len(url) + 2 \in Nat
  BY DEF Url
<1>2. PICK f : Computes(f, ns, url, Len(url) + 2)
  BY <1>1, FindComputed
<1>3. f \in [Args(ns, url) -> Res]
  BY <1>2 DEF Computes
<1>4. \A a \in Args(ns, url) : a.pos \in 1 .. Len(url) + 1
  BY ArgsFacts
<1>5. \A a \in Args(ns, url) : f[a] = Search(f, ns, url, a)
  <2>1. \A a \in Args(ns, url) : Len(url) + 1 - a.pos < Len(url) + 2
    BY <1>1, <1>4
  <2> QED
    BY <1>2, <2>1 DEF Computes
<1>6. R(f)
  BY <1>3, <1>5
<1>7. R(find)
  BY <1>6
<1>8. Find(ns, url) = find[HeadCall]
  BY DEF Find, HeadCall
<1> HIDE DEF find
<1>9. \A a \in Args(ns, url) : find[a] = Search(find, ns, url, a)
  BY <1>7
<1>10. ASSUME NEW a \in Args(ns, url) PROVE find[a] = f[a]
  <2> DEFINE T == {n \in Nat : \E e \in Args(ns, url) :
                                 n = Len(url) + 1 - e.pos /\ find[e] # f[e]}
  <2> SUFFICES ASSUME T # {} PROVE FALSE
    <3>1. Len(url) + 1 - a.pos \in Nat
      BY <1>1, <1>4
    <3> QED
      BY <3>1
  <2>1. PICK n \in T : \A i \in T : n <= i
    BY LeastNat
  <2>2. PICK e \in Args(ns, url) : n = Len(url) + 1 - e.pos /\ find[e] # f[e]
    BY <2>1
  <2>3. ASSUME NEW d \in Args(ns, url), d.pos > e.pos PROVE f[d] = find[d]
    <3>0. d.pos \in 1 .. Len(url) + 1 /\ e.pos \in 1 .. Len(url) + 1
      BY <1>4
    <3>1. Len(url) + 1 - d.pos \in Nat /\ ~(n <= Len(url) + 1 - d.pos)
      BY <1>1, <2>2, <2>3, <3>0
    <3>2. Len(url) + 1 - d.pos \notin T
      BY <2>1, <3>1
    <3> QED
      BY <3>1, <3>2
  <2>4. Agree(f, find, ns, url, e)
    BY <2>3 DEF Agree
  <2>5. Search(find, ns, url, e) = Search(f, ns, url, e)
    BY <1>3, <2>4, SearchTyped
  <2> QED
    BY <1>5, <1>9, <2>2, <2>5
<1>11. find = f
  BY <1>3, <1>7, <1>10
<1> QED
  BY <1>3, <1>8, <1>9, <1>11 DEF Finds

-----------------------------------------------------------------------------
(* What a call of find answers.                                            *)

LEMMA FitsIs ==
  ASSUME NEW p, NEW url
  PROVE  Fits(p, url) <=> Reads(p, url) /\ PosOf(p, url) = Len(url) + 1
BY DEF Fits, Reads, PosOf

(* s is the end of t: what find has left of the values of a branch after   *)
(* those before them were moved away.                                      *)
Suffix(s, t) ==
  Len(s) <= Len(t) /\ \A x \in 1 .. Len(s) : s[x] = t[Len(t) - Len(s) + x]

EndsOf(params, own) == \A c \in {"int", "str"} : Suffix(params[c], own[c])

LEMMA SuffixAppend ==
  ASSUME NEW s \in Seq(Url), NEW t \in Seq(Url), NEW x \in Url, Suffix(s, t)
  PROVE  Suffix(Append(s, x), Append(t, x))
<1>1. PICK s2, t2 : s2 = Append(s, x) /\ t2 = Append(t, x)
  OBVIOUS
<1>2. /\ Len(s) \in Nat /\ Len(s2) = Len(s) + 1 /\ s2[Len(s) + 1] = x
      /\ \A i \in 1 .. Len(s) : s2[i] = s[i]
  BY <1>1, AppendProperties
<1>3. /\ Len(t) \in Nat /\ Len(t2) = Len(t) + 1 /\ t2[Len(t) + 1] = x
      /\ \A i \in 1 .. Len(t) : t2[i] = t[i]
  BY <1>1, AppendProperties
<1>4. Len(s) <= Len(t) /\ \A i \in 1 .. Len(s) : s[i] = t[Len(t) - Len(s) + i]
  BY DEF Suffix
<1>5. ASSUME NEW i \in 1 .. Len(s2) PROVE s2[i] = t2[Len(t2) - Len(s2) + i]
  <2>1. Len(t2) - Len(s2) + i = Len(t) - Len(s) + i
    BY <1>2, <1>3
  <2>2. CASE i = Len(s) + 1
    <3>1. Len(t) - Len(s) + i = Len(t) + 1
      BY <1>2, <1>3, <2>2
    <3> QED
      BY <1>2, <1>3, <2>1, <2>2, <3>1
  <2>3. CASE i # Len(s) + 1
    <3>1. i \in 1 .. Len(s) /\ Len(t) - Len(s) + i \in 1 .. Len(t)
      BY <1>2, <1>3, <1>4, <2>3
    <3> QED
      BY <1>2, <1>3, <1>4, <2>1, <3>1
  <2> QED
    BY <2>2, <2>3
<1>6. Len(s2) <= Len(t2)
  BY <1>2, <1>3, <1>4
<1> QED
  BY <1>1, <1>5, <1>6 DEF Suffix

LEMMA SuffixFull ==
  ASSUME NEW s \in Seq(Url), NEW t \in Seq(Url), Suffix(s, t), ~(Len(s) < Len(t))
  PROVE  s = t
<1>1. Len(s) \in Nat /\ Len(t) \in Nat
  OBVIOUS
<1>2. Len(s) = Len(t)
  BY <1>1 DEF Suffix
<1>3. ASSUME NEW x \in 1 .. Len(s) PROVE s[x] = t[x]
  <2>1. Len(t) - Len(s) + x = x
    BY <1>1, <1>2
  <2> QED
    BY <2>1 DEF Suffix
<1> QED
  BY <1>2, <1>3, SeqEqual

LEMMA EndsOfPush ==
  ASSUME NEW params \in Params, NEW own \in Params, NEW t \in ParamType,
         NEW text \in Url, EndsOf(params, own)
  PROVE  EndsOf(Push(params, t, text), Push(own, t, text))
<1> SUFFICES ASSUME NEW c \in {"int", "str"}
             PROVE  Suffix(Push(params, t, text)[c], Push(own, t, text)[c])
  BY DEF EndsOf
<1>1. Push(params, t, text)[c] =
        IF c = Container(t) THEN Append(params[c], text) ELSE params[c]
  BY PushFacts
<1>2. Push(own, t, text)[c] =
        IF c = Container(t) THEN Append(own[c], text) ELSE own[c]
  BY PushFacts
<1>3. params[c] \in Seq(Url) /\ own[c] \in Seq(Url) /\ Suffix(params[c], own[c])
  BY DEF Params, Url, EndsOf
<1>4. Suffix(Append(params[c], text), Append(own[c], text))
  BY <1>3, SuffixAppend
<1> QED
  BY <1>1, <1>2, <1>3, <1>4

LEMMA EndsOfNone ==
  ASSUME NEW own \in Params
  PROVE  EndsOf(NoParams, own)
<1> SUFFICES ASSUME NEW c \in {"int", "str"} PROVE Suffix(NoParams[c], own[c])
  BY DEF EndsOf
<1>1. PICK s, t : s = NoParams[c] /\ t = own[c]
  OBVIOUS
<1>2. Len(s) = 0 /\ Len(t) \in Nat
  BY <1>1, NoParamsFacts DEF Params
<1>3. Suffix(s, t)
  BY <1>2 DEF Suffix
<1> QED
  BY <1>1, <1>3

(* The rules among the nodes of K that fit url, and whose own values are   *)
(* decoded: all of them, unless some other node fits too.                  *)
Chosen(ns, sp, url, K, j, index) ==
  /\ j \in K /\ ns[j].rule_index = index /\ Fits(sp[j], url)
  /\ \A k \in K : ns[k].rule_index # 0 /\ Fits(sp[k], url) => index <= ns[k].rule_index

Decodes(sp, url, K, j, own, params, decoded) ==
  /\ EndsOf(params, own) => EndsOf(decoded, Own(sp[j], url))
  /\ params = own => \/ decoded = Own(sp[j], url)
                     \/ \E k \in K : k # j /\ Fits(sp[k], url)

Leaves(sp, url, K, params, left) ==
  left = params \/ (left = NoParams /\ \E k \in K : Fits(sp[k], url))

(* r answers for the nodes of K a call with params, where own would have   *)
(* been the values of the node it was made for.                            *)
Answer(ns, sp, url, K, own, params, r) ==
  /\ r.index = 0 => \A k \in K : ns[k].rule_index # 0 => ~Fits(sp[k], url)
  /\ r.index # 0 => \E j \in K : /\ Chosen(ns, sp, url, K, j, r.index)
                                 /\ Decodes(sp, url, K, j, own, params, r.decoded)
  /\ Leaves(sp, url, K, params, r.left)

LEMMA AnswerMore ==
  ASSUME NEW ns, NEW sp, NEW url, NEW K, NEW K2, K \subseteq K2,
         \A k \in K2 \ K : ns[k].rule_index # 0 => ~Fits(sp[k], url),
         NEW own, NEW params, NEW r, Answer(ns, sp, url, K, own, params, r)
  PROVE  Answer(ns, sp, url, K2, own, params, r)
<1>1. r.index = 0 => \A k \in K2 : ns[k].rule_index # 0 => ~Fits(sp[k], url)
  BY DEF Answer
<1>2. ASSUME r.index # 0
      PROVE  \E j \in K2 : /\ Chosen(ns, sp, url, K2, j, r.index)
                           /\ Decodes(sp, url, K2, j, own, params, r.decoded)
  <2>1. PICK j \in K : /\ Chosen(ns, sp, url, K, j, r.index)
                       /\ Decodes(sp, url, K, j, own, params, r.decoded)
    BY <1>2 DEF Answer
  <2>2. Chosen(ns, sp, url, K2, j, r.index)
    BY <2>1 DEF Chosen
  <2>3. Decodes(sp, url, K2, j, own, params, r.decoded)
    BY <2>1 DEF Decodes
  <2> QED
    BY <2>1, <2>2, <2>3
<1>3. Leaves(sp, url, K2, params, r.left)
  BY DEF Answer, Leaves
<1> QED
  BY <1>1, <1>2, <1>3 DEF Answer

(* A branch puts the text it took on top, and Trie::find takes it off.     *)
Onto(params, type, text) ==
  IF type = "none" THEN params ELSE Push(params, type, text)

LEMMA OntoFacts ==
  ASSUME NEW params \in Params, NEW type \in ParamType \cup {"none"}, NEW text \in Url
  PROVE  /\ Onto(params, type, text) \in Params
         /\ (IF type = "none" THEN Onto(params, type, text)
             ELSE Pop(Onto(params, type, text), type)) = params
         /\ (IF type = "none" THEN NoParams ELSE Pop(NoParams, type)) = NoParams
         /\ \A own \in Params : EndsOf(params, own) =>
              EndsOf(Onto(params, type, text), Onto(own, type, text))
<1>1. CASE type = "none"
  BY <1>1 DEF Onto
<1>2. CASE type # "none"
  <2>1. type \in ParamType
    BY <1>2
  <2>2. Onto(params, type, text) = Push(params, type, text)
        /\ \A own \in Params : Onto(own, type, text) = Push(own, type, text)
    BY <1>2 DEF Onto
  <2>3. Push(params, type, text) \in Params /\ Pop(Push(params, type, text), type) = params
    BY <2>1, PushFacts
  <2>4. Pop(NoParams, type) = NoParams
    BY <2>1, NoParamsFacts
  <2>5. ASSUME NEW own \in Params, EndsOf(params, own)
        PROVE  EndsOf(Push(params, type, text), Push(own, type, text))
    BY <2>1, <2>5, EndsOfPush
  <2> QED
    BY <1>2, <2>2, <2>3, <2>4, <2>5
<1> QED
  BY <1>1, <1>2

LEMMA LeaveAnswer ==
  ASSUME NEW ns, NEW sp, NEW url, NEW K, NEW K2, K \cap K2 = {},
         \A k \in K \cup K2 : ns[k].rule_index \in Nat,
         NEW own \in Params, NEW params \in Params, NEW b,
         b.type \in ParamType \cup {"none"}, NEW text \in Url,
         NEW acc \in Res, Answer(ns, sp, url, K, own, params, acc),
         NEW r \in Res,
         Answer(ns, sp, url, K2, Onto(own, b.type, text), Onto(acc.left, b.type, text), r)
  PROVE  Answer(ns, sp, url, K \cup K2, own, params, Leave(acc, b, r))
<1> DEFINE own2 == Onto(own, b.type, text)
           params2 == Onto(acc.left, b.type, text)
<1>0. PICK left : left = IF b.type = "none" THEN r.left ELSE Pop(r.left, b.type)
  OBVIOUS
<1>1. PICK x : x = Leave(acc, b, r)
  OBVIOUS
<1>2. x = IF Better(acc.index, r.index) THEN [r EXCEPT !.left = left]
          ELSE [acc EXCEPT !.left = left]
  BY <1>0, <1>1 DEF Leave
<1>3. /\ acc.index \in Nat /\ acc.left \in Params /\ r.index \in Nat
      /\ r.left \in Params
  BY DEF Res
<1>4. /\ Better(acc.index, r.index) => x.index = r.index /\ x.decoded = r.decoded
      /\ ~Better(acc.index, r.index) => x.index = acc.index /\ x.decoded = acc.decoded
      /\ x.left = left
  BY <1>2 DEF Res
<1>5. Leaves(sp, url, K, params, acc.left) /\ Leaves(sp, url, K2, params2, r.left)
  BY DEF Answer
<1>6. /\ params2 \in Params
      /\ (IF b.type = "none" THEN params2 ELSE Pop(params2, b.type)) = acc.left
      /\ (IF b.type = "none" THEN NoParams ELSE Pop(NoParams, b.type)) = NoParams
      /\ EndsOf(acc.left, own) => EndsOf(params2, own2)
  <2>1. PICK y, t : y = acc.left /\ t = b.type
    OBVIOUS
  <2>2. y \in Params /\ t \in ParamType \cup {"none"}
    BY <1>3, <2>1
  <2>3. /\ Onto(y, t, text) \in Params
        /\ (IF t = "none" THEN Onto(y, t, text) ELSE Pop(Onto(y, t, text), t)) = y
        /\ (IF t = "none" THEN NoParams ELSE Pop(NoParams, t)) = NoParams
        /\ EndsOf(y, own) => EndsOf(Onto(y, t, text), Onto(own, t, text))
    BY <2>2, OntoFacts
  <2>4. params2 = Onto(y, t, text) /\ own2 = Onto(own, t, text)
    BY <2>1
  <2> HIDE DEF own2, params2
  <2> QED
    BY <2>1, <2>3, <2>4
<1> HIDE DEF own2, params2
<1>7. Leaves(sp, url, K \cup K2, params, left)
  <2>1. CASE r.left = params2
    <3>1. left = acc.left
      BY <1>0, <1>6, <2>1
    <3> QED
      BY <1>5, <3>1 DEF Leaves
  <2>2. CASE r.left = NoParams /\ \E k \in K2 : Fits(sp[k], url)
    <3>1. left = NoParams
      BY <1>0, <1>6, <2>2
    <3> QED
      BY <2>2, <3>1 DEF Leaves
  <2> QED
    BY <1>5, <2>1, <2>2 DEF Leaves
<1>8. Answer(ns, sp, url, K2, own2, params2, r)
  BY DEF own2, params2
<1>9. CASE Better(acc.index, r.index)
  <2>1. r.index # 0 /\ (acc.index = 0 \/ acc.index > r.index)
    BY <1>9 DEF Better
  <2>2. PICK j \in K2 : /\ Chosen(ns, sp, url, K2, j, r.index)
                        /\ Decodes(sp, url, K2, j, own2, params2, r.decoded)
    BY <1>8, <2>1 DEF Answer
  <2>3. ASSUME NEW k \in K, ns[k].rule_index # 0, Fits(sp[k], url)
        PROVE  r.index <= ns[k].rule_index
    <3>1. acc.index # 0
      BY <2>3 DEF Answer
    <3>2. acc.index <= ns[k].rule_index
      BY <2>3, <3>1 DEF Answer, Chosen
    <3>3. ns[k].rule_index \in Nat
      OBVIOUS
    <3> QED
      BY <1>3, <2>1, <3>1, <3>2, <3>3
  <2>4. Chosen(ns, sp, url, K \cup K2, j, r.index)
    BY <2>2, <2>3 DEF Chosen
  <2>5. ASSUME EndsOf(params, own) PROVE EndsOf(r.decoded, Own(sp[j], url))
    <3>1. EndsOf(acc.left, own)
      BY <1>5, <2>5, EndsOfNone DEF Leaves
    <3> QED
      BY <1>6, <2>2, <3>1 DEF Decodes
  <2>6. ASSUME params = own
        PROVE  \/ r.decoded = Own(sp[j], url)
               \/ \E k \in K \cup K2 : k # j /\ Fits(sp[k], url)
    <3>1. CASE acc.left = params
      <4>1. params2 = own2
        BY <2>6, <3>1 DEF params2, own2
      <4> QED
        BY <2>2, <4>1 DEF Decodes
    <3>2. CASE \E k \in K : Fits(sp[k], url)
      <4>1. PICK k \in K : Fits(sp[k], url)
        BY <3>2
      <4>2. k # j
        BY <2>2
      <4> QED
        BY <4>1, <4>2
    <3> QED
      BY <1>5, <3>1, <3>2 DEF Leaves
  <2>7. Decodes(sp, url, K \cup K2, j, own, params, r.decoded)
    BY <2>5, <2>6 DEF Decodes
  <2>8. x.index = r.index /\ x.decoded = r.decoded /\ x.left = left /\ x.index # 0
    BY <1>4, <1>9, <2>1
  <2>9. Answer(ns, sp, url, K \cup K2, own, params, x)
    BY <1>7, <2>2, <2>4, <2>7, <2>8 DEF Answer
  <2> QED
    BY <1>1, <2>9
<1>10. CASE ~Better(acc.index, r.index)
  <2>1. r.index = 0 \/ (acc.index # 0 /\ acc.index <= r.index)
    BY <1>3, <1>10 DEF Better
  <2>2. x.index = acc.index /\ x.decoded = acc.decoded /\ x.left = left
    BY <1>4, <1>10
  <2>3. CASE acc.index = 0
    <3>1. r.index = 0
      BY <2>1, <2>3
    <3>2. \A k \in K \cup K2 : ns[k].rule_index # 0 => ~Fits(sp[k], url)
      BY <1>8, <2>3, <3>1 DEF Answer
    <3>3. Answer(ns, sp, url, K \cup K2, own, params, x)
      BY <1>7, <2>2, <2>3, <3>2 DEF Answer
    <3> QED
      BY <1>1, <3>3
  <2>4. CASE acc.index # 0
    <3>1. PICK j \in K : /\ Chosen(ns, sp, url, K, j, acc.index)
                         /\ Decodes(sp, url, K, j, own, params, acc.decoded)
      BY <2>4 DEF Answer
    <3>2. ASSUME NEW k \in K2, ns[k].rule_index # 0, Fits(sp[k], url)
          PROVE  acc.index <= ns[k].rule_index
      <4>1. r.index # 0
        BY <1>8, <3>2 DEF Answer
      <4>2. r.index <= ns[k].rule_index
        BY <1>8, <3>2, <4>1 DEF Answer, Chosen
      <4>3. ns[k].rule_index \in Nat
        OBVIOUS
      <4> QED
        BY <1>3, <2>1, <4>1, <4>2, <4>3
    <3>3. Chosen(ns, sp, url, K \cup K2, j, acc.index)
      BY <3>1, <3>2 DEF Chosen
    <3>4. Decodes(sp, url, K \cup K2, j, own, params, acc.decoded)
      BY <3>1 DEF Decodes
    <3>5. Answer(ns, sp, url, K \cup K2, own, params, x)
      BY <1>7, <2>2, <2>4, <3>1, <3>3, <3>4 DEF Answer
    <3> QED
      BY <1>1, <3>5
  <2> QED
    BY <2>3, <2>4
<1> QED
  BY <1>9, <1>10

(* The nodes at and below i, and those behind the edges D of i.            *)
Subtree(ns, sp, i) == {k \in 1 .. Len(ns) : Begins(sp[i], sp[k])}
Under(ns, sp, i, D) == {k \in 1 .. Len(ns) : \E f \in D : Begins(sp[i] \o f, sp[k])}

Reached(sp, url, a) == Reads(sp[a.at], url) /\ PosOf(sp[a.at], url) = a.pos

Answered(find, ns, sp, url, e) ==
  Answer(ns, sp, url, Subtree(ns, sp, e.at), Own(sp[e.at], url), e.params, find[e])

(* b is the way on for the edges D: no node behind another one fits.       *)
Serves(ns, sp, url, a, b, D) ==
  /\ b.len = 0 => \A k \in Under(ns, sp, a.at, D) : ~Fits(sp[k], url)
  /\ b.len # 0 =>
       /\ Subtree(ns, sp, b.node) \subseteq Under(ns, sp, a.at, D)
       /\ \A k \in Under(ns, sp, a.at, D) \ Subtree(ns, sp, b.node) : ~Fits(sp[k], url)
       /\ Reads(sp[b.node], url) /\ PosOf(sp[b.node], url) = a.pos + b.len
       /\ Own(sp[b.node], url) =
            Onto(Own(sp[a.at], url), b.type, SubSeq(url, a.pos, a.pos + b.len - 1))

LEMMA TryAnswer ==
  ASSUME NEW ns, NEW sp, Good(ns, sp), NEW url \in Url, NEW a \in Args(ns, url),
         Reached(sp, url, a), NEW find \in [Args(ns, url) -> Res],
         \A e \in Args(ns, url) : e.pos > a.pos /\ Reached(sp, url, e) =>
                                    Answered(find, ns, sp, url, e),
         NEW K \in SUBSET (1 .. Len(ns)), NEW D, K \cap Under(ns, sp, a.at, D) = {},
         NEW b, Way(ns, url, a, b), Serves(ns, sp, url, a, b, D), NEW acc \in Res,
         Answer(ns, sp, url, K, Own(sp[a.at], url), a.params, acc)
  PROVE  /\ Try(find, a, url, acc, b) \in Res
         /\ Answer(ns, sp, url, K \cup Under(ns, sp, a.at, D), Own(sp[a.at], url),
                   a.params, Try(find, a, url, acc, b))
<1>1. PICK U : U = Under(ns, sp, a.at, D)
  OBVIOUS
<1>2. PICK x : x = Try(find, a, url, acc, b)
  OBVIOUS
<1>3. x \in Res
  <2>1. Agree(find, find, ns, url, a)
    BY DEF Agree
  <2> QED
    BY <1>2, <2>1, TryTyped
<1>4. /\ a.at \in 1 .. Len(ns) /\ a.params \in Params
      /\ \A k \in 1 .. Len(ns) : sp[k] \in Pattern /\ ns[k].rule_index \in Nat
  <2>1. a.at \in 1 .. Len(ns) /\ a.params \in Params
    BY ArgsFacts
  <2>2. \A k \in 1 .. Len(ns) : sp[k] \in Pattern /\ ns[k] \in Node
    BY DEF Good, Typed
  <2> QED
    BY <2>1, <2>2, NodeFacts
<1>5. PICK own : own = Own(sp[a.at], url)
  OBVIOUS
<1>6. own \in Params
  BY <1>4, <1>5, ParsedFacts DEF Reached
<1>7. CASE b.len = 0
  <2>1. x = acc
    BY <1>2, <1>7 DEF Try
  <2>2. \A k \in U : ~Fits(sp[k], url)
    BY <1>1, <1>7 DEF Serves
  <2>3. Answer(ns, sp, url, K \cup U, own, a.params, acc)
    <3>1. PICK K2 : K2 = K \cup U
      OBVIOUS
    <3>2. K \subseteq K2 /\ \A k \in K2 \ K : ~Fits(sp[k], url)
      BY <2>2, <3>1
    <3>3. Answer(ns, sp, url, K2, own, a.params, acc)
      BY <1>5, <3>2, AnswerMore
    <3> QED
      BY <3>1, <3>3
  <2> QED
    BY <1>1, <1>2, <1>3, <1>5, <2>1, <2>3
<1>8. CASE b.len # 0
  <2>1. PICK S : S = Subtree(ns, sp, b.node)
    OBVIOUS
  <2>2. PICK text : text = SubSeq(url, a.pos, a.pos + b.len - 1)
    OBVIOUS
  <2>3. /\ S \subseteq U /\ \A k \in U \ S : ~Fits(sp[k], url)
        /\ Reads(sp[b.node], url) /\ PosOf(sp[b.node], url) = a.pos + b.len
        /\ Own(sp[b.node], url) = Onto(own, b.type, text)
    BY <1>1, <1>5, <1>8, <2>1, <2>2 DEF Serves
  <2>4. acc.left \in Params
    BY DEF Res
  <2>5. PICK e : e = Enter(a, url, acc.left, b)
    OBVIOUS
  <2>6. /\ e \in Args(ns, url) /\ e.pos > a.pos /\ e.pos = a.pos + b.len
        /\ e.at = b.node /\ text \in Url
    BY <1>8, <2>2, <2>4, <2>5, EnterTyped
  <2>7. e.params = Onto(acc.left, b.type, text)
    BY <2>2, <2>5 DEF Enter, Onto
  <2>8. Reached(sp, url, e)
    BY <2>3, <2>6 DEF Reached
  <2>9. Answered(find, ns, sp, url, e)
    BY <2>6, <2>8
  <2>10. PICK r : r = find[e]
    OBVIOUS
  <2>11. r \in Res /\ Answer(ns, sp, url, S, Onto(own, b.type, text),
                             Onto(acc.left, b.type, text), r)
    BY <2>1, <2>3, <2>6, <2>7, <2>9, <2>10 DEF Answered
  <2>12. x = Leave(acc, b, r)
    BY <1>2, <1>8, <2>5, <2>10 DEF Try
  <2>13. b.type \in ParamType \cup {"none"}
    BY <1>8 DEF Way
  <2>14. K \cap S = {} /\ \A k \in K \cup S : ns[k].rule_index \in Nat
    BY <1>1, <1>4, <2>1, <2>3 DEF Subtree
  <2>15. Answer(ns, sp, url, K \cup S, own, a.params, x)
    BY <1>4, <1>5, <1>6, <2>6, <2>11, <2>12, <2>13, <2>14, LeaveAnswer
  <2>16. Answer(ns, sp, url, K \cup U, own, a.params, x)
    <3>1. PICK K1, K2 : K1 = K \cup S /\ K2 = K \cup U
      OBVIOUS
    <3>2. K1 \subseteq K2 /\ \A k \in K2 \ K1 : ~Fits(sp[k], url)
      BY <2>3, <3>1
    <3>3. Answer(ns, sp, url, K2, own, a.params, x)
      BY <2>15, <3>1, <3>2, AnswerMore
    <3> QED
      BY <3>1, <3>3
  <2> QED
    BY <1>1, <1>2, <1>3, <1>5, <2>16
<1> QED
  BY <1>7, <1>8

LEMMA ParamServes ==
  ASSUME NEW ns, NEW sp, Good(ns, sp), NEW url \in Url, NEW a \in Args(ns, url),
         Reached(sp, url, a), NEW t \in ParamType
  PROVE  Serves(ns, sp, url, a, ByParam(ns[a.at], url, a.pos, t),
                Labels(ns[a.at]) \cap {<<t>>})
<1>1. /\ a.at \in 1 .. Len(ns) /\ Len(ns) \in Nat /\ a.pos \in 1 .. Len(url) + 1
      /\ Len(url) \in Nat /\ ns[a.at] \in Node
      /\ \A k \in 1 .. Len(ns) : sp[k] \in Pattern
  BY ArgsFacts DEF Good, Typed
<1>2. PICK n, D : n = ns[a.at] /\ D = Labels(n) \cap {<<t>>}
  OBVIOUS
<1>3. PICK b : b = ByParam(n, url, a.pos, t)
  OBVIOUS
<1>4. /\ b.node = n.param[t] /\ b.type = t
      /\ b.len = IF n.param[t] = 0 THEN 0 ELSE Extent(url, a.pos, t)
  BY <1>3 DEF ByParam
<1>5. <<t>> \in Labels(n) <=> n.param[t] # 0
  BY <1>1, <1>2, LabelFacts
<1>6. CASE n.param[t] = 0
  <2>1. D = {} /\ b.len = 0
    BY <1>2, <1>4, <1>5, <1>6
  <2>2. Under(ns, sp, a.at, D) = {}
    BY <2>1 DEF Under
  <2> QED
    BY <1>2, <1>3, <2>1, <2>2 DEF Serves
<1>7. CASE n.param[t] # 0
  <2>1. PICK k : k = b.node
    OBVIOUS
  <2>2. <<t>> \in Labels(n) /\ Target(n, <<t>>) = k
    BY <1>1, <1>2, <1>4, <1>5, <1>7, <2>1, LabelFacts
  <2>3. k \in a.at + 1 .. Len(ns) /\ sp[k] = sp[a.at] \o <<t>>
    BY <1>1, <1>2, <2>2 DEF Good, Edges
  <2>4. k \in 1 .. Len(ns)
    BY <1>1, <2>3
  <2>5. D = {<<t>>}
    BY <1>2, <2>2
  <2>6. Under(ns, sp, a.at, D) = Subtree(ns, sp, k)
    <3>1. PICK f : f = <<t>>
      OBVIOUS
    <3>2. D = {f} /\ sp[k] = sp[a.at] \o f
      BY <2>3, <2>5, <3>1
    <3> QED
      BY <3>2 DEF Under, Subtree
  <2>7. b.len = Extent(url, a.pos, t)
    BY <1>4, <1>7
  <2>8. PosOf(sp[a.at], url) = a.pos /\ Reads(sp[a.at], url)
    BY DEF Reached
  <2>9. /\ Reads(sp[k], url) <=> b.len > 0
        /\ PosOf(sp[k], url) = a.pos + b.len
        /\ Own(sp[k], url) =
             Push(Own(sp[a.at], url), t, SubSeq(url, a.pos, a.pos + b.len - 1))
    <3>1. sp[a.at] \in Pattern
      BY <1>1
    <3>2. PICK q : q = sp[a.at]
      OBVIOUS
    <3>3. /\ Reads(q \o <<t>>, url) <=> Reads(q, url) /\ b.len > 0
          /\ PosOf(q \o <<t>>, url) = a.pos + b.len
          /\ Own(q \o <<t>>, url) =
               Push(Own(q, url), t, SubSeq(url, a.pos, a.pos + b.len - 1))
      <4>1. q \in Pattern /\ PosOf(q, url) = a.pos /\ b.len = Extent(url, PosOf(q, url), t)
        BY <2>7, <2>8, <3>1, <3>2
      <4> QED
        BY <4>1, ParseParam
    <3> QED
      BY <2>3, <2>8, <3>2, <3>3
  <2>10. b.len \in Nat
    <3>1. Extent(url, a.pos, t) \in 0 .. Len(url) + 1 - a.pos
      BY <1>1, ExtentFacts
    <3> QED
      BY <1>1, <2>7, <3>1
  <2>11. CASE b.len = 0
    <3>1. ASSUME NEW l \in Subtree(ns, sp, k) PROVE ~Fits(sp[l], url)
      <4>1. l \in 1 .. Len(ns) /\ Begins(sp[k], sp[l])
        BY DEF Subtree
      <4>2. ~Reads(sp[k], url)
        BY <2>9, <2>11
      <4> QED
        BY <1>1, <2>4, <4>1, <4>2, ReadsBegins, FitsIs
    <3>2. Serves(ns, sp, url, a, b, D)
      BY <2>6, <2>11, <3>1 DEF Serves
    <3> QED
      BY <1>2, <1>3, <3>2
  <2>12. CASE b.len # 0
    <3>1. b.len > 0
      BY <2>10, <2>12
    <3>2. b.type # "none"
      BY <1>4 DEF ParamType
    <3>3. Own(sp[k], url) =
            Onto(Own(sp[a.at], url), b.type, SubSeq(url, a.pos, a.pos + b.len - 1))
      BY <1>4, <2>9, <3>2 DEF Onto
    <3>4. Serves(ns, sp, url, a, b, D)
      BY <2>1, <2>6, <2>9, <2>12, <3>1, <3>3 DEF Serves
    <3> QED
      BY <1>2, <1>3, <3>4
  <2> QED
    BY <2>11, <2>12
<1> QED
  BY <1>6, <1>7

LEMMA MatchesLinear ==
  ASSUME NEW f, NEW g, NEW url, NEW pos, Len(f) \in Nat, Len(g) \in Nat,
         Matches(f, url, pos), Matches(g, url, pos)
  PROVE  Begins(f, g) \/ Begins(g, f)
<1>1. CASE Len(f) <= Len(g)
  <2>1. \A x \in 1 .. Len(f) : x \in 1 .. Len(g)
    BY <1>1
  <2> QED
    BY <1>1, <2>1 DEF Matches, Begins
<1>2. CASE Len(g) <= Len(f)
  <2>1. \A x \in 1 .. Len(g) : x \in 1 .. Len(f)
    BY <1>2
  <2> QED
    BY <1>2, <2>1 DEF Matches, Begins
<1> QED
  BY <1>1, <1>2

LEMMA FragmentServes ==
  ASSUME NEW ns, NEW sp, Good(ns, sp), NEW url \in Url, NEW a \in Args(ns, url),
         Reached(sp, url, a)
  PROVE  Serves(ns, sp, url, a, ByFragment(ns[a.at], url, a.pos),
                DOMAIN ns[a.at].children)
<1>1. /\ a.at \in 1 .. Len(ns) /\ Len(ns) \in Nat /\ a.pos \in 1 .. Len(url) + 1
      /\ Len(url) \in Nat /\ ns[a.at] \in Node
      /\ \A k \in 1 .. Len(ns) : sp[k] \in Pattern
  BY ArgsFacts DEF Good, Typed
<1>2. PICK n, D : n = ns[a.at] /\ D = DOMAIN n.children
  OBVIOUS
<1>3. PICK b : b = ByFragment(n, url, a.pos)
  OBVIOUS
<1>4. PICK q : q = sp[a.at]
  OBVIOUS
<1>5. q \in Pattern /\ Reads(q, url) /\ PosOf(q, url) = a.pos
  BY <1>1, <1>4 DEF Reached
<1>6. ASSUME NEW f \in D
      PROVE  /\ f \in Seq(Char) /\ f \in Pattern /\ f \in Labels(n) /\ Len(f) \in Nat
             /\ Reads(q \o f, url) <=> Matches(f, url, a.pos)
             /\ PosOf(q \o f, url) = a.pos + Len(f)
             /\ Own(q \o f, url) = Own(q, url)
  <2>1. f \in Seq(Char) /\ f \in Labels(n)
    BY <1>1, <1>2, NodeFacts, LabelFacts DEF Fragment
  <2>2. f \in Pattern /\ Len(f) \in Nat
    BY <2>1, CharsArePattern
  <2>3. FragmentRead(q, f, url)
    BY <1>5, <2>1, ReadsFragment
  <2> QED
    BY <1>5, <2>1, <2>2, <2>3 DEF FragmentRead
<1>7. ASSUME NEW f \in D, NEW k \in 1 .. Len(ns), Begins(q \o f, sp[k]), Fits(sp[k], url)
      PROVE  Matches(f, url, a.pos)
  <2>1. f \in Pattern /\ sp[k] \in Pattern /\ Reads(sp[k], url)
    BY <1>1, <1>6, <1>7, FitsIs
  <2>2. q \o f \in Pattern
    BY <1>5, <2>1, Concat
  <2>3. Reads(q \o f, url)
    BY <1>7, <2>1, <2>2, ReadsBegins
  <2> QED
    BY <1>6, <2>3
<1>8. \A k \in Under(ns, sp, a.at, D) :
        k \in 1 .. Len(ns) /\ \E f \in D : Begins(q \o f, sp[k])
  BY <1>4 DEF Under
<1>9. CASE b.len = 0
  <2>1. \A f \in D : ~Matches(f, url, a.pos)
    BY <1>1, <1>2, <1>3, <1>9, FragmentTaken
  <2>2. \A k \in Under(ns, sp, a.at, D) : ~Fits(sp[k], url)
    BY <1>7, <1>8, <2>1
  <2>3. Serves(ns, sp, url, a, b, D)
    BY <1>9, <2>2 DEF Serves
  <2> QED
    BY <1>2, <1>3, <2>3
<1>10. CASE b.len # 0
  <2>1. PICK f : TakesFragment(n, url, a.pos, b, f)
    BY <1>1, <1>2, <1>3, <1>10, FragmentTaken
  <2>2. /\ f \in D /\ f \in Labels(n) /\ b.node = Target(n, f) /\ b.type = "none"
        /\ b.len = Len(f) /\ Matches(f, url, a.pos)
    BY <1>2, <2>1 DEF TakesFragment
  <2>3. b.node \in a.at + 1 .. Len(ns) /\ sp[b.node] = q \o f
    BY <1>1, <1>2, <1>4, <2>2 DEF Good, Edges
  <2>4. /\ Reads(sp[b.node], url) /\ PosOf(sp[b.node], url) = a.pos + b.len
        /\ Own(sp[b.node], url) = Own(q, url)
    BY <1>6, <2>2, <2>3
  <2>5. Own(sp[b.node], url) =
          Onto(Own(q, url), b.type, SubSeq(url, a.pos, a.pos + b.len - 1))
    BY <2>2, <2>4 DEF Onto
  <2>6. Subtree(ns, sp, b.node) \subseteq Under(ns, sp, a.at, D)
    BY <1>4, <2>2, <2>3 DEF Subtree, Under
  <2>7. ASSUME NEW k \in Under(ns, sp, a.at, D) \ Subtree(ns, sp, b.node),
               Fits(sp[k], url)
        PROVE  FALSE
    <3>1. PICK g \in D : Begins(q \o g, sp[k]) /\ k \in 1 .. Len(ns)
      BY <1>8
    <3>2. Matches(g, url, a.pos)
      BY <1>7, <2>7, <3>1
    <3>3. Begins(f, g) \/ Begins(g, f)
      BY <1>6, <2>2, <3>2, MatchesLinear
    <3>4. f = g
      BY <1>1, <1>2, <1>6, <2>2, <3>3 DEF Good, PrefixFree
    <3> QED
      BY <2>3, <3>1, <3>4 DEF Subtree
  <2>8. Serves(ns, sp, url, a, b, D)
    BY <1>4, <1>10, <2>4, <2>5, <2>6, <2>7 DEF Serves
  <2> QED
    BY <1>2, <1>3, <2>8
<1> QED
  BY <1>9, <1>10

LEMMA UnderApart ==
  ASSUME NEW ns, NEW sp, Good(ns, sp), NEW i \in 1 .. Len(ns),
         NEW D1 \in SUBSET Labels(ns[i]), NEW D2 \in SUBSET Labels(ns[i]),
         D1 \cap D2 = {}
  PROVE  /\ Under(ns, sp, i, D1) \cap Under(ns, sp, i, D2) = {}
         /\ Under(ns, sp, i, D1 \cup D2) = Under(ns, sp, i, D1) \cup Under(ns, sp, i, D2)
<1>1. ns[i] \in Node /\ \A k \in 1 .. Len(ns) : sp[k] \in Pattern
  BY DEF Good, Typed
<1>2. ASSUME NEW k \in Under(ns, sp, i, D1), k \in Under(ns, sp, i, D2) PROVE FALSE
  <2>1. k \in 1 .. Len(ns)
    BY DEF Under
  <2>2. PICK f \in D1 : Begins(sp[i] \o f, sp[k])
    BY DEF Under
  <2>3. PICK g \in D2 : Begins(sp[i] \o g, sp[k])
    BY <1>2 DEF Under
  <2>4. f \in Pattern /\ g \in Pattern
    BY <1>1, LabelFacts
  <2>5. PICK p1, p2 : p1 = sp[i] \o f /\ p2 = sp[i] \o g
    OBVIOUS
  <2>6. p1 \in Pattern /\ p2 \in Pattern
    BY <1>1, <2>4, <2>5, Concat
  <2>7. Len(p1) \in Nat /\ Len(p2) \in Nat
    BY <2>6 DEF Pattern
  <2>8. Len(p1) <= Len(p2) \/ Len(p2) <= Len(p1)
    BY <2>7
  <2>9. Begins(p1, p2) \/ Begins(p2, p1)
    BY <1>1, <2>1, <2>2, <2>3, <2>5, <2>6, <2>8, BeginsLinear
  <2>10. Begins(f, g) \/ Begins(g, f)
    BY <1>1, <2>4, <2>5, <2>9, BeginsCancel
  <2>11. f = g
    BY <2>10 DEF Good, PrefixFree
  <2> QED
    BY <2>11
<1>3. Under(ns, sp, i, D1 \cup D2) = Under(ns, sp, i, D1) \cup Under(ns, sp, i, D2)
  BY DEF Under
<1> QED
  BY <1>2, <1>3

LEMMA AnswerAtEnd ==
  ASSUME NEW ns, NEW sp, Good(ns, sp), NEW url \in Url, NEW a \in Args(ns, url),
         Reached(sp, url, a), a.pos > Len(url)
  PROVE  Answer(ns, sp, url, Subtree(ns, sp, a.at), Own(sp[a.at], url), a.params,
                [index |-> ns[a.at].rule_index, decoded |-> a.params, left |-> NoParams])
<1>1. /\ a.at \in 1 .. Len(ns) /\ a.pos \in 1 .. Len(url) + 1 /\ Len(url) \in Nat
      /\ \A k \in 1 .. Len(ns) : sp[k] \in Pattern
  BY ArgsFacts DEF Good, Typed
<1>2. PICK i, K : i = a.at /\ K = Subtree(ns, sp, i)
  OBVIOUS
<1>3. PICK r : r = [index |-> ns[i].rule_index, decoded |-> a.params, left |-> NoParams]
  OBVIOUS
<1>4. r.index = ns[i].rule_index /\ r.decoded = a.params /\ r.left = NoParams
  BY <1>3
<1>5. Reads(sp[i], url) /\ PosOf(sp[i], url) = Len(url) + 1
  BY <1>1, <1>2 DEF Reached
<1>6. i \in K /\ Fits(sp[i], url)
  <2>1. Begins(sp[i], sp[i])
    <3>1. Len(sp[i]) \in Nat
      BY <1>1, <1>2 DEF Pattern
    <3> QED
      BY <3>1 DEF Begins
  <2> QED
    BY <1>1, <1>2, <1>5, <2>1, FitsIs DEF Subtree
<1>7. ASSUME NEW k \in K, Fits(sp[k], url) PROVE k = i
  <2>1. k \in 1 .. Len(ns) /\ Begins(sp[i], sp[k])
    BY <1>2 DEF Subtree
  <2>2. Reads(sp[k], url)
    BY <1>7, FitsIs
  <2>3. sp[k] = sp[i]
    BY <1>1, <1>2, <1>5, <2>1, <2>2, ReadsEnd
  <2> QED
    BY <1>1, <1>2, <2>1, <2>3 DEF Good, Distinct
<1>8. r.index = 0 => \A k \in K : ns[k].rule_index # 0 => ~Fits(sp[k], url)
  BY <1>4, <1>7
<1>9. Chosen(ns, sp, url, K, i, r.index)
  <2>1. ns[i].rule_index \in Nat
    BY <1>1, <1>2, ArgsFacts, NodeFacts
  <2>2. ns[i].rule_index <= ns[i].rule_index
    BY <2>1
  <2> QED
    BY <1>4, <1>6, <1>7, <2>2 DEF Chosen
<1>10. Decodes(sp, url, K, i, Own(sp[i], url), a.params, r.decoded)
  BY <1>4 DEF Decodes
<1>11. Leaves(sp, url, K, a.params, r.left)
  BY <1>4, <1>6 DEF Leaves
<1>12. Answer(ns, sp, url, K, Own(sp[i], url), a.params, r)
  BY <1>6, <1>8, <1>9, <1>10, <1>11 DEF Answer
<1> QED
  BY <1>2, <1>3, <1>12

LEMMA SearchAnswer ==
  ASSUME NEW ns, NEW sp, Good(ns, sp), NEW url \in Url, NEW a \in Args(ns, url),
         Reached(sp, url, a), NEW find \in [Args(ns, url) -> Res],
         \A e \in Args(ns, url) : e.pos > a.pos /\ Reached(sp, url, e) =>
                                    Answered(find, ns, sp, url, e),
         find[a] = Search(find, ns, url, a)
  PROVE  Answered(find, ns, sp, url, a)
<1>1. /\ a.at \in 1 .. Len(ns) /\ a.pos \in 1 .. Len(url) + 1 /\ Len(url) \in Nat
      /\ a.params \in Params /\ ns[a.at] \in Node
      /\ \A k \in 1 .. Len(ns) : sp[k] \in Pattern
  BY ArgsFacts DEF Good, Typed
<1>2. CASE a.pos > Len(url)
  <2>1. find[a] =
          [index |-> ns[a.at].rule_index, decoded |-> a.params, left |-> NoParams]
    BY <1>2, SearchAtEnd
  <2> QED
    BY <1>2, <2>1, AnswerAtEnd DEF Answered
<1>3. CASE ~(a.pos > Len(url))
  <2>1. PICK x1, x2, x3 : Tried(find, ns, url, a, x1, x2, x3, find[a])
    BY <1>3, SearchIs
  <2>2. PICK i, L, own : i = a.at /\ L = Labels(ns[i]) /\ own = Own(sp[i], url)
    OBVIOUS
  <2>3. PICK D1, D2, D3, D4 :
          /\ D1 = L \cap {<<"int">>} /\ D2 = L \cap {<<"str">>}
          /\ D3 = L \cap {<<"path">>} /\ D4 = DOMAIN ns[i].children
    OBVIOUS
  <2>4. PICK b1, b2, b3, b4 : /\ b1 = ByParam(ns[i], url, a.pos, "int")
                              /\ b2 = ByParam(ns[i], url, a.pos, "str")
                              /\ b3 = ByParam(ns[i], url, a.pos, "path")
                              /\ b4 = ByFragment(ns[i], url, a.pos)
    OBVIOUS
  <2>5. "int" \in ParamType /\ "str" \in ParamType /\ "path" \in ParamType
    BY DEF ParamType
  <2>6. /\ Way(ns, url, a, b1) /\ Way(ns, url, a, b2) /\ Way(ns, url, a, b3)
        /\ Way(ns, url, a, b4)
    BY <2>2, <2>4, <2>5, ParamWay, FragmentWay
  <2>7. /\ Serves(ns, sp, url, a, b1, D1) /\ Serves(ns, sp, url, a, b2, D2)
        /\ Serves(ns, sp, url, a, b3, D3)
    BY <2>2, <2>3, <2>4, <2>5, ParamServes
  <2>8. Serves(ns, sp, url, a, b4, D4)
    BY <2>2, <2>3, <2>4, FragmentServes
  <2>9. /\ x1 = Try(find, a, url, None(a), b1) /\ x2 = Try(find, a, url, x1, b2)
        /\ x3 = Try(find, a, url, x2, b3) /\ find[a] = Try(find, a, url, x3, b4)
    BY <2>1, <2>2, <2>4 DEF Tried
  <2>10. /\ D1 \subseteq L /\ D2 \subseteq L /\ D3 \subseteq L /\ D4 \subseteq L
         /\ D1 \cap D2 = {} /\ (D1 \cup D2) \cap D3 = {}
         /\ (D1 \cup D2 \cup D3) \cap D4 = {}
         /\ L = D1 \cup D2 \cup D3 \cup D4
    <3>1. /\ <<"int">>[1] = "int" /\ <<"str">>[1] = "str" /\ <<"path">>[1] = "path"
          /\ <<"int">> \notin Fragment /\ <<"str">> \notin Fragment
          /\ <<"path">> \notin Fragment
      BY <2>5, ParamLabel
    <3>2. <<"int">> # <<"str">> /\ <<"int">> # <<"path">> /\ <<"str">> # <<"path">>
      OBVIOUS
    <3>3. /\ D4 \subseteq Fragment /\ D4 \subseteq L
          /\ \A f \in L : f \in D4 \/ f = <<"int">> \/ f = <<"str">> \/ f = <<"path">>
      <4>1. DOMAIN ns[i].children \subseteq Fragment
        BY <1>1, <2>2, NodeFacts
      <4>2. L = D4 \cup {<<t>> : t \in {u \in ParamType : ns[i].param[u] # 0}}
        BY <2>2, <2>3 DEF Labels
      <4> QED
        BY <2>3, <4>1, <4>2 DEF ParamType
    <3>4. PICK f1, f2, f3 : f1 = <<"int">> /\ f2 = <<"str">> /\ f3 = <<"path">>
      OBVIOUS
    <3>5. /\ f1 # f2 /\ f1 # f3 /\ f2 # f3
          /\ f1 \notin Fragment /\ f2 \notin Fragment /\ f3 \notin Fragment
          /\ D1 = L \cap {f1} /\ D2 = L \cap {f2} /\ D3 = L \cap {f3}
          /\ \A f \in L : f \in D4 \/ f = f1 \/ f = f2 \/ f = f3
      BY <2>3, <3>1, <3>2, <3>3, <3>4
    <3> QED
      BY <3>3, <3>5
  <2>11. PICK U1, U2, U3, U4 :
           /\ U1 = Under(ns, sp, i, D1) /\ U2 = Under(ns, sp, i, D2)
           /\ U3 = Under(ns, sp, i, D3) /\ U4 = Under(ns, sp, i, D4)
    OBVIOUS
  <2>12. PICK E2, E3, V2, V3, V4 :
           /\ E2 = D1 \cup D2 /\ E3 = E2 \cup D3
           /\ V2 = U1 \cup U2 /\ V3 = V2 \cup U3 /\ V4 = V3 \cup U4
    OBVIOUS
  <2>13. /\ i \in 1 .. Len(ns) /\ L = Labels(ns[i]) /\ L = E3 \cup D4
         /\ D1 \in SUBSET L /\ D2 \in SUBSET L /\ D3 \in SUBSET L /\ D4 \in SUBSET L
         /\ E2 \in SUBSET L /\ E3 \in SUBSET L
         /\ D1 \cap D2 = {} /\ E2 \cap D3 = {} /\ E3 \cap D4 = {}
    BY <1>1, <2>2, <2>10, <2>12
  <2>14. /\ U1 \cap U2 = {} /\ V2 \cap U3 = {} /\ V3 \cap U4 = {}
         /\ Under(ns, sp, i, L) = V4
    <3>1. ASSUME NEW A \in SUBSET L, NEW B \in SUBSET L, A \cap B = {}
          PROVE  /\ Under(ns, sp, i, A) \cap Under(ns, sp, i, B) = {}
                 /\ Under(ns, sp, i, A \cup B) =
                      Under(ns, sp, i, A) \cup Under(ns, sp, i, B)
      <4>1. i \in 1 .. Len(ns) /\ L = Labels(ns[i])
        BY <2>13
      <4> QED
        BY <3>1, <4>1, UnderApart
    <3>2. U1 \cap U2 = {} /\ Under(ns, sp, i, E2) = V2
      BY <2>11, <2>12, <2>13, <3>1
    <3>3. V2 \cap U3 = {} /\ Under(ns, sp, i, E3) = V3
      <4>1. E2 \in SUBSET L /\ D3 \in SUBSET L /\ E2 \cap D3 = {}
        BY <2>13
      <4>2. /\ Under(ns, sp, i, E2) \cap Under(ns, sp, i, D3) = {}
            /\ Under(ns, sp, i, E2 \cup D3) =
                 Under(ns, sp, i, E2) \cup Under(ns, sp, i, D3)
        BY <3>1, <4>1
      <4>3. E3 = E2 \cup D3 /\ V3 = V2 \cup U3 /\ U3 = Under(ns, sp, i, D3)
        BY <2>11, <2>12
      <4> QED
        BY <3>2, <4>2, <4>3
    <3>4. V3 \cap U4 = {} /\ Under(ns, sp, i, L) = V4
      <4>1. E3 \in SUBSET L /\ D4 \in SUBSET L /\ E3 \cap D4 = {}
        BY <2>13
      <4>2. /\ Under(ns, sp, i, E3) \cap Under(ns, sp, i, D4) = {}
            /\ Under(ns, sp, i, E3 \cup D4) =
                 Under(ns, sp, i, E3) \cup Under(ns, sp, i, D4)
        BY <3>1, <4>1
      <4>3. L = E3 \cup D4 /\ V4 = V3 \cup U4 /\ U4 = Under(ns, sp, i, D4)
        BY <2>11, <2>12, <2>13
      <4> QED
        BY <3>3, <4>2, <4>3
    <3> QED
      BY <3>2, <3>3, <3>4
  <2>15. /\ U1 \subseteq 1 .. Len(ns) /\ U2 \subseteq 1 .. Len(ns)
         /\ U3 \subseteq 1 .. Len(ns) /\ U4 \subseteq 1 .. Len(ns)
    BY <2>11 DEF Under
  <2>16. None(a) \in Res /\ Answer(ns, sp, url, {}, own, a.params, None(a))
    <3>1. /\ None(a).index = 0 /\ None(a).left = a.params /\ None(a) \in Res
      BY <1>1, NoParamsFacts DEF None, Res
    <3> QED
      BY <3>1 DEF Answer, Leaves
  <2>17. x1 \in Res /\ Answer(ns, sp, url, {} \cup U1, own, a.params, x1)
    BY <2>2, <2>6, <2>7, <2>9, <2>11, <2>16, TryAnswer
  <2>18. Answer(ns, sp, url, U1, own, a.params, x1)
    <3>1. {} \cup U1 = U1
      OBVIOUS
    <3> QED
      BY <2>17, <3>1
  <2>19. x2 \in Res /\ Answer(ns, sp, url, V2, own, a.params, x2)
    BY <2>2, <2>6, <2>7, <2>9, <2>11, <2>12, <2>14, <2>15, <2>17, <2>18, TryAnswer
  <2>20. x3 \in Res /\ Answer(ns, sp, url, V3, own, a.params, x3)
    <3>1. V2 \in SUBSET (1 .. Len(ns))
      BY <2>12, <2>15
    <3>2. V2 \cap Under(ns, sp, a.at, D3) = {} /\ V3 = V2 \cup Under(ns, sp, a.at, D3)
      BY <2>2, <2>11, <2>12, <2>14
    <3> QED
      BY <2>2, <2>6, <2>7, <2>9, <2>19, <3>1, <3>2, TryAnswer
  <2>21. Answer(ns, sp, url, V4, own, a.params, find[a])
    <3>1. V3 \in SUBSET (1 .. Len(ns))
      BY <2>12, <2>15
    <3>2. V3 \cap Under(ns, sp, a.at, D4) = {} /\ V4 = V3 \cup Under(ns, sp, a.at, D4)
      BY <2>2, <2>11, <2>12, <2>14
    <3>3. PICK y : y = Try(find, a, url, x3, b4)
      OBVIOUS
    <3>4. /\ x3 \in Res /\ own = Own(sp[a.at], url)
          /\ Way(ns, url, a, b4) /\ Serves(ns, sp, url, a, b4, D4)
      BY <2>2, <2>6, <2>8, <2>20
    <3>5. Answer(ns, sp, url, V3 \cup Under(ns, sp, a.at, D4), own, a.params, y)
      BY <2>20, <3>1, <3>2, <3>3, <3>4, TryAnswer
    <3> QED
      BY <2>9, <3>2, <3>3, <3>5
  <2>22. PICK K, K2 : K = Under(ns, sp, i, L) /\ K2 = Subtree(ns, sp, i)
    OBVIOUS
  <2>23. K \subseteq K2
    <3> SUFFICES ASSUME NEW k \in K PROVE k \in K2
      OBVIOUS
    <3>1. k \in 1 .. Len(ns)
      BY <2>22 DEF Under
    <3>2. PICK f \in L : Begins(sp[i] \o f, sp[k])
      BY <2>22 DEF Under
    <3>3. f \in Pattern /\ sp[i] \in Pattern /\ sp[k] \in Pattern
      BY <1>1, <2>2, <3>1, LabelFacts
    <3>4. sp[i] \o f \in Pattern /\ Begins(sp[i], sp[i] \o f)
      BY <3>3, Concat, BeginsConcat
    <3>5. Begins(sp[i], sp[k])
      BY <3>2, <3>3, <3>4, BeginsTrans
    <3> QED
      BY <2>22, <3>1, <3>5 DEF Subtree
  <2>24. ASSUME NEW k \in K2 \ K, ns[k].rule_index # 0 PROVE ~Fits(sp[k], url)
    <3>1. k \in 1 .. Len(ns) /\ Begins(sp[i], sp[k])
      BY <2>22 DEF Subtree
    <3>2. CASE k = i
      <4>1. PosOf(sp[k], url) # Len(url) + 1
        BY <1>1, <1>3, <2>2, <3>2 DEF Reached
      <4> QED
        BY <4>1, FitsIs
    <3>3. CASE k # i
      <4>1. \E f \in L : Begins(sp[i] \o f, sp[k])
        BY <1>1, <2>2, <2>24, <3>1, <3>3 DEF Good, Onward
      <4>2. k \in K
        BY <2>22, <3>1, <4>1 DEF Under
      <4> QED
        BY <4>2
    <3> QED
      BY <3>2, <3>3
  <2>25. Answer(ns, sp, url, K, own, a.params, find[a])
    BY <2>14, <2>21, <2>22
  <2>26. Answer(ns, sp, url, K2, own, a.params, find[a])
    BY <2>23, <2>24, <2>25, AnswerMore
  <2> QED
    BY <2>2, <2>22, <2>26 DEF Answered
<1> QED
  BY <1>2, <1>3

(* Every call that is reached is answered; so is the one at the head.      *)
LEMMA FindAnswers ==
  ASSUME NEW ns, NEW sp, Good(ns, sp), NEW url \in Url
  PROVE  /\ Find(ns, url) \in Res
         /\ Answer(ns, sp, url, 1 .. Len(ns), NoParams, NoParams, Find(ns, url))
<1>1. PICK find : Finds(find, ns, url) /\ Find(ns, url) = find[HeadCall]
  BY FindRuns
<1>2. /\ find \in [Args(ns, url) -> Res]
      /\ \A a \in Args(ns, url) : find[a] = Search(find, ns, url, a)
  BY <1>1 DEF Finds
<1>3. Len(url) \in Nat /\ \A a \in Args(ns, url) : a.pos \in 1 .. Len(url) + 1
  BY ArgsFacts DEF Url
<1>4. ASSUME NEW a \in Args(ns, url), Reached(sp, url, a)
      PROVE  Answered(find, ns, sp, url, a)
  <2> DEFINE T == {n \in Nat : \E e \in Args(ns, url) :
                     /\ n = Len(url) + 1 - e.pos /\ Reached(sp, url, e)
                     /\ ~Answered(find, ns, sp, url, e)}
  <2> SUFFICES ASSUME T # {} PROVE FALSE
    <3>1. a.pos \in 1 .. Len(url) + 1
      BY <1>3
    <3>2. Len(url) + 1 - a.pos \in Nat
      BY <1>3, <3>1
    <3> QED
      BY <1>4, <3>2
  <2>1. PICK n \in T : \A i \in T : n <= i
    BY LeastNat
  <2>2. PICK e \in Args(ns, url) :
          /\ n = Len(url) + 1 - e.pos /\ Reached(sp, url, e)
          /\ ~Answered(find, ns, sp, url, e)
    BY <2>1
  <2>3. ASSUME NEW d \in Args(ns, url), d.pos > e.pos, Reached(sp, url, d)
        PROVE  Answered(find, ns, sp, url, d)
    <3>0. d.pos \in 1 .. Len(url) + 1 /\ e.pos \in 1 .. Len(url) + 1
      BY <1>3
    <3>1. Len(url) + 1 - d.pos \in Nat /\ ~(n <= Len(url) + 1 - d.pos)
      <4>1. PICK x, y, l : x = d.pos /\ y = e.pos /\ l = Len(url)
        OBVIOUS
      <4>2. /\ l \in Nat /\ x \in 1 .. l + 1 /\ y \in 1 .. l + 1 /\ x > y
            /\ n = l + 1 - y
        BY <1>3, <2>2, <2>3, <3>0, <4>1
      <4>3. l + 1 - x \in Nat /\ ~(n <= l + 1 - x)
        BY <4>2
      <4> QED
        BY <4>1, <4>3
    <3>2. Len(url) + 1 - d.pos \notin T
      BY <2>1, <3>1
    <3> QED
      BY <2>3, <3>1, <3>2
  <2>4. Answered(find, ns, sp, url, e)
    BY <1>2, <2>2, <2>3, SearchAnswer
  <2> QED
    BY <2>2, <2>4
<1>5. /\ Len(ns) \in Nat /\ Len(ns) >= 1 /\ DOMAIN ns = 1 .. Len(ns) /\ sp[1] = << >>
      /\ \A k \in 1 .. Len(ns) : sp[k] \in Pattern
  BY DEF Good, Typed
<1>6. PICK h : h = HeadCall
  OBVIOUS
<1>7. h = [at |-> 1, pos |-> 1, params |-> NoParams]
  BY <1>6 DEF HeadCall
<1>8. h.at = 1 /\ h.pos = 1 /\ h.params = NoParams
  BY <1>7
<1>9. h \in Args(ns, url)
  <2>1. 1 \in DOMAIN ns /\ 1 \in 1 .. Len(url) + 1 /\ NoParams \in Params
    BY <1>3, <1>5, NoParamsFacts
  <2> QED
    BY <1>7, <2>1 DEF Args
<1>10. Reached(sp, url, h) /\ Own(sp[h.at], url) = NoParams
  BY <1>5, <1>8, ParseStart DEF Reached
<1>11. Subtree(ns, sp, h.at) = 1 .. Len(ns)
  <2>1. ASSUME NEW k \in 1 .. Len(ns) PROVE Begins(sp[1], sp[k])
    <3>1. Len(sp[1]) = 0 /\ Len(sp[k]) \in Nat
      BY <1>5 DEF Pattern
    <3> QED
      BY <3>1 DEF Begins
  <2> QED
    BY <1>8, <2>1 DEF Subtree
<1>12. Answered(find, ns, sp, url, h)
  BY <1>4, <1>9, <1>10
<1>13. Answer(ns, sp, url, 1 .. Len(ns), NoParams, NoParams, find[h])
  BY <1>8, <1>10, <1>11, <1>12 DEF Answered
<1>14. find[h] \in Res
  BY <1>2, <1>9
<1> QED
  BY <1>1, <1>6, <1>13, <1>14

-----------------------------------------------------------------------------
(* The table, and what the search says of it.                              *)

Own1(rs, k) == [pattern |-> rs[k].pattern, index |-> k - 1 + FirstRule]
Slash1(rs, k) == [pattern |-> Front(rs[k].pattern), index |-> REDIRECT_SLASH]

(* Table, for any sequence of rules.                                       *)
TableOf(rs) ==
  {Own1(rs, k) : k \in DOMAIN rs} \cup
  {Slash1(rs, k) : k \in {j \in DOMAIN rs : EndsInSlash(rs[j].pattern)}}

LEMMA TableIs ==
  Table = TableOf(rules) /\ Table' = TableOf(rules')
BY DEF Table, TableOf, Own1, Slash1

LEMMA FrontOfPattern ==
  ASSUME NEW p \in Pattern, EndsInSlash(p)
  PROVE  Front(p) \in Pattern /\ Len(Front(p)) = Len(p) - 1 /\ Front(p) # << >>
<1>1. Len(p) \in Nat /\ Len(p) > 1
  BY DEF EndsInSlash, Pattern
<1>2. Front(p) = SubSeq(p, 1, Len(p) - 1)
  BY DEF Front
<1>3. \A i \in 1 .. Len(p) - 1 : p[i] \in Char \cup ParamType
  BY <1>1 DEF Pattern
<1>4. 1 \in Int /\ Len(p) - 1 \in Int /\ 1 <= Len(p) - 1
  BY <1>1
<1>5. /\ SubSeq(p, 1, Len(p) - 1) \in Pattern
      /\ Len(SubSeq(p, 1, Len(p) - 1)) = Len(p) - 1 - 1 + 1
  BY <1>3, <1>4, SubSeqProperties DEF Pattern
<1>6. PICK q : q = Front(p)
  OBVIOUS
<1>7. q \in Pattern /\ Len(q) = Len(p) - 1
  BY <1>1, <1>2, <1>5, <1>6
<1>8. q # << >>
  BY <1>1, <1>7
<1> QED
  BY <1>6, <1>7, <1>8

LEMMA MenuFacts ==
  ASSUME NEW rs \in Seq(RuleMenu)
  PROVE  /\ Len(rs) \in Nat /\ DOMAIN rs = 1 .. Len(rs)
         /\ \A k \in 1 .. Len(rs) : rs[k].pattern \in Pattern /\ rs[k].pattern # << >>
<1>1. \A k \in 1 .. Len(rs) : rs[k] \in RuleMenu
  OBVIOUS
<1> QED
  BY <1>1, MenuAssumption

(* The index of an entry is that of its rule, or REDIRECT_SLASH.           *)
LEMMA TableFacts ==
  ASSUME NEW rs \in Seq(RuleMenu), NEW t \in TableOf(rs)
  PROVE  /\ t.pattern \in Pattern /\ t.pattern # << >>
         /\ t.index \in 1 .. Len(rs) + 1
         /\ t.index >= FirstRule => /\ t.index - FirstRule + 1 \in 1 .. Len(rs)
                                    /\ t.pattern = rs[t.index - FirstRule + 1].pattern
<1>1. /\ Len(rs) \in Nat /\ DOMAIN rs = 1 .. Len(rs)
      /\ \A k \in 1 .. Len(rs) : rs[k].pattern \in Pattern /\ rs[k].pattern # << >>
  BY MenuFacts
<1>2. \/ \E k \in 1 .. Len(rs) : t = Own1(rs, k)
      \/ \E k \in 1 .. Len(rs) : EndsInSlash(rs[k].pattern) /\ t = Slash1(rs, k)
  BY <1>1 DEF TableOf
<1>3. CASE \E k \in 1 .. Len(rs) : t = Own1(rs, k)
  <2>1. PICK k \in 1 .. Len(rs) : t = Own1(rs, k)
    BY <1>3
  <2>2. t.pattern = rs[k].pattern /\ t.index = k - 1 + FirstRule
    BY <2>1 DEF Own1
  <2>3. t.index = k + 1 /\ t.index - FirstRule + 1 = k
    BY <1>1, <2>2 DEF FirstRule
  <2>4. t.index \in 1 .. Len(rs) + 1
    BY <1>1, <2>3
  <2> QED
    BY <1>1, <2>2, <2>3, <2>4
<1>4. CASE \E k \in 1 .. Len(rs) : EndsInSlash(rs[k].pattern) /\ t = Slash1(rs, k)
  <2>1. PICK k \in 1 .. Len(rs) : EndsInSlash(rs[k].pattern) /\ t = Slash1(rs, k)
    BY <1>4
  <2>2. t.pattern = Front(rs[k].pattern) /\ t.index = 1
    BY <2>1 DEF Slash1, REDIRECT_SLASH
  <2>3. Front(rs[k].pattern) \in Pattern /\ Front(rs[k].pattern) # << >>
    BY <1>1, <2>1, FrontOfPattern
  <2>4. t.index \in 1 .. Len(rs) + 1 /\ ~(t.index >= FirstRule)
    BY <1>1, <2>2 DEF FirstRule
  <2> QED
    BY <2>2, <2>3, <2>4
<1> QED
  BY <1>2, <1>3, <1>4

(* internal_add_rule_object adds one entry, or two.                        *)
LEMMA TableGrows ==
  ASSUME NEW rs \in Seq(RuleMenu), NEW rule \in RuleMenu
  PROVE  TableOf(Append(rs, rule)) =
           (TableOf(rs) \cup {[pattern |-> rule.pattern, index |-> Len(rs) + FirstRule]})
           \cup (IF EndsInSlash(rule.pattern)
                 THEN {[pattern |-> Front(rule.pattern), index |-> REDIRECT_SLASH]}
                 ELSE {})
<1>1. PICK r2 : r2 = Append(rs, rule)
  OBVIOUS
<1>2. /\ r2 \in Seq(RuleMenu) /\ Len(r2) = Len(rs) + 1 /\ Len(rs) \in Nat
      /\ \A k \in 1 .. Len(rs) : r2[k] = rs[k]
      /\ r2[Len(rs) + 1] = rule
  BY <1>1, AppendProperties
<1>3. PICK n : n = Len(rs) + 1
  OBVIOUS
<1>4. /\ DOMAIN r2 = DOMAIN rs \cup {n} /\ DOMAIN rs = 1 .. Len(rs)
      /\ n \notin DOMAIN rs /\ r2[n] = rule
  <2>1. DOMAIN r2 = 1 .. Len(rs) + 1 /\ DOMAIN rs = 1 .. Len(rs)
    BY <1>2, MenuFacts
  <2> QED
    BY <1>2, <1>3, <2>1
<1>5. \A k \in DOMAIN rs : /\ Own1(r2, k) = Own1(rs, k) /\ Slash1(r2, k) = Slash1(rs, k)
                           /\ r2[k].pattern = rs[k].pattern
  BY <1>2, <1>4 DEF Own1, Slash1
<1>6. /\ Own1(r2, n) = [pattern |-> rule.pattern, index |-> Len(rs) + FirstRule]
      /\ Slash1(r2, n) = [pattern |-> Front(rule.pattern), index |-> REDIRECT_SLASH]
  <2>1. n - 1 + FirstRule = Len(rs) + FirstRule
    BY <1>2, <1>3 DEF FirstRule
  <2> QED
    BY <1>4, <2>1 DEF Own1, Slash1
<1>7. {Own1(r2, k) : k \in DOMAIN r2} = {Own1(rs, k) : k \in DOMAIN rs} \cup {Own1(r2, n)}
  BY <1>4, <1>5
<1>8. {Slash1(r2, k) : k \in {j \in DOMAIN r2 : EndsInSlash(r2[j].pattern)}} =
        {Slash1(rs, k) : k \in {j \in DOMAIN rs : EndsInSlash(rs[j].pattern)}}
        \cup (IF EndsInSlash(rule.pattern) THEN {Slash1(r2, n)} ELSE {})
  <2> DEFINE D2 == {j \in DOMAIN r2 : EndsInSlash(r2[j].pattern)}
             D == {j \in DOMAIN rs : EndsInSlash(rs[j].pattern)}
  <2>1. D2 = D \cup (IF EndsInSlash(rule.pattern) THEN {n} ELSE {})
    BY <1>4, <1>5
  <2>2. \A k \in D : Slash1(r2, k) = Slash1(rs, k)
    BY <1>5
  <2> HIDE DEF D, D2
  <2>3. {Slash1(r2, k) : k \in D2} =
          {Slash1(rs, k) : k \in D} \cup (IF EndsInSlash(rule.pattern) THEN {Slash1(r2, n)} ELSE {})
    BY <2>1, <2>2
  <2> QED
    BY <2>3 DEF D, D2
<1> DEFINE A == {Own1(rs, k) : k \in DOMAIN rs}
           B == {Slash1(rs, k) : k \in {j \in DOMAIN rs : EndsInSlash(rs[j].pattern)}}
           a == [pattern |-> rule.pattern, index |-> Len(rs) + FirstRule]
           E == IF EndsInSlash(rule.pattern)
                THEN {[pattern |-> Front(rule.pattern), index |-> REDIRECT_SLASH]} ELSE {}
<1>9. TableOf(r2) = (A \cup {a}) \cup (B \cup E)
  BY <1>6, <1>7, <1>8 DEF TableOf
<1>10. TableOf(rs) = A \cup B
  BY DEF TableOf
<1> HIDE DEF A, B, a, E
<1>11. TableOf(r2) = (TableOf(rs) \cup {a}) \cup E
  BY <1>9, <1>10
<1> QED
  BY <1>1, <1>11 DEF a, E

LEMMA MinIs ==
  ASSUME NEW S \in SUBSET Nat, NEW m \in S, \A y \in S : m <= y
  PROVE  Min(S) = m
<1>1. \E x \in S : \A y \in S : x =< y
  OBVIOUS
<1>2. PICK z : z = CHOOSE x \in S : \A y \in S : x =< y
  OBVIOUS
<1>3. z \in S /\ \A y \in S : z =< y
  BY <1>1, <1>2
<1>4. z \in Nat /\ m \in Nat /\ z <= m /\ m <= z
  BY <1>3
<1>5. z = m
  BY <1>4
<1> QED
  BY <1>2, <1>5 DEF Min

(* What an answer for the whole trie says of the rules in it.              *)
Fitting(table, url) == {e.index : e \in {t \in table : Fits(t.pattern, url)}}

LEMMA AnswerIsBest ==
  ASSUME NEW ns, NEW sp, Good(ns, sp), NEW url, NEW f \in Res,
         Answer(ns, sp, url, 1 .. Len(ns), NoParams, NoParams, f)
  PROVE  LET F == Fitting(Entries(ns, sp), url)
         IN  f.index = IF F = {} THEN 0 ELSE Min(F)
<1> DEFINE F == Fitting(Entries(ns, sp), url)
<1>0. \A k \in 1 .. Len(ns) : ns[k].rule_index \in Nat
  BY NodeFacts DEF Good, Typed
<1>1. ASSUME NEW x PROVE x \in F <=> \E k \in 1 .. Len(ns) :
          x = ns[k].rule_index /\ ns[k].rule_index # 0 /\ Fits(sp[k], url)
  <2>1. ASSUME x \in F
        PROVE  \E k \in 1 .. Len(ns) :
                 x = ns[k].rule_index /\ ns[k].rule_index # 0 /\ Fits(sp[k], url)
    <3>1. PICK e \in Entries(ns, sp) : x = e.index /\ Fits(e.pattern, url)
      BY <2>1 DEF Fitting
    <3>2. PICK k \in 1 .. Len(ns) : ns[k].rule_index # 0 /\
                e = [pattern |-> sp[k], index |-> ns[k].rule_index]
      BY <3>1 DEF Entries
    <3>3. e.index = ns[k].rule_index /\ e.pattern = sp[k]
      BY <3>2
    <3> QED
      BY <3>1, <3>2, <3>3
  <2>2. ASSUME NEW k \in 1 .. Len(ns), x = ns[k].rule_index, ns[k].rule_index # 0,
               Fits(sp[k], url)
        PROVE  x \in F
    <3>1. PICK e : e = [pattern |-> sp[k], index |-> ns[k].rule_index]
      OBVIOUS
    <3>2. e \in Entries(ns, sp)
      BY <2>2, <3>1 DEF Entries
    <3>3. e.pattern = sp[k] /\ e.index = x
      BY <2>2, <3>1
    <3> QED
      BY <2>2, <3>2, <3>3 DEF Fitting
  <2> QED
    BY <2>1, <2>2
<1> HIDE DEF F
<1>2. CASE f.index = 0
  <2>1. F = {}
    BY <1>1, <1>2 DEF Answer
  <2> QED
    BY <1>2, <2>1 DEF F
<1>3. CASE f.index # 0
  <2>1. PICK j \in 1 .. Len(ns) : Chosen(ns, sp, url, 1 .. Len(ns), j, f.index)
    BY <1>3 DEF Answer
  <2>2. f.index \in F
    BY <1>1, <1>3, <2>1 DEF Chosen
  <2>3. \A y \in F : f.index <= y
    BY <1>1, <2>1 DEF Chosen
  <2>4. F \in SUBSET Nat
    BY <1>0, <1>1
  <2>5. Min(F) = f.index
    BY <2>2, <2>3, <2>4, MinIs
  <2> QED
    BY <2>2, <2>5 DEF F
<1> QED
  BY <1>2, <1>3

LEMMA SubSeqWhole ==
  ASSUME NEW s \in Seq(Url)
  PROVE  SubSeq(s, 1, Len(s)) = s
<1>1. Len(s) \in Nat /\ \A i \in 1 .. Len(s) : s[i] \in Url
  OBVIOUS
<1>2. PICK t : t = SubSeq(s, 1, Len(s))
  OBVIOUS
<1>3. 1 \in Int /\ Len(s) \in Int
  BY <1>1
<1>4. /\ t \in Seq(Url) /\ Len(t) = IF 1 <= Len(s) THEN Len(s) - 1 + 1 ELSE 0
      /\ \A i \in 1 .. Len(s) - 1 + 1 : t[i] = s[1 + i - 1]
  BY <1>1, <1>2, <1>3, SubSeqProperties
<1>5. Len(t) = Len(s)
  BY <1>1, <1>4
<1>6. ASSUME NEW i \in 1 .. Len(s) PROVE t[i] = s[i]
  <2>1. i \in 1 .. Len(s) - 1 + 1 /\ 1 + i - 1 = i
    BY <1>1
  <2> QED
    BY <1>4, <2>1
<1>7. t = s
  BY <1>4, <1>5, <1>6, SeqEqual
<1> QED
  BY <1>2, <1>7

(* Node j has the rule that was found; the values it is given are its own, *)
(* or some are missing because the url also ends at another node.          *)
Given(ns, sp, url, f, j) ==
  /\ j \in 1 .. Len(ns) /\ ns[j].rule_index = f.index
  /\ \A c \in {"int", "str"} : ~OutOfBounds(f.decoded, sp[j], c) =>
       SubSeq(f.decoded[c], 1, Needs(sp[j], c)) = Own(sp[j], url)[c]
  /\ (\E c \in {"int", "str"} : OutOfBounds(f.decoded, sp[j], c)) =>
       \E k \in 2 .. Len(ns) : sp[k] # sp[j] /\ Fits(sp[k], url)

LEMMA AnswerGives ==
  ASSUME NEW ns, NEW sp, Good(ns, sp), NEW url \in Url, NEW f \in Res, f.index # 0,
         Answer(ns, sp, url, 1 .. Len(ns), NoParams, NoParams, f)
  PROVE  \E j : Given(ns, sp, url, f, j)
<1>1. PICK j \in 1 .. Len(ns) :
        /\ Chosen(ns, sp, url, 1 .. Len(ns), j, f.index)
        /\ Decodes(sp, url, 1 .. Len(ns), j, NoParams, NoParams, f.decoded)
  BY DEF Answer
<1>2. /\ sp[j] \in Pattern /\ sp[1] = << >> /\ << >> \in Pattern /\ Len(ns) \in Nat
      /\ \A k \in 1 .. Len(ns) : sp[k] \in Pattern
      /\ \A i, k \in 1 .. Len(ns) : sp[i] = sp[k] => i = k
      /\ 1 \in 1 .. Len(ns)
  <2>1. << >> \in Pattern
    BY EmptySeq DEF Pattern
  <2>2. /\ sp[1] = << >> /\ Len(ns) \in Nat /\ Len(ns) >= 1
        /\ sp \in [1 .. Len(ns) -> Pattern]
        /\ \A i, k \in 1 .. Len(ns) : sp[i] = sp[k] => i = k
    BY DEF Good, Typed, Distinct
  <2> QED
    BY <1>1, <2>1, <2>2
<1>3. /\ ns[j].rule_index = f.index /\ Reads(sp[j], url)
      /\ PosOf(sp[j], url) = Len(url) + 1
  BY <1>1, FitsIs DEF Chosen
<1>4. PICK own : own = Own(sp[j], url)
  OBVIOUS
<1>5. own \in Params /\ f.decoded \in Params
  BY <1>2, <1>3, <1>4, ParsedFacts DEF Res
<1>6. \A c \in {"int", "str"} : /\ Len(own[c]) = Needs(sp[j], c)
                                /\ own[c] \in Seq(Url) /\ f.decoded[c] \in Seq(Url)
  <2>1. \A c \in {"int", "str"} : Len(own[c]) = Needs(sp[j], c)
    BY <1>2, <1>3, <1>4, OwnValuesNeeded
  <2> QED
    BY <1>5, <2>1 DEF Params, Url
<1>7. EndsOf(f.decoded, own)
  <2>1. EndsOf(NoParams, NoParams)
    BY NoParamsFacts, EndsOfNone
  <2> QED
    BY <1>1, <1>4, <2>1 DEF Decodes
<1>8. ASSUME NEW c \in {"int", "str"}, ~OutOfBounds(f.decoded, sp[j], c)
      PROVE  SubSeq(f.decoded[c], 1, Needs(sp[j], c)) = own[c]
  <2>1. PICK s, t : s = f.decoded[c] /\ t = own[c]
    OBVIOUS
  <2>2. s \in Seq(Url) /\ t \in Seq(Url) /\ Suffix(s, t) /\ Len(t) = Needs(sp[j], c)
    BY <1>6, <1>7, <2>1 DEF EndsOf
  <2>3. ~(Len(s) < Len(t))
    BY <1>8, <2>1, <2>2 DEF OutOfBounds
  <2>4. s = t
    BY <2>2, <2>3, SuffixFull
  <2>5. SubSeq(t, 1, Len(t)) = t
    BY <2>2, SubSeqWhole
  <2> QED
    BY <2>1, <2>2, <2>4, <2>5
<1>9. ASSUME NEW c \in {"int", "str"}, OutOfBounds(f.decoded, sp[j], c)
      PROVE  \E k \in 2 .. Len(ns) : sp[k] # sp[j] /\ Fits(sp[k], url)
  <2>1. f.decoded # own
    <3>1. own[c] \in Seq(Url) /\ Len(own[c]) = Needs(sp[j], c)
      BY <1>6
    <3>2. PICK m : m = Len(own[c])
      OBVIOUS
    <3>3. m \in Nat
      BY <3>1, <3>2
    <3>4. Len(f.decoded[c]) < m
      BY <1>9, <3>1, <3>2 DEF OutOfBounds
    <3> QED
      BY <3>2, <3>3, <3>4
  <2>2. PICK k \in 1 .. Len(ns) : k # j /\ Fits(sp[k], url)
    BY <1>1, <1>4, <2>1 DEF Decodes
  <2>3. k # 1
    <3> SUFFICES ASSUME k = 1 PROVE FALSE
      OBVIOUS
    <3>1. Reads(<< >>, url) /\ PosOf(<< >>, url) = Len(url) + 1
      BY <1>2, <2>2, FitsIs
    <3>2. Begins(<< >>, sp[j])
      BY <1>2, BeginsConcat, ConcatEmpty
    <3>3. sp[j] = << >>
      BY <1>2, <1>3, <3>1, <3>2, ReadsEnd
    <3> QED
      BY <1>1, <1>2, <2>2, <3>3
  <2>4. k \in 2 .. Len(ns)
    BY <1>2, <2>3
  <2>5. sp[k] # sp[j]
    BY <1>1, <1>2, <2>2
  <2> QED
    BY <2>2, <2>4, <2>5
<1>10. Given(ns, sp, url, f, j)
  BY <1>1, <1>3, <1>4, <1>8, <1>9 DEF Given
<1> QED
  BY <1>10

-----------------------------------------------------------------------------
(* The invariant.                                                          *)

(* The trie ns with spellings sp holds the table; while it grows its edges *)
(* are single tokens.                                                      *)
Holds(ns, sp, ph, table) ==
  /\ Good(ns, sp)
  /\ ph = "config" => Young(ns, sp)
  /\ ph # "thrown" => Entries(ns, sp) = table /\ Used(ns, sp, table)

(* f is what the search returned for the request.                          *)
Found(ns, sp, url, index, decoded, f) ==
  /\ f \in Res /\ f.index = index /\ f.decoded = decoded
  /\ Answer(ns, sp, url, 1 .. Len(ns), NoParams, NoParams, f)

Trie ==
  \E sp : /\ Holds(nodes, sp, phase, Table)
          /\ req # NoRequest =>
               \E f : Found(nodes, sp, TrieUrl(req.url), req.index, req.decoded, f)

RuleOf(rs, index) == rs[index - FirstRule + 1]
Short(decoded, pattern) == \E c \in {"int", "str"} : OutOfBounds(decoded, pattern, c)

(* How far a request is, and what handle found where it has returned.      *)
Course ==
  /\ phase \in {"config", "thrown"} => req = NoRequest
  /\ req = NoRequest => out = "none"
  /\ req # NoRequest => req.url \in Urls
  /\ req # NoRequest /\ phase = "serving" /\ out = "none" => req.index >= FirstRule
  /\ out = "called" => /\ req.index >= FirstRule
                       /\ ~Short(req.decoded, RuleOf(rules, req.index).pattern)
  /\ out = "500" => /\ req.index >= FirstRule
                    /\ Short(req.decoded, RuleOf(rules, req.index).pattern)

Indexed(ns, n) == \A i \in 1 .. Len(ns) : ns[i].rule_index \in 0 .. n + 1

IInv ==
  /\ rules \in Seq(RuleMenu) /\ Len(rules) <= MaxRules /\ api_base \in Url
  /\ phase \in {"config", "serving", "thrown", "dead"}
  /\ out \in {"none", "404", "500", "called"}
  /\ Indexed(nodes, Len(rules))
  /\ Course
  /\ Trie

(* What before asks for is a url.                                          *)
LEMMA TrieUrlIsUrl ==
  ASSUME api_base \in Url, NEW url \in Urls
  PROVE  TrieUrl(url) \in Url
<1>1. url \in Seq(Char) /\ FsUrl \in Url /\ Len(url) \in Nat /\ Len(api_base) \in Nat
  BY MenuAssumption DEF Url
<1>2. Len(api_base) + 1 \in Int /\ Len(url) \in Int
  BY <1>1
<1>3. \A i \in Len(api_base) + 1 .. Len(url) : url[i] \in Char
  BY <1>1
<1>4. SubSeq(url, Len(api_base) + 1, Len(url)) \in Url
  BY <1>2, <1>3, SubSeqProperties DEF Url
<1> QED
  BY <1>1, <1>4 DEF TrieUrl

(* The indices in the trie are those of the table.                         *)
LEMMA IndexedByTable ==
  ASSUME NEW ns, NEW sp, Good(ns, sp), NEW rs \in Seq(RuleMenu),
         Entries(ns, sp) = TableOf(rs)
  PROVE  Indexed(ns, Len(rs))
<1> SUFFICES ASSUME NEW i \in 1 .. Len(ns) PROVE ns[i].rule_index \in 0 .. Len(rs) + 1
  BY DEF Indexed
<1>1. ns[i].rule_index \in Nat /\ Len(rs) \in Nat
  BY NodeFacts, MenuFacts DEF Good, Typed
<1>2. CASE ns[i].rule_index = 0
  BY <1>1, <1>2
<1>3. CASE ns[i].rule_index # 0
  <2>1. PICK e : e = [pattern |-> sp[i], index |-> ns[i].rule_index]
    OBVIOUS
  <2>2. e \in TableOf(rs)
    BY <1>3, <2>1 DEF Entries
  <2>3. e.index \in 1 .. Len(rs) + 1 /\ e.index = ns[i].rule_index
    BY <2>1, <2>2, TableFacts
  <2> QED
    BY <1>1, <2>3
<1> QED
  BY <1>2, <1>3

LEMMA TableOfNone ==
  TableOf(<< >>) = {}
BY DEF TableOf

(* The head is all there is.                                               *)
LEMMA HeadHolds ==
  \E sp : /\ Good(<<NewNode>>, sp) /\ Young(<<NewNode>>, sp)
          /\ Entries(<<NewNode>>, sp) = {} /\ Used(<<NewNode>>, sp, {})
<1>1. PICK ns, sp : ns = <<NewNode>> /\ sp = [i \in 1 .. 1 |-> << >>]
  OBVIOUS
<1>2. /\ ns \in Seq(Node) /\ Len(ns) = 1 /\ ns[1] = NewNode
      /\ \A i \in 1 .. Len(ns) : i = 1
  BY <1>1, NewNodeFacts
<1>3. << >> \in Pattern
  BY EmptySeq DEF Pattern
<1>4. sp \in [1 .. Len(ns) -> Pattern] /\ sp[1] = << >>
  BY <1>1, <1>2, <1>3
<1>5. Labels(ns[1]) = {} /\ ns[1].rule_index = 0
  BY <1>2, NewNodeFacts
<1>6. Young(ns, sp)
  <2>1. Typed(ns, sp) /\ Distinct(ns, sp)
    BY <1>2, <1>4 DEF Typed, Distinct
  <2>2. Edges(ns, sp) /\ Letters(ns) /\ Grown(ns, sp)
    BY <1>2, <1>5 DEF Edges, Letters, Grown
  <2> QED
    BY <2>1, <2>2 DEF Young
<1>7. Entries(ns, sp) = {}
  BY <1>2, <1>5 DEF Entries
<1>8. Used(ns, sp, {})
  BY <1>2 DEF Used
<1> QED
  BY <1>1, <1>6, <1>7, <1>8, YoungIsGood

LEMMA InitIInv ==
  Init => IInv
<1> SUFFICES ASSUME Init PROVE IInv
  OBVIOUS
<1>1. /\ rules = << >> /\ nodes = <<NewNode>> /\ phase = "config"
      /\ req = NoRequest /\ out = "none"
  BY DEF Init
<1>2. api_base \in Url
  <2>1. << >> \in Seq(Char)
    BY EmptySeq
  <2> QED
    BY <2>1, MenuAssumption DEF Init, Url
<1>3. rules \in Seq(RuleMenu) /\ Len(rules) = 0 /\ Len(rules) <= MaxRules
  BY <1>1, EmptySeq, BoundsAssumption
<1>4. PICK sp : /\ Good(nodes, sp) /\ Young(nodes, sp)
                /\ Entries(nodes, sp) = {} /\ Used(nodes, sp, {})
  BY <1>1, HeadHolds
<1>5. Table = {} /\ TableOf(rules) = {}
  BY <1>1, TableIs, TableOfNone
<1>6. Holds(nodes, sp, phase, Table)
  BY <1>4, <1>5 DEF Holds
<1>7. Trie
  BY <1>1, <1>6 DEF Trie
<1>8. Indexed(nodes, Len(rules))
  BY <1>3, <1>4, <1>5, IndexedByTable
<1>9. Course
  BY <1>1 DEF Course
<1> QED
  BY <1>1, <1>2, <1>3, <1>7, <1>8, <1>9 DEF IInv

(* Both patterns of a rule are added.                                      *)
LEMMA AddHolds ==
  ASSUME NEW ns, NEW sp, Young(ns, sp), NEW rs \in Seq(RuleMenu),
         Entries(ns, sp) = TableOf(rs), Used(ns, sp, TableOf(rs)),
         NEW rule \in RuleMenu,
         NEW a, a = Add(ns, rule.pattern, Len(rs) + FirstRule), a.ok,
         NEW b, b = IF EndsInSlash(rule.pattern)
                    THEN Add(a.nodes, Front(rule.pattern), REDIRECT_SLASH) ELSE a,
         b.ok
  PROVE  \E sp2 : /\ Young(b.nodes, sp2)
                  /\ Entries(b.nodes, sp2) = TableOf(Append(rs, rule))
                  /\ Used(b.nodes, sp2, Entries(b.nodes, sp2))
<1>1. PICK p, index : p = rule.pattern /\ index = Len(rs) + FirstRule
  OBVIOUS
<1>2. p \in Pattern /\ index \in Nat /\ index # 0
  <2>1. Len(rs) \in Nat
    BY MenuFacts
  <2>2. index \in Nat /\ index # 0
    BY <1>1, <2>1 DEF FirstRule
  <2> QED
    BY <1>1, <2>2, MenuAssumption
<1>3. p \in Pattern
  BY <1>2
<1>4. Used(ns, sp, Entries(ns, sp))
  OBVIOUS
<1>5. a = Add(ns, p, index)
  BY <1>1
<1>6. PICK sp1 : /\ Young(a.nodes, sp1) /\ Used(a.nodes, sp1, Entries(a.nodes, sp1))
                 /\ Entries(a.nodes, sp1) =
                      Entries(ns, sp) \cup {[pattern |-> p, index |-> index]}
  BY <1>2, <1>3, <1>4, <1>5, AddKeeps
<1>7. CASE ~EndsInSlash(p)
  <2>1. b = a
    BY <1>1, <1>7
  <2>2. TableOf(Append(rs, rule)) =
          (TableOf(rs) \cup {[pattern |-> p, index |-> index]}) \cup {}
    BY <1>1, <1>7, TableGrows
  <2>3. Entries(a.nodes, sp1) = TableOf(Append(rs, rule))
    BY <1>6, <2>2
  <2> QED
    BY <1>6, <2>1, <2>3
<1>8. CASE EndsInSlash(p)
  <2>1. PICK q : q = Front(p)
    OBVIOUS
  <2>2. q \in Pattern
    BY <1>3, <1>8, <2>1, FrontOfPattern
  <2>3. b = Add(a.nodes, q, REDIRECT_SLASH)
    BY <1>1, <1>8, <2>1
  <2>4. REDIRECT_SLASH \in Nat /\ REDIRECT_SLASH # 0
    BY DEF REDIRECT_SLASH
  <2>5. PICK sp2 : /\ Young(b.nodes, sp2) /\ Used(b.nodes, sp2, Entries(b.nodes, sp2))
                   /\ Entries(b.nodes, sp2) = Entries(a.nodes, sp1) \cup
                        {[pattern |-> q, index |-> REDIRECT_SLASH]}
    BY <1>6, <2>2, <2>3, <2>4, AddKeeps
  <2>6. TableOf(Append(rs, rule)) =
          (TableOf(rs) \cup {[pattern |-> p, index |-> index]}) \cup
          {[pattern |-> q, index |-> REDIRECT_SLASH]}
    BY <1>1, <1>8, <2>1, TableGrows
  <2>7. Entries(b.nodes, sp2) = TableOf(Append(rs, rule))
    BY <1>6, <2>5, <2>6
  <2> QED
    BY <2>5, <2>7
<1> QED
  BY <1>7, <1>8

LEMMA AddRuleKeeps ==
  ASSUME IInv, NEW rule \in RuleMenu, AddRule(rule)
  PROVE  IInv'
<1>1. /\ phase = "config" /\ Len(rules) < MaxRules /\ rules' = Append(rules, rule)
      /\ api_base' = api_base /\ req' = req /\ out' = out
  BY DEF AddRule
<1>2. /\ rules \in Seq(RuleMenu) /\ api_base \in Url /\ Course /\ Trie
      /\ Indexed(nodes, Len(rules)) /\ out \in {"none", "404", "500", "called"}
  BY DEF IInv
<1>3. /\ rules' \in Seq(RuleMenu) /\ Len(rules') = Len(rules) + 1
      /\ Len(rules) \in Nat /\ Len(rules') <= MaxRules
  <2>1. rules' \in Seq(RuleMenu) /\ Len(rules') = Len(rules) + 1
    BY <1>1, <1>2, AppendProperties
  <2>2. Len(rules) \in Nat
    BY <1>2, MenuFacts
  <2> QED
    BY <1>1, <2>1, <2>2, BoundsAssumption
<1>4. req = NoRequest /\ out = "none"
  BY <1>1, <1>2 DEF Course
<1>5. req' = NoRequest' /\ out' = "none"
  BY <1>1, <1>4 DEF NoRequest, NoParams
<1>6. Course'
  BY <1>5 DEF Course
<1>7. PICK sp : Holds(nodes, sp, phase, Table)
  BY <1>2 DEF Trie
<1>8. /\ Good(nodes, sp) /\ Young(nodes, sp) /\ Entries(nodes, sp) = TableOf(rules)
      /\ Used(nodes, sp, TableOf(rules))
  BY <1>1, <1>7, TableIs DEF Holds
<1>9. PICK a : a = Add(nodes, rule.pattern, Len(rules) + FirstRule)
  OBVIOUS
<1>10. PICK b : b = IF EndsInSlash(rule.pattern)
                    THEN Add(a.nodes, Front(rule.pattern), REDIRECT_SLASH) ELSE a
  OBVIOUS
<1>11. IF a.ok /\ b.ok THEN nodes' = b.nodes /\ phase' = phase
       ELSE phase' = "thrown" /\ nodes' = nodes
  BY <1>9, <1>10 DEF AddRule
<1>12. CASE a.ok /\ b.ok
  <2>1. PICK sp2 : /\ Young(b.nodes, sp2)
                   /\ Entries(b.nodes, sp2) = TableOf(Append(rules, rule))
                   /\ Used(b.nodes, sp2, Entries(b.nodes, sp2))
    BY <1>2, <1>8, <1>9, <1>10, <1>12, AddHolds
  <2>2. nodes' = b.nodes /\ phase' = "config"
    BY <1>1, <1>11, <1>12
  <2>3. Table' = TableOf(rules')
    BY TableIs
  <2>4. /\ Good(nodes', sp2) /\ Young(nodes', sp2) /\ Entries(nodes', sp2) = TableOf(rules')
        /\ Used(nodes', sp2, TableOf(rules'))
    BY <1>1, <2>1, <2>2, YoungIsGood
  <2>5. Holds(nodes', sp2, phase', Table')
    BY <2>3, <2>4 DEF Holds
  <2>6. Trie'
    BY <1>5, <2>5 DEF Trie
  <2>7. Indexed(nodes', Len(rules'))
    BY <1>3, <2>4, IndexedByTable
  <2> QED
    BY <1>1, <1>2, <1>3, <1>6, <2>2, <2>6, <2>7 DEF IInv
<1>13. CASE ~(a.ok /\ b.ok)
  <2>1. nodes' = nodes /\ phase' = "thrown"
    BY <1>11, <1>13
  <2>2. Holds(nodes', sp, phase', Table')
    BY <1>8, <2>1 DEF Holds
  <2>3. Trie'
    BY <1>5, <2>2 DEF Trie
  <2>4. Indexed(nodes', Len(rules'))
    BY <1>2, <1>3, <2>1 DEF Indexed
  <2> QED
    BY <1>1, <1>2, <1>3, <1>6, <2>1, <2>3, <2>4 DEF IInv
<1> QED
  BY <1>12, <1>13

LEMMA KeptHolds ==
  ASSUME NEW ns, NEW ns2, NEW sp, NEW table, Kept(ns, ns2), Used(ns, sp, table)
  PROVE  Entries(ns2, sp) = Entries(ns, sp) /\ Used(ns2, sp, table)
<1>1. Len(ns2) = Len(ns) /\ \A j \in 1 .. Len(ns) : ns2[j].rule_index = ns[j].rule_index
  BY DEF Kept
<1>2. {j \in 1 .. Len(ns2) : ns2[j].rule_index # 0} =
        {j \in 1 .. Len(ns) : ns[j].rule_index # 0}
  BY <1>1
<1>3. Entries(ns2, sp) = Entries(ns, sp)
  BY <1>1, <1>2 DEF Entries
<1> QED
  BY <1>1, <1>3 DEF Used

LEMMA ValidateKeeps ==
  ASSUME IInv, Validate
  PROVE  IInv'
<1>1. /\ phase = "config" /\ phase' = "serving" /\ nodes' = Optimize(nodes)
      /\ rules' = rules /\ api_base' = api_base /\ req' = req /\ out' = out
  BY DEF Validate
<1>2. /\ rules \in Seq(RuleMenu) /\ Len(rules) <= MaxRules /\ api_base \in Url
      /\ Course /\ Trie /\ out \in {"none", "404", "500", "called"}
  BY DEF IInv
<1>3. req = NoRequest /\ out = "none"
  BY <1>1, <1>2 DEF Course
<1>4. req' = NoRequest' /\ out' = "none"
  BY <1>1, <1>3 DEF NoRequest, NoParams
<1>5. Course'
  BY <1>4 DEF Course
<1>6. PICK sp : Holds(nodes, sp, phase, Table)
  BY <1>2 DEF Trie
<1>7. /\ Good(nodes, sp) /\ Entries(nodes, sp) = Table /\ Used(nodes, sp, Table)
  BY <1>1, <1>6 DEF Holds
<1>8. Table' = Table /\ Table = TableOf(rules)
  BY <1>1, TableIs
<1>9. Good(nodes', sp) /\ Kept(nodes, nodes')
  BY <1>1, <1>7, OptimizeKeeps
<1>10. Entries(nodes', sp) = Table' /\ Used(nodes', sp, Table')
  BY <1>7, <1>8, <1>9, KeptHolds
<1>11. Holds(nodes', sp, phase', Table')
  BY <1>1, <1>9, <1>10 DEF Holds
<1>12. Trie'
  BY <1>4, <1>11 DEF Trie
<1>13. Indexed(nodes', Len(rules'))
  BY <1>1, <1>2, <1>8, <1>9, <1>10, IndexedByTable
<1> QED
  BY <1>1, <1>2, <1>5, <1>12, <1>13 DEF IInv

LEMMA BeforeKeeps ==
  ASSUME IInv, NEW url \in Urls, NEW method \in Method, Before(url, method)
  PROVE  IInv'
<1>1. /\ phase = "serving" /\ req = NoRequest
      /\ rules' = rules /\ nodes' = nodes /\ api_base' = api_base
  BY DEF Before
<1>2. PICK f : f = Find(nodes, TrieUrl(url))
  OBVIOUS
<1>3. /\ req' = [url |-> url, method |-> method, index |-> f.index,
                 decoded |-> f.decoded]
      /\ out' = IF f.index = 0 THEN "404" ELSE "none"
      /\ phase' = IF f.index = REDIRECT_SLASH THEN "dead" ELSE "serving"
  BY <1>2 DEF Before
<1>4. req'.url = url /\ req'.index = f.index /\ req'.decoded = f.decoded
  BY <1>3
<1>5. /\ rules \in Seq(RuleMenu) /\ Len(rules) <= MaxRules /\ api_base \in Url
      /\ Course /\ Trie /\ Indexed(nodes, Len(rules))
  BY DEF IInv
<1>6. PICK sp : Holds(nodes, sp, phase, Table)
  BY <1>5 DEF Trie
<1>7. Table' = Table /\ TrieUrl(req.url)' = TrieUrl(url)
  BY <1>1, <1>4 DEF Table, TrieUrl
<1>8. /\ Good(nodes, sp) /\ Entries(nodes, sp) = Table /\ Used(nodes, sp, Table)
  BY <1>1, <1>6 DEF Holds
<1>9. phase' \in {"serving", "dead"} /\ out' \in {"404", "none"}
  BY <1>3
<1>10. Holds(nodes', sp, phase', Table')
  BY <1>1, <1>7, <1>8, <1>9 DEF Holds
<1>11. TrieUrl(url) \in Url
  BY <1>5, TrieUrlIsUrl
<1>12. /\ f \in Res
       /\ Answer(nodes, sp, TrieUrl(url), 1 .. Len(nodes), NoParams, NoParams, f)
  BY <1>2, <1>8, <1>11, FindAnswers
<1>13. Found(nodes, sp, TrieUrl(url), f.index, f.decoded, f)
  BY <1>12 DEF Found
<1>14. Trie'
  <2>1. \E g : Found(nodes', sp, TrieUrl(req.url)', req'.index, req'.decoded, g)
    BY <1>1, <1>4, <1>7, <1>13
  <2> QED
    BY <1>10, <2>1 DEF Trie
<1>15. Course'
  <2>1. req' # NoRequest' /\ req'.url \in Urls
    <3>1. url # << >>
      BY MenuAssumption
    <3>2. NoRequest'.url = << >>
      BY DEF NoRequest
    <3> QED
      BY <1>4, <3>1, <3>2
  <2>2. phase' = "serving" /\ out' = "none" => req'.index >= FirstRule
    <3>1. f.index \in Nat
      BY <1>12 DEF Res
    <3>2. ASSUME phase' = "serving", out' = "none" PROVE f.index >= 2
      <4>1. f.index # 0 /\ f.index # 1
        BY <1>3, <3>2 DEF REDIRECT_SLASH
      <4> QED
        BY <3>1, <4>1
    <3> QED
      BY <1>4, <3>2 DEF FirstRule
  <2> QED
    BY <1>9, <2>1, <2>2 DEF Course
<1> QED
  BY <1>1, <1>5, <1>9, <1>14, <1>15 DEF IInv

(* What a step keeps that leaves the rules, the trie and the request.      *)
LEMMA TrieKept ==
  ASSUME Trie, rules' = rules, nodes' = nodes, api_base' = api_base, phase' = phase,
         req' = req \/ req' = NoRequest
  PROVE  Trie'
<1>1. Table' = Table /\ NoRequest' = NoRequest
  BY DEF Table, NoRequest, NoParams
<1>2. req' = req => TrieUrl(req.url)' = TrieUrl(req.url)
  BY DEF TrieUrl
<1>3. PICK sp : /\ Holds(nodes, sp, phase, Table)
                /\ req # NoRequest =>
                     \E f : Found(nodes, sp, TrieUrl(req.url), req.index, req.decoded, f)
  BY DEF Trie
<1>4. Holds(nodes', sp, phase', Table')
  BY <1>1, <1>3
<1>5. req' # NoRequest' =>
        \E f : Found(nodes', sp, TrieUrl(req.url)', req'.index, req'.decoded, f)
  BY <1>1, <1>2, <1>3
<1> QED
  BY <1>4, <1>5 DEF Trie

LEMMA HandleKeeps ==
  ASSUME IInv, Handle
  PROVE  IInv'
<1>1. /\ phase = "serving" /\ req # NoRequest /\ out = "none" /\ rules' = rules
      /\ nodes' = nodes /\ api_base' = api_base /\ phase' = phase /\ req' = req
  BY DEF Handle
<1>2. Course /\ Trie
  BY DEF IInv
<1>3. PICK rule : rule = RuleOf(rules, req.index)
  OBVIOUS
<1>4. out' = IF req.method \notin rule.methods THEN "404"
             ELSE IF Short(req.decoded, rule.pattern) THEN "500" ELSE "called"
  BY <1>3, NoParamsFacts DEF Handle, RuleOf, Short
<1>5. NoRequest' = NoRequest
  BY DEF NoRequest, NoParams
<1>6. /\ req'.index >= FirstRule /\ req'.url \in Urls /\ req' # NoRequest'
      /\ rule = RuleOf(rules', req'.index) /\ req'.decoded = req.decoded
  BY <1>1, <1>2, <1>3, <1>5 DEF Course
<1>7. /\ out' \in {"404", "500", "called"}
      /\ out' = "called" => ~Short(req.decoded, rule.pattern)
      /\ out' = "500" => Short(req.decoded, rule.pattern)
  BY <1>4
<1>8. Course'
  BY <1>1, <1>6, <1>7 DEF Course
<1>9. Trie'
  BY <1>1, <1>2, TrieKept
<1> QED
  BY <1>1, <1>7, <1>8, <1>9 DEF IInv

LEMMA NextRequestKeeps ==
  ASSUME IInv, NextRequest
  PROVE  IInv'
<1>1. /\ phase = "serving" /\ req' = NoRequest /\ out' = "none" /\ rules' = rules
      /\ nodes' = nodes /\ api_base' = api_base /\ phase' = phase
  BY DEF NextRequest
<1>2. req' = NoRequest'
  BY <1>1 DEF NoRequest, NoParams
<1>3. Course'
  BY <1>1, <1>2 DEF Course
<1>4. Trie'
  BY <1>1, TrieKept DEF IInv
<1> QED
  BY <1>1, <1>3, <1>4 DEF IInv

LEMMA NextIInv ==
  IInv /\ [Next]_vars => IInv'
<1> SUFFICES ASSUME IInv, [Next]_vars PROVE IInv'
  OBVIOUS
<1>1. CASE \E rule \in RuleMenu : AddRule(rule)
  BY <1>1, AddRuleKeeps
<1>2. CASE Validate
  BY <1>2, ValidateKeeps
<1>3. CASE \E url \in Urls, method \in Method : Before(url, method)
  BY <1>3, BeforeKeeps
<1>4. CASE Handle
  BY <1>4, HandleKeeps
<1>5. CASE NextRequest
  BY <1>5, NextRequestKeeps
<1>6. CASE UNCHANGED vars
  <2>1. /\ rules' = rules /\ nodes' = nodes /\ api_base' = api_base /\ phase' = phase
        /\ req' = req /\ out' = out
    BY <1>6 DEF vars
  <2>2. Trie'
    BY <2>1, TrieKept DEF IInv
  <2>3. Course'
    <3>1. NoRequest' = NoRequest
      BY DEF NoRequest, NoParams
    <3> QED
      BY <2>1, <3>1 DEF IInv, Course
  <2> QED
    BY <2>1, <2>2, <2>3 DEF IInv
<1> QED
  BY <1>1, <1>2, <1>3, <1>4, <1>5, <1>6 DEF Next

LEMMA Invariance ==
  Spec => []IInv
BY InitIInv, NextIInv, PTL DEF Spec

-----------------------------------------------------------------------------
(* What the invariant says of the router.                                  *)

LEMMA TypesHold ==
  IInv => TypeOK
<1> SUFFICES ASSUME IInv PROVE TypeOK
  OBVIOUS
<1>1. /\ phase \in {"config", "serving", "thrown", "dead"}
      /\ out \in {"none", "404", "500", "called"} /\ Len(rules) <= MaxRules
      /\ Indexed(nodes, Len(rules))
  BY DEF IInv
<1>2. PICK sp : Good(nodes, sp)
  BY DEF IInv, Trie, Holds
<1>3. DOMAIN nodes = 1 .. Len(nodes) /\ \A i \in 1 .. Len(nodes) : nodes[i] \in Node
  BY <1>2 DEF Good, Typed
<1>4. ASSUME NEW i \in DOMAIN nodes, NEW k \in Kids(nodes, i) \cup ParamKids(nodes, i)
      PROVE  k \in i + 1 .. Len(nodes)
  <2>1. nodes[i] \in Node /\ i \in 1 .. Len(nodes)
    BY <1>3
  <2>2. \E h \in Labels(nodes[i]) : k = Target(nodes[i], h)
    <3>1. CASE k \in Kids(nodes, i)
      <4>1. PICK h \in DOMAIN nodes[i].children : k = nodes[i].children[h]
        BY <3>1 DEF Kids, Range
      <4> QED
        BY <2>1, <4>1, LabelFacts
    <3>2. CASE k \in ParamKids(nodes, i)
      <4>1. nodes[i].param \in [ParamType -> Nat]
        BY <2>1, NodeFacts
      <4>2. PICK t \in ParamType : k = nodes[i].param[t] /\ k # 0
        BY <3>2, <4>1 DEF ParamKids, Range
      <4>3. <<t>> \in Labels(nodes[i]) /\ Target(nodes[i], <<t>>) = k
        BY <2>1, <4>2, LabelFacts
      <4> QED
        BY <4>3
    <3> QED
      BY <1>4, <3>1, <3>2
  <2> QED
    BY <1>2, <2>1, <2>2 DEF Good, Edges
<1> QED
  BY <1>1, <1>3, <1>4 DEF TypeOK, Indexed

LEMMA TrieIsTable ==
  IInv => TrieSpells
<1> SUFFICES ASSUME IInv, phase \in {"config", "serving"} PROVE Spelled(nodes) = Table
  BY DEF TrieSpells
<1>1. PICK sp : Holds(nodes, sp, phase, Table)
  BY DEF IInv, Trie
<1>2. Good(nodes, sp) /\ Entries(nodes, sp) = Table
  BY <1>1 DEF Holds
<1> QED
  BY <1>2, SpelledIs

(* The facts of a request that was looked up.                              *)
LEMMA RequestFacts ==
  ASSUME IInv, req # NoRequest
  PROVE  /\ TrieUrl(req.url) \in Url
         /\ \E sp, f : /\ Good(nodes, sp) /\ Entries(nodes, sp) = Table
                       /\ Used(nodes, sp, Table)
                       /\ Found(nodes, sp, TrieUrl(req.url), req.index, req.decoded, f)
<1>1. phase # "thrown" /\ req.url \in Urls /\ api_base \in Url
  BY DEF IInv, Course
<1>2. PICK sp, f : /\ Holds(nodes, sp, phase, Table)
                   /\ Found(nodes, sp, TrieUrl(req.url), req.index, req.decoded, f)
  BY DEF IInv, Trie
<1> QED
  BY <1>1, <1>2, TrieUrlIsUrl DEF Holds

LEMMA BestIsFound ==
  IInv => BestRule
<1> SUFFICES ASSUME IInv, req # NoRequest PROVE BestRule
  BY DEF BestRule
<1>1. PICK sp, f : /\ Good(nodes, sp) /\ Entries(nodes, sp) = Table
                   /\ Found(nodes, sp, TrieUrl(req.url), req.index, req.decoded, f)
  BY RequestFacts
<1>2. PICK url : url = TrieUrl(req.url)
  OBVIOUS
<1>3. /\ f \in Res /\ f.index = req.index
      /\ Answer(nodes, sp, url, 1 .. Len(nodes), NoParams, NoParams, f)
  BY <1>1, <1>2 DEF Found
<1>4. f.index = IF Fitting(Table, url) = {} THEN 0 ELSE Min(Fitting(Table, url))
  <2>1. LET F == Fitting(Entries(nodes, sp), url)
        IN  f.index = IF F = {} THEN 0 ELSE Min(F)
    BY <1>1, <1>3, AnswerIsBest
  <2> QED
    BY <1>1, <2>1
<1> QED
  BY <1>2, <1>3, <1>4 DEF BestRule, Fitting

(* The rule of a request and its node.                                     *)
LEMMA RuleGiven ==
  ASSUME IInv, req # NoRequest, req.index >= FirstRule
  PROVE  \E sp, f, j :
           /\ Good(nodes, sp) /\ Used(nodes, sp, Table)
           /\ Given(nodes, sp, TrieUrl(req.url), f, j) /\ f.decoded = req.decoded
           /\ sp[j] = RuleOf(rules, req.index).pattern
<1>1. PICK sp, f : /\ Good(nodes, sp) /\ Entries(nodes, sp) = Table
                   /\ Used(nodes, sp, Table)
                   /\ Found(nodes, sp, TrieUrl(req.url), req.index, req.decoded, f)
  BY RequestFacts
<1>2. PICK url : url = TrieUrl(req.url)
  OBVIOUS
<1>3. url \in Url /\ rules \in Seq(RuleMenu)
  BY <1>2, RequestFacts DEF IInv
<1>4. /\ f \in Res /\ f.index = req.index /\ f.decoded = req.decoded
      /\ Answer(nodes, sp, url, 1 .. Len(nodes), NoParams, NoParams, f)
  BY <1>1, <1>2 DEF Found
<1>5. f.index # 0
  BY <1>4 DEF FirstRule
<1>6. PICK j : Given(nodes, sp, url, f, j)
  BY <1>1, <1>3, <1>4, <1>5, AnswerGives
<1>7. j \in 1 .. Len(nodes) /\ nodes[j].rule_index = req.index /\ req.index # 0
  BY <1>4, <1>5, <1>6 DEF Given
<1>8. PICK e : e = [pattern |-> sp[j], index |-> req.index]
  OBVIOUS
<1>9. e \in TableOf(rules)
  BY <1>1, <1>7, <1>8, TableIs DEF Entries
<1>10. e.pattern = sp[j] /\ e.index = req.index
  BY <1>8
<1>11. e.pattern = rules[e.index - FirstRule + 1].pattern
  BY <1>3, <1>9, <1>10, TableFacts
<1>12. sp[j] = RuleOf(rules, req.index).pattern
  BY <1>10, <1>11 DEF RuleOf
<1> QED
  BY <1>1, <1>2, <1>4, <1>6, <1>12

LEMMA OwnAreGiven ==
  IInv => OwnParams
<1> SUFFICES ASSUME IInv, out = "called" PROVE OwnParams
  BY DEF OwnParams
<1>1. PICK p, url : p = RuleOf(rules, req.index).pattern /\ url = TrieUrl(req.url)
  OBVIOUS
<1>2. req # NoRequest /\ req.index >= FirstRule /\ ~Short(req.decoded, p)
  BY <1>1 DEF IInv, Course
<1>3. PICK sp, f, j : /\ Given(nodes, sp, url, f, j) /\ f.decoded = req.decoded
                      /\ sp[j] = p
  BY <1>1, <1>2, RuleGiven
<1>4. \A c \in {"int", "str"} :
        SubSeq(req.decoded[c], 1, Needs(p, c)) = Own(p, url)[c]
  BY <1>2, <1>3 DEF Given, Short
<1> QED
  BY <1>1, <1>4, NoParamsFacts DEF OwnParams, RuleOf, Own

LEMMA PrefixOf ==
  ASSUME NEW p \in Pattern, NEW q \in Pattern, Begins(p, q), p # << >>
  PROVE  \E n \in 1 .. Len(q) : SubSeq(q, 1, n) = p
<1>1. Len(p) \in Nat /\ Len(q) \in Nat /\ Len(p) <= Len(q) /\ Len(p) >= 1
  <2>1. Len(p) \in Nat \ {0}
    BY EmptySeq DEF Pattern
  <2> QED
    BY <2>1 DEF Begins, Pattern
<1>2. PICK n : n = Len(p)
  OBVIOUS
<1>3. n \in 1 .. Len(q) /\ 1 \in Int /\ n \in Int /\ 1 <= n
  BY <1>1, <1>2
<1>4. \A i \in 1 .. n : q[i] \in Char \cup ParamType
  BY <1>1, <1>2 DEF Pattern
<1>5. PICK r : r = SubSeq(q, 1, n)
  OBVIOUS
<1>6. /\ r \in Pattern /\ Len(r) = n - 1 + 1
      /\ \A i \in 1 .. n - 1 + 1 : r[i] = q[1 + i - 1]
  BY <1>3, <1>4, <1>5, SubSeqProperties DEF Pattern
<1>7. Len(r) = Len(p)
  BY <1>2, <1>3, <1>6
<1>8. ASSUME NEW i \in 1 .. Len(r) PROVE r[i] = p[i]
  <2>1. i \in 1 .. n - 1 + 1 /\ 1 + i - 1 = i /\ i \in 1 .. Len(p)
    BY <1>2, <1>3, <1>7
  <2>2. r[i] = q[i]
    BY <1>6, <2>1
  <2>3. p[i] = q[i]
    BY <2>1 DEF Begins
  <2> QED
    BY <2>2, <2>3
<1>9. r \in Pattern
  BY <1>6
<1>10. r = p
  BY <1>7, <1>8, <1>9, PatternEqual
<1> QED
  BY <1>3, <1>5, <1>10

LEMMA OtherFits ==
  IInv => UnambiguousServed
<1> SUFFICES ASSUME IInv, out = "500" PROVE UnambiguousServed
  BY DEF UnambiguousServed
<1>1. PICK p, url : p = RuleOf(rules, req.index).pattern /\ url = TrieUrl(req.url)
  OBVIOUS
<1>2. req # NoRequest /\ req.index >= FirstRule /\ Short(req.decoded, p)
  BY <1>1 DEF IInv, Course
<1>3. PICK sp, f, j : /\ Good(nodes, sp) /\ Used(nodes, sp, Table)
                      /\ Given(nodes, sp, url, f, j) /\ f.decoded = req.decoded
                      /\ sp[j] = p
  BY <1>1, <1>2, RuleGiven
<1>4. PICK k \in 2 .. Len(nodes) : sp[k] # p /\ Fits(sp[k], url)
  BY <1>2, <1>3 DEF Given, Short
<1>5. PICK t \in Table : Begins(sp[k], t.pattern)
  BY <1>3, <1>4 DEF Used
<1>6. t.pattern \in Pattern
  BY <1>5, TableIs, TableFacts DEF IInv
<1>7. sp[k] \in Pattern /\ sp[k] # << >>
  <2>1. /\ sp \in [1 .. Len(nodes) -> Pattern] /\ sp[1] = << >> /\ Len(nodes) \in Nat
        /\ \A i, l \in 1 .. Len(nodes) : sp[i] = sp[l] => i = l
    BY <1>3 DEF Good, Typed, Distinct
  <2>2. k \in 1 .. Len(nodes) /\ 1 \in 1 .. Len(nodes) /\ k # 1
    BY <1>4, <2>1
  <2> QED
    BY <2>1, <2>2
<1>8. PICK n \in 1 .. Len(t.pattern) : SubSeq(t.pattern, 1, n) = sp[k]
  BY <1>5, <1>6, <1>7, PrefixOf
<1>9. /\ SubSeq(t.pattern, 1, n) # p
      /\ Fits(SubSeq(t.pattern, 1, n), url)
  BY <1>4, <1>8
<1> QED
  BY <1>1, <1>5, <1>9 DEF UnambiguousServed, RuleOf

-----------------------------------------------------------------------------
(* Whatever rules are added and urls requested, the state of the router is *)
(* what routing.h declares: every index in the trie is one of m_rules, and *)
(* the nodes that new_node made are a tree, before and after               *)
(* optimize_node.                                                          *)
THEOREM TypeCorrect ==
  Spec => []TypeOK
BY Invariance, TypesHold, PTL

(* However many rules of whatever length share prefixes, Trie::add and the *)
(* merges of Trie::optimize_node neither lose, change nor invent one: the  *)
(* trie spells the patterns that were added, each with its index.          *)
THEOREM TrieSpelled ==
  Spec => []TrieSpells
BY Invariance, TrieIsTable, PTL

(* For every set of rules and every url, Trie::find backtracks to the rule *)
(* that was added first among all that fit the url, as a parser that knows *)
(* no trie decides it, and finds none only if none fits.                   *)
THEOREM BestRuleFound ==
  Spec => []BestRule
BY Invariance, BestIsFound, PTL

(* push and pop of Trie::find keep the branches of the search apart: the   *)
(* values a handler is called with are those of its own parameters.        *)
THEOREM OwnValues ==
  Spec => []OwnParams
BY Invariance, OwnAreGiven, PTL

(* Where Trie::find moves the values away from the rule it returns, the    *)
(* url also ended at another node: the request fails only if another       *)
(* pattern, or a beginning of one, takes the whole url.                    *)
THEOREM Unambiguous ==
  Spec => []UnambiguousServed
BY Invariance, OtherFits, PTL

=============================================================================
