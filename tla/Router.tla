------------------------------- MODULE Router -------------------------------
(***************************************************************************)
(* The router (src/suil/http/routing.cpp, routing.h:424-546): rules are    *)
(* added to a trie, the trie is optimized when the endpoint starts, and    *)
(* Connection asks it for the rule of every request (before) and then to   *)
(* call it (handle).                                                       *)
(*                                                                         *)
(* A url is a sequence of characters; a pattern is a url in which          *)
(* parameters stand among the characters.  "int" stands for the numeric    *)
(* types, which read a longest prefix alike; signs are left out.  The      *)
(* value of a parameter is the text it was read from.                      *)
(***************************************************************************)
EXTENDS Integers, Sequences, SequencesExt, FiniteSetsExt, Functions

CONSTANTS
  Char,          \* the characters of urls; "/" is one of them
  Digit,         \* those that are digits
  MaxDigits,     \* numbers with more digits are ERANGE
  Urls,          \* bound: the urls that are requested
  RuleMenu,      \* bound: the rules that may be added, [pattern, methods]
  MaxRules,      \* bound: how many of them are
  Bases,         \* what Router(base) may be called with
  FsUrl,         \* "/" SUIL_FILE_SERVER_ROUTE
  Method

ParamType == {"int", "str", "path"}
Pattern == Seq(Char \cup ParamType)

ASSUME CharAssumption ==
  /\ "/" \in Char /\ Digit \subseteq Char \ {"/"}
  /\ Char \cap ParamType = {}
ASSUME MenuAssumption ==
  /\ \A r \in RuleMenu : /\ r.pattern \in Pattern /\ r.pattern # << >>
                         /\ r.pattern[1] = "/" /\ r.methods \subseteq Method
  /\ Urls \subseteq Seq(Char) \ {<< >>}
  /\ Bases \cup {FsUrl} \subseteq Seq(Char)
ASSUME BoundsAssumption == MaxDigits \in Nat /\ MaxRules \in Nat

VARIABLES
  rules,         \* m_rules without its first two entries, which are null
  nodes,         \* m_trie.m_nodes; 0 is no node, 1 is the head
  api_base,
  phase,         \* "config", "serving", "thrown", "dead"
  req,           \* the request that is served, [url, method, index, decoded]
  out            \* its outcome: "none", "called", 404, 500

vars == <<rules, nodes, api_base, phase, req, out>>

REDIRECT_SLASH == 1          \* RULE_SPECIAL_REDIRECT_SLASH
FirstRule == 2               \* the index of rules[1] in m_rules

-----------------------------------------------------------------------------
(* The trie.                                                               *)

NewNode == [rule_index |-> 0, param |-> [t \in ParamType |-> 0],
            children |-> << >>]

Child(n, tok) ==
  IF tok \in ParamType THEN n.param[tok]
  ELSE IF <<tok>> \in DOMAIN n.children THEN n.children[<<tok>>] ELSE 0

WithChild(n, tok, k) ==
  IF tok \in ParamType THEN [n EXCEPT !.param[tok] = k]
  ELSE [n EXCEPT !.children =
          [f \in DOMAIN @ \cup {<<tok>>} |-> IF f = <<tok>> THEN k ELSE @[f]]]

(* A slip: the index is taken before the vector grows.                     *)
EarlyIndex(ns) == Len(ns)

(* Trie::new_node                                                          *)
NewIndex(ns) == Len(ns) + 1

(* One turn of the loop of Trie::add: to the node of a character or a      *)
(* parameter, which is made if it is not there.                            *)
Descend(w, tok) ==
  LET k == Child(w.nodes[w.at], tok)
  IN  IF k # 0 THEN [w EXCEPT !.at = k]
      ELSE [nodes |-> Append([w.nodes EXCEPT ![w.at] =
                        WithChild(@, tok, NewIndex(w.nodes))], NewNode),
            at    |-> NewIndex(w.nodes)]

Walk(ns, pattern) ==
  LET walk[n \in 0 .. Len(pattern)] ==
        IF n = 0 THEN [nodes |-> ns, at |-> 1]
        ELSE Descend(walk[n - 1], pattern[n])
  IN  walk[Len(pattern)]

(* Trie::add; ok is FALSE where it throws "handler already exists".        *)
Add(ns, pattern, index) ==
  LET w == Walk(ns, pattern)
  IN  [ok |-> w.nodes[w.at].rule_index = 0,
       nodes |-> [w.nodes EXCEPT ![w.at].rule_index = index]]

Simple(n) == n.rule_index = 0 /\ \A t \in ParamType : n.param[t] = 0

Kids(ns, i) == Range(ns[i].children)
ParamKids(ns, i) == Range(ns[i].param) \ {0}

(* The edges of node i and those of its children in one.                   *)
Merged(ns, i) ==
  LET c == ns[i].children
      Edges == (DOMAIN c) \X UNION {DOMAIN ns[k].children : k \in Kids(ns, i)}
      Real == {e \in Edges : e[2] \in DOMAIN ns[c[e[1]]].children}
  IN  [h \in {e[1] \o e[2] : e \in Real} |->
         LET e == CHOOSE e \in Real : e[1] \o e[2] = h
         IN  ns[c[e[1]]].children[e[2]]]

(* A slip: only the rules of the children keep them from being merged.     *)
MayMergeRuleless(ns, i) == \A k \in Kids(ns, i) : ns[k].rule_index = 0

MayMerge(ns, i) == \A k \in Kids(ns, i) : Simple(ns[k])

(* Trie::optimize_node; calls are the nodes it is still to be called for.  *)
(* A node that was merged is optimized again.  The subtrees of its          *)
(* parameters, which come first in the code, are not touched by that.      *)
OptimizeNode(o) ==
  LET ns == o.nodes
      i  == Head(o.calls)
  IN  IF o.calls = << >> THEN o
      ELSE IF Kids(ns, i) # {} /\ MayMerge(ns, i)
      THEN [o EXCEPT !.nodes = [ns EXCEPT ![i].children = Merged(ns, i)]]
      ELSE [o EXCEPT !.calls =
              SetToSeq(ParamKids(ns, i) \cup Kids(ns, i)) \o Tail(o.calls)]

(* Enough calls: a node is reached on one way only and loses a layer of    *)
(* children each time it is merged.                                        *)
Calls(ns) == Len(ns) * Len(ns)

Optimize(ns) ==
  LET opt[n \in 0 .. Calls(ns)] ==
        IF n = 0 THEN [nodes |-> ns, calls |-> <<1>>]
        ELSE OptimizeNode(opt[n - 1])
  IN  opt[Calls(ns)].nodes

-----------------------------------------------------------------------------
(* routing_params: {path} shares the container of {str}.                   *)
Container(t) == IF t = "path" THEN "str" ELSE t
Params == [{"int", "str"} -> Seq(Seq(Char))]
NoParams == [c \in {"int", "str"} |-> << >>]

Push(params, t, text) == [params EXCEPT ![Container(t)] = Append(@, text)]

(* A slip: the value of a branch that failed stays.                        *)
Keep(params, t) == params

(* params_container::pop does nothing when it is empty.                    *)
Pop(params, t) ==
  [params EXCEPT ![Container(t)] = IF @ = << >> THEN @ ELSE Front(@)]

(* How many characters of url from pos on are in C.                        *)
Run(url, pos, C) ==
  LET Stops == {i \in pos .. Len(url) : url[i] \notin C}
  IN  (IF Stops = {} THEN Len(url) + 1 ELSE Min(Stops)) - pos

(* How many characters a parameter takes at pos; 0: it does not match.     *)
Extent(url, pos, t) ==
  CASE t = "int"  -> LET d == Run(url, pos, Digit)
                     IN  IF d <= MaxDigits THEN d ELSE 0
    [] t = "str"  -> Run(url, pos, Char \ {"/"})
    [] t = "path" -> Len(url) + 1 - pos

(* The ways on from node n: by a parameter, or by a fragment.  A len of 0: *)
(* find does not go there.  No fragment of a node begins another one, so   *)
(* that at most one fits.                                                  *)
ByParam(n, url, pos, t) ==
  [node |-> n.param[t], type |-> t,
   len  |-> IF n.param[t] = 0 THEN 0 ELSE Extent(url, pos, t)]

FragmentsAt(n, url, pos) ==
  {f \in DOMAIN n.children : /\ pos + Len(f) - 1 <= Len(url)
                             /\ f = SubSeq(url, pos, pos + Len(f) - 1)}

ByFragment(n, url, pos) ==
  LET f == CHOOSE f \in FragmentsAt(n, url, pos) : TRUE
  IN  IF FragmentsAt(n, url, pos) = {}
      THEN [node |-> 0, type |-> "none", len |-> 0]
      ELSE [node |-> n.children[f], type |-> "none", len |-> Len(f)]

(* A slip: the last rule found is the one.                                 *)
Later(found, index) == index # 0

(* update_found                                                            *)
Better(found, index) == index # 0 /\ (found = 0 \/ found > index)

(* A call of Trie::find: the node, the position and the parameters, which  *)
(* are one object for the whole search.                                    *)
Args(ns, url) == [at : DOMAIN ns, pos : 1 .. Len(url) + 1, params : Params]

Enter(a, url, left, b) ==
  [at     |-> b.node,
   pos    |-> a.pos + b.len,
   params |-> IF b.type = "none" THEN left
              ELSE Push(left, b.type, SubSeq(url, a.pos, a.pos + b.len - 1))]

(* What acc was, and what the call for branch b returned.                  *)
Leave(acc, b, r) ==
  LET left == IF b.type = "none" THEN r.left ELSE Pop(r.left, b.type)
  IN  IF Better(acc.index, r.index) THEN [r EXCEPT !.left = left]
                                    ELSE [acc EXCEPT !.left = left]

Try(find, a, url, acc, b) ==
  IF b.len = 0 THEN acc
  ELSE Leave(acc, b, find[Enter(a, url, acc.left, b)])

(* The body of Trie::find.  The end of the url moves the parameters out of *)
(* their object (left is what remains), whether there is a rule or not.    *)
Search(find, ns, url, a) ==
  LET n == ns[a.at]
      To(acc, b) == Try(find, a, url, acc, b)
      none  == [index |-> 0, decoded |-> NoParams, left |-> a.params]
      int   == To(none, ByParam(n, url, a.pos, "int"))
      str   == To(int, ByParam(n, url, a.pos, "str"))
      path  == To(str, ByParam(n, url, a.pos, "path"))
  IN  IF a.pos > Len(url)
      THEN [index |-> n.rule_index, decoded |-> a.params, left |-> NoParams]
      ELSE To(path, ByFragment(n, url, a.pos))

Find(ns, url) ==
  LET find[a \in Args(ns, url)] == Search(find, ns, url, a)
  IN  find[[at |-> 1, pos |-> 1, params |-> NoParams]]

-----------------------------------------------------------------------------
NoRequest == [url |-> << >>, method |-> CHOOSE m \in Method : TRUE,
              index |-> 0, decoded |-> NoParams]

Init ==
  /\ rules = << >>
  /\ nodes = <<NewNode>>
  /\ api_base \in {IF b = <<"/">> THEN << >> ELSE b : b \in Bases}
  /\ phase = "config"
  /\ req = NoRequest
  /\ out = "none"

EndsInSlash(p) == Len(p) > 1 /\ Last(p) = "/"

(* internal_add_rule_object: a pattern that ends in a slash is added a     *)
(* second time without it.  What Trie::add throws ends the program.        *)
AddRule(rule) ==
  /\ phase = "config" /\ Len(rules) < MaxRules
  /\ rules' = Append(rules, rule)
  /\ \E a \in {Add(nodes, rule.pattern, Len(rules) + FirstRule)} :
     \E b \in {IF EndsInSlash(rule.pattern)
               THEN Add(a.nodes, Front(rule.pattern), REDIRECT_SLASH) ELSE a} :
       IF a.ok /\ b.ok THEN nodes' = b.nodes /\ UNCHANGED phase
       ELSE phase' = "thrown" /\ UNCHANGED nodes
  /\ UNCHANGED <<api_base, req, out>>

(* Router::validate, when the endpoint starts; the head is always simple.  *)
Validate ==
  /\ phase = "config"
  /\ phase' = "serving"
  /\ nodes' = Optimize(nodes)
  /\ UNCHANGED <<rules, api_base, req, out>>

(* What before() asks the trie for.  The root url it prepares is           *)
(* overwritten.                                                            *)
TrieUrl(url) ==
  IF IsPrefix(api_base, url)
  THEN SubSeq(url, Len(api_base) + 1, Len(url)) ELSE FsUrl

(* Router::before.  m_rules[REDIRECT_SLASH] is null, so that the directory *)
(* case ends the program where it reads the rule's attributes.             *)
Before(url, method) ==
  /\ phase = "serving" /\ req = NoRequest
  /\ \E f \in {Find(nodes, TrieUrl(url))} :
       /\ req' = [url |-> url, method |-> method, index |-> f.index,
                  decoded |-> f.decoded]
       /\ out' = IF f.index = 0 THEN "404" ELSE "none"
       /\ phase' = IF f.index = REDIRECT_SLASH THEN "dead" ELSE "serving"
  /\ UNCHANGED <<rules, nodes, api_base>>

Needs(pattern, c) ==
  Cardinality({i \in DOMAIN pattern :
                 pattern[i] \in ParamType /\ Container(pattern[i]) = c})

(* A slip: the last value cannot be read.                                  *)
Throws(decoded, pattern, c) == Len(decoded[c]) <= Needs(pattern, c)

(* params_container::operator[] throws for an index that is out of bounds. *)
OutOfBounds(decoded, pattern, c) == Len(decoded[c]) < Needs(pattern, c)

(* Router::handle, and the call helper of routing.h:56-117, which reads    *)
(* one value for every parameter of the rule.                              *)
Handle ==
  /\ phase = "serving" /\ req # NoRequest /\ out = "none"
  /\ LET rule == rules[req.index - FirstRule + 1]
     IN  out' = IF req.method \notin rule.methods THEN "404"
                ELSE IF \E c \in DOMAIN NoParams :
                          OutOfBounds(req.decoded, rule.pattern, c)
                THEN "500" ELSE "called"
  /\ UNCHANGED <<rules, nodes, api_base, phase, req>>

(* The connection goes on to its next request.                             *)
NextRequest ==
  /\ phase = "serving" /\ out # "none"
  /\ req' = NoRequest
  /\ out' = "none"
  /\ UNCHANGED <<rules, nodes, api_base, phase>>

Next ==
  \/ \E rule \in RuleMenu : AddRule(rule)
  \/ Validate
  \/ \E url \in Urls, method \in Method : Before(url, method)
  \/ Handle
  \/ NextRequest

Spec == Init /\ [][Next]_vars

-----------------------------------------------------------------------------
(* The reference: which urls a pattern fits, without a trie.  A parameter  *)
(* takes all it can.                                                       *)
Read(p, tok, url) ==
  IF tok \in ParamType
  THEN LET n == Extent(url, p.pos, tok)
       IN  [ok |-> p.ok /\ n > 0, pos |-> p.pos + n,
            params |-> Push(p.params, tok, SubSeq(url, p.pos, p.pos + n - 1))]
  ELSE [ok |-> p.ok /\ p.pos <= Len(url) /\ url[p.pos] = tok,
        pos |-> p.pos + 1, params |-> p.params]

Parse(pattern, url) ==
  LET parse[n \in 0 .. Len(pattern)] ==
        IF n = 0 THEN [ok |-> TRUE, pos |-> 1, params |-> NoParams]
        ELSE Read(parse[n - 1], pattern[n], url)
  IN  parse[Len(pattern)]

Fits(pattern, url) ==
  LET p == Parse(pattern, url) IN p.ok /\ p.pos = Len(url) + 1

(* The patterns in the trie and their indices.                             *)
Table ==
  {[pattern |-> rules[k].pattern, index |-> k - 1 + FirstRule] :
     k \in DOMAIN rules} \cup
  {[pattern |-> Front(rules[k].pattern), index |-> REDIRECT_SLASH] :
     k \in {j \in DOMAIN rules : EndsInSlash(rules[j].pattern)}}

(* The patterns that are spelled on the way from a node to a rule.         *)
After(p, entries) == {[pattern |-> p \o e.pattern, index |-> e.index] : e \in entries}

SpelledAt(spelled, n) ==
  (IF n.rule_index = 0 THEN {}
   ELSE {[pattern |-> << >>, index |-> n.rule_index]})
  \cup (UNION {After(<<t>>, spelled[n.param[t]]) :
                 t \in {u \in ParamType : n.param[u] # 0}})
  \cup (UNION {After(f, spelled[n.children[f]]) : f \in DOMAIN n.children})

Spelled(ns) ==
  LET spelled[i \in DOMAIN ns] == SpelledAt(spelled, ns[i])
  IN  spelled[1]

-----------------------------------------------------------------------------
(* The state is what routing.h declares; the trie is a tree, since the     *)
(* index of a child is larger than that of its parent (new_node).          *)
TypeOK ==
  /\ phase \in {"config", "serving", "thrown", "dead"}
  /\ out \in {"none", "404", "500", "called"}
  /\ Len(rules) <= MaxRules
  /\ \A i \in DOMAIN nodes :
       /\ nodes[i].rule_index \in 0 .. Len(rules) + 1
       /\ \A k \in Kids(nodes, i) \cup ParamKids(nodes, i) :
            k \in i + 1 .. Len(nodes)

(* However rules share prefixes, and after optimize_node has merged edges, *)
(* the trie spells the patterns that were added, each with its index.      *)
TrieSpells ==
  phase \in {"config", "serving"} => Spelled(nodes) = Table

(* A request is given to the first rule added that fits its url, and to    *)
(* none if none does; the directory case goes before all of them (find).   *)
BestRule ==
  req # NoRequest =>
    LET Fitting == {e.index : e \in {t \in Table :
                                       Fits(t.pattern, TrieUrl(req.url))}}
    IN  req.index = IF Fitting = {} THEN 0 ELSE Min(Fitting)

(* A handler that is called gets the values of its own parameters, never   *)
(* one that another branch of the search left behind (push and pop).       *)
OwnParams ==
  out = "called" =>
    LET rule == rules[req.index - FirstRule + 1]
        own == Parse(rule.pattern, TrieUrl(req.url)).params
    IN  \A c \in DOMAIN NoParams :
          SubSeq(req.decoded[c], 1, Needs(rule.pattern, c)) = own[c]

(* If no other pattern, nor a beginning of one, takes the whole url, the   *)
(* handler is called.  (Else its values may have been moved away, and the  *)
(* request fails: find, routing.cpp:72.)                                   *)
UnambiguousServed ==
  out = "500" =>
    LET pattern == rules[req.index - FirstRule + 1].pattern
    IN  \E t \in Table : \E n \in 1 .. Len(t.pattern) :
          /\ SubSeq(t.pattern, 1, n) # pattern
          /\ Fits(SubSeq(t.pattern, 1, n), TrieUrl(req.url))
=============================================================================
