------------------------- MODULE RouterTrie_proofs -------------------------
(***************************************************************************)
(* The trie of the router (module Router) spells the patterns it was given *)
(* whatever they are: lemmas about Trie::add and Trie::optimize_node.      *)
(*                                                                         *)
(* Every node i has a spelling sp[i], the tokens on the way to it.  Good   *)
(* states what the search relies on: edges extend spellings, no two nodes  *)
(* have the same one, no edge of a node begins another one, and from every *)
(* node an edge leads on towards every rule below it (Onward).  Trie::add  *)
(* keeps more (Letters, Grown), from which Good follows; one merge of      *)
(* optimize_node keeps Good, at whatever node and in whatever order.       *)
(***************************************************************************)
EXTENDS Router, SequenceTheorems, NaturalsInduction, WellFoundedInduction, TLAPS

(* p is q or a beginning of it.                                            *)
Begins(p, q) == Len(p) <= Len(q) /\ \A x \in 1 .. Len(p) : p[x] = q[x]

Fragment == Seq(Char) \ {<< >>}
Children == UNION {[D -> Nat] : D \in SUBSET Fragment}
Node == [rule_index : Nat, param : [ParamType -> Nat], children : Children]

(* The edges of a node: its fragments and its parameters.                  *)
Labels(n) == DOMAIN n.children \cup {<<t>> : t \in {u \in ParamType : n.param[u] # 0}}
Target(n, f) == IF f \in DOMAIN n.children THEN n.children[f] ELSE n.param[f[1]]

Typed(ns, sp) ==
  /\ ns \in Seq(Node) /\ Len(ns) >= 1
  /\ sp \in [1 .. Len(ns) -> Pattern] /\ sp[1] = << >>

Distinct(ns, sp) == \A i, j \in 1 .. Len(ns) : sp[i] = sp[j] => i = j

(* An edge leads to a later node, whose spelling it extends.               *)
Edges(ns, sp) ==
  \A i \in 1 .. Len(ns) : \A f \in Labels(ns[i]) :
    /\ Target(ns[i], f) \in i + 1 .. Len(ns)
    /\ sp[Target(ns[i], f)] = sp[i] \o f

PrefixFree(ns) ==
  \A i \in 1 .. Len(ns) : \A f, g \in Labels(ns[i]) : Begins(f, g) => f = g

(* From every node an edge leads on towards every rule below it.           *)
Onward(ns, sp) ==
  \A i, j \in 1 .. Len(ns) :
    ns[j].rule_index # 0 /\ i # j /\ Begins(sp[i], sp[j]) =>
      \E f \in Labels(ns[i]) : Begins(sp[i] \o f, sp[j])

Good(ns, sp) ==
  /\ Typed(ns, sp) /\ Distinct(ns, sp) /\ Edges(ns, sp)
  /\ PrefixFree(ns) /\ Onward(ns, sp)

(* Before the trie is optimized: edges of one token, towards all nodes.    *)
Letters(ns) == \A i \in 1 .. Len(ns) : \A f \in Labels(ns[i]) : Len(f) = 1

Grown(ns, sp) ==
  \A i, j \in 1 .. Len(ns) :
    Begins(sp[i], sp[j]) /\ i # j => <<sp[j][Len(sp[i]) + 1]>> \in Labels(ns[i])

Young(ns, sp) ==
  Typed(ns, sp) /\ Distinct(ns, sp) /\ Edges(ns, sp) /\ Letters(ns) /\ Grown(ns, sp)

(* The patterns in the trie with their indices, and nothing but those and  *)
(* their beginnings.                                                       *)
Entries(ns, sp) ==
  {[pattern |-> sp[i], index |-> ns[i].rule_index] :
     i \in {j \in 1 .. Len(ns) : ns[j].rule_index # 0}}

Used(ns, sp, table) ==
  \A i \in 2 .. Len(ns) : \E e \in table : Begins(sp[i], e.pattern)

-----------------------------------------------------------------------------
LEMMA LeastNat ==
  ASSUME NEW T, T \subseteq Nat, T # {}
  PROVE  \E m \in T : \A i \in T : m <= i
<1>1. IsWellFoundedOn(OpToRel(<, Nat), Nat)
  BY NatLessThanWellFounded
<1>2. PICK m \in T : \A i \in T : ~(<<i, m>> \in OpToRel(<, Nat))
  BY <1>1, WFMin
<1>3. \A i \in T : ~(i < m)
  BY <1>2 DEF OpToRel
<1> QED
  BY <1>3

(* Sequences of tokens.                                                    *)
LEMMA Concat ==
  ASSUME NEW p \in Pattern, NEW q \in Pattern
  PROVE  /\ p \o q \in Pattern
         /\ Len(p) \in Nat /\ Len(q) \in Nat /\ Len(p \o q) = Len(p) + Len(q)
         /\ \A x \in 1 .. Len(p) : (p \o q)[x] = p[x]
         /\ \A x \in 1 .. Len(q) : (p \o q)[Len(p) + x] = q[x]
<1>1. Len(p) \in Nat /\ Len(q) \in Nat
  BY DEF Pattern
<1>2. /\ p \o q \in Pattern
      /\ Len(p \o q) = Len(p) + Len(q)
      /\ \A i \in 1 .. Len(p) + Len(q) :
           (p \o q)[i] = IF i <= Len(p) THEN p[i] ELSE q[i - Len(p)]
  BY ConcatProperties DEF Pattern
<1>3. ASSUME NEW x \in 1 .. Len(q) PROVE (p \o q)[Len(p) + x] = q[x]
  <2>1. /\ Len(p) + x \in 1 .. Len(p) + Len(q) /\ ~(Len(p) + x <= Len(p))
        /\ (Len(p) + x) - Len(p) = x
    BY <1>1
  <2> QED
    BY <1>2, <2>1
<1> QED
  BY <1>1, <1>2, <1>3

LEMMA PatternEqual ==
  ASSUME NEW p \in Pattern, NEW q \in Pattern, Len(p) = Len(q),
         \A x \in 1 .. Len(p) : p[x] = q[x]
  PROVE  p = q
BY SeqEqual DEF Pattern

LEMMA ConcatAssoc ==
  ASSUME NEW p \in Pattern, NEW q \in Pattern, NEW r \in Pattern
  PROVE  (p \o q) \o r = p \o (q \o r)
BY ConcatAssociative DEF Pattern

LEMMA One ==
  ASSUME NEW tok \in Char \cup ParamType
  PROVE  <<tok>> \in Pattern /\ Len(<<tok>>) = 1 /\ <<tok>>[1] = tok
BY DEF Pattern

LEMMA BeginsConcat ==
  ASSUME NEW p \in Pattern, NEW q \in Pattern
  PROVE  Begins(p, p \o q)
BY Concat DEF Begins

LEMMA BeginsTrans ==
  ASSUME NEW p \in Pattern, NEW q \in Pattern, NEW r \in Pattern,
         Begins(p, q), Begins(q, r)
  PROVE  Begins(p, r)
<1>1. Len(p) \in Nat /\ Len(q) \in Nat /\ Len(r) \in Nat
  BY DEF Pattern
<1> QED
  BY <1>1 DEF Begins

LEMMA BeginsSame ==
  ASSUME NEW p \in Pattern, NEW q \in Pattern, Begins(p, q), Len(q) <= Len(p)
  PROVE  p = q
<1>1. Len(p) \in Nat /\ Len(q) \in Nat
  BY DEF Pattern
<1> QED
  BY <1>1, PatternEqual DEF Begins

(* Of two beginnings of a pattern the shorter begins the longer.           *)
LEMMA BeginsLinear ==
  ASSUME NEW p \in Pattern, NEW q \in Pattern, NEW r \in Pattern,
         Begins(p, r), Begins(q, r), Len(p) <= Len(q)
  PROVE  Begins(p, q)
<1>1. Len(p) \in Nat /\ Len(q) \in Nat /\ Len(r) \in Nat
  BY DEF Pattern
<1> QED
  BY <1>1 DEF Begins

LEMMA BeginsCancel ==
  ASSUME NEW p \in Pattern, NEW q \in Pattern, NEW r \in Pattern
  PROVE  Begins(p \o q, p \o r) <=> Begins(q, r)
<1>1. /\ Len(p) \in Nat /\ Len(q) \in Nat /\ Len(r) \in Nat
      /\ Len(p \o q) = Len(p) + Len(q) /\ Len(p \o r) = Len(p) + Len(r)
      /\ \A x \in 1 .. Len(p) : (p \o q)[x] = p[x] /\ (p \o r)[x] = p[x]
      /\ \A x \in 1 .. Len(q) : (p \o q)[Len(p) + x] = q[x]
      /\ \A x \in 1 .. Len(r) : (p \o r)[Len(p) + x] = r[x]
  BY Concat
<1>2. ASSUME Begins(p \o q, p \o r) PROVE Begins(q, r)
  <2>1. Len(q) <= Len(r)
    BY <1>1, <1>2 DEF Begins
  <2>2. ASSUME NEW x \in 1 .. Len(q) PROVE q[x] = r[x]
    <3>1. Len(p) + x \in 1 .. Len(p \o q) /\ x \in 1 .. Len(r)
      BY <1>1, <2>1
    <3> QED
      BY <1>1, <1>2, <3>1 DEF Begins
  <2> QED
    BY <2>1, <2>2 DEF Begins
<1>3. ASSUME Begins(q, r) PROVE Begins(p \o q, p \o r)
  <2>1. Len(p \o q) <= Len(p \o r)
    BY <1>1, <1>3 DEF Begins
  <2>2. ASSUME NEW x \in 1 .. Len(p \o q) PROVE (p \o q)[x] = (p \o r)[x]
    <3>1. CASE x <= Len(p)
      <4>1. x \in 1 .. Len(p)
        BY <1>1, <3>1
      <4> QED
        BY <1>1, <4>1
    <3>2. CASE ~(x <= Len(p))
      <4>1. PICK y \in 1 .. Len(q) : x = Len(p) + y
        <5>1. x - Len(p) \in 1 .. Len(q) /\ x = Len(p) + (x - Len(p))
          BY <1>1, <3>2
        <5> QED
          BY <5>1
      <4>2. y \in 1 .. Len(r) /\ q[y] = r[y]
        BY <1>1, <1>3 DEF Begins
      <4> QED
        BY <1>1, <4>1, <4>2
    <3> QED
      BY <3>1, <3>2
  <2> QED
    BY <2>1, <2>2 DEF Begins
<1> QED
  BY <1>2, <1>3

(* The rest of q behind p.                                                 *)
LEMMA BeginsRest ==
  ASSUME NEW p \in Pattern, NEW q \in Pattern, Begins(p, q)
  PROVE  \E r \in Pattern : q = p \o r
<1> DEFINE r == SubSeq(q, Len(p) + 1, Len(q))
<1>1. Len(p) \in Nat /\ Len(q) \in Nat /\ Len(p) <= Len(q)
  BY DEF Pattern, Begins
<1>2. \A i \in Len(p) + 1 .. Len(q) : q[i] \in Char \cup ParamType
  BY <1>1 DEF Pattern
<1>3. /\ r \in Pattern /\ Len(r) = Len(q) - Len(p)
      /\ \A i \in 1 .. Len(q) - Len(p) : r[i] = q[Len(p) + i]
  <2>1. Len(p) + 1 \in Int /\ Len(q) \in Int
    BY <1>1
  <2>2. /\ r \in Pattern
        /\ Len(r) = IF Len(p) + 1 <= Len(q) THEN Len(q) - (Len(p) + 1) + 1 ELSE 0
        /\ \A i \in 1 .. Len(q) - (Len(p) + 1) + 1 : r[i] = q[Len(p) + 1 + i - 1]
    BY <1>2, <2>1, SubSeqProperties DEF Pattern
  <2> HIDE DEF r
  <2>3. Len(r) = Len(q) - Len(p)
    BY <1>1, <2>2
  <2>4. ASSUME NEW i \in 1 .. Len(q) - Len(p) PROVE r[i] = q[Len(p) + i]
    <3>1. i \in 1 .. Len(q) - (Len(p) + 1) + 1 /\ Len(p) + 1 + i - 1 = Len(p) + i
      BY <1>1
    <3> QED
      BY <2>2, <3>1
  <2> QED
    BY <2>2, <2>3, <2>4
<1> HIDE DEF r
<1>4. /\ p \o r \in Pattern /\ Len(p \o r) = Len(q)
      /\ \A x \in 1 .. Len(p) : (p \o r)[x] = p[x]
      /\ \A x \in 1 .. Len(r) : (p \o r)[Len(p) + x] = r[x]
  <2>1. r \in Pattern
    BY <1>3
  <2>2. /\ p \o r \in Pattern /\ Len(p \o r) = Len(p) + Len(r)
        /\ \A x \in 1 .. Len(p) : (p \o r)[x] = p[x]
        /\ \A x \in 1 .. Len(r) : (p \o r)[Len(p) + x] = r[x]
    BY <2>1, Concat
  <2>3. Len(p) + Len(r) = Len(q)
    BY <1>1, <1>3
  <2> QED
    BY <2>2, <2>3
<1>5. ASSUME NEW x \in 1 .. Len(q) PROVE (p \o r)[x] = q[x]
  <2>1. CASE x <= Len(p)
    <3>1. x \in 1 .. Len(p)
      BY <1>1, <2>1
    <3> QED
      BY <1>4, <3>1 DEF Begins
  <2>2. CASE ~(x <= Len(p))
    <3>1. x - Len(p) \in 1 .. Len(r) /\ x - Len(p) \in 1 .. Len(q) - Len(p)
          /\ Len(p) + (x - Len(p)) = x
      BY <1>1, <1>3, <2>2
    <3> QED
      BY <1>3, <1>4, <3>1
  <2> QED
    BY <2>1, <2>2
<1>6. p \o r = q
  BY <1>4, <1>5, PatternEqual
<1> QED
  BY <1>3, <1>6

LEMMA BeginsMore ==
  ASSUME NEW p \in Pattern, NEW q \in Pattern, Begins(p, q), Len(p) # Len(q)
  PROVE  /\ q[Len(p) + 1] \in Char \cup ParamType
         /\ Begins(p \o <<q[Len(p) + 1]>>, q)
<1>1. Len(p) \in Nat /\ Len(q) \in Nat /\ Len(p) < Len(q)
  BY DEF Pattern, Begins
<1>2. q[Len(p) + 1] \in Char \cup ParamType
  BY <1>1 DEF Pattern
<1> DEFINE f == <<q[Len(p) + 1]>>
<1>3. f \in Pattern /\ Len(f) = 1 /\ f[1] = q[Len(p) + 1]
  BY <1>2, One
<1> HIDE DEF f
<1>4. /\ Len(p \o f) = Len(p) + 1
      /\ \A x \in 1 .. Len(p) : (p \o f)[x] = p[x]
      /\ \A x \in 1 .. Len(f) : (p \o f)[Len(p) + x] = f[x]
  <2>1. f \in Pattern
    BY <1>3
  <2>2. /\ Len(p \o f) = Len(p) + Len(f)
        /\ \A x \in 1 .. Len(p) : (p \o f)[x] = p[x]
        /\ \A x \in 1 .. Len(f) : (p \o f)[Len(p) + x] = f[x]
    BY <2>1, Concat
  <2> QED
    BY <1>3, <2>2
<1>5. ASSUME NEW x \in 1 .. Len(p) + 1 PROVE (p \o f)[x] = q[x]
  <2>1. x \in 1 .. Len(p) \/ x = Len(p) + 1
    BY <1>1
  <2>2. (p \o f)[Len(p) + 1] = q[Len(p) + 1]
    BY <1>3, <1>4
  <2> QED
    BY <1>4, <2>1, <2>2 DEF Begins
<1>6. Begins(p \o f, q)
  BY <1>1, <1>4, <1>5 DEF Begins
<1> QED
  BY <1>2, <1>6 DEF f

LEMMA ConcatOne ==
  ASSUME NEW p \in Pattern, NEW tok \in Char \cup ParamType
  PROVE  /\ p \o <<tok>> \in Pattern /\ Len(p) \in Nat
         /\ Len(p \o <<tok>>) = Len(p) + 1
         /\ (p \o <<tok>>)[Len(p) + 1] = tok
         /\ \A x \in 1 .. Len(p) : (p \o <<tok>>)[x] = p[x]
<1>1. PICK f : f = <<tok>>
  OBVIOUS
<1>2. f \in Pattern /\ Len(f) = 1 /\ f[1] = tok
  BY <1>1, One
<1>3. f \in Pattern
  BY <1>2
<1>4. /\ p \o f \in Pattern
      /\ Len(p) \in Nat /\ Len(f) \in Nat /\ Len(p \o f) = Len(p) + Len(f)
      /\ \A x \in 1 .. Len(p) : (p \o f)[x] = p[x]
      /\ \A x \in 1 .. Len(f) : (p \o f)[Len(p) + x] = f[x]
  BY <1>3, Concat
<1>5. 1 \in 1 .. Len(f)
  BY <1>2
<1>6. (p \o f)[Len(p) + 1] = tok
  BY <1>2, <1>4, <1>5
<1> QED
  BY <1>1, <1>2, <1>4, <1>6

LEMMA FragmentIsPattern ==
  Fragment \subseteq Pattern
<1> SUFFICES ASSUME NEW f \in Seq(Char) PROVE f \in Pattern
  BY DEF Fragment
<1>1. Char \subseteq Char \cup ParamType
  OBVIOUS
<1> QED
  BY <1>1, SeqMonotonic DEF Pattern

-----------------------------------------------------------------------------
(* The edges of a node.                                                    *)

LEMMA NodeFacts ==
  ASSUME NEW n \in Node
  PROVE  /\ n.rule_index \in Nat /\ n.param \in [ParamType -> Nat]
         /\ DOMAIN n.children \subseteq Fragment
         /\ n.children \in [DOMAIN n.children -> Nat]
<1>1. n.children \in Children
  BY DEF Node
<1>2. PICK D \in SUBSET Fragment : n.children \in [D -> Nat]
  BY <1>1 DEF Children
<1> QED
  BY <1>2 DEF Node

LEMMA IsNode ==
  ASSUME NEW r \in Nat, NEW p \in [ParamType -> Nat],
         NEW D \in SUBSET Fragment, NEW c \in [D -> Nat]
  PROVE  [rule_index |-> r, param |-> p, children |-> c] \in Node
<1>1. c \in Children
  BY DEF Children
<1> QED
  BY <1>1 DEF Node

LEMMA ParamLabel ==
  ASSUME NEW t \in ParamType
  PROVE  <<t>> \in Pattern /\ Len(<<t>>) = 1 /\ <<t>>[1] = t /\ <<t>> \notin Fragment
<1>1. t \notin Char
  BY CharAssumption
<1>2. <<t>> \in Pattern /\ Len(<<t>>) = 1 /\ <<t>>[1] = t
  BY One
<1>3. ASSUME <<t>> \in Seq(Char) PROVE FALSE
  <2>1. <<t>>[1] \in Char
    BY <1>2, <1>3, ElementOfSeq
  <2> QED
    BY <1>1, <1>2, <2>1
<1> QED
  BY <1>2, <1>3 DEF Fragment

LEMMA LabelFacts ==
  ASSUME NEW n \in Node
  PROVE  /\ \A f \in Labels(n) : f \in Pattern /\ Len(f) \in Nat /\ Len(f) >= 1
         /\ \A f \in Labels(n) :
              \/ f \in DOMAIN n.children
              \/ \E t \in ParamType : f = <<t>> /\ n.param[t] # 0
         /\ \A f \in DOMAIN n.children :
              f \in Labels(n) /\ Target(n, f) = n.children[f]
         /\ \A t \in ParamType : /\ <<t>> \in Labels(n) <=> n.param[t] # 0
                                 /\ Target(n, <<t>>) = n.param[t]
<1>1. DOMAIN n.children \subseteq Fragment
  BY NodeFacts
<1>2. ASSUME NEW f \in Fragment PROVE f \in Pattern /\ Len(f) \in Nat /\ Len(f) >= 1
  <2>1. f \in Pattern /\ Len(f) \in Nat
    BY FragmentIsPattern DEF Pattern
  <2>2. Len(f) # 0
    BY EmptySeq DEF Fragment
  <2> QED
    BY <2>1, <2>2
<1>3. ASSUME NEW t \in ParamType
      PROVE  /\ <<t>> \in Labels(n) <=> n.param[t] # 0
             /\ Target(n, <<t>>) = n.param[t]
  <2>1. <<t>> \notin DOMAIN n.children /\ <<t>>[1] = t
    BY <1>1, ParamLabel
  <2>2. Target(n, <<t>>) = n.param[t]
    BY <2>1 DEF Target
  <2>3. ASSUME NEW u \in ParamType, <<u>> = <<t>> PROVE u = t
    BY <2>1, <2>3, ParamLabel
  <2> QED
    BY <2>1, <2>2, <2>3 DEF Labels
<1>4. ASSUME NEW f \in Labels(n)
      PROVE  /\ f \in Pattern /\ Len(f) \in Nat /\ Len(f) >= 1
             /\ \/ f \in DOMAIN n.children
                \/ \E t \in ParamType : f = <<t>> /\ n.param[t] # 0
  <2>1. CASE f \in DOMAIN n.children
    BY <1>1, <1>2, <2>1
  <2>2. CASE \E t \in ParamType : f = <<t>> /\ n.param[t] # 0
    BY <2>2, ParamLabel
  <2> QED
    BY <2>1, <2>2 DEF Labels
<1>5. ASSUME NEW f \in DOMAIN n.children
      PROVE  f \in Labels(n) /\ Target(n, f) = n.children[f]
  BY DEF Labels, Target
<1> QED
  BY <1>3, <1>4, <1>5

LEMMA NewNodeFacts ==
  NewNode \in Node /\ Labels(NewNode) = {} /\ NewNode.rule_index = 0
<1>1. << >> \in [{} -> Nat]
  OBVIOUS
<1>2. [t \in ParamType |-> 0] \in [ParamType -> Nat]
  OBVIOUS
<1>3. NewNode \in Node
  BY <1>1, <1>2, IsNode DEF NewNode
<1>4. Labels(NewNode) = {}
  BY DEF Labels, NewNode
<1> QED
  BY <1>3, <1>4 DEF NewNode

(* Child and WithChild on a node whose edges have one token.               *)
LEMMA ChildFacts ==
  ASSUME NEW n \in Node, NEW tok \in Char \cup ParamType,
         \A f \in Labels(n) : Target(n, f) # 0
  PROVE  /\ Child(n, tok) # 0 <=> <<tok>> \in Labels(n)
         /\ Child(n, tok) # 0 => Child(n, tok) = Target(n, <<tok>>)
<1>1. CASE tok \in ParamType
  <2>1. Child(n, tok) = n.param[tok]
    BY <1>1 DEF Child
  <2> QED
    BY <1>1, <2>1, LabelFacts
<1>2. CASE tok \notin ParamType
  <2>1. tok \in Char
    BY <1>2
  <2>2. ASSUME NEW t \in ParamType, <<tok>> = <<t>> PROVE FALSE
    BY <1>2, <2>2, ParamLabel, One
  <2>3. <<tok>> \in Labels(n) <=> <<tok>> \in DOMAIN n.children
    BY <2>2, LabelFacts
  <2>4. Child(n, tok) = IF <<tok>> \in DOMAIN n.children THEN n.children[<<tok>>] ELSE 0
    BY <1>2 DEF Child
  <2>5. <<tok>> \in DOMAIN n.children => n.children[<<tok>>] = Target(n, <<tok>>)
    BY LabelFacts
  <2> QED
    BY <2>3, <2>4, <2>5
<1> QED
  BY <1>1, <1>2

LEMMA WithChildFacts ==
  ASSUME NEW n \in Node, NEW tok \in Char \cup ParamType, NEW k \in Nat, k # 0
  PROVE  LET m == WithChild(n, tok, k)
         IN  /\ m \in Node /\ m.rule_index = n.rule_index
             /\ Labels(m) = Labels(n) \cup {<<tok>>}
             /\ Target(m, <<tok>>) = k
             /\ \A f \in Labels(n) : f # <<tok>> => Target(m, f) = Target(n, f)
<1> DEFINE m == WithChild(n, tok, k)
<1>1. /\ n.rule_index \in Nat /\ n.param \in [ParamType -> Nat]
      /\ DOMAIN n.children \subseteq Fragment
      /\ n.children \in [DOMAIN n.children -> Nat]
      /\ n = [rule_index |-> n.rule_index, param |-> n.param, children |-> n.children]
  BY NodeFacts DEF Node
<1>2. CASE tok \in ParamType
  <2>1. m = [rule_index |-> n.rule_index, param |-> [n.param EXCEPT ![tok] = k],
             children |-> n.children]
    BY <1>1, <1>2 DEF WithChild
  <2> HIDE DEF m
  <2>2. [n.param EXCEPT ![tok] = k] \in [ParamType -> Nat]
    BY <1>1
  <2>3. m \in Node
    BY <1>1, <2>1, <2>2, IsNode
  <2>4. /\ m.rule_index = n.rule_index /\ m.children = n.children
        /\ \A u \in ParamType : m.param[u] = IF u = tok THEN k ELSE n.param[u]
    BY <1>1, <2>1
  <2>5. Labels(m) = Labels(n) \cup {<<tok>>}
    BY <1>2, <2>4 DEF Labels
  <2>6. Target(m, <<tok>>) = k
    BY <1>2, <2>3, <2>4, LabelFacts
  <2>7. ASSUME NEW f \in Labels(n), f # <<tok>> PROVE Target(m, f) = Target(n, f)
    <3>1. CASE f \in DOMAIN n.children
      BY <2>4, <3>1 DEF Target
    <3>2. CASE \E t \in ParamType : f = <<t>> /\ n.param[t] # 0
      BY <2>3, <2>4, <2>7, <3>2, LabelFacts
    <3> QED
      BY <3>1, <3>2, LabelFacts
  <2>8. /\ m \in Node /\ m.rule_index = n.rule_index
        /\ Labels(m) = Labels(n) \cup {<<tok>>}
        /\ Target(m, <<tok>>) = k
        /\ \A f \in Labels(n) : f # <<tok>> => Target(m, f) = Target(n, f)
    BY <2>3, <2>4, <2>5, <2>6, <2>7
  <2> QED
    BY <2>8 DEF m
<1>3. CASE tok \notin ParamType
  <2> DEFINE c == [f \in DOMAIN n.children \cup {<<tok>>} |->
                     IF f = <<tok>> THEN k ELSE n.children[f]]
  <2>1. m = [rule_index |-> n.rule_index, param |-> n.param, children |-> c]
    BY <1>1, <1>3 DEF WithChild
  <2> HIDE DEF m
  <2>2. <<tok>> \in Fragment
    <3>1. tok \in Char
      BY <1>3
    <3>2. <<tok>> \in Seq(Char) /\ <<tok>> # << >>
      BY <3>1
    <3> QED
      BY <3>2 DEF Fragment
  <2>3. DOMAIN n.children \cup {<<tok>>} \in SUBSET Fragment
    BY <1>1, <2>2
  <2>4. c \in [DOMAIN n.children \cup {<<tok>>} -> Nat]
    BY <1>1
  <2>5. m \in Node
    BY <1>1, <2>1, <2>3, <2>4, IsNode
  <2>6. /\ m.rule_index = n.rule_index /\ m.param = n.param
        /\ DOMAIN m.children = DOMAIN n.children \cup {<<tok>>}
        /\ m.children[<<tok>>] = k
        /\ \A f \in DOMAIN n.children : f # <<tok>> => m.children[f] = n.children[f]
    BY <2>1
  <2> HIDE DEF c
  <2>7. Labels(m) = Labels(n) \cup {<<tok>>}
    BY <2>6 DEF Labels
  <2>8. Target(m, <<tok>>) = k
    BY <2>6 DEF Target
  <2>9. ASSUME NEW f \in Labels(n), f # <<tok>> PROVE Target(m, f) = Target(n, f)
    BY <2>6, <2>9 DEF Target
  <2>10. /\ m \in Node /\ m.rule_index = n.rule_index
         /\ Labels(m) = Labels(n) \cup {<<tok>>}
         /\ Target(m, <<tok>>) = k
         /\ \A f \in Labels(n) : f # <<tok>> => Target(m, f) = Target(n, f)
    BY <2>5, <2>6, <2>7, <2>8, <2>9
  <2> QED
    BY <2>10 DEF m
<1> QED
  BY <1>2, <1>3

-----------------------------------------------------------------------------
(* A trie that is not yet optimized has what Good asks for.                *)
LEMMA YoungIsGood ==
  ASSUME NEW ns, NEW sp, Young(ns, sp)
  PROVE  Good(ns, sp)
<1>1. /\ Typed(ns, sp) /\ Distinct(ns, sp) /\ Edges(ns, sp)
      /\ Letters(ns) /\ Grown(ns, sp)
  BY DEF Young
<1>2. \A i \in 1 .. Len(ns) : ns[i] \in Node /\ sp[i] \in Pattern
  BY <1>1 DEF Typed
<1>3. PrefixFree(ns)
  <2> SUFFICES ASSUME NEW i \in 1 .. Len(ns), NEW f \in Labels(ns[i]),
                      NEW g \in Labels(ns[i]), Begins(f, g)
               PROVE  f = g
    BY DEF PrefixFree
  <2>1. f \in Pattern /\ g \in Pattern
    BY <1>2, LabelFacts
  <2>2. Len(f) = 1 /\ Len(g) = 1
    BY <1>1 DEF Letters
  <2> QED
    BY <2>1, <2>2, BeginsSame
<1>4. Onward(ns, sp)
  <2> SUFFICES ASSUME NEW i \in 1 .. Len(ns), NEW j \in 1 .. Len(ns), i # j,
                      Begins(sp[i], sp[j])
               PROVE  \E f \in Labels(ns[i]) : Begins(sp[i] \o f, sp[j])
    BY DEF Onward
  <2>1. Len(sp[i]) # Len(sp[j])
    BY <1>1, <1>2, BeginsSame DEF Distinct, Begins
  <2>2. Begins(sp[i] \o <<sp[j][Len(sp[i]) + 1]>>, sp[j])
    BY <1>2, <2>1, BeginsMore
  <2> QED
    BY <1>1, <2>2 DEF Grown
<1> QED
  BY <1>1, <1>3, <1>4 DEF Good

-----------------------------------------------------------------------------
(* The loops that Router states as recursive functions over 0 .. n: the    *)
(* one of Trie::add, the calls of optimize_node and the reference parser.  *)

Turn(loop, x, i) ==
  CASE loop.kind = "add"      -> Descend(x, loop.pattern[i])
    [] loop.kind = "optimize" -> OptimizeNode(x)
    [] loop.kind = "parse"    -> Read(x, loop.pattern[i], loop.url)

Turns(f, loop, b, n) ==
  /\ f = [i \in 0 .. n |-> f[i]]
  /\ f[0] = b
  /\ \A i \in 1 .. n : f[i] = Turn(loop, f[i - 1], i)

LEMMA LoopRuns ==
  ASSUME NEW loop, NEW b, NEW n \in Nat
  PROVE  \E f : Turns(f, loop, b, n)
<1> DEFINE T == {m \in Nat : ~ \E f : Turns(f, loop, b, m)}
<1> SUFFICES ASSUME T # {} PROVE FALSE
  OBVIOUS
<1>1. PICK m \in T : \A i \in T : m <= i
  BY LeastNat
<1>2. CASE m = 0
  <2>1. Turns([i \in 0 .. 0 |-> b], loop, b, 0)
    BY DEF Turns
  <2> QED
    BY <1>1, <1>2, <2>1
<1>3. CASE m # 0
  <2>1. m - 1 \in Nat /\ m - 1 \notin T /\ m \in Nat
    BY <1>1, <1>3
  <2>2. PICK f : Turns(f, loop, b, m - 1)
    BY <2>1
  <2> DEFINE g == [i \in 0 .. m |-> IF i < m THEN f[i] ELSE Turn(loop, f[m - 1], m)]
  <2>3. g = [i \in 0 .. m |-> g[i]] /\ g[0] = b
    BY <2>1, <2>2, <1>3 DEF Turns
  <2>4. ASSUME NEW i \in 1 .. m PROVE g[i] = Turn(loop, g[i - 1], i)
    <3>0. i - 1 \in 0 .. m /\ i - 1 < m /\ g[i - 1] = f[i - 1]
      BY <2>1
    <3>1. CASE i = m
      BY <2>1, <3>0, <3>1
    <3>2. CASE i # m
      <4>1. i \in 1 .. m - 1 /\ i < m /\ i \in 0 .. m
        BY <2>1, <3>2
      <4>2. g[i] = f[i]
        BY <4>1
      <4> QED
        BY <2>2, <3>0, <4>1, <4>2 DEF Turns
    <3> QED
      BY <3>1, <3>2
  <2>5. Turns(g, loop, b, m)
    BY <2>3, <2>4 DEF Turns
  <2> QED
    BY <1>1, <2>5
<1> QED
  BY <1>2, <1>3

(* Such a run is what the recursive definition chooses.                    *)
LEMMA TurnsFixed ==
  ASSUME NEW f, NEW loop, NEW b, NEW n \in Nat
  PROVE  Turns(f, loop, b, n) <=>
           f = [i \in 0 .. n |-> IF i = 0 THEN b ELSE Turn(loop, f[i - 1], i)]
<1> DEFINE step(i) == IF i = 0 THEN b ELSE Turn(loop, f[i - 1], i)
<1>1. ASSUME Turns(f, loop, b, n) PROVE f = [i \in 0 .. n |-> step(i)]
  <2>1. ASSUME NEW i \in 0 .. n PROVE f[i] = step(i)
    <3>1. i = 0 \/ i \in 1 .. n
      OBVIOUS
    <3> QED
      BY <1>1, <3>1 DEF Turns
  <2>2. f = [i \in 0 .. n |-> f[i]]
    BY <1>1 DEF Turns
  <2> HIDE DEF step
  <2> QED
    BY <2>1, <2>2
<1>2. ASSUME f = [i \in 0 .. n |-> step(i)] PROVE Turns(f, loop, b, n)
  <2> HIDE DEF step
  <2>1. f = [i \in 0 .. n |-> f[i]] /\ \A i \in 0 .. n : f[i] = step(i)
    BY <1>2
  <2>2. 0 \in 0 .. n /\ \A i \in 1 .. n : i \in 0 .. n /\ i # 0
    OBVIOUS
  <2> QED
    BY <2>1, <2>2 DEF Turns, step
<1> QED
  BY <1>1, <1>2

AddLoop(pattern) == [kind |-> "add", pattern |-> pattern]

LEMMA WalkRuns ==
  ASSUME NEW ns, NEW pattern, Len(pattern) \in Nat
  PROVE  \E f : /\ f[0] = [nodes |-> ns, at |-> 1]
                /\ \A n \in 1 .. Len(pattern) : f[n] = Descend(f[n - 1], pattern[n])
                /\ Walk(ns, pattern) = f[Len(pattern)]
<1> DEFINE b == [nodes |-> ns, at |-> 1]
           R(f) == f = [n \in 0 .. Len(pattern) |->
                          IF n = 0 THEN b ELSE Descend(f[n - 1], pattern[n])]
           walk == CHOOSE f : R(f)
<1>1. \A x, n : Turn(AddLoop(pattern), x, n) = Descend(x, pattern[n])
  BY DEF Turn, AddLoop
<1>2. ASSUME NEW f PROVE R(f) <=> Turns(f, AddLoop(pattern), b, Len(pattern))
  <2> HIDE DEF b
  <2>1. Turns(f, AddLoop(pattern), b, Len(pattern)) <=>
          f = [n \in 0 .. Len(pattern) |->
                 IF n = 0 THEN b ELSE Turn(AddLoop(pattern), f[n - 1], n)]
    BY TurnsFixed
  <2> QED
    BY <1>1, <2>1
<1> HIDE DEF b
<1>3. \E f : R(f)
  BY <1>2, LoopRuns
<1>4. R(walk)
  BY <1>3
<1>5. Walk(ns, pattern) = walk[Len(pattern)]
  BY DEF Walk, b
<1>6. Turns(walk, AddLoop(pattern), b, Len(pattern))
  BY <1>2, <1>4
<1> HIDE DEF walk
<1> QED
  BY <1>1, <1>5, <1>6 DEF Turns, b

-----------------------------------------------------------------------------
(* Trie::add.                                                              *)

(* ns2 is ns with more nodes, which begin q and have no rule.              *)
Grew(ns, sp, ns2, sp2, q) ==
  /\ Len(ns) <= Len(ns2)
  /\ \A j \in 1 .. Len(ns) :
       sp2[j] = sp[j] /\ ns2[j].rule_index = ns[j].rule_index
  /\ \A j \in Len(ns) + 1 .. Len(ns2) :
       ns2[j].rule_index = 0 /\ Begins(sp2[j], q)

(* No spelling begins with the one of i and a token that i has no edge for.*)
LEMMA NotSpelled ==
  ASSUME NEW ns, NEW sp, Young(ns, sp), NEW i \in 1 .. Len(ns),
         NEW tok \in Char \cup ParamType, <<tok>> \notin Labels(ns[i]),
         NEW j \in 1 .. Len(ns)
  PROVE  ~Begins(sp[i] \o <<tok>>, sp[j])
<1> SUFFICES ASSUME Begins(sp[i] \o <<tok>>, sp[j]) PROVE FALSE
  OBVIOUS
<1>1. /\ sp[i] \in Pattern /\ sp[j] \in Pattern
      /\ <<tok>> \in Pattern /\ Len(<<tok>>) = 1 /\ <<tok>>[1] = tok
  BY One DEF Young, Typed
<1>2. /\ sp[i] \o <<tok>> \in Pattern /\ Len(sp[i]) \in Nat
      /\ Len(sp[i] \o <<tok>>) = Len(sp[i]) + 1
      /\ (sp[i] \o <<tok>>)[Len(sp[i]) + 1] = tok
  BY <1>1, ConcatOne
<1>3. Begins(sp[i], sp[j])
  BY <1>1, <1>2, BeginsConcat, BeginsTrans
<1>4. i # j
  BY <1>1, <1>2 DEF Begins
<1>5. <<sp[j][Len(sp[i]) + 1]>> \in Labels(ns[i])
  BY <1>3, <1>4 DEF Young, Grown
<1>6. sp[j][Len(sp[i]) + 1] = tok
  BY <1>2 DEF Begins
<1> QED
  BY <1>5, <1>6

DescendsTo(ns, sp, i, tok, k) ==
  /\ Descend([nodes |-> ns, at |-> i], tok) = [nodes |-> ns, at |-> k]
  /\ k \in 1 .. Len(ns) /\ sp[k] = sp[i] \o <<tok>>

LEMMA DescendFinds ==
  ASSUME NEW ns, NEW sp, Young(ns, sp), NEW i \in 1 .. Len(ns),
         NEW tok \in Char \cup ParamType, <<tok>> \in Labels(ns[i])
  PROVE  DescendsTo(ns, sp, i, tok, Target(ns[i], <<tok>>))
<1>1. Len(ns) \in Nat /\ ns[i] \in Node
  BY DEF Young, Typed
<1>2. \A f \in Labels(ns[i]) : /\ Target(ns[i], f) \in i + 1 .. Len(ns)
                               /\ sp[Target(ns[i], f)] = sp[i] \o f
  BY DEF Young, Edges
<1> DEFINE k == Target(ns[i], <<tok>>)
<1>3. Child(ns[i], tok) = k /\ k # 0
  <2>1. \A f \in Labels(ns[i]) : Target(ns[i], f) # 0
    BY <1>1, <1>2
  <2> QED
    BY <1>1, <2>1, ChildFacts
<1>4. k \in i + 1 .. Len(ns) /\ sp[k] = sp[i] \o <<tok>>
  BY <1>2
<1> HIDE DEF k
<1>5. Descend([nodes |-> ns, at |-> i], tok) = [nodes |-> ns, at |-> k]
  BY <1>3 DEF Descend
<1>6. k \in 1 .. Len(ns)
  BY <1>1, <1>4
<1> QED
  BY <1>4, <1>5, <1>6 DEF k, DescendsTo

LEMMA DescendAdds ==
  ASSUME NEW ns, NEW sp, Young(ns, sp), NEW i \in 1 .. Len(ns),
         NEW tok \in Char \cup ParamType, <<tok>> \notin Labels(ns[i])
  PROVE  \E ns2, sp2, k :
           /\ Descend([nodes |-> ns, at |-> i], tok) = [nodes |-> ns2, at |-> k]
           /\ Young(ns2, sp2) /\ k \in 1 .. Len(ns2)
           /\ sp2[k] = sp[i] \o <<tok>>
           /\ Grew(ns, sp, ns2, sp2, sp[i] \o <<tok>>)
<1> DEFINE k == Len(ns) + 1
           n == WithChild(ns[i], tok, k)
           ns1 == [ns EXCEPT ![i] = n]
           ns2 == Append(ns1, NewNode)
           q == sp[i] \o <<tok>>
           sp2 == [j \in 1 .. k |-> IF j = k THEN q ELSE sp[j]]
<1>1. /\ Typed(ns, sp) /\ Distinct(ns, sp) /\ Edges(ns, sp)
      /\ Letters(ns) /\ Grown(ns, sp)
  BY DEF Young
<1>2. /\ ns \in Seq(Node) /\ Len(ns) \in Nat /\ Len(ns) >= 1
      /\ sp \in [1 .. Len(ns) -> Pattern] /\ sp[1] = << >>
      /\ \A j \in 1 .. Len(ns) : ns[j] \in Node /\ sp[j] \in Pattern
  BY <1>1 DEF Typed
<1>3. <<tok>> \in Pattern /\ Len(<<tok>>) = 1 /\ <<tok>>[1] = tok
  BY One
<1>4. /\ q \in Pattern /\ Len(sp[i]) \in Nat /\ Len(q) = Len(sp[i]) + 1
      /\ q[Len(sp[i]) + 1] = tok
      /\ \A x \in 1 .. Len(sp[i]) : q[x] = sp[i][x]
  BY <1>2, <1>3, Concat
<1>5. /\ n \in Node /\ n.rule_index = ns[i].rule_index
      /\ Labels(n) = Labels(ns[i]) \cup {<<tok>>}
      /\ Target(n, <<tok>>) = k
      /\ \A f \in Labels(ns[i]) : Target(n, f) = Target(ns[i], f)
  <2>1. k \in Nat /\ k # 0 /\ ns[i] \in Node
    BY <1>2
  <2> HIDE DEF k
  <2>2. /\ n \in Node /\ n.rule_index = ns[i].rule_index
        /\ Labels(n) = Labels(ns[i]) \cup {<<tok>>}
        /\ Target(n, <<tok>>) = k
        /\ \A f \in Labels(ns[i]) : f # <<tok>> => Target(n, f) = Target(ns[i], f)
    BY <2>1, WithChildFacts
  <2> HIDE DEF n
  <2> QED
    BY <2>2
<1>6. Descend([nodes |-> ns, at |-> i], tok) = [nodes |-> ns2, at |-> k]
  <2>1. \A f \in Labels(ns[i]) : Target(ns[i], f) # 0
    <3>1. \A f \in Labels(ns[i]) : Target(ns[i], f) \in i + 1 .. Len(ns)
      BY <1>1 DEF Edges
    <3> QED
      BY <1>2, <3>1
  <2>2. Child(ns[i], tok) = 0
    BY <1>2, <2>1, ChildFacts
  <2> QED
    BY <2>2 DEF Descend, NewIndex
<1>7. /\ ns2 \in Seq(Node) /\ Len(ns2) = k /\ ns2[k] = NewNode
      /\ \A j \in 1 .. Len(ns) : ns2[j] = IF j = i THEN n ELSE ns[j]
  <2> HIDE DEF n
  <2>1. /\ ns1 \in Seq(Node) /\ Len(ns1) = Len(ns)
        /\ \A j \in 1 .. Len(ns) : ns1[j] = IF j = i THEN n ELSE ns[j]
    BY <1>2, <1>5, ExceptSeq
  <2> HIDE DEF ns1
  <2>2. /\ ns2 \in Seq(Node) /\ Len(ns2) = Len(ns1) + 1
        /\ \A j \in 1 .. Len(ns1) : ns2[j] = ns1[j]
        /\ ns2[Len(ns1) + 1] = NewNode
    BY <2>1, NewNodeFacts, AppendProperties
  <2> QED
    BY <2>1, <2>2
<1>8. /\ sp2 \in [1 .. k -> Pattern] /\ sp2[k] = q
      /\ \A j \in 1 .. Len(ns) : sp2[j] = sp[j]
  <2> HIDE DEF q
  <2> QED
    BY <1>2, <1>4
<1>9. \A j \in 1 .. Len(ns) : ~Begins(q, sp[j])
  BY NotSpelled
<1> HIDE DEF n, ns1, ns2, q, sp2
<1>10. \A j \in 1 .. k : j \in 1 .. Len(ns) \/ j = k
  BY <1>2
<1>11. \A j \in 1 .. Len(ns) : Labels(ns[j]) \subseteq Labels(ns2[j])
  BY <1>5, <1>7
<1>12. Typed(ns2, sp2)
  <2>1. Len(ns2) >= 1 /\ sp2[1] = << >>
    BY <1>2, <1>7, <1>8
  <2> QED
    BY <1>7, <1>8, <2>1 DEF Typed
<1>13. Distinct(ns2, sp2)
  <2>1. \A j \in 1 .. Len(ns) : sp[j] # q
    <3>1. Begins(q, q)
      BY <1>4 DEF Begins
    <3> QED
      BY <1>9, <3>1
  <2> SUFFICES ASSUME NEW a \in 1 .. k, NEW c \in 1 .. k, sp2[a] = sp2[c]
               PROVE  a = c
    BY <1>7 DEF Distinct
  <2> QED
    BY <1>1, <1>8, <1>10, <2>1 DEF Distinct
<1>14. Edges(ns2, sp2)
  <2> SUFFICES ASSUME NEW a \in 1 .. k, NEW f \in Labels(ns2[a])
               PROVE  /\ Target(ns2[a], f) \in a + 1 .. k
                      /\ sp2[Target(ns2[a], f)] = sp2[a] \o f
    BY <1>7 DEF Edges
  <2>1. a # k
    BY <1>7, NewNodeFacts
  <2>2. a \in 1 .. Len(ns)
    BY <1>10, <2>1
  <2>3. ASSUME f \in Labels(ns[a]), Target(ns2[a], f) = Target(ns[a], f)
        PROVE  /\ Target(ns2[a], f) \in a + 1 .. k
               /\ sp2[Target(ns2[a], f)] = sp2[a] \o f
    <3>1. /\ Target(ns[a], f) \in a + 1 .. Len(ns)
          /\ sp[Target(ns[a], f)] = sp[a] \o f
      BY <1>1, <2>2, <2>3 DEF Edges
    <3>2. Target(ns[a], f) \in 1 .. Len(ns) /\ Target(ns[a], f) \in a + 1 .. k
      BY <1>2, <2>2, <3>1
    <3> QED
      BY <1>8, <2>2, <2>3, <3>1, <3>2
  <2>4. CASE a # i
    BY <1>7, <2>2, <2>3, <2>4
  <2>5. CASE a = i /\ f \in Labels(ns[i])
    BY <1>5, <1>7, <2>3, <2>5
  <2>6. CASE a = i /\ f = <<tok>>
    <3>1. Target(ns2[a], f) = k
      BY <1>5, <1>7, <2>6
    <3>2. sp2[k] = sp2[a] \o f
      BY <1>8, <2>6 DEF q
    <3> QED
      BY <1>2, <2>2, <3>1, <3>2
  <2> QED
    BY <1>5, <1>7, <2>4, <2>5, <2>6
<1>15. Letters(ns2)
  <2> SUFFICES ASSUME NEW a \in 1 .. k, NEW f \in Labels(ns2[a])
               PROVE  Len(f) = 1
    BY <1>7 DEF Letters
  <2>1. a \in 1 .. Len(ns)
    BY <1>7, <1>10, NewNodeFacts
  <2>2. f \in Labels(ns[a]) \/ f = <<tok>>
    BY <1>5, <1>7, <2>1
  <2> QED
    BY <1>1, <1>3, <2>1, <2>2 DEF Letters
<1>16. Grown(ns2, sp2)
  <2> SUFFICES ASSUME NEW a \in 1 .. k, NEW c \in 1 .. k, a # c,
                      Begins(sp2[a], sp2[c])
               PROVE  <<sp2[c][Len(sp2[a]) + 1]>> \in Labels(ns2[a])
    BY <1>7 DEF Grown
  <2>1. CASE a = k
    BY <1>8, <1>9, <1>10, <2>1
  <2>2. CASE a # k /\ c # k
    <3>1. a \in 1 .. Len(ns) /\ c \in 1 .. Len(ns)
      BY <1>10, <2>2
    <3> QED
      BY <1>1, <1>8, <1>11, <3>1 DEF Grown
  <2>3. CASE a # k /\ c = k /\ a = i
    BY <1>4, <1>5, <1>7, <1>8, <2>3
  <2>4. CASE a # k /\ c = k /\ a # i
    <3>1. a \in 1 .. Len(ns) /\ sp2[a] = sp[a] /\ sp2[c] = q /\ Len(sp[a]) \in Nat
      BY <1>2, <1>8, <1>10, <2>4 DEF Pattern
    <3>2. Len(sp[a]) <= Len(sp[i]) + 1
      BY <1>4, <3>1 DEF Begins
    <3>3. Len(sp[a]) # Len(sp[i]) + 1
      <4> SUFFICES ASSUME Len(sp[a]) = Len(q) PROVE FALSE
        BY <1>4
      <4>1. sp[a] = q
        BY <1>2, <1>4, <3>1, BeginsSame
      <4> QED
        BY <1>4, <1>9, <3>1, <4>1 DEF Begins
    <3>4. Len(sp[a]) <= Len(sp[i])
      BY <1>4, <3>1, <3>2, <3>3
    <3>5. Begins(sp[i], q)
      BY <1>4 DEF Begins
    <3>6. Begins(sp[a], sp[i])
      BY <1>2, <1>4, <3>1, <3>4, <3>5, BeginsLinear
    <3>7. <<sp[i][Len(sp[a]) + 1]>> \in Labels(ns[a])
      BY <1>1, <2>4, <3>1, <3>6 DEF Grown
    <3>8. Len(sp[a]) # Len(sp[i])
      BY <1>1, <1>2, <2>4, <3>1, <3>6, BeginsSame DEF Distinct
    <3>9. Len(sp[a]) + 1 \in 1 .. Len(sp[i])
      BY <1>4, <3>1, <3>4, <3>8
    <3> QED
      BY <1>4, <1>11, <3>1, <3>7, <3>9
  <2> QED
    BY <2>1, <2>2, <2>3, <2>4
<1>17. Young(ns2, sp2)
  BY <1>12, <1>13, <1>14, <1>15, <1>16 DEF Young
<1>18. Grew(ns, sp, ns2, sp2, q)
  <2>1. ASSUME NEW j \in 1 .. Len(ns)
        PROVE  sp2[j] = sp[j] /\ ns2[j].rule_index = ns[j].rule_index
    BY <1>5, <1>7, <1>8
  <2>2. ASSUME NEW j \in Len(ns) + 1 .. Len(ns2)
        PROVE  ns2[j].rule_index = 0 /\ Begins(sp2[j], q)
    <3>1. j = k
      BY <1>2, <1>7
    <3>2. Begins(q, q)
      BY <1>4 DEF Begins
    <3> QED
      BY <1>7, <1>8, <3>1, <3>2, NewNodeFacts
  <2> QED
    BY <1>2, <1>7, <2>1, <2>2 DEF Grew
<1>19. k \in 1 .. Len(ns2)
  BY <1>2, <1>7
<1> QED
  BY <1>6, <1>8, <1>17, <1>18, <1>19 DEF q

LEMMA GrewTrans ==
  ASSUME NEW ns, NEW sp, NEW ns2, NEW sp2, NEW ns3, NEW sp3,
         NEW p \in Pattern, NEW q \in Pattern, Begins(p, q),
         Typed(ns, sp), Typed(ns2, sp2), Typed(ns3, sp3),
         Grew(ns, sp, ns2, sp2, q), Grew(ns2, sp2, ns3, sp3, p)
  PROVE  Grew(ns, sp, ns3, sp3, q)
<1>1. Len(ns) \in Nat /\ Len(ns2) \in Nat /\ Len(ns3) \in Nat
      /\ Len(ns) <= Len(ns2) /\ Len(ns2) <= Len(ns3)
  BY DEF Typed, Grew
<1>2. ASSUME NEW j \in 1 .. Len(ns)
      PROVE  sp3[j] = sp[j] /\ ns3[j].rule_index = ns[j].rule_index
  <2>1. j \in 1 .. Len(ns2)
    BY <1>1
  <2> QED
    BY <2>1 DEF Grew
<1>3. ASSUME NEW j \in Len(ns) + 1 .. Len(ns3)
      PROVE  ns3[j].rule_index = 0 /\ Begins(sp3[j], q)
  <2>1. CASE j \in Len(ns) + 1 .. Len(ns2)
    <3>1. j \in 1 .. Len(ns2)
      BY <1>1, <2>1
    <3> QED
      BY <2>1, <3>1 DEF Grew
  <2>2. CASE j \in Len(ns2) + 1 .. Len(ns3)
    <3>1. sp3[j] \in Pattern
      BY <1>1, <2>2 DEF Typed
    <3> QED
      BY <2>2, <3>1, BeginsTrans DEF Grew
  <2> QED
    BY <1>1, <2>1, <2>2
<1> QED
  BY <1>1, <1>2, <1>3 DEF Grew

(* After n turns: at the node of the first n tokens.                       *)
Walked(w, ns, sp, pattern, n) ==
  \E ns2, sp2, k :
    /\ w = [nodes |-> ns2, at |-> k] /\ Young(ns2, sp2) /\ k \in 1 .. Len(ns2)
    /\ Len(sp2[k]) = n /\ Begins(sp2[k], pattern)
    /\ Grew(ns, sp, ns2, sp2, pattern)

LEMMA TurnOfAdd ==
  ASSUME NEW ns, NEW sp, Young(ns, sp), NEW pattern \in Pattern, NEW w,
         NEW n \in 1 .. Len(pattern), Walked(w, ns, sp, pattern, n - 1)
  PROVE  Walked(Descend(w, pattern[n]), ns, sp, pattern, n)
<1>1. PICK ns2, sp2, k :
         /\ w = [nodes |-> ns2, at |-> k] /\ Young(ns2, sp2) /\ k \in 1 .. Len(ns2)
         /\ Len(sp2[k]) = n - 1 /\ Begins(sp2[k], pattern)
         /\ Grew(ns, sp, ns2, sp2, pattern)
  BY DEF Walked
<1>0. PICK tok, q : tok = pattern[n] /\ q = sp2[k] \o <<tok>>
  OBVIOUS
<1>2. sp2[k] \in Pattern /\ Len(pattern) \in Nat /\ Len(sp2[k]) + 1 = n
      /\ Len(sp2[k]) # Len(pattern)
  <2>1. sp2[k] \in Pattern
    BY <1>1 DEF Young, Typed
  <2>2. Len(pattern) \in Nat
    BY DEF Pattern
  <2> QED
    BY <1>1, <2>1, <2>2
<1>3. tok \in Char \cup ParamType /\ Begins(q, pattern)
  BY <1>0, <1>1, <1>2, BeginsMore
<1>4. q \in Pattern /\ Len(q) = n
  BY <1>0, <1>2, <1>3, ConcatOne
<1>5. CASE <<tok>> \in Labels(ns2[k])
  <2>0. Young(ns2, sp2) /\ k \in 1 .. Len(ns2) /\ tok \in Char \cup ParamType
    BY <1>1, <1>3
  <2> DEFINE k3 == Target(ns2[k], <<tok>>)
  <2>00. DescendsTo(ns2, sp2, k, tok, k3)
    BY <1>5, <2>0, DescendFinds
  <2> HIDE DEF k3
  <2>1. /\ Descend([nodes |-> ns2, at |-> k], tok) = [nodes |-> ns2, at |-> k3]
        /\ k3 \in 1 .. Len(ns2) /\ sp2[k3] = sp2[k] \o <<tok>>
    BY <2>00 DEF DescendsTo
  <2>2. Walked([nodes |-> ns2, at |-> k3], ns, sp, pattern, n)
    BY <1>0, <1>1, <1>3, <1>4, <2>1 DEF Walked
  <2> QED
    BY <1>0, <1>1, <2>1, <2>2
<1>6. CASE <<tok>> \notin Labels(ns2[k])
  <2>1. PICK ns3, sp3, k3 :
           /\ Descend([nodes |-> ns2, at |-> k], tok) = [nodes |-> ns3, at |-> k3]
           /\ Young(ns3, sp3) /\ k3 \in 1 .. Len(ns3)
           /\ sp3[k3] = q
           /\ Grew(ns2, sp2, ns3, sp3, q)
    BY <1>0, <1>1, <1>3, <1>6, DescendAdds
  <2>2. Grew(ns, sp, ns3, sp3, pattern)
    <3>1. Typed(ns, sp) /\ Typed(ns2, sp2) /\ Typed(ns3, sp3)
      BY <1>1, <2>1 DEF Young
    <3> QED
      BY <1>1, <1>3, <1>4, <2>1, <3>1, GrewTrans
  <2>3. Walked([nodes |-> ns3, at |-> k3], ns, sp, pattern, n)
    BY <1>3, <1>4, <2>1, <2>2 DEF Walked
  <2> QED
    BY <1>0, <1>1, <2>1, <2>3
<1> QED
  BY <1>5, <1>6

LEMMA WalkKeeps ==
  ASSUME NEW ns, NEW sp, Young(ns, sp), NEW pattern \in Pattern
  PROVE  \E ns2, sp2, k :
           /\ Walk(ns, pattern) = [nodes |-> ns2, at |-> k]
           /\ Young(ns2, sp2) /\ k \in 1 .. Len(ns2) /\ sp2[k] = pattern
           /\ Grew(ns, sp, ns2, sp2, pattern)
<1>1. Len(pattern) \in Nat
  BY DEF Pattern
<1>2. PICK f : /\ f[0] = [nodes |-> ns, at |-> 1]
               /\ \A n \in 1 .. Len(pattern) : f[n] = Descend(f[n - 1], pattern[n])
               /\ Walk(ns, pattern) = f[Len(pattern)]
  BY <1>1, WalkRuns
<1>3. Walked(f[0], ns, sp, pattern, 0)
  <2>1. Len(ns) \in Nat /\ Len(ns) >= 1 /\ sp[1] = << >>
    BY DEF Young, Typed
  <2>2. 1 \in 1 .. Len(ns)
    BY <2>1
  <2>3. Len(sp[1]) = 0 /\ Begins(sp[1], pattern)
    BY <1>1, <2>1 DEF Begins
  <2>4. Grew(ns, sp, ns, sp, pattern)
    BY <2>1 DEF Grew
  <2> QED
    BY <1>2, <2>2, <2>3, <2>4 DEF Walked
<1>4. Walked(f[Len(pattern)], ns, sp, pattern, Len(pattern))
  <2> DEFINE T == {n \in 0 .. Len(pattern) : ~Walked(f[n], ns, sp, pattern, n)}
  <2> SUFFICES ASSUME T # {} PROVE FALSE
    BY <1>1
  <2>1. PICK m \in T : \A i \in T : m <= i
    <3>1. T \subseteq Nat
      BY <1>1
    <3> QED
      BY <3>1, LeastNat
  <2>2. m # 0 /\ m \in 1 .. Len(pattern) /\ m - 1 \in 0 .. Len(pattern) /\ m - 1 \notin T
    BY <1>1, <1>3, <2>1
  <2>3. Walked(f[m - 1], ns, sp, pattern, m - 1)
    BY <2>2
  <2>4. Walked(Descend(f[m - 1], pattern[m]), ns, sp, pattern, m)
    BY <2>2, <2>3, TurnOfAdd
  <2> QED
    BY <1>2, <2>1, <2>2, <2>4
<1>5. PICK ns2, sp2, k :
         /\ f[Len(pattern)] = [nodes |-> ns2, at |-> k]
         /\ Young(ns2, sp2) /\ k \in 1 .. Len(ns2)
         /\ Len(sp2[k]) = Len(pattern) /\ Begins(sp2[k], pattern)
         /\ Grew(ns, sp, ns2, sp2, pattern)
  BY <1>4 DEF Walked
<1>6. sp2[k] = pattern
  <2>1. sp2[k] \in Pattern
    BY <1>5 DEF Young, Typed
  <2> QED
    BY <1>1, <1>5, <2>1, BeginsSame
<1> QED
  BY <1>2, <1>5, <1>6

(* Only the rule of one node changes.                                      *)
LEMMA RuleSet ==
  ASSUME NEW ns, NEW sp, Young(ns, sp), NEW k \in 1 .. Len(ns), NEW index \in Nat
  PROVE  LET ns2 == [ns EXCEPT ![k].rule_index = index]
         IN  /\ Young(ns2, sp) /\ Len(ns2) = Len(ns)
             /\ \A j \in 1 .. Len(ns) :
                  ns2[j].rule_index = IF j = k THEN index ELSE ns[j].rule_index
<1> DEFINE n == [ns[k] EXCEPT !.rule_index = index]
           ns2 == [ns EXCEPT ![k] = n]
<1>1. ns \in Seq(Node) /\ Len(ns) \in Nat /\ ns[k] \in Node
  BY DEF Young, Typed
<1>2. /\ n \in Node /\ n.rule_index = index
      /\ n.param = ns[k].param /\ n.children = ns[k].children
  BY <1>1 DEF Node
<1> HIDE DEF n
<1>3. /\ ns2 \in Seq(Node) /\ Len(ns2) = Len(ns)
      /\ \A j \in 1 .. Len(ns) : ns2[j] = IF j = k THEN n ELSE ns[j]
  BY <1>1, <1>2, ExceptSeq
<1> HIDE DEF ns2
<1>4. ASSUME NEW j \in 1 .. Len(ns)
      PROVE  /\ Labels(ns2[j]) = Labels(ns[j])
             /\ \A f : Target(ns2[j], f) = Target(ns[j], f)
             /\ ns2[j].rule_index = IF j = k THEN index ELSE ns[j].rule_index
  <2>1. CASE j = k
    BY <1>2, <1>3, <2>1 DEF Labels, Target
  <2>2. CASE j # k
    BY <1>3, <2>2
  <2> QED
    BY <2>1, <2>2
<1>5. Typed(ns2, sp) /\ Distinct(ns2, sp)
  BY <1>3 DEF Young, Typed, Distinct
<1>6. Edges(ns2, sp)
  BY <1>3, <1>4 DEF Young, Edges
<1>7. Letters(ns2) /\ Grown(ns2, sp)
  BY <1>3, <1>4 DEF Young, Letters, Grown
<1>8. /\ Young(ns2, sp) /\ Len(ns2) = Len(ns)
      /\ \A j \in 1 .. Len(ns) :
           ns2[j].rule_index = IF j = k THEN index ELSE ns[j].rule_index
  BY <1>3, <1>4, <1>5, <1>6, <1>7 DEF Young
<1> QED
  BY <1>8 DEF ns2, n

(* Trie::add enters the pattern with its index, and nothing else.          *)
LEMMA AddKeeps ==
  ASSUME NEW ns, NEW sp, Young(ns, sp), NEW pattern \in Pattern,
         NEW index \in Nat, index # 0, Add(ns, pattern, index).ok,
         Used(ns, sp, Entries(ns, sp))
  PROVE  \E sp2 :
           LET ns2 == Add(ns, pattern, index).nodes
           IN  /\ Young(ns2, sp2) /\ Used(ns2, sp2, Entries(ns2, sp2))
               /\ Entries(ns2, sp2) =
                    Entries(ns, sp) \cup {[pattern |-> pattern, index |-> index]}
<1>1. PICK ns1, sp2, k :
         /\ Walk(ns, pattern) = [nodes |-> ns1, at |-> k]
         /\ Young(ns1, sp2) /\ k \in 1 .. Len(ns1) /\ sp2[k] = pattern
         /\ Grew(ns, sp, ns1, sp2, pattern)
  BY WalkKeeps
<1> DEFINE ns2 == [ns1 EXCEPT ![k].rule_index = index]
<1>2. Add(ns, pattern, index).nodes = ns2 /\ ns1[k].rule_index = 0
  <2>1. PICK w : w = Walk(ns, pattern)
    OBVIOUS
  <2>2. w.nodes = ns1 /\ w.at = k
    BY <1>1, <2>1
  <2>3. Add(ns, pattern, index) =
          [ok |-> w.nodes[w.at].rule_index = 0,
           nodes |-> [w.nodes EXCEPT ![w.at].rule_index = index]]
    BY <2>1 DEF Add
  <2>4. Add(ns, pattern, index) = [ok |-> ns1[k].rule_index = 0, nodes |-> ns2]
    BY <2>2, <2>3
  <2>5. Add(ns, pattern, index).nodes = ns2
    BY <2>4
  <2>6. PICK b : b = (ns1[k].rule_index = 0)
    OBVIOUS
  <2>7. Add(ns, pattern, index) = [ok |-> b, nodes |-> ns2]
    BY <2>4, <2>6
  <2>8. Add(ns, pattern, index).ok = b
    BY <2>7
  <2> QED
    BY <2>5, <2>6, <2>8
<1>3. /\ Young(ns2, sp2) /\ Len(ns2) = Len(ns1)
      /\ \A j \in 1 .. Len(ns1) :
           ns2[j].rule_index = IF j = k THEN index ELSE ns1[j].rule_index
  BY <1>1, RuleSet
<1> HIDE DEF ns2
<1>4. /\ Len(ns) \in Nat /\ Len(ns1) \in Nat /\ Len(ns) <= Len(ns1)
      /\ \A j \in 1 .. Len(ns) :
           sp2[j] = sp[j] /\ ns1[j].rule_index = ns[j].rule_index
      /\ \A j \in Len(ns) + 1 .. Len(ns1) :
           ns1[j].rule_index = 0 /\ Begins(sp2[j], pattern)
  BY <1>1 DEF Grew, Young, Typed
<1> DEFINE new == [pattern |-> pattern, index |-> index]
           E(m, s, j) == [pattern |-> s[j], index |-> m[j].rule_index]
<1>5. Entries(ns2, sp2) = Entries(ns, sp) \cup {new}
  <2>1. ASSUME NEW j \in 1 .. Len(ns2), ns2[j].rule_index # 0
        PROVE  E(ns2, sp2, j) \in Entries(ns, sp) \cup {new}
    <3>1. CASE j = k
      BY <1>1, <1>3, <3>1
    <3>2. CASE j # k
      <4>1. ns1[j].rule_index = ns2[j].rule_index /\ j \in 1 .. Len(ns1)
        BY <1>3, <2>1, <3>2
      <4>2. j \in 1 .. Len(ns)
        BY <1>4, <2>1, <4>1
      <4>3. E(ns2, sp2, j) = E(ns, sp, j) /\ ns[j].rule_index # 0
        BY <1>4, <2>1, <4>1, <4>2
      <4> QED
        BY <4>2, <4>3 DEF Entries
    <3> QED
      BY <3>1, <3>2
  <2>2. ASSUME NEW j \in 1 .. Len(ns), ns[j].rule_index # 0
        PROVE  E(ns, sp, j) \in Entries(ns2, sp2)
    <3>1. j \in 1 .. Len(ns1) /\ j # k
      BY <1>2, <1>4, <2>2
    <3>2. E(ns2, sp2, j) = E(ns, sp, j) /\ ns2[j].rule_index # 0
      BY <1>3, <1>4, <2>2, <3>1
    <3> QED
      BY <1>3, <3>1, <3>2 DEF Entries
  <2>3. new \in Entries(ns2, sp2)
    BY <1>1, <1>3 DEF Entries
  <2>4. \A e \in Entries(ns2, sp2) : \E j \in 1 .. Len(ns2) :
          ns2[j].rule_index # 0 /\ e = E(ns2, sp2, j)
    BY DEF Entries
  <2>5. \A e \in Entries(ns, sp) : \E j \in 1 .. Len(ns) :
          ns[j].rule_index # 0 /\ e = E(ns, sp, j)
    BY DEF Entries
  <2> HIDE DEF E, new
  <2> QED
    BY <2>1, <2>2, <2>3, <2>4, <2>5
<1>6. Used(ns2, sp2, Entries(ns2, sp2))
  <2> SUFFICES ASSUME NEW j \in 2 .. Len(ns2)
               PROVE  \E e \in Entries(ns2, sp2) : Begins(sp2[j], e.pattern)
    BY DEF Used
  <2>1. CASE j \in 2 .. Len(ns)
    <3>1. PICK e \in Entries(ns, sp) : Begins(sp[j], e.pattern)
      BY <2>1 DEF Used
    <3> QED
      BY <1>4, <1>5, <2>1, <3>1
  <2>2. CASE j \in Len(ns) + 1 .. Len(ns1)
    <3>1. new \in Entries(ns2, sp2) /\ new.pattern = pattern
      BY <1>5
    <3>2. Begins(sp2[j], new.pattern)
      BY <1>4, <2>2, <3>1
    <3> QED
      BY <3>1, <3>2
  <2> QED
    BY <1>3, <1>4, <2>1, <2>2
<1> QED
  BY <1>2, <1>3, <1>5, <1>6

-----------------------------------------------------------------------------
(* Trie::optimize_node.                                                    *)

(* An edge of the merged node is an edge and one of the child behind it.   *)
MergeOf(ns, c, M) ==
  /\ M = [h \in DOMAIN M |-> M[h]]
  /\ \A h \in DOMAIN M : \E f \in DOMAIN c :
       \E g \in DOMAIN ns[c[f]].children :
         h = f \o g /\ M[h] = ns[c[f]].children[g]
  /\ \A f \in DOMAIN c : \A g \in DOMAIN ns[c[f]].children :
       f \o g \in DOMAIN M

LEMMA MergedFacts ==
  ASSUME NEW ns, NEW i
  PROVE  MergeOf(ns, ns[i].children, Merged(ns, i))
<1> DEFINE c == ns[i].children
           M == Merged(ns, i)
           B == UNION {DOMAIN ns[k].children : k \in Kids(ns, i)}
           Real == {e \in (DOMAIN c) \X B : e[2] \in DOMAIN ns[c[e[1]]].children}
           D == {e[1] \o e[2] : e \in Real}
           pick(h) == CHOOSE e \in Real : e[1] \o e[2] = h
           at(h) == ns[c[pick(h)[1]]].children[pick(h)[2]]
<1>1. M = [h \in D |-> at(h)]
  BY DEF Merged
<1> HIDE DEF M
<1>2. ASSUME NEW f \in DOMAIN c, NEW g \in DOMAIN ns[c[f]].children
      PROVE  <<f, g>> \in Real /\ f \o g \in D
  <2>1. c[f] \in Kids(ns, i)
    BY DEF Kids, Range
  <2>2. g \in B
    BY <2>1
  <2> HIDE DEF B
  <2>3. <<f, g>> \in (DOMAIN c) \X B /\ <<f, g>>[1] = f /\ <<f, g>>[2] = g
    BY <2>2
  <2>4. <<f, g>> \in Real
    BY <2>3
  <2> HIDE DEF Real
  <2> QED
    BY <2>3, <2>4
<1>3. ASSUME NEW e \in Real
      PROVE  e[1] \in DOMAIN c /\ e[2] \in DOMAIN ns[c[e[1]]].children
  <2> HIDE DEF B
  <2> QED
    OBVIOUS
<1> HIDE DEF Real
<1>4. ASSUME NEW h \in D PROVE pick(h) \in Real /\ pick(h)[1] \o pick(h)[2] = h
  OBVIOUS
<1> HIDE DEF pick
<1>5. ASSUME NEW h \in D
      PROVE  \E f \in DOMAIN c : \E g \in DOMAIN ns[c[f]].children :
               h = f \o g /\ at(h) = ns[c[f]].children[g]
  BY <1>3, <1>4
<1> HIDE DEF D, at
<1>6. DOMAIN M = D /\ \A h \in D : M[h] = at(h)
  BY <1>1
<1>7. M = [h \in DOMAIN M |-> M[h]]
  BY <1>1, <1>6
<1>8. ASSUME NEW h \in DOMAIN M
      PROVE  \E f \in DOMAIN c : \E g \in DOMAIN ns[c[f]].children :
               h = f \o g /\ M[h] = ns[c[f]].children[g]
  BY <1>5, <1>6
<1> HIDE DEF c
<1>9. MergeOf(ns, c, M)
  BY <1>2, <1>6, <1>7, <1>8 DEF MergeOf
<1> QED
  BY <1>9 DEF c, M

LEMMA FragmentConcat ==
  ASSUME NEW f \in Fragment, NEW g \in Fragment
  PROVE  /\ f \o g \in Fragment
         /\ \A x \in 1 .. Len(f \o g) : (f \o g)[x] \in Char
<1>1. f \in Seq(Char) /\ g \in Seq(Char) /\ f # << >>
  BY DEF Fragment
<1>2. f \o g \in Seq(Char) /\ f \o g # << >>
  BY <1>1, ConcatProperties, ConcatEqualIffEmpty
<1> QED
  BY <1>2, ElementOfSeq DEF Fragment

(* A fragment and a parameter do not begin each other.                     *)
LEMMA ParamApart ==
  ASSUME NEW t \in ParamType, NEW f \in Fragment
  PROVE  ~Begins(<<t>>, f) /\ ~Begins(f, <<t>>)
<1>1. <<t>>[1] = t /\ Len(<<t>>) = 1 /\ t \notin Char
  BY ParamLabel, CharAssumption
<1>2. Len(f) \in Nat /\ Len(f) >= 1 /\ f[1] \in Char
  <2>1. f \in Seq(Char) /\ Len(f) \in Nat /\ Len(f) # 0
    BY EmptySeq DEF Fragment
  <2>2. 1 \in 1 .. Len(f)
    BY <2>1
  <2> QED
    BY <2>1, <2>2, ElementOfSeq
<1>3. 1 \in 1 .. 1 /\ 1 \in 1 .. Len(f)
  BY <1>2
<1>4. PICK p : p = <<t>>
  OBVIOUS
<1>5. p[1] = t /\ Len(p) = 1
  BY <1>1, <1>4
<1>6. ~Begins(p, f) /\ ~Begins(f, p)
  BY <1>1, <1>2, <1>3, <1>5 DEF Begins
<1> QED
  BY <1>4, <1>6

(* What a merge does to the node.                                          *)
MergesInto(ns, i, n) ==
  /\ n \in Node /\ n.rule_index = ns[i].rule_index /\ n.param = ns[i].param
  /\ \A h \in DOMAIN n.children : \E f \in DOMAIN ns[i].children :
       \E g \in DOMAIN ns[ns[i].children[f]].children :
         h = f \o g /\ n.children[h] = ns[ns[i].children[f]].children[g]
  /\ \A f \in DOMAIN ns[i].children :
       \A g \in DOMAIN ns[ns[i].children[f]].children : f \o g \in DOMAIN n.children

LEMMA MergeNode ==
  ASSUME NEW ns, NEW sp, Good(ns, sp), NEW i \in 1 .. Len(ns)
  PROVE  MergesInto(ns, i, [ns[i] EXCEPT !.children = Merged(ns, i)])
<1>1. PICK M, c : M = Merged(ns, i) /\ c = ns[i].children
  OBVIOUS
<1>2. /\ ns \in Seq(Node) /\ Len(ns) \in Nat
      /\ \A j \in 1 .. Len(ns) : ns[j] \in Node
  BY DEF Good, Typed
<1>3. /\ ns[i] \in Node /\ ns[i].rule_index \in Nat
      /\ ns[i].param \in [ParamType -> Nat] /\ DOMAIN c \subseteq Fragment
      /\ ns[i] = [rule_index |-> ns[i].rule_index, param |-> ns[i].param,
                  children |-> ns[i].children]
  BY <1>1, <1>2, NodeFacts DEF Node
<1>4. /\ M = [h \in DOMAIN M |-> M[h]]
      /\ \A h \in DOMAIN M : \E f \in DOMAIN c :
           \E g \in DOMAIN ns[c[f]].children :
             h = f \o g /\ M[h] = ns[c[f]].children[g]
      /\ \A f \in DOMAIN c : \A g \in DOMAIN ns[c[f]].children :
           f \o g \in DOMAIN M
  <2>1. MergeOf(ns, c, M)
    BY <1>1, MergedFacts
  <2> QED
    BY <2>1 DEF MergeOf
<1>5. ASSUME NEW f \in DOMAIN c
      PROVE  /\ DOMAIN ns[c[f]].children \subseteq Fragment
             /\ ns[c[f]].children \in [DOMAIN ns[c[f]].children -> Nat]
  <2>1. f \in Labels(ns[i]) /\ Target(ns[i], f) = c[f]
    BY <1>1, <1>3, LabelFacts
  <2>2. Target(ns[i], f) \in i + 1 .. Len(ns)
    BY <2>1 DEF Good, Edges
  <2>3. ns[c[f]] \in Node
    BY <1>2, <2>1, <2>2
  <2> QED
    BY <2>3, NodeFacts
<1>6. DOMAIN M \in SUBSET Fragment /\ M \in [DOMAIN M -> Nat]
  <2>1. ASSUME NEW h \in DOMAIN M PROVE h \in Fragment /\ M[h] \in Nat
    <3>1. PICK f \in DOMAIN c : \E g \in DOMAIN ns[c[f]].children :
            h = f \o g /\ M[h] = ns[c[f]].children[g]
      BY <1>4
    <3>2. PICK g \in DOMAIN ns[c[f]].children :
            h = f \o g /\ M[h] = ns[c[f]].children[g]
      BY <3>1
    <3>3. f \in Fragment /\ g \in Fragment
      BY <1>3, <1>5
    <3> QED
      BY <1>5, <3>2, <3>3, FragmentConcat
  <2> QED
    BY <1>4, <2>1
<1>7. PICK n : n = [ns[i] EXCEPT !.children = M]
  OBVIOUS
<1>8. n = [rule_index |-> ns[i].rule_index, param |-> ns[i].param, children |-> M]
  BY <1>3, <1>7
<1>9. n \in Node
  BY <1>3, <1>6, <1>8, IsNode
<1>10. n.rule_index = ns[i].rule_index /\ n.param = ns[i].param /\ n.children = M
  BY <1>8
<1>11. MergesInto(ns, i, n)
  BY <1>1, <1>4, <1>9, <1>10 DEF MergesInto
<1> QED
  BY <1>1, <1>7, <1>11

(* The same nodes with the same rules.                                     *)
Kept(ns, ns2) ==
  Len(ns2) = Len(ns) /\ \A j \in 1 .. Len(ns) : ns2[j].rule_index = ns[j].rule_index

(* The edge f of node i and the edge g of the child behind it.             *)
TwoEdges(ns, sp, i, f, g) ==
  LET k == ns[i].children[f]
      l == ns[k].children[g]
  IN  /\ f \in Fragment /\ g \in Fragment /\ f \in Labels(ns[i]) /\ g \in Labels(ns[k])
      /\ k \in i + 1 .. Len(ns) /\ l \in i + 1 .. Len(ns)
      /\ sp[k] = sp[i] \o f /\ sp[l] = sp[i] \o (f \o g)

LEMMA TwoEdgesFacts ==
  ASSUME NEW ns, NEW sp, Good(ns, sp), NEW i \in 1 .. Len(ns),
         NEW f \in DOMAIN ns[i].children,
         NEW g \in DOMAIN ns[ns[i].children[f]].children
  PROVE  TwoEdges(ns, sp, i, f, g)
<1>0. PICK k : k = ns[i].children[f]
  OBVIOUS
<1>00. PICK l : l = ns[k].children[g]
  OBVIOUS
<1>1. /\ Len(ns) \in Nat
      /\ \A j \in 1 .. Len(ns) : ns[j] \in Node /\ sp[j] \in Pattern
  BY DEF Good, Typed
<1>2. f \in Labels(ns[i]) /\ Target(ns[i], f) = k /\ f \in Fragment
  BY <1>0, <1>1, LabelFacts, NodeFacts
<1>3. k \in i + 1 .. Len(ns) /\ sp[k] = sp[i] \o f
  BY <1>2 DEF Good, Edges
<1>4. k \in 1 .. Len(ns)
  BY <1>1, <1>3
<1>5. ns[k] \in Node /\ g \in DOMAIN ns[k].children
  BY <1>0, <1>1, <1>4
<1>6. g \in Labels(ns[k]) /\ Target(ns[k], g) = l /\ g \in Fragment
  BY <1>00, <1>5, LabelFacts, NodeFacts
<1>7. l \in k + 1 .. Len(ns) /\ sp[l] = sp[k] \o g
  BY <1>4, <1>6 DEF Good, Edges
<1>8. sp[k] \o g = sp[i] \o (f \o g)
  <2>1. f \in Pattern /\ g \in Pattern /\ sp[i] \in Pattern
    BY <1>1, <1>2, <1>6, FragmentIsPattern
  <2>2. (sp[i] \o f) \o g = sp[i] \o (f \o g)
    BY <2>1, ConcatAssoc
  <2> QED
    BY <1>3, <2>2
<1>9. l \in i + 1 .. Len(ns)
  BY <1>1, <1>3, <1>7
<1> QED
  BY <1>0, <1>00, <1>2, <1>3, <1>6, <1>7, <1>8, <1>9 DEF TwoEdges

LEMMA MergeKeepsPrefixFree ==
  ASSUME NEW ns, NEW sp, Good(ns, sp), NEW i \in 1 .. Len(ns),
         NEW n, MergesInto(ns, i, n),
         NEW h1 \in Labels(n), NEW h2 \in Labels(n), Begins(h1, h2)
  PROVE  h1 = h2
<1>1. n \in Node /\ \A j \in 1 .. Len(ns) : ns[j] \in Node /\ sp[j] \in Pattern
  BY DEF Good, Typed, MergesInto
<1>2. /\ h1 \in Pattern /\ Len(h1) >= 1 /\ h2 \in Pattern /\ Len(h2) >= 1
      /\ \/ h1 \in DOMAIN n.children
         \/ \E t \in ParamType : h1 = <<t>> /\ n.param[t] # 0
      /\ \/ h2 \in DOMAIN n.children
         \/ \E t \in ParamType : h2 = <<t>> /\ n.param[t] # 0
  BY <1>1, LabelFacts
<1>3. \A h \in DOMAIN n.children : h \in Fragment
  BY <1>1, NodeFacts
<1>4. CASE (\E t \in ParamType : h1 = <<t>>) /\ (\E t \in ParamType : h2 = <<t>>)
  <2>1. Len(h1) = 1 /\ Len(h2) = 1
    BY <1>4, ParamLabel
  <2> QED
    BY <1>2, <2>1, BeginsSame
<1>5. CASE h1 \in DOMAIN n.children /\ \E t \in ParamType : h2 = <<t>>
  BY <1>3, <1>5, ParamApart
<1>6. CASE h2 \in DOMAIN n.children /\ \E t \in ParamType : h1 = <<t>>
  BY <1>3, <1>6, ParamApart
<1>7. CASE h1 \in DOMAIN n.children /\ h2 \in DOMAIN n.children
  <2>1. PICK f1 \in DOMAIN ns[i].children :
          \E g \in DOMAIN ns[ns[i].children[f1]].children : h1 = f1 \o g
    BY <1>7 DEF MergesInto
  <2>2. PICK g1 \in DOMAIN ns[ns[i].children[f1]].children : h1 = f1 \o g1
    BY <2>1
  <2>3. PICK f2 \in DOMAIN ns[i].children :
          \E g \in DOMAIN ns[ns[i].children[f2]].children : h2 = f2 \o g
    BY <1>7 DEF MergesInto
  <2>4. PICK g2 \in DOMAIN ns[ns[i].children[f2]].children : h2 = f2 \o g2
    BY <2>3
  <2>5. TwoEdges(ns, sp, i, f1, g1) /\ TwoEdges(ns, sp, i, f2, g2)
    BY TwoEdgesFacts
  <2>6. /\ f1 \in Labels(ns[i]) /\ g1 \in Labels(ns[ns[i].children[f1]])
        /\ f2 \in Labels(ns[i]) /\ g2 \in Labels(ns[ns[i].children[f2]])
        /\ ns[i].children[f1] \in i + 1 .. Len(ns)
        /\ f1 \in Fragment /\ f2 \in Fragment /\ g1 \in Fragment /\ g2 \in Fragment
    BY <2>5 DEF TwoEdges
  <2>7. f1 \in Pattern /\ f2 \in Pattern /\ g1 \in Pattern /\ g2 \in Pattern
    BY <2>6, FragmentIsPattern
  <2>8. Begins(f1, h2) /\ Begins(f2, h2)
    BY <1>2, <2>2, <2>4, <2>7, BeginsConcat, BeginsTrans
  <2>9. Begins(f1, f2) \/ Begins(f2, f1)
    <3>1. Len(f1) \in Nat /\ Len(f2) \in Nat
      BY <2>7 DEF Pattern
    <3>2. Len(f1) <= Len(f2) \/ Len(f2) <= Len(f1)
      BY <3>1
    <3> QED
      BY <1>2, <2>7, <2>8, <3>2, BeginsLinear
  <2>10. f1 = f2
    BY <2>6, <2>9 DEF Good, PrefixFree
  <2>11. Begins(g1, g2)
    BY <2>2, <2>4, <2>7, <2>10, BeginsCancel
  <2>12. ns[i].children[f1] \in 1 .. Len(ns)
    <3>1. Len(ns) \in Nat
      BY DEF Good, Typed
    <3> QED
      BY <2>6, <3>1
  <2>13. g1 = g2
    BY <2>6, <2>10, <2>11, <2>12 DEF Good, PrefixFree
  <2> QED
    BY <2>2, <2>4, <2>10, <2>13
<1> QED
  BY <1>2, <1>4, <1>5, <1>6, <1>7

LEMMA MergeKeepsOnward ==
  ASSUME NEW ns, NEW sp, Good(ns, sp), NEW i \in 1 .. Len(ns), MayMerge(ns, i),
         NEW n, MergesInto(ns, i, n), NEW j \in 1 .. Len(ns),
         ns[j].rule_index # 0, i # j, Begins(sp[i], sp[j])
  PROVE  \E h \in Labels(n) : Begins(sp[i] \o h, sp[j])
<1>1. /\ n \in Node /\ n.param = ns[i].param /\ Len(ns) \in Nat
      /\ \A l \in 1 .. Len(ns) : ns[l] \in Node /\ sp[l] \in Pattern
  BY DEF Good, Typed, MergesInto
<1>2. PICK f \in Labels(ns[i]) : Begins(sp[i] \o f, sp[j])
  BY DEF Good, Onward
<1>3. f \in DOMAIN ns[i].children \/ \E t \in ParamType : f = <<t>> /\ ns[i].param[t] # 0
  BY <1>1, LabelFacts
<1>4. CASE \E t \in ParamType : f = <<t>> /\ ns[i].param[t] # 0
  <2>1. f \in Labels(n)
    BY <1>1, <1>4, LabelFacts
  <2> QED
    BY <1>2, <2>1
<1>5. CASE f \in DOMAIN ns[i].children
  <2>1. PICK k : k = ns[i].children[f]
    OBVIOUS
  <2>2. Target(ns[i], f) = k
    BY <1>1, <1>5, <2>1, LabelFacts
  <2>3. k \in i + 1 .. Len(ns) /\ sp[k] = sp[i] \o f
    BY <2>2 DEF Good, Edges
  <2>4. k \in 1 .. Len(ns)
    BY <1>1, <2>3
  <2>5. Simple(ns[k])
    <3>1. k \in Kids(ns, i)
      BY <1>5, <2>1 DEF Kids, Range
    <3> QED
      BY <3>1 DEF MayMerge
  <2>6. k # j
    BY <2>5 DEF Simple
  <2>7. Begins(sp[k], sp[j])
    BY <1>2, <2>3
  <2>8. PICK g \in Labels(ns[k]) : Begins(sp[k] \o g, sp[j])
    BY <2>4, <2>6, <2>7 DEF Good, Onward
  <2>9. g \in DOMAIN ns[k].children
    BY <1>1, <2>4, <2>5, LabelFacts DEF Simple
  <2>10. f \o g \in DOMAIN n.children
    BY <1>5, <2>1, <2>9 DEF MergesInto
  <2>11. f \o g \in Labels(n)
    BY <1>1, <2>10, LabelFacts
  <2>12. sp[k] \o g = sp[i] \o (f \o g)
    <3>1. f \in Pattern /\ g \in Pattern /\ sp[i] \in Pattern
      BY <1>1, <2>4, LabelFacts
    <3>2. (sp[i] \o f) \o g = sp[i] \o (f \o g)
      BY <3>1, ConcatAssoc
    <3> QED
      BY <2>3, <3>2
  <2> QED
    BY <2>8, <2>11, <2>12
<1> QED
  BY <1>3, <1>4, <1>5

LEMMA MergeKeeps ==
  ASSUME NEW ns, NEW sp, Good(ns, sp), NEW i \in 1 .. Len(ns), MayMerge(ns, i)
  PROVE  LET ns2 == [ns EXCEPT ![i].children = Merged(ns, i)]
         IN  Good(ns2, sp) /\ Kept(ns, ns2)
<1>0. PICK n : n = [ns[i] EXCEPT !.children = Merged(ns, i)]
  OBVIOUS
<1>00. PICK ns2 : ns2 = [ns EXCEPT ![i] = n]
  OBVIOUS
<1>1. MergesInto(ns, i, n)
  BY <1>0, MergeNode
<1>2. /\ ns \in Seq(Node) /\ Len(ns) \in Nat /\ n \in Node
      /\ \A j \in 1 .. Len(ns) : ns[j] \in Node /\ sp[j] \in Pattern
  BY <1>1 DEF Good, Typed, MergesInto
<1>3. /\ ns2 \in Seq(Node) /\ Len(ns2) = Len(ns)
      /\ \A j \in 1 .. Len(ns) : ns2[j] = IF j = i THEN n ELSE ns[j]
  BY <1>00, <1>2, ExceptSeq
<1>4. ASSUME NEW j \in 1 .. Len(ns) PROVE ns2[j].rule_index = ns[j].rule_index
  BY <1>1, <1>3 DEF MergesInto
<1>5. Typed(ns2, sp) /\ Distinct(ns2, sp)
  BY <1>3 DEF Good, Typed, Distinct
<1>6. ASSUME NEW h \in Labels(n)
      PROVE  Target(n, h) \in i + 1 .. Len(ns) /\ sp[Target(n, h)] = sp[i] \o h
  <2>1. CASE \E t \in ParamType : h = <<t>> /\ n.param[t] # 0
    <3>1. PICK t \in ParamType : h = <<t>> /\ n.param[t] # 0
      BY <2>1
    <3>2. n.param = ns[i].param
      BY <1>1 DEF MergesInto
    <3>3. h \in Labels(ns[i]) /\ Target(n, h) = Target(ns[i], h)
      BY <1>2, <3>1, <3>2, LabelFacts
    <3> QED
      BY <3>3 DEF Good, Edges
  <2>2. CASE h \in DOMAIN n.children
    <3>1. PICK f \in DOMAIN ns[i].children :
            \E g \in DOMAIN ns[ns[i].children[f]].children :
              h = f \o g /\ n.children[h] = ns[ns[i].children[f]].children[g]
      BY <1>1, <2>2 DEF MergesInto
    <3>2. PICK g \in DOMAIN ns[ns[i].children[f]].children :
            h = f \o g /\ n.children[h] = ns[ns[i].children[f]].children[g]
      BY <3>1
    <3>3. TwoEdges(ns, sp, i, f, g)
      BY TwoEdgesFacts
    <3>4. Target(n, h) = ns[ns[i].children[f]].children[g]
      BY <1>2, <2>2, <3>2, LabelFacts
    <3> QED
      BY <3>2, <3>3, <3>4 DEF TwoEdges
  <2> QED
    BY <1>2, <2>1, <2>2, LabelFacts
<1>7. Edges(ns2, sp)
  <2> SUFFICES ASSUME NEW a \in 1 .. Len(ns), NEW h \in Labels(ns2[a])
               PROVE  /\ Target(ns2[a], h) \in a + 1 .. Len(ns)
                      /\ sp[Target(ns2[a], h)] = sp[a] \o h
    BY <1>3 DEF Edges
  <2>1. CASE a = i
    BY <1>3, <1>6, <2>1
  <2>2. CASE a # i
    BY <1>3, <2>2 DEF Good, Edges
  <2> QED
    BY <2>1, <2>2
<1>8. PrefixFree(ns2)
  <2> SUFFICES ASSUME NEW a \in 1 .. Len(ns), NEW f \in Labels(ns2[a]),
                      NEW g \in Labels(ns2[a]), Begins(f, g)
               PROVE  f = g
    BY <1>3 DEF PrefixFree
  <2>1. CASE a = i
    BY <1>1, <1>3, <2>1, MergeKeepsPrefixFree
  <2>2. CASE a # i
    BY <1>3, <2>2 DEF Good, PrefixFree
  <2> QED
    BY <2>1, <2>2
<1>9. Onward(ns2, sp)
  <2> SUFFICES ASSUME NEW a \in 1 .. Len(ns), NEW j \in 1 .. Len(ns),
                      ns[j].rule_index # 0, a # j, Begins(sp[a], sp[j])
               PROVE  \E f \in Labels(ns2[a]) : Begins(sp[a] \o f, sp[j])
    BY <1>3, <1>4 DEF Onward
  <2>1. CASE a = i
    <3>1. \E f \in Labels(n) : Begins(sp[i] \o f, sp[j])
      BY <1>1, <2>1, MergeKeepsOnward
    <3> QED
      BY <1>3, <2>1, <3>1
  <2>2. CASE a # i
    BY <1>3, <2>2 DEF Good, Onward
  <2> QED
    BY <2>1, <2>2
<1>10. Good(ns2, sp) /\ Kept(ns, ns2)
  BY <1>3, <1>4, <1>5, <1>7, <1>8, <1>9 DEF Good, Kept
<1>11. ns2 = [ns EXCEPT ![i].children = Merged(ns, i)]
  BY <1>0, <1>00
<1> QED
  BY <1>10, <1>11

OptimizeLoop == [kind |-> "optimize"]

LEMMA OptimizeRuns ==
  ASSUME NEW ns, Calls(ns) \in Nat
  PROVE  \E f : /\ f[0] = [nodes |-> ns, calls |-> <<1>>]
                /\ \A n \in 1 .. Calls(ns) : f[n] = OptimizeNode(f[n - 1])
                /\ Optimize(ns) = f[Calls(ns)].nodes
<1> DEFINE b == [nodes |-> ns, calls |-> <<1>>]
           R(f) == f = [n \in 0 .. Calls(ns) |->
                          IF n = 0 THEN b ELSE OptimizeNode(f[n - 1])]
           opt == CHOOSE f : R(f)
<1>1. \A x, n : Turn(OptimizeLoop, x, n) = OptimizeNode(x)
  BY DEF Turn, OptimizeLoop
<1>2. ASSUME NEW f PROVE R(f) <=> Turns(f, OptimizeLoop, b, Calls(ns))
  <2> HIDE DEF b
  <2>1. Turns(f, OptimizeLoop, b, Calls(ns)) <=>
          f = [n \in 0 .. Calls(ns) |->
                 IF n = 0 THEN b ELSE Turn(OptimizeLoop, f[n - 1], n)]
    BY TurnsFixed
  <2> QED
    BY <1>1, <2>1
<1> HIDE DEF b
<1>3. \E f : R(f)
  BY <1>2, LoopRuns
<1>4. R(opt)
  BY <1>3
<1>5. Optimize(ns) = opt[Calls(ns)].nodes
  BY DEF Optimize, b
<1>6. Turns(opt, OptimizeLoop, b, Calls(ns))
  BY <1>2, <1>4
<1> HIDE DEF opt
<1> QED
  BY <1>1, <1>5, <1>6 DEF Turns, b

(* What optimize_node keeps, whatever it is still to be called for.        *)
Optimized(o, ns, sp) ==
  \E m, cs : o = [nodes |-> m, calls |-> cs] /\ Good(m, sp) /\ Kept(ns, m)

LEMMA OptimizeTurn ==
  ASSUME NEW ns, NEW sp, NEW o, Optimized(o, ns, sp)
  PROVE  Optimized(OptimizeNode(o), ns, sp)
<1>1. PICK m, cs : o = [nodes |-> m, calls |-> cs] /\ Good(m, sp) /\ Kept(ns, m)
  BY DEF Optimized
<1>2. PICK i : i = Head(cs)
  OBVIOUS
<1>3. PICK m2 : m2 = [m EXCEPT ![i].children = Merged(m, i)]
  OBVIOUS
<1>4. PICK cs2 : cs2 = SetToSeq(ParamKids(m, i) \cup Kids(m, i)) \o Tail(cs)
  OBVIOUS
<1>5. o.nodes = m /\ o.calls = cs
  BY <1>1
<1>6. OptimizeNode(o) =
        IF cs = << >> THEN o
        ELSE IF Kids(m, i) # {} /\ MayMerge(m, i)
        THEN [o EXCEPT !.nodes = m2] ELSE [o EXCEPT !.calls = cs2]
  BY <1>2, <1>3, <1>4, <1>5 DEF OptimizeNode
<1>7. /\ [o EXCEPT !.nodes = m2] = [nodes |-> m2, calls |-> cs]
      /\ [o EXCEPT !.calls = cs2] = [nodes |-> m, calls |-> cs2]
  BY <1>1
<1>8. CASE cs = << >>
  BY <1>6, <1>8
<1>9. CASE cs # << >> /\ Kids(m, i) # {} /\ MayMerge(m, i)
  <2>1. Good(m2, sp) /\ Kept(ns, m2)
    <3>1. CASE i \in 1 .. Len(m)
      <4>1. Good(m2, sp) /\ Kept(m, m2)
        BY <1>1, <1>3, <1>9, <3>1, MergeKeeps
      <4> QED
        BY <1>1, <4>1 DEF Kept
    <3>2. CASE i \notin 1 .. Len(m)
      <4>1. m \in Seq(Node)
        BY <1>1 DEF Good, Typed
      <4>2. DOMAIN m = 1 .. Len(m)
        BY <4>1
      <4>3. m2 = m
        BY <1>3, <3>2, <4>1, <4>2
      <4> QED
        BY <1>1, <4>3
    <3> QED
      BY <3>1, <3>2
  <2> QED
    BY <1>6, <1>7, <1>9, <2>1 DEF Optimized
<1>10. CASE cs # << >> /\ ~(Kids(m, i) # {} /\ MayMerge(m, i))
  <2>1. OptimizeNode(o) = [nodes |-> m, calls |-> cs2]
    BY <1>6, <1>7, <1>10
  <2> QED
    BY <1>1, <2>1 DEF Optimized
<1> QED
  BY <1>8, <1>9, <1>10

LEMMA OptimizeKeeps ==
  ASSUME NEW ns, NEW sp, Good(ns, sp)
  PROVE  Good(Optimize(ns), sp) /\ Kept(ns, Optimize(ns))
<1>1. Len(ns) \in Nat
  BY DEF Good, Typed
<1>2. Calls(ns) \in Nat
  BY <1>1 DEF Calls
<1>3. PICK f : /\ f[0] = [nodes |-> ns, calls |-> <<1>>]
               /\ \A n \in 1 .. Calls(ns) : f[n] = OptimizeNode(f[n - 1])
               /\ Optimize(ns) = f[Calls(ns)].nodes
  BY <1>2, OptimizeRuns
<1>4. PICK N : N = Calls(ns)
  OBVIOUS
<1>5. Optimized(f[0], ns, sp)
  <2>1. Kept(ns, ns)
    BY DEF Kept
  <2> QED
    BY <1>3, <2>1 DEF Optimized
<1>6. Optimized(f[N], ns, sp)
  <2> DEFINE T == {n \in 0 .. N : ~Optimized(f[n], ns, sp)}
  <2> SUFFICES ASSUME T # {} PROVE FALSE
    BY <1>2, <1>4
  <2>1. PICK m \in T : \A i \in T : m <= i
    <3>1. T \subseteq Nat
      BY <1>2, <1>4
    <3> QED
      BY <3>1, LeastNat
  <2>2. m # 0 /\ m \in 1 .. N /\ m - 1 \in 0 .. N /\ m - 1 \notin T
    BY <1>2, <1>4, <1>5, <2>1
  <2>3. Optimized(f[m - 1], ns, sp)
    BY <2>2
  <2>4. Optimized(OptimizeNode(f[m - 1]), ns, sp)
    BY <2>3, OptimizeTurn
  <2> QED
    BY <1>3, <1>4, <2>1, <2>2, <2>4
<1>7. PICK m, cs : f[N] = [nodes |-> m, calls |-> cs] /\ Good(m, sp) /\ Kept(ns, m)
  BY <1>6 DEF Optimized
<1>8. Optimize(ns) = m
  BY <1>3, <1>4, <1>7
<1> QED
  BY <1>7, <1>8

-----------------------------------------------------------------------------
(* What a trie spells.                                                     *)

LEMMA ConcatEmpty ==
  ASSUME NEW p \in Pattern
  PROVE  << >> \in Pattern /\ p \o << >> = p /\ << >> \o p = p
BY ConcatEmptySeq DEF Pattern

LEMMA ConcatCancel ==
  ASSUME NEW p \in Pattern, NEW q \in Pattern, NEW r \in Pattern, p \o q = p \o r
  PROVE  q = r
<1>1. /\ Len(p) \in Nat /\ Len(q) \in Nat /\ Len(r) \in Nat
      /\ Len(p \o q) = Len(p) + Len(q) /\ Len(p \o r) = Len(p) + Len(r)
  BY Concat
<1>2. Len(q) = Len(r)
  BY <1>1
<1>3. Begins(p \o q, p \o r)
  BY <1>1 DEF Begins
<1>4. Begins(q, r)
  BY <1>3, BeginsCancel
<1> QED
  BY <1>1, <1>2, <1>4, BeginsSame

(* The entries at and below node i, and the edges that lead to them.       *)
Below(ns, sp, i) ==
  {e \in [pattern : Pattern, index : Nat] :
     \E j \in 1 .. Len(ns) : /\ ns[j].rule_index # 0 /\ e.index = ns[j].rule_index
                             /\ sp[j] = sp[i] \o e.pattern}

LEMMA SpelledAtIs ==
  ASSUME NEW spelled, NEW n \in Node, NEW e
  PROVE  e \in SpelledAt(spelled, n) <=>
           \/ n.rule_index # 0 /\ e = [pattern |-> << >>, index |-> n.rule_index]
           \/ \E h \in Labels(n) : e \in After(h, spelled[Target(n, h)])
<1> DEFINE X == IF n.rule_index = 0 THEN {}
                ELSE {[pattern |-> << >>, index |-> n.rule_index]}
           P(t) == After(<<t>>, spelled[n.param[t]])
           C(f) == After(f, spelled[n.children[f]])
           L(h) == After(h, spelled[Target(n, h)])
           Y == UNION {P(t) : t \in {u \in ParamType : n.param[u] # 0}}
           Z == UNION {C(f) : f \in DOMAIN n.children}
<1>1. SpelledAt(spelled, n) = X \cup Y \cup Z
  BY DEF SpelledAt
<1>2. e \in X <=> n.rule_index # 0 /\ e = [pattern |-> << >>, index |-> n.rule_index]
  OBVIOUS
<1>3. ASSUME NEW t \in ParamType, n.param[t] # 0
      PROVE  <<t>> \in Labels(n) /\ L(<<t>>) = P(t)
  BY <1>3, LabelFacts
<1>4. ASSUME NEW f \in DOMAIN n.children
      PROVE  f \in Labels(n) /\ L(f) = C(f)
  BY LabelFacts
<1>5. ASSUME NEW h \in Labels(n)
      PROVE  \/ h \in DOMAIN n.children
             \/ \E t \in ParamType : h = <<t>> /\ n.param[t] # 0
  BY LabelFacts
<1> HIDE DEF X, P, C, L
<1>6. e \in Y <=> \E t \in ParamType : n.param[t] # 0 /\ e \in P(t)
  OBVIOUS
<1>7. e \in Z <=> \E f \in DOMAIN n.children : e \in C(f)
  OBVIOUS
<1> HIDE DEF Y, Z
<1>8. ASSUME NEW h \in Labels(n), e \in L(h) PROVE e \in Y \cup Z
  <2>1. CASE h \in DOMAIN n.children
    BY <1>4, <1>7, <1>8, <2>1
  <2>2. CASE \E t \in ParamType : h = <<t>> /\ n.param[t] # 0
    <3>1. PICK t \in ParamType : h = <<t>> /\ n.param[t] # 0
      BY <2>2
    <3>2. L(h) = P(t)
      BY <1>3, <3>1
    <3> QED
      BY <1>6, <1>8, <3>1, <3>2
  <2> QED
    BY <1>5, <2>1, <2>2
<1>9. ASSUME e \in Y PROVE \E h \in Labels(n) : e \in L(h)
  <2>1. PICK t \in ParamType : n.param[t] # 0 /\ e \in P(t)
    BY <1>6, <1>9
  <2>2. PICK h : h = <<t>>
    OBVIOUS
  <2>3. h \in Labels(n) /\ L(h) = P(t)
    BY <1>3, <2>1, <2>2
  <2> QED
    BY <2>1, <2>3
<1>10. ASSUME e \in Z PROVE \E h \in Labels(n) : e \in L(h)
  BY <1>4, <1>7, <1>10
<1>11. e \in Y \cup Z <=> \E h \in Labels(n) : e \in L(h)
  BY <1>8, <1>9, <1>10
<1>12. e \in SpelledAt(spelled, n) <=>
         \/ n.rule_index # 0 /\ e = [pattern |-> << >>, index |-> n.rule_index]
         \/ \E h \in Labels(n) : e \in L(h)
  BY <1>1, <1>2, <1>11
<1> QED
  BY <1>12 DEF L

LEMMA BelowIsSpelled ==
  ASSUME NEW ns, NEW sp, Good(ns, sp), NEW i \in 1 .. Len(ns), NEW B,
         \A j \in 1 .. Len(ns) : B[j] = Below(ns, sp, j)
  PROVE  SpelledAt(B, ns[i]) = Below(ns, sp, i)
<1>1. /\ Len(ns) \in Nat
      /\ \A j \in 1 .. Len(ns) : ns[j] \in Node /\ sp[j] \in Pattern
                                 /\ ns[j].rule_index \in Nat
  BY NodeFacts DEF Good, Typed
<1>2. ASSUME NEW h \in Labels(ns[i])
      PROVE  /\ Target(ns[i], h) \in 1 .. Len(ns) /\ h \in Pattern
             /\ sp[Target(ns[i], h)] = sp[i] \o h
  <2>1. Target(ns[i], h) \in i + 1 .. Len(ns) /\ sp[Target(ns[i], h)] = sp[i] \o h
    BY DEF Good, Edges
  <2> QED
    BY <1>1, <2>1, LabelFacts
<1>3. ASSUME NEW e \in SpelledAt(B, ns[i]) PROVE e \in Below(ns, sp, i)
  <2>1. CASE ns[i].rule_index # 0 /\ e = [pattern |-> << >>, index |-> ns[i].rule_index]
    <3>1. e \in [pattern : Pattern, index : Nat] /\ sp[i] = sp[i] \o e.pattern
      BY <1>1, <2>1, ConcatEmpty
    <3> QED
      BY <2>1, <3>1 DEF Below
  <2>2. CASE \E h \in Labels(ns[i]) : e \in After(h, B[Target(ns[i], h)])
    <3>1. PICK h \in Labels(ns[i]) : e \in After(h, B[Target(ns[i], h)])
      BY <2>2
    <3>2. PICK k : k = Target(ns[i], h)
      OBVIOUS
    <3>3. k \in 1 .. Len(ns) /\ h \in Pattern /\ sp[k] = sp[i] \o h
      BY <1>2, <3>2
    <3>4. PICK d \in Below(ns, sp, k) : e = [pattern |-> h \o d.pattern, index |-> d.index]
      BY <3>1, <3>2, <3>3 DEF After
    <3>5. d.pattern \in Pattern /\ d.index \in Nat
      BY DEF Below
    <3>6. PICK j \in 1 .. Len(ns) : /\ ns[j].rule_index # 0 /\ d.index = ns[j].rule_index
                                    /\ sp[j] = sp[k] \o d.pattern
      BY DEF Below
    <3>7. (sp[i] \o h) \o d.pattern = sp[i] \o (h \o d.pattern)
      BY <1>1, <3>3, <3>5, ConcatAssoc
    <3>8. h \o d.pattern \in Pattern
      BY <3>3, <3>5, Concat
    <3>9. PICK q : q = h \o d.pattern
      OBVIOUS
    <3>10. e \in [pattern : Pattern, index : Nat] /\ e.pattern = q /\ e.index = d.index
      BY <3>4, <3>5, <3>8, <3>9
    <3>11. sp[j] = sp[i] \o q
      BY <3>3, <3>6, <3>7, <3>9
    <3> QED
      BY <3>6, <3>10, <3>11 DEF Below
  <2> QED
    BY <1>1, <2>1, <2>2, SpelledAtIs
<1>4. ASSUME NEW e \in Below(ns, sp, i) PROVE e \in SpelledAt(B, ns[i])
  <2>1. e \in [pattern : Pattern, index : Nat]
    BY DEF Below
  <2>2. PICK j \in 1 .. Len(ns) : /\ ns[j].rule_index # 0 /\ e.index = ns[j].rule_index
                                  /\ sp[j] = sp[i] \o e.pattern
    BY DEF Below
  <2>3. PICK q : q = e.pattern
    OBVIOUS
  <2>4. q \in Pattern /\ e = [pattern |-> q, index |-> ns[j].rule_index] /\ sp[j] = sp[i] \o q
    BY <2>1, <2>2, <2>3
  <2>5. CASE j = i
    <3>1. sp[i] \o q = sp[i] \o << >>
      BY <1>1, <2>4, <2>5, ConcatEmpty
    <3>2. q = << >>
      BY <1>1, <2>4, <3>1, ConcatCancel, ConcatEmpty
    <3> QED
      BY <1>1, <2>2, <2>4, <2>5, <3>2, SpelledAtIs
  <2>6. CASE j # i
    <3>1. Begins(sp[i], sp[j])
      BY <1>1, <2>4, BeginsConcat
    <3>2. PICK h \in Labels(ns[i]) : Begins(sp[i] \o h, sp[j])
      BY <2>2, <2>6, <3>1 DEF Good, Onward
    <3>3. PICK k : k = Target(ns[i], h)
      OBVIOUS
    <3>4. k \in 1 .. Len(ns) /\ h \in Pattern /\ sp[k] = sp[i] \o h /\ sp[k] \in Pattern
      BY <1>1, <1>2, <3>3
    <3>5. PICK r \in Pattern : sp[j] = sp[k] \o r
      BY <1>1, <3>2, <3>4, BeginsRest
    <3>6. (sp[i] \o h) \o r = sp[i] \o (h \o r)
      BY <1>1, <3>4, ConcatAssoc
    <3>7. h \o r \in Pattern
      BY <3>4, Concat
    <3>8. sp[i] \o q = sp[i] \o (h \o r)
      BY <2>4, <3>4, <3>5, <3>6
    <3>9. q = h \o r
      BY <1>1, <2>4, <3>7, <3>8, ConcatCancel
    <3>10. PICK d : d = [pattern |-> r, index |-> ns[j].rule_index]
      OBVIOUS
    <3>11. d \in Below(ns, sp, k)
      BY <1>1, <2>2, <3>5, <3>10 DEF Below
    <3>12. d.pattern = r /\ d.index = ns[j].rule_index
      BY <3>10
    <3>13. e = [pattern |-> h \o d.pattern, index |-> d.index]
      BY <2>4, <3>9, <3>12
    <3>14. e \in After(h, Below(ns, sp, k))
      BY <3>11, <3>13 DEF After
    <3> QED
      BY <1>1, <3>3, <3>4, <3>14, SpelledAtIs
  <2> QED
    BY <2>5, <2>6
<1> QED
  BY <1>3, <1>4

(* SpelledAt looks only at later nodes, so that one function spells.       *)
LEMMA SpelledUnique ==
  ASSUME NEW ns, NEW sp, Good(ns, sp), NEW F, NEW G,
         \A j \in 1 .. Len(ns) : F[j] = SpelledAt(F, ns[j]),
         \A j \in 1 .. Len(ns) : G[j] = SpelledAt(G, ns[j]),
         NEW i \in 1 .. Len(ns)
  PROVE  F[i] = G[i]
<1>1. Len(ns) \in Nat /\ \A j \in 1 .. Len(ns) : ns[j] \in Node
  BY DEF Good, Typed
<1> DEFINE T == {m \in 0 .. Len(ns) : \E j \in 1 .. Len(ns) :
                                        j = Len(ns) - m /\ F[j] # G[j]}
<1> SUFFICES ASSUME T # {} PROVE FALSE
  <2>1. Len(ns) - i \in 0 .. Len(ns) /\ i = Len(ns) - (Len(ns) - i)
    BY <1>1
  <2> QED
    BY <2>1
<1>2. PICK m \in T : \A l \in T : m <= l
  <2>1. T \subseteq Nat
    BY <1>1
  <2> QED
    BY <2>1, LeastNat
<1>3. PICK j \in 1 .. Len(ns) : j = Len(ns) - m /\ F[j] # G[j]
  OBVIOUS
<1>4. ASSUME NEW k \in j + 1 .. Len(ns) PROVE F[k] = G[k]
  <2> SUFFICES ASSUME F[k] # G[k] PROVE FALSE
    OBVIOUS
  <2>1. /\ k \in 1 .. Len(ns) /\ Len(ns) - k \in 0 .. Len(ns)
        /\ k = Len(ns) - (Len(ns) - k) /\ ~(m <= Len(ns) - k)
    BY <1>1, <1>3
  <2>2. Len(ns) - k \in T
    BY <2>1
  <2> QED
    BY <1>2, <2>1, <2>2
<1>5. \A h \in Labels(ns[j]) : F[Target(ns[j], h)] = G[Target(ns[j], h)]
  <2>1. \A h \in Labels(ns[j]) : Target(ns[j], h) \in j + 1 .. Len(ns)
    BY DEF Good, Edges
  <2> QED
    BY <1>4, <2>1
<1>6. \A e : e \in SpelledAt(F, ns[j]) <=> e \in SpelledAt(G, ns[j])
  BY <1>1, <1>5, SpelledAtIs
<1>7. SpelledAt(F, ns[j]) = SpelledAt(G, ns[j])
  BY <1>6
<1> QED
  BY <1>3, <1>7

(* The trie spells its entries.                                            *)
LEMMA SpelledIs ==
  ASSUME NEW ns, NEW sp, Good(ns, sp)
  PROVE  Spelled(ns) = Entries(ns, sp)
<1>1. /\ ns \in Seq(Node) /\ Len(ns) \in Nat /\ DOMAIN ns = 1 .. Len(ns)
      /\ Len(ns) >= 1 /\ sp[1] = << >>
      /\ \A j \in 1 .. Len(ns) : ns[j] \in Node /\ sp[j] \in Pattern
                                 /\ ns[j].rule_index \in Nat
  BY NodeFacts DEF Good, Typed
<1> DEFINE R(f) == f = [i \in DOMAIN ns |-> SpelledAt(f, ns[i])]
           spelled == CHOOSE f : R(f)
           B == [i \in DOMAIN ns |-> Below(ns, sp, i)]
<1>2. \A i \in 1 .. Len(ns) : B[i] = Below(ns, sp, i)
  BY <1>1
<1>3. R(B)
  <2>1. ASSUME NEW i \in DOMAIN ns PROVE SpelledAt(B, ns[i]) = Below(ns, sp, i)
    <3> HIDE DEF B
    <3> QED
      BY <1>1, <1>2, BelowIsSpelled
  <2> QED
    BY <2>1
<1>4. R(spelled)
  <2> HIDE DEF B
  <2> QED
    BY <1>3
<1>5. Spelled(ns) = spelled[1]
  BY DEF Spelled
<1> HIDE DEF B, spelled
<1>6. /\ \A i \in 1 .. Len(ns) : spelled[i] = SpelledAt(spelled, ns[i])
      /\ \A i \in 1 .. Len(ns) : B[i] = SpelledAt(B, ns[i])
  BY <1>1, <1>3, <1>4
<1>7. 1 \in 1 .. Len(ns)
  BY <1>1
<1>8. spelled[1] = Below(ns, sp, 1)
  BY <1>2, <1>6, <1>7, SpelledUnique
<1>9. ASSUME NEW e \in Below(ns, sp, 1) PROVE e \in Entries(ns, sp)
  <2>1. e \in [pattern : Pattern, index : Nat]
    BY DEF Below
  <2>2. PICK j \in 1 .. Len(ns) : /\ ns[j].rule_index # 0 /\ e.index = ns[j].rule_index
                                  /\ sp[j] = << >> \o e.pattern
    BY <1>1 DEF Below
  <2>3. e.pattern \in Pattern /\ e = [pattern |-> e.pattern, index |-> e.index]
    BY <2>1
  <2>4. sp[j] = e.pattern
    BY <2>2, <2>3, ConcatEmpty
  <2>5. e = [pattern |-> sp[j], index |-> ns[j].rule_index]
    BY <2>2, <2>3, <2>4
  <2> QED
    BY <2>2, <2>5 DEF Entries
<1>10. ASSUME NEW e \in Entries(ns, sp) PROVE e \in Below(ns, sp, 1)
  <2>1. PICK j \in 1 .. Len(ns) : /\ ns[j].rule_index # 0
                                  /\ e = [pattern |-> sp[j], index |-> ns[j].rule_index]
    BY DEF Entries
  <2>2. << >> \o sp[j] = sp[j]
    BY <1>1, ConcatEmpty
  <2>3. /\ e.pattern = sp[j] /\ e.index = ns[j].rule_index
        /\ e \in [pattern : Pattern, index : Nat]
    BY <1>1, <2>1
  <2>4. sp[j] = sp[1] \o e.pattern
    BY <1>1, <2>2, <2>3
  <2> QED
    BY <2>1, <2>3, <2>4 DEF Below
<1> QED
  BY <1>5, <1>8, <1>9, <1>10

=============================================================================
