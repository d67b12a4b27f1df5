------------------------- MODULE RedisClient_proofs -------------------------
(***************************************************************************)
(* The safety properties of RedisClient for any number of commands and     *)
(* transactions of any length.                                             *)
(***************************************************************************)
EXTENDS RedisClient, SequenceTheorems, TLAPS

Op == {"multi", "exec", "discard", "cmd"}
UnitType == [k : Nat, kind : {"val", "err", "nil", "str", "array", "data"},
             n : Nat]

(* Types that the steps keep whether or not a call has failed.             *)
Types ==
  /\ calls \in Nat /\ calls <= MaxCalls + 1 /\ (open => calls <= MaxCalls)
  /\ open \in BOOLEAN /\ in_multi \in BOOLEAN /\ srvMulti \in BOOLEAN
  /\ dirty \in BOOLEAN /\ failed \in BOOLEAN /\ refused \in BOOLEAN
  /\ pc \in {"idle", "recv"} /\ op \in Op /\ pending \in Nat
  /\ expect \in {"reply", "data", "line"}
  /\ entries \in Seq(UnitType) /\ stream \in Seq(UnitType)
  /\ requests \in Seq([k : Nat, op : Op]) /\ queued \in Seq(Nat)
  /\ direct \subseteq 1 .. calls /\ inTx \subseteq 1 .. calls

(* What travels belongs to commands that were sent.                        *)
Sent ==
  /\ \A i \in 1 .. Len(requests) : requests[i].k \in 1 .. calls
  /\ \A i \in 1 .. Len(stream) : stream[i].k \in 1 .. calls
  /\ \A i \in 1 .. Len(entries) : /\ entries[i].k \in 0 .. calls
                                  /\ entries[i].kind \notin {"str", "array"}

(* The bytes of a string follow its header.                                *)
DataAfter(s) ==
  \A i \in 1 .. Len(s) :
    s[i].kind = "str" => i < Len(s) /\ s[i + 1].kind = "data"

Framed ==
  /\ DataAfter(stream)
  /\ pc = "recv" =>
       /\ expect # "line" => pending > 0
       /\ expect = "data" => stream # << >> /\ stream[1].kind = "data"

(* The units s are what recvresp takes to return, with n replies to read   *)
(* and at next in one of them; it returns at the last unit and not before. *)
(* The line behind the header of an empty array never comes.               *)
Rest(s, n, next) ==
  \/ /\ next = "reply" /\ n > 0 /\ Len(s) = n
     /\ \A i \in 1 .. n : s[i].kind \in {"val", "err", "nil"}
  \/ /\ next = "reply" /\ n = 1 /\ Len(s) = 2
     /\ s[1].kind = "str" /\ s[2].kind = "data"
  \/ /\ next = "data" /\ n = 1 /\ Len(s) = 1 /\ s[1].kind = "data"
  \/ /\ next = "reply" /\ n = 2 /\ Len(s) = 3
     /\ s[1].kind = "nil" /\ s[2].kind = "str" /\ s[3].kind = "data"
  \/ /\ next = "reply" /\ n = 1 /\ Len(s) = 4
     /\ s[1].kind = "array" /\ s[1].n = 2
     /\ s[2].kind = "nil" /\ s[3].kind = "str" /\ s[4].kind = "data"
  \/ /\ next = "reply" /\ n = 1 /\ Len(s) > 0 /\ Len(s) = s[1].n + 1
     /\ s[1].kind = "array" /\ \A i \in 2 .. Len(s) : s[i].kind = "val"
  \/ /\ next = "line" /\ n = 0 /\ s = << >>

(* Nothing has failed: the last command is with Redis, or the rest of its  *)
(* reply, and nothing else, is on its way, or it has returned.             *)
Asked ==
  /\ pc = "recv" /\ stream = << >> /\ entries = << >>
  /\ requests = <<[k |-> calls, op |-> op]>>
  /\ pending = 1 /\ expect = "reply"

Answering ==
  /\ pc = "recv" /\ requests = << >> /\ Rest(stream, pending, expect)
  /\ \A i \in 1 .. Len(stream) : stream[i].k = calls
  /\ \A i \in 1 .. Len(entries) : entries[i].k = calls

Returned ==
  /\ pc = "idle" /\ requests = << >> /\ stream = << >>
  /\ \A i \in 1 .. Len(entries) : entries[i].k = calls

(* in_multi and what Redis knows of it.  The reply to MULTI is one unit.   *)
MultiKnown ==
  /\ pc = "idle" \/ Asked =>
       (srvMulti => in_multi) /\ (in_multi /\ ~refused => srvMulti)
  /\ pc = "recv" /\ op = "multi" => ~in_multi /\ open
  /\ pc = "recv" /\ op \in {"exec", "discard"} => in_multi
  /\ Answering =>
       CASE op = "multi" -> /\ entries = << >> /\ Len(stream) = 1
                            /\ stream[1].kind \in {"val", "err"}
                            /\ stream[1].kind = "val" <=> srvMulti
         [] op \in {"exec", "discard"} -> ~srvMulti
         [] OTHER -> /\ srvMulti => in_multi
                     /\ in_multi /\ ~refused => srvMulti
  /\ ~open => ~in_multi \/ (pc = "recv" /\ op = "discard")

InStep == ~failed => (Asked \/ Answering \/ Returned) /\ MultiKnown

Atomic ==
  ~failed /\ ~refused =>
    /\ inTx \cap direct = {}
    /\ pc = "recv" /\ op = "cmd" /\ calls \in inTx => in_multi

IInv == Types /\ Sent /\ Framed /\ InStep /\ Atomic

-----------------------------------------------------------------------------
(* The replies of Redis are whole.                                         *)

Reply(k, s) ==
  /\ s \in Seq(UnitType) /\ Len(s) > 0 /\ \A i \in 1 .. Len(s) : s[i].k = k
  /\ DataAfter(s) /\ Rest(s, 1, "reply")

LEMMA OneUnit ==
  ASSUME NEW k \in Nat, NEW shape \in {"val", "err", "nil"}
  PROVE  /\ Reply(k, Shaped(k, shape)) /\ Len(Shaped(k, shape)) = 1
         /\ Shaped(k, shape)[1].kind = shape
<1>1. Shaped(k, shape) = <<Unit(k, shape, 0)>>
  BY DEF Shaped
<1>2. Unit(k, shape, 0) \in UnitType
  BY DEF Unit, UnitType
<1>3. /\ Unit(k, shape, 0).kind = shape /\ Unit(k, shape, 0).k = k
  BY DEF Unit
<1> QED
  BY <1>1, <1>2, <1>3 DEF Reply, DataAfter, Rest

LEMMA ShapedIsReply ==
  ASSUME NEW k \in Nat, NEW shape \in AllShapes
  PROVE  Reply(k, Shaped(k, shape))
<1>1. CASE shape \in {"val", "err", "nil"}
  BY <1>1, OneUnit
<1>2. CASE shape = "str"
  <2>1. Shaped(k, shape) = <<Unit(k, "str", 0), Unit(k, "data", 0)>>
    BY <1>2 DEF Shaped
  <2> QED
    BY <2>1 DEF Reply, DataAfter, Rest, Unit, UnitType
<1>3. CASE shape = "array"
  <2>1. Shaped(k, shape) = <<Unit(k, "array", 2), Unit(k, "nil", 0),
                             Unit(k, "str", 0), Unit(k, "data", 0)>>
    BY <1>3 DEF Shaped
  <2> QED
    BY <2>1 DEF Reply, DataAfter, Rest, Unit, UnitType
<1>4. CASE shape = "empty"
  <2>1. Shaped(k, shape) = <<Unit(k, "array", 0)>>
    BY <1>4 DEF Shaped
  <2> QED
    BY <2>1 DEF Reply, DataAfter, Rest, Unit, UnitType
<1> QED
  BY <1>1, <1>2, <1>3, <1>4 DEF AllShapes

LEMMA ExecutedIsReply ==
  ASSUME NEW k \in Nat, NEW n \in Nat
  PROVE  Reply(k, Executed(k, n))
<1> DEFINE h == <<Unit(k, "array", n)>>
           v == [i \in 1 .. n |-> Unit(k, "val", 0)]
<1>1. h \in Seq(UnitType) /\ Len(h) = 1 /\ h[1] = Unit(k, "array", n)
  BY DEF Unit, UnitType
<1>2. v \in Seq(UnitType) /\ Len(v) = n
      /\ \A i \in 1 .. n : v[i] = Unit(k, "val", 0)
  BY DEF Unit, UnitType
<1>3. PICK s : s = Executed(k, n) /\ s = h \o v
  BY DEF Executed
<1> HIDE DEF h, v
<1>4. /\ s \in Seq(UnitType) /\ Len(s) = 1 + n
      /\ s[1] = Unit(k, "array", n)
      /\ \A i \in 2 .. n + 1 : s[i] = Unit(k, "val", 0)
  <2>1. /\ h \o v \in Seq(UnitType) /\ Len(h \o v) = Len(h) + Len(v)
        /\ \A i \in 1 .. Len(h) + Len(v) :
             (h \o v)[i] = IF i <= Len(h) THEN h[i] ELSE v[i - Len(h)]
    BY <1>1, <1>2, ConcatProperties
  <2>2. \A i \in 2 .. n + 1 : i - 1 \in 1 .. n /\ i \in 1 .. 1 + n /\ ~(i <= 1)
    OBVIOUS
  <2> QED
    BY <1>1, <1>2, <1>3, <2>1, <2>2
<1>5. /\ s[1].kind = "array" /\ s[1].n = n /\ s[1].k = k
      /\ \A i \in 2 .. n + 1 : s[i].kind = "val" /\ s[i].k = k
  BY <1>4 DEF Unit
<1>6. DataAfter(s)
  BY <1>4, <1>5 DEF DataAfter
<1>7. Rest(s, 1, "reply")
  BY <1>4, <1>5 DEF Rest
<1>8. \A i \in 1 .. Len(s) : s[i].k = k
  BY <1>4, <1>5
<1> QED
  BY <1>3, <1>4, <1>6, <1>7, <1>8 DEF Reply

(* What Redis does with the command c, whatever it is.                     *)
ServerDoes(c, units) ==
  /\ Reply(c.k, units) /\ stream' = stream \o units
  /\ srvMulti' \in BOOLEAN /\ dirty' \in BOOLEAN /\ queued' \in Seq(Nat)
  /\ c.op = "cmd" => /\ srvMulti' = srvMulti
                     /\ direct' = IF srvMulti THEN direct
                                  ELSE direct \cup {c.k}
  /\ c.op # "cmd" => direct' = direct
  /\ c.op = "multi" /\ ~srvMulti =>
       /\ Len(units) = 1 /\ units[1].kind \in {"val", "err"}
       /\ units[1].kind = "val" <=> srvMulti'
  /\ c.op \in {"exec", "discard"} => ~srvMulti'

LEMMA ServerStep ==
  ASSUME Types, Server
  PROVE  \E c \in [k : Nat, op : Op], units \in Seq(UnitType) :
           /\ requests # << >> /\ c = Head(requests)
           /\ requests' = Tail(requests) /\ ServerDoes(c, units)
           /\ UNCHANGED <<clientVars, failed, refused, inTx>>
<1>1. /\ requests # << >> /\ requests' = Tail(requests)
      /\ UNCHANGED <<clientVars, failed, refused, inTx>>
  BY DEF Server
<1>2. PICK c : c = Head(requests)
  OBVIOUS
<1>3. c \in [k : Nat, op : Op]
  BY <1>1, <1>2, HeadTailProperties DEF Types
<1>4. c.k \in Nat /\ c.op \in Op
  BY <1>3
<1> SUFFICES \E units : ServerDoes(c, units)
  BY <1>1, <1>2, <1>3 DEF ServerDoes, Reply
<1>5. CASE c.op = "cmd" /\ ~srvMulti
  <2>1. PICK shape \in Shapes : stream' = stream \o Shaped(c.k, shape)
    BY <1>2, <1>5 DEF Server, Answers
  <2>2. direct' = direct \cup {c.k} /\ UNCHANGED <<srvMulti, queued, dirty>>
    BY <1>2, <1>5 DEF Server
  <2>3. Reply(c.k, Shaped(c.k, shape))
    BY <1>4, ShapedIsReply, BoundsAssumption
  <2> QED
    BY <1>5, <2>1, <2>2, <2>3 DEF ServerDoes, Types
<1>6. CASE c.op = "cmd" /\ srvMulti
  <2>1. PICK shape \in {"val", "err"} :
          /\ stream' = stream \o Shaped(c.k, shape)
          /\ queued' \in {queued, Append(queued, c.k)}
          /\ dirty' \in {dirty, TRUE}
    BY <1>2, <1>6 DEF Server, Answers
  <2>2. UNCHANGED <<srvMulti, direct>>
    BY <1>2, <1>6 DEF Server
  <2>3. Reply(c.k, Shaped(c.k, shape))
    BY <1>4, OneUnit
  <2>4. queued' \in Seq(Nat)
    <3>1. queued \in Seq(Nat)
      BY DEF Types
    <3>2. Append(queued, c.k) \in Seq(Nat)
      BY <1>4, <3>1, AppendProperties
    <3> QED
      BY <2>1, <3>1, <3>2
  <2>5. dirty' \in BOOLEAN /\ srvMulti' \in BOOLEAN
    BY <2>1, <2>2 DEF Types
  <2> QED
    BY <1>6, <2>1, <2>2, <2>3, <2>4, <2>5 DEF ServerDoes
<1>7. CASE c.op = "multi"
  <2>1. PICK shape \in {"val", "err"} :
          /\ stream' = stream \o Shaped(c.k, shape)
          /\ shape = "val" => srvMulti' = TRUE
          /\ shape = "err" => srvMulti' = srvMulti
    BY <1>2, <1>7 DEF Server, Answers
  <2>2. UNCHANGED <<queued, dirty, direct>>
    BY <1>2, <1>7 DEF Server
  <2>3. /\ Reply(c.k, Shaped(c.k, shape)) /\ Len(Shaped(c.k, shape)) = 1
        /\ Shaped(c.k, shape)[1].kind = shape
    BY <1>4, OneUnit
  <2>4. srvMulti' \in BOOLEAN /\ (~srvMulti => (shape = "val" <=> srvMulti'))
    BY <2>1 DEF Types
  <2>5. dirty' \in BOOLEAN /\ queued' \in Seq(Nat) /\ direct' = direct
    BY <2>2 DEF Types
  <2>6. c.op # "cmd" /\ c.op \notin {"exec", "discard"}
    BY <1>7
  <2> QED
    BY <2>1, <2>3, <2>4, <2>5, <2>6, Zenon DEF ServerDoes
<1>8. CASE c.op \in {"exec", "discard"} /\ ~srvMulti
  <2>1. /\ stream' = stream \o Shaped(c.k, "err")
        /\ UNCHANGED <<srvMulti, queued, dirty, direct>>
    BY <1>2, <1>8 DEF Server, Answers
  <2>2. Reply(c.k, Shaped(c.k, "err"))
    BY <1>4, OneUnit
  <2> QED
    BY <1>8, <2>1, <2>2 DEF ServerDoes, Types
<1>9. CASE c.op \in {"exec", "discard"} /\ srvMulti
  <2>1. PICK units :
          /\ stream' = stream \o units
          /\ units \in {Shaped(c.k, "val"), Shaped(c.k, "err"),
                        Executed(c.k, Len(queued))}
    BY <1>2, <1>9 DEF Server, Answers
  <2>2. /\ srvMulti' = FALSE /\ queued' = << >> /\ dirty' = FALSE
        /\ UNCHANGED direct
    BY <1>2, <1>9 DEF Server
  <2>3. Len(queued) \in Nat
    BY DEF Types
  <2>4. Reply(c.k, units)
    BY <1>4, <2>1, <2>3, OneUnit, ExecutedIsReply
  <2>5. queued' \in Seq(Nat)
    BY <2>2
  <2> QED
    BY <1>9, <2>1, <2>2, <2>4, <2>5 DEF ServerDoes
<1> QED
  BY <1>4, <1>5, <1>6, <1>7, <1>8, <1>9 DEF Op

-----------------------------------------------------------------------------
(* Redis executes a command.                                               *)
LEMMA ServerKeeps ==
  ASSUME IInv, Server
  PROVE  IInv'
<1>1. Types /\ Sent /\ Framed /\ InStep /\ Atomic
  BY DEF IInv
<1>2. PICK c \in [k : Nat, op : Op], units \in Seq(UnitType) :
           /\ requests # << >> /\ c = Head(requests)
           /\ requests' = Tail(requests) /\ ServerDoes(c, units)
           /\ UNCHANGED <<clientVars, failed, refused, inTx>>
  BY <1>1, ServerStep
<1>3. /\ UNCHANGED <<calls, open, in_multi, pc, op, pending, expect, entries>>
      /\ UNCHANGED <<failed, refused, inTx>>
  BY <1>2 DEF clientVars
<1>4. Reply(c.k, units) /\ stream' = stream \o units
  BY <1>2 DEF ServerDoes
<1>5. stream \in Seq(UnitType) /\ requests \in Seq([k : Nat, op : Op])
      /\ calls \in Nat
  BY <1>1 DEF Types
<1>6. /\ stream' \in Seq(UnitType) /\ Len(stream') = Len(stream) + Len(units)
      /\ \A i \in 1 .. Len(stream) + Len(units) :
           stream'[i] = IF i <= Len(stream) THEN stream[i]
                        ELSE units[i - Len(stream)]
      /\ Len(stream) \in Nat /\ Len(units) \in Nat /\ Len(units) > 0
  <2>1. /\ stream \o units \in Seq(UnitType)
        /\ Len(stream \o units) = Len(stream) + Len(units)
        /\ \A i \in 1 .. Len(stream) + Len(units) : (stream \o units)[i] =
             IF i <= Len(stream) THEN stream[i] ELSE units[i - Len(stream)]
    BY <1>2, <1>5, ConcatProperties
  <2> QED
    BY <1>4, <1>5, <2>1 DEF Reply
<1>7. /\ requests' \in Seq([k : Nat, op : Op]) /\ c = requests[1]
      /\ Len(requests') = Len(requests) - 1 /\ Len(requests) \in Nat \ {0}
      /\ \A i \in 1 .. Len(requests') : requests'[i] = requests[i + 1]
  <2>1. Len(requests) \in Nat \ {0}
    BY <1>2, <1>5, EmptySeq
  <2> QED
    BY <1>2, <1>5, <2>1, HeadTailProperties
<1>8. c.k \in 1 .. calls /\ c.op \in Op
  BY <1>1, <1>2, <1>7 DEF Sent
<1>9. Types'
  <2>1. direct' \subseteq 1 .. calls
    BY <1>1, <1>2, <1>8 DEF ServerDoes, Types
  <2>2. srvMulti' \in BOOLEAN /\ dirty' \in BOOLEAN /\ queued' \in Seq(Nat)
    BY <1>2 DEF ServerDoes
  <2> QED
    BY <1>1, <1>3, <1>6, <1>7, <2>1, <2>2 DEF Types
<1>10. Sent'
  <2>1. ASSUME NEW i \in 1 .. Len(requests')
        PROVE  requests'[i].k \in 1 .. calls
    <3>1. i + 1 \in 1 .. Len(requests)
      BY <1>7, <2>1
    <3> QED
      BY <1>1, <1>7, <2>1, <3>1 DEF Sent
  <2>2. ASSUME NEW i \in 1 .. Len(stream') PROVE stream'[i].k \in 1 .. calls
    <3>1. CASE i <= Len(stream)
      BY <1>1, <1>6, <2>2, <3>1 DEF Sent
    <3>2. CASE i > Len(stream)
      <4>1. i - Len(stream) \in 1 .. Len(units)
        BY <1>6, <2>2, <3>2
      <4>2. stream'[i] = units[i - Len(stream)]
        BY <1>6, <2>2, <3>2
      <4> QED
        BY <1>4, <1>8, <4>1, <4>2 DEF Reply
    <3> QED
      BY <1>6, <2>2, <3>1, <3>2
  <2> QED
    BY <1>1, <1>3, <2>1, <2>2 DEF Sent
<1>11. Framed'
  <2>1. ASSUME NEW i \in 1 .. Len(stream'), stream'[i].kind = "str"
        PROVE  i < Len(stream') /\ stream'[i + 1].kind = "data"
    <3>1. CASE i <= Len(stream)
      <4>1. stream[i].kind = "str" /\ i \in 1 .. Len(stream)
        BY <1>6, <2>1, <3>1
      <4>2. i < Len(stream) /\ stream[i + 1].kind = "data"
        BY <1>1, <4>1 DEF Framed, DataAfter
      <4> QED
        BY <1>6, <2>1, <4>2
    <3>2. CASE i > Len(stream)
      <4>1. PICK j \in 1 .. Len(units) : j = i - Len(stream)
        BY <1>6, <2>1, <3>2
      <4>2. units[j].kind = "str"
        BY <1>6, <2>1, <3>2, <4>1
      <4>3. j < Len(units) /\ units[j + 1].kind = "data"
        BY <1>4, <4>2 DEF Reply, DataAfter
      <4> QED
        BY <1>6, <2>1, <3>2, <4>1, <4>3
    <3> QED
      BY <1>6, <2>1, <3>1, <3>2
  <2>2. DataAfter(stream)'
    BY <2>1 DEF DataAfter
  <2>3. stream # << >> => stream' # << >> /\ stream'[1] = stream[1]
    BY <1>5, <1>6
  <2> QED
    BY <1>1, <1>3, <2>2, <2>3 DEF Framed
<1>12. ASSUME ~failed
       PROVE  /\ Asked /\ c = [k |-> calls, op |-> op] /\ Answering'
              /\ stream' = units /\ MultiKnown
  <2>1. Asked /\ MultiKnown
    BY <1>1, <1>2, <1>12 DEF InStep, Answering, Returned
  <2>2. c = [k |-> calls, op |-> op]
    BY <1>7, <2>1 DEF Asked
  <2>3. requests' = << >>
    BY <1>7, <2>1 DEF Asked
  <2>4. stream' = units
    BY <1>2, <1>4, <2>1, ConcatEmptySeq DEF Asked
  <2>5. c.k = calls /\ pending = 1 /\ expect = "reply" /\ entries = << >>
        /\ pc = "recv"
    BY <2>1, <2>2 DEF Asked
  <2> QED
    BY <1>3, <1>4, <2>1, <2>2, <2>3, <2>4, <2>5 DEF Answering, Reply
<1>13. InStep'
  <2> SUFFICES ASSUME ~failed PROVE Answering' /\ MultiKnown'
    BY <1>3 DEF InStep
  <2>1. /\ Asked /\ c.op = op /\ Answering' /\ stream' = units /\ MultiKnown
        /\ pc = "recv" /\ entries = << >>
    BY <1>12 DEF Asked
  <2>2. ~Asked' /\ pc' = "recv"
    BY <1>3, <1>6, <2>1 DEF Asked
  <2>3. /\ (srvMulti => in_multi) /\ (in_multi /\ ~refused => srvMulti)
        /\ op = "multi" => ~in_multi /\ open
        /\ op \in {"exec", "discard"} => in_multi
        /\ ~open => ~in_multi \/ op = "discard"
    BY <2>1 DEF MultiKnown
  <2>4. CASE op = "multi"
    <3>1. Len(units) = 1 /\ units[1].kind \in {"val", "err"}
          /\ (units[1].kind = "val" <=> srvMulti')
      BY <1>2, <2>1, <2>3, <2>4 DEF ServerDoes
    <3> QED
      BY <1>3, <2>1, <2>2, <2>3, <2>4, <3>1 DEF MultiKnown
  <2>5. CASE op \in {"exec", "discard"}
    <3>1. ~srvMulti'
      BY <1>2, <2>1, <2>5 DEF ServerDoes
    <3> QED
      BY <1>3, <2>1, <2>2, <2>3, <2>5, <3>1 DEF MultiKnown
  <2>6. CASE op = "cmd"
    <3>1. srvMulti' = srvMulti
      BY <1>2, <2>1, <2>6 DEF ServerDoes
    <3> QED
      BY <1>3, <2>1, <2>2, <2>3, <2>6, <3>1 DEF MultiKnown
  <2> QED
    BY <1>1, <2>1, <2>4, <2>5, <2>6 DEF Types, Op
<1>14. Atomic'
  <2> SUFFICES ASSUME ~failed, ~refused
               PROVE  inTx \cap direct' = {}
                      /\ (pc = "recv" /\ op = "cmd" /\ calls \in inTx => in_multi)
    BY <1>3 DEF Atomic
  <2>1. inTx \cap direct = {}
        /\ (pc = "recv" /\ op = "cmd" /\ calls \in inTx => in_multi)
    BY <1>1 DEF Atomic
  <2>2. c.op = op /\ c.k = calls /\ pc = "recv"
        /\ (srvMulti => in_multi) /\ (in_multi => srvMulti)
    BY <1>12 DEF MultiKnown, Asked
  <2>3. c.op = "cmd" /\ ~srvMulti => calls \notin inTx
    BY <2>1, <2>2
  <2> QED
    BY <1>2, <2>1, <2>2, <2>3 DEF ServerDoes
<1> QED
  BY <1>9, <1>10, <1>11, <1>13, <1>14 DEF IInv

-----------------------------------------------------------------------------
(* The client.                                                             *)

(* What is left of the stream when its first unit has been read.           *)
LEMMA TailRead ==
  ASSUME Types, Sent, Framed, stream # << >>, stream' = Tail(stream)
  PROVE  /\ Len(stream) \in Nat \ {0} /\ stream[1] \in UnitType
         /\ stream[1] = Head(stream) /\ stream[1].k \in 1 .. calls
         /\ stream' \in Seq(UnitType) /\ Len(stream') = Len(stream) - 1
         /\ \A i \in 1 .. Len(stream') : stream'[i] = stream[i + 1]
         /\ \A i \in 1 .. Len(stream') : stream'[i].k \in 1 .. calls
         /\ DataAfter(stream')
<1>1. stream \in Seq(UnitType) /\ calls \in Nat
  BY DEF Types
<1>2. Len(stream) \in Nat \ {0}
  BY <1>1, EmptySeq
<1>3. /\ stream[1] = Head(stream) /\ stream[1] \in UnitType
      /\ stream' \in Seq(UnitType) /\ Len(stream') = Len(stream) - 1
      /\ \A i \in 1 .. Len(stream') : stream'[i] = stream[i + 1]
  BY <1>1, <1>2, HeadTailProperties
<1>4. \A i \in 1 .. Len(stream') : i + 1 \in 1 .. Len(stream)
  BY <1>2, <1>3
<1>5. stream[1].k \in 1 .. calls
  BY <1>2 DEF Sent
<1>6. \A i \in 1 .. Len(stream') : stream'[i].k \in 1 .. calls
  BY <1>3, <1>4 DEF Sent
<1>7. ASSUME NEW i \in 1 .. Len(stream'), stream'[i].kind = "str"
      PROVE  i < Len(stream') /\ stream'[i + 1].kind = "data"
  <2>1. stream[i + 1].kind = "str" /\ i + 1 \in 1 .. Len(stream)
    BY <1>3, <1>4, <1>7
  <2>2. i + 1 < Len(stream) /\ stream[(i + 1) + 1].kind = "data"
    BY <2>1 DEF Framed, DataAfter
  <2>3. i + 1 \in 1 .. Len(stream')
    BY <1>2, <1>3, <1>7, <2>2
  <2> QED
    BY <1>2, <1>3, <1>7, <2>2, <2>3
<1> QED
  BY <1>2, <1>3, <1>5, <1>6, <1>7 DEF DataAfter

(* Once a call has failed only the types and the framing matter.           *)
LEMMA FailedKeeps ==
  ASSUME IInv, failed' = TRUE, pc' = "idle", pending' = 0, expect' = "reply",
         UNCHANGED <<srvMulti, queued, dirty, direct, requests>>,
         stream' = stream \/ (stream # << >> /\ stream' = Tail(stream)),
         open' \in BOOLEAN,
         in_multi' \in BOOLEAN, refused' \in BOOLEAN, op' \in Op,
         calls' \in {calls, calls + 1}, calls' <= MaxCalls + 1,
         open' => calls' <= MaxCalls, inTx' \subseteq 1 .. calls',
         entries' = <<Unit(calls', "err", 0)>>
  PROVE  IInv'
<1>1. Types /\ Sent /\ Framed
  BY DEF IInv
<1>2. calls \in Nat /\ calls' \in Nat /\ calls <= calls'
      /\ 1 .. calls \subseteq 1 .. calls'
  BY <1>1 DEF Types
<1>3. /\ entries' \in Seq(UnitType) /\ Len(entries') = 1
      /\ entries'[1].k = calls' /\ entries'[1].kind = "err"
  BY <1>2 DEF Unit, UnitType
<1>4. /\ stream' \in Seq(UnitType) /\ DataAfter(stream')
      /\ \A i \in 1 .. Len(stream') : stream'[i].k \in 1 .. calls
  <2>1. CASE stream' = stream
    BY <1>1, <2>1 DEF Types, Sent, Framed
  <2>2. CASE stream # << >> /\ stream' = Tail(stream)
    BY <1>1, <2>2, TailRead
  <2> QED
    BY <2>1, <2>2
<1>5. Types'
  BY <1>1, <1>2, <1>3, <1>4 DEF Types
<1>6. Sent'
  BY <1>1, <1>2, <1>3, <1>4 DEF Sent
<1>7. Framed'
  BY <1>4 DEF Framed, DataAfter
<1> QED
  BY <1>5, <1>6, <1>7 DEF IInv, InStep, Atomic

(* A command is sent, or could not be; Destroy closes the Transaction.     *)
LEMMA SendKeeps ==
  ASSUME IInv, NEW o \in Op, Send(o), pc = "idle",
         calls + 1 <= MaxCalls + 1, open' \in BOOLEAN, open' => open,
         open' => calls + 1 <= MaxCalls,
         o = "multi" => ~in_multi /\ open',
         o \in {"exec", "discard"} => in_multi,
         ~failed /\ ~open' => ~in_multi \/ o = "discard"
  PROVE  IInv'
<1>1. Types /\ Sent /\ Framed /\ InStep /\ Atomic
  BY DEF IInv
<1>2. calls \in Nat /\ calls' = calls + 1 /\ op' = o
      /\ UNCHANGED <<srvMulti, queued, dirty, direct, stream>>
      /\ inTx' = IF o = "cmd" /\ in_multi THEN inTx \cup {calls + 1} ELSE inTx
  BY <1>1 DEF Send, Types
<1>3. inTx' \subseteq 1 .. calls' /\ direct' \subseteq 1 .. calls'
      /\ 1 .. calls \subseteq 1 .. calls' /\ calls' \notin direct
      /\ calls' \notin inTx
  BY <1>1, <1>2 DEF Types
<1>4. CASE failed' = TRUE /\ Return(o, <<Unit(calls + 1, "err", 0)>>)
           /\ UNCHANGED requests
  <2>1. in_multi' \in BOOLEAN
    BY <1>1, <1>4 DEF Return, MultiAfter, Types
  <2>2. refused' \in BOOLEAN
    BY <1>4 DEF Return
  <2>3. /\ pc' = "idle" /\ pending' = 0 /\ expect' = "reply"
        /\ entries' = <<Unit(calls', "err", 0)>>
    BY <1>2, <1>4 DEF Return
  <2> QED
    BY <1>2, <1>3, <1>4, <2>1, <2>2, <2>3, FailedKeeps
<1>5. CASE /\ requests' = Append(requests, [k |-> calls + 1, op |-> o])
           /\ pc' = "recv" /\ pending' = 1 /\ expect' = "reply"
           /\ entries' = << >> /\ UNCHANGED <<in_multi, failed, refused>>
  <2>1. PICK c : c = [k |-> calls + 1, op |-> o]
    OBVIOUS
  <2>0. c.k = calls' /\ c \in [k : Nat, op : Op]
    <3>1. calls + 1 \in Nat
      BY <1>2
    <3> QED
      BY <1>2, <2>1, <3>1
  <2>2. requests \in Seq([k : Nat, op : Op])
    BY <1>1 DEF Types
  <2>3. /\ requests' \in Seq([k : Nat, op : Op])
        /\ Len(requests') = Len(requests) + 1 /\ Len(requests) \in Nat
        /\ \A i \in 1 .. Len(requests) : requests'[i] = requests[i]
        /\ requests'[Len(requests) + 1] = c
    BY <1>5, <2>0, <2>1, <2>2, AppendProperties
  <2>4. Types'
    BY <1>1, <1>2, <1>3, <1>5, <2>3 DEF Types
  <2>5. Sent'
    <3>1. ASSUME NEW i \in 1 .. Len(requests')
          PROVE  requests'[i].k \in 1 .. calls'
      <4>1. CASE i <= Len(requests)
        BY <1>1, <1>3, <2>3, <3>1, <4>1 DEF Sent
      <4>2. CASE i = Len(requests) + 1
        <5>1. calls' \in 1 .. calls'
          BY <1>2
        <5> QED
          BY <2>0, <2>3, <4>2, <5>1
      <4> QED
        BY <2>3, <3>1, <4>1, <4>2
    <3> QED
      <4>1. \A i \in 1 .. Len(stream') : stream'[i].k \in 1 .. calls'
        BY <1>1, <1>2, <1>3 DEF Sent
      <4>2. Len(entries') = 0
        BY <1>5
      <4> QED
        BY <3>1, <4>1, <4>2 DEF Sent
  <2>6. Framed'
    BY <1>1, <1>2, <1>5 DEF Framed, DataAfter
  <2>7. ASSUME ~failed PROVE Asked' /\ MultiKnown'
    <3>1. Returned /\ MultiKnown
      BY <1>1, <2>7 DEF InStep, Asked, Answering
    <3>2. Asked'
      <4>1. requests' = <<[k |-> calls', op |-> op']>>
        BY <1>2, <1>5, <3>1 DEF Returned
      <4> QED
        BY <1>2, <1>5, <3>1, <4>1 DEF Asked, Returned
    <3>3. (srvMulti => in_multi) /\ (in_multi /\ ~refused => srvMulti)
      BY <3>1 DEF MultiKnown
    <3>4. ~Answering'
      BY <3>2 DEF Asked, Answering
    <3> QED
      BY <1>2, <1>5, <2>7, <3>2, <3>3, <3>4 DEF MultiKnown
  <2>8. Atomic'
    <3> SUFFICES ASSUME ~failed, ~refused
                 PROVE  inTx' \cap direct = {}
                        /\ (o = "cmd" /\ calls' \in inTx' => in_multi)
      BY <1>2, <1>5 DEF Atomic
    <3>1. inTx \cap direct = {}
      BY <1>1 DEF Atomic
    <3> QED
      BY <1>2, <1>3, <3>1
  <2> QED
    BY <1>5, <2>4, <2>5, <2>6, <2>7, <2>8 DEF IInv, InStep
<1> QED
  BY <1>4, <1>5 DEF Send

(* multi(), exec(), discard(), a command, and the destructor.              *)
LEMMA ClientKeeps ==
  ASSUME IInv, Client
  PROVE  IInv'
<1>1. Types
  BY DEF IInv
<1>2. calls \in Nat /\ MaxCalls \in Nat /\ open \in BOOLEAN
      /\ in_multi \in BOOLEAN /\ (open => calls <= MaxCalls)
  BY <1>1, BoundsAssumption DEF Types
<1>3. ~failed /\ pc = "idle" => (~open => ~in_multi)
  BY DEF IInv, InStep, MultiKnown
<1>4. ASSUME NEW o \in Op, MayCall, Send(o), UNCHANGED open,
             o = "multi" => ~in_multi /\ open,
             o \in {"exec", "discard"} => in_multi
      PROVE  IInv'
  <2>1. /\ pc = "idle" /\ calls + 1 <= MaxCalls
        /\ calls + 1 <= MaxCalls + 1
    BY <1>2, <1>4 DEF MayCall
  <2> QED
    BY <1>2, <1>3, <1>4, <2>1, SendKeeps
<1>5. CASE Cmd
  BY <1>4, <1>5 DEF Cmd, Op
<1>6. CASE Multi
  BY <1>4, <1>6 DEF Multi, Op
<1>7. CASE Exec
  BY <1>4, <1>7 DEF Exec, Op
<1>8. CASE Discard
  BY <1>4, <1>8 DEF Discard, Op
<1>9. CASE Destroy /\ in_multi
  <2>1. /\ pc = "idle" /\ open /\ open' = FALSE /\ Send("discard")
        /\ "discard" \in Op
    BY <1>9 DEF Destroy, Op
  <2>2. calls + 1 <= MaxCalls + 1
    BY <1>2, <2>1
  <2> QED
    BY <1>9, <2>1, <2>2, SendKeeps
<1>10. CASE Destroy /\ ~in_multi
  <2>1. /\ pc = "idle" /\ open /\ open' = FALSE
        /\ UNCHANGED <<calls, in_multi, pc, op, pending, expect, entries,
                        requests, srvMulti, queued, dirty, direct, stream,
                        failed, refused, inTx>>
    BY <1>10 DEF Destroy, serverVars
  <2>2. Types' /\ Sent' /\ Framed' /\ Atomic'
    <3>1. Types'
      BY <1>1, <1>2, <2>1 DEF Types
    <3>2. Sent' /\ Framed' /\ Atomic'
      BY <2>1 DEF IInv, Sent, Framed, DataAfter, Atomic
    <3> QED
      BY <3>1, <3>2
  <2>3. InStep'
    <3> SUFFICES ASSUME ~failed PROVE Returned' /\ MultiKnown'
      BY <2>1 DEF InStep
    <3>1. Returned /\ MultiKnown
      BY <2>1 DEF IInv, InStep, Asked, Answering
    <3>2. Returned'
      BY <2>1, <3>1 DEF Returned
    <3>3. ~Asked' /\ ~Answering' /\ ~in_multi' /\ pc' = "idle"
      BY <1>10, <2>1 DEF Asked, Answering
    <3>4. (srvMulti => in_multi) /\ (in_multi /\ ~refused => srvMulti)
      BY <2>1, <3>1 DEF MultiKnown
    <3> QED
      BY <2>1, <3>2, <3>3, <3>4 DEF MultiKnown
  <2> QED
    BY <2>2, <2>3 DEF IInv
<1> QED
  BY <1>5, <1>6, <1>7, <1>8, <1>9, <1>10 DEF Client

-----------------------------------------------------------------------------
(* recvresp                                                                *)

(* The first unit of the stream has been read and was not a surprise; next *)
(* says whether that was the last one.                                     *)
LEMMA ProgressKeeps ==
  ASSUME IInv, pc = "recv", stream # << >>, stream' = Tail(stream),
         UNCHANGED <<calls, open, op, requests, srvMulti, queued, dirty,
                     direct, inTx>>,
         NEW es \in Seq(UnitType), NEW n \in Nat,
         NEW next \in {"reply", "data", "line"}, Progress(es, n, next),
         \A i \in 1 .. Len(es) : /\ es[i].k \in 0 .. calls
                                 /\ es[i].kind \notin {"str", "array"},
         next # "line" /\ ~(n = 0 /\ next = "reply") => n > 0,
         next = "data" => stream' # << >> /\ stream'[1].kind = "data",
         ~failed => /\ \A i \in 1 .. Len(es) : es[i].k = calls
                    /\ IF n = 0 /\ next = "reply" THEN stream' = << >>
                       ELSE Rest(stream', n, next)
                    /\ op = "multi" =>
                         n = 0 /\ next = "reply" /\ es = <<stream[1]>>
  PROVE  IInv'
<1>1. Types /\ Sent /\ Framed /\ InStep /\ Atomic
  BY DEF IInv
<1>2. /\ stream' \in Seq(UnitType) /\ DataAfter(stream')
      /\ \A i \in 1 .. Len(stream') : stream'[i].k \in 1 .. calls
      /\ \A i \in 1 .. Len(stream') : stream'[i] = stream[i + 1]
      /\ Len(stream) \in Nat /\ Len(stream') = Len(stream) - 1
  BY <1>1, TailRead
<1>3. entries' = es /\ failed' = failed
  BY DEF Progress, Return
<1>4. Sent'
  BY <1>1, <1>2, <1>3 DEF Sent
<1>5. ASSUME ~failed
      PROVE  /\ Answering /\ MultiKnown
             /\ \A i \in 1 .. Len(stream') : stream'[i].k = calls
             /\ \A i \in 1 .. Len(entries') : entries'[i].k = calls
  <2>1. Answering /\ MultiKnown
    BY <1>1, <1>5 DEF InStep, Asked, Returned
  <2>2. \A i \in 1 .. Len(stream') : i + 1 \in 1 .. Len(stream)
    BY <1>2
  <2> QED
    BY <1>2, <1>3, <1>5, <2>1, <2>2 DEF Answering
<1>6. CASE n = 0 /\ next = "reply"
  <2>1. /\ pc' = "idle" /\ pending' = 0 /\ expect' = "reply"
        /\ in_multi' = MultiAfter(op, es)
        /\ refused' = (refused \/ (op = "multi" /\ ~Good(es)))
    BY <1>6 DEF Progress, Return
  <2>2. in_multi' \in BOOLEAN
    BY <1>1, <2>1 DEF MultiAfter, Types
  <2>3. refused' \in BOOLEAN
    BY <2>1
  <2>4. Types'
    BY <1>1, <1>2, <1>3, <2>1, <2>2, <2>3 DEF Types
  <2>5. Framed'
    BY <1>2, <2>1 DEF Framed
  <2>6. InStep'
    <3> SUFFICES ASSUME ~failed PROVE Returned' /\ MultiKnown'
      BY <1>3 DEF InStep
    <3>1. Answering /\ MultiKnown /\ stream' = << >>
          /\ \A i \in 1 .. Len(entries') : entries'[i].k = calls
      BY <1>5, <1>6
    <3>2. Returned'
      BY <2>1, <3>1 DEF Returned, Answering
    <3>3. ~Asked' /\ ~Answering'
      BY <2>1 DEF Asked, Answering
    <3> SUFFICES /\ (srvMulti => in_multi') /\ (~open => ~in_multi')
                 /\ (in_multi' /\ ~refused' => srvMulti)
      BY <2>1, <3>2, <3>3 DEF MultiKnown
    <3>4. CASE op = "multi"
      <4>1. open /\ stream[1].kind \in {"val", "err"}
            /\ (stream[1].kind = "val" <=> srvMulti)
        BY <3>1, <3>4 DEF MultiKnown
      <4>2. in_multi' = TRUE
        BY <2>1, <3>4 DEF MultiAfter
      <4>3. es = <<stream[1]>>
        BY <3>4
      <4>4. ~refused' => srvMulti
        <5>1. Len(es) = 1 /\ es[1] = stream[1]
          BY <4>3
        <5>2. Good(es) => stream[1].kind = "val"
          BY <4>1, <5>1 DEF Good
        <5> QED
          BY <2>1, <3>4, <4>1, <5>2
      <4> QED
        BY <4>1, <4>2, <4>4
    <3>5. CASE op \in {"exec", "discard"}
      <4>1. ~srvMulti
        BY <3>1, <3>5 DEF MultiKnown
      <4>2. in_multi' = FALSE
        BY <2>1, <3>5 DEF MultiAfter
      <4> QED
        BY <4>1, <4>2
    <3>6. CASE op = "cmd"
      <4>1. (srvMulti => in_multi) /\ (in_multi /\ ~refused => srvMulti)
            /\ (~open => ~in_multi)
        BY <3>1, <3>6 DEF MultiKnown
      <4>2. in_multi' = in_multi /\ (refused => refused')
        BY <2>1, <3>6 DEF MultiAfter
      <4> QED
        BY <4>1, <4>2
    <3> QED
      BY <1>1, <3>4, <3>5, <3>6 DEF Types, Op
  <2>7. Atomic'
    BY <1>1, <1>3, <2>1 DEF Atomic
  <2> QED
    BY <1>4, <2>4, <2>5, <2>6, <2>7 DEF IInv
<1>7. CASE ~(n = 0 /\ next = "reply")
  <2>1. /\ pending' = n /\ expect' = next
        /\ UNCHANGED <<pc, in_multi, failed, refused>>
    BY <1>7 DEF Progress
  <2>2. Types'
    BY <1>1, <1>2, <1>3, <2>1 DEF Types
  <2>3. Framed'
    BY <1>2, <1>7, <2>1 DEF Framed
  <2>4. InStep'
    <3> SUFFICES ASSUME ~failed PROVE Answering' /\ MultiKnown'
      BY <1>3 DEF InStep
    <3>1. Answering /\ MultiKnown /\ Rest(stream', n, next) /\ op # "multi"
      BY <1>5, <1>7
    <3>2. Answering'
      BY <1>5, <2>1, <3>1 DEF Answering
    <3>3. ~Asked'
      BY <3>2 DEF Asked, Answering
    <3> QED
      BY <2>1, <3>1, <3>2, <3>3 DEF MultiKnown
  <2>5. Atomic'
    BY <1>1, <1>3, <2>1 DEF Atomic
  <2> QED
    BY <1>4, <2>2, <2>3, <2>4, <2>5 DEF IInv
<1> QED
  BY <1>6, <1>7

(* A failed read ends the call with an error.                              *)
LEMMA FailKeeps ==
  ASSUME IInv, Fail,
         stream' = stream \/ (stream # << >> /\ stream' = Tail(stream)),
         UNCHANGED <<calls, open, op, requests, srvMulti, queued, dirty,
                     direct, inTx>>
  PROVE  IInv'
<1>1. Types
  BY DEF IInv
<1>2. in_multi' \in BOOLEAN
  BY <1>1 DEF Fail, Return, MultiAfter, Types
<1>3. refused' \in BOOLEAN
  BY DEF Fail, Return
<1>4. /\ failed' = TRUE /\ pc' = "idle" /\ pending' = 0 /\ expect' = "reply"
      /\ entries' = <<Unit(calls', "err", 0)>>
  BY DEF Fail, Return, ErrorReply
<1> QED
  BY <1>1, <1>2, <1>3, <1>4, FailedKeeps DEF Types

(* A unit is read: a whole reply, the header of a string or an array, the  *)
(* bytes of a string, or the line behind an empty array.                   *)
LEMMA ReadKeeps ==
  ASSUME IInv, Read
  PROVE  IInv'
<1>1. Types /\ Sent /\ Framed /\ InStep
  BY DEF IInv
<1>2. /\ pc = "recv" /\ stream # << >> /\ stream' = Tail(stream)
      /\ UNCHANGED <<calls, open, op, requests, srvMulti, queued, dirty,
                      direct, inTx>>
  BY DEF Read
<1>3. PICK u : u = Head(stream)
  OBVIOUS
<1>4. /\ Len(stream) \in Nat \ {0} /\ stream[1] = u /\ u \in UnitType
      /\ u.k \in 1 .. calls
      /\ stream' \in Seq(UnitType) /\ Len(stream') = Len(stream) - 1
      /\ \A i \in 1 .. Len(stream') : stream'[i] = stream[i + 1]
  BY <1>1, <1>2, <1>3, TailRead
<1>5. /\ calls \in Nat /\ entries \in Seq(UnitType) /\ pending \in Nat
      /\ u.n \in Nat /\ stream \in Seq(UnitType)
      /\ u.kind \in {"val", "err", "nil", "str", "array", "data"}
  BY <1>1, <1>4 DEF Types, UnitType
<1>6. \A i \in 1 .. Len(entries) : /\ entries[i].k \in 0 .. calls
                                   /\ entries[i].kind \notin {"str", "array"}
  BY <1>1 DEF Sent
<1>7. /\ expect # "line" => pending > 0
      /\ expect = "data" => u.kind = "data"
  BY <1>1, <1>2, <1>4 DEF Framed
<1>8. ASSUME ~failed
      PROVE  /\ Rest(stream, pending, expect) /\ u.k = calls
             /\ \A i \in 1 .. Len(entries) : entries[i].k = calls
             /\ op = "multi" => /\ entries = << >> /\ Len(stream) = 1
                                /\ u.kind \in {"val", "err"}
  <2>1. Answering /\ MultiKnown
    BY <1>1, <1>2, <1>8 DEF InStep, Asked, Returned
  <2> QED
    BY <1>4, <2>1 DEF Answering, MultiKnown
<1>9. PICK es : es = Append(entries, u)
  OBVIOUS
<1>10. /\ es \in Seq(UnitType) /\ Len(es) = Len(entries) + 1
       /\ Len(entries) \in Nat
       /\ \A i \in 1 .. Len(entries) : es[i] = entries[i]
       /\ es[Len(entries) + 1] = u
  BY <1>4, <1>5, <1>9, AppendProperties
<1>11. ASSUME u.kind \notin {"str", "array"}
       PROVE  /\ \A i \in 1 .. Len(es) : /\ es[i].k \in 0 .. calls
                                          /\ es[i].kind \notin {"str", "array"}
              /\ ~failed => \A i \in 1 .. Len(es) : es[i].k = calls
  <2>1. u.k \in 0 .. calls
    BY <1>4, <1>5
  <2>2. \A i \in 1 .. Len(es) : i \in 1 .. Len(entries) \/ i = Len(entries) + 1
    BY <1>10
  <2> QED
    BY <1>6, <1>8, <1>10, <1>11, <2>1, <2>2
<1>12. CASE expect = "reply" /\ u.kind \in {"val", "err", "nil"}
  <2>1. Progress(es, pending - 1, "reply")
    BY <1>3, <1>9, <1>12 DEF Read, ReadReply
  <2>2. PICK n \in Nat : n = pending - 1
    BY <1>5, <1>7, <1>12
  <2>3. ASSUME ~failed
        PROVE  IF n = 0 THEN stream' = << >> ELSE Rest(stream', n, "reply")
    <3>1. CASE Len(stream) = pending
               /\ \A i \in 1 .. pending : stream[i].kind \in {"val", "err", "nil"}
      <4>1. Len(stream') = n
        BY <1>4, <2>2, <3>1
      <4>2. \A i \in 1 .. n : i + 1 \in 1 .. pending
        BY <1>5, <2>2
      <4>3. \A i \in 1 .. n : stream'[i].kind \in {"val", "err", "nil"}
        BY <1>4, <3>1, <4>1, <4>2
      <4> QED
        BY <1>4, <4>1, <4>3, EmptySeq DEF Rest
    <3>2. CASE pending = 2 /\ Len(stream) = 3 /\ stream[2].kind = "str"
               /\ stream[3].kind = "data"
      <4>1. n = 1 /\ Len(stream') = 2
        BY <1>4, <2>2, <3>2
      <4>2. stream'[1].kind = "str" /\ stream'[2].kind = "data"
        BY <1>4, <3>2, <4>1
      <4> QED
        BY <4>1, <4>2 DEF Rest
    <3> QED
      BY <1>4, <1>8, <1>12, <2>3, <3>1, <3>2 DEF Rest
  <2>4. ASSUME ~failed, op = "multi"
        PROVE  n = 0 /\ es = <<stream[1]>>
    <3>1. pending = 1
      BY <1>4, <1>8, <1>12, <2>4 DEF Rest
    <3>2. Append(<< >>, u) = <<u>>
      OBVIOUS
    <3> QED
      BY <1>4, <1>8, <1>9, <2>2, <2>4, <3>1, <3>2
  <2>5. n # 0 => n > 0
    OBVIOUS
  <2> QED
    BY <1>2, <1>10, <1>11, <1>12, <2>1, <2>2, <2>3, <2>4, <2>5, ProgressKeeps
<1>13. CASE expect = "reply" /\ u.kind = "str"
  <2>1. Progress(entries, pending, "data")
    BY <1>3, <1>13 DEF Read, ReadReply
  <2>2. 1 < Len(stream) /\ stream[2].kind = "data"
    BY <1>1, <1>4, <1>13 DEF Framed, DataAfter
  <2>3. stream' # << >> /\ stream'[1].kind = "data"
    BY <1>4, <2>2
  <2>4. ASSUME ~failed
        PROVE  Rest(stream', pending, "data") /\ op # "multi"
    <3>1. pending = 1 /\ Len(stream) = 2
      BY <1>4, <1>8, <1>13, <2>4 DEF Rest
    <3> QED
      BY <1>4, <1>8, <1>13, <2>3, <2>4, <3>1 DEF Rest
  <2> QED
    BY <1>2, <1>5, <1>6, <1>7, <1>8, <1>13, <2>1, <2>3, <2>4, ProgressKeeps
<1>14. CASE expect = "reply" /\ u.kind = "array"
  <2>1. PICK n \in Nat : n = pending + u.n - 1
    BY <1>5, <1>7, <1>14
  <2>2. PICK next \in {"reply", "line"} :
          next = IF u.n = 0 THEN "line" ELSE "reply"
    OBVIOUS
  <2>3. Progress(entries, n, next)
    BY <1>3, <1>14, <2>1, <2>2 DEF Read, ReadReply, Elements
  <2>4. next = "reply" => n > 0
    BY <1>5, <1>7, <1>14, <2>1, <2>2
  <2>5. ASSUME ~failed
        PROVE  Rest(stream', n, next) /\ op # "multi"
    <3>1. op # "multi"
      BY <1>8, <1>14, <2>5
    <3>2. CASE pending = 1 /\ Len(stream) = 4 /\ u.n = 2
               /\ stream[2].kind = "nil" /\ stream[3].kind = "str"
               /\ stream[4].kind = "data"
      <4>1. n = 2 /\ next = "reply" /\ Len(stream') = 3
        BY <1>4, <2>1, <2>2, <3>2
      <4>2. stream'[1].kind = "nil" /\ stream'[2].kind = "str"
            /\ stream'[3].kind = "data"
        BY <1>4, <3>2, <4>1
      <4> QED
        BY <3>1, <4>1, <4>2 DEF Rest
    <3>3. CASE pending = 1 /\ Len(stream) = u.n + 1
               /\ \A i \in 2 .. Len(stream) : stream[i].kind = "val"
      <4>1. Len(stream') = u.n /\ n = u.n
        BY <1>4, <1>5, <2>1, <3>3
      <4>2. \A i \in 1 .. n : i + 1 \in 2 .. Len(stream)
        BY <1>4, <4>1
      <4>3. ASSUME NEW i \in 1 .. n PROVE stream'[i].kind = "val"
        <5>1. stream'[i] = stream[i + 1]
          BY <1>4, <4>1
        <5>2. stream[i + 1].kind = "val"
          BY <3>3, <4>2
        <5> QED
          BY <5>1, <5>2
      <4>4. CASE u.n = 0
        <5>1. stream' = << >> /\ n = 0 /\ next = "line"
          BY <1>4, <2>2, <4>1, <4>4, EmptySeq
        <5> QED
          BY <3>1, <5>1 DEF Rest
      <4>5. CASE u.n # 0
        BY <1>5, <2>2, <3>1, <4>1, <4>3, <4>5 DEF Rest
      <4> QED
        BY <4>4, <4>5
    <3> QED
      BY <1>4, <1>8, <1>14, <2>5, <3>2, <3>3 DEF Rest
  <2> QED
    BY <1>2, <1>5, <1>6, <1>8, <2>3, <2>4, <2>5, ProgressKeeps
<1>15. CASE expect = "reply" /\ u.kind = "data"
  BY <1>2, <1>3, <1>15, FailKeeps DEF Read, ReadReply
<1>16. CASE expect = "data"
  <2>1. Progress(es, pending - 1, "reply")
    BY <1>3, <1>9, <1>16 DEF Read
  <2>2. PICK n \in Nat : n = pending - 1
    BY <1>5, <1>7, <1>16
  <2>3. ASSUME ~failed
        PROVE  n = 0 /\ stream' = << >> /\ op # "multi"
    <3>1. pending = 1 /\ Len(stream) = 1
      BY <1>8, <1>16, <2>3 DEF Rest
    <3> QED
      BY <1>4, <1>7, <1>8, <1>16, <2>2, <2>3, <3>1, EmptySeq
  <2>4. n # 0 => n > 0
    OBVIOUS
  <2>5. u.kind \notin {"str", "array"}
    BY <1>7, <1>16
  <2> QED
    BY <1>2, <1>10, <1>11, <2>1, <2>2, <2>3, <2>4, <2>5, ProgressKeeps
<1>17. CASE expect = "line"
  <2>1. Progress(entries, pending, "reply")
    BY <1>3, <1>17 DEF Read
  <2>2. failed
    BY <1>2, <1>8, <1>17 DEF Rest
  <2>3. pending # 0 => pending > 0
    BY <1>5
  <2> QED
    BY <1>2, <1>5, <1>6, <2>1, <2>2, <2>3, ProgressKeeps
<1> QED
  BY <1>1, <1>5, <1>12, <1>13, <1>14, <1>15, <1>16, <1>17 DEF Types

-----------------------------------------------------------------------------
LEMMA NextKeeps == IInv /\ [Next]_vars => IInv'
<1> SUFFICES ASSUME IInv, [Next]_vars PROVE IInv'
  OBVIOUS
<1>1. CASE Client
  BY <1>1, ClientKeeps
<1>2. CASE Read
  BY <1>2, ReadKeeps
<1>3. CASE TimesOut
  BY <1>3, FailKeeps DEF TimesOut, serverVars
<1>4. CASE Server
  BY <1>4, ServerKeeps
<1>5. CASE UNCHANGED vars
  BY <1>5 DEF vars, clientVars, serverVars, IInv, Types, Sent, Framed, InStep,
              Atomic, DataAfter, MultiKnown, Asked, Answering, Returned
<1> QED
  BY <1>1, <1>2, <1>3, <1>4, <1>5 DEF Next, Receive

LEMMA InitKeeps == Init => IInv
<1> SUFFICES ASSUME Init PROVE IInv
  OBVIOUS
<1>1. Types
  <2>1. /\ entries \in Seq(UnitType) /\ stream \in Seq(UnitType)
        /\ requests \in Seq([k : Nat, op : Op]) /\ queued \in Seq(Nat)
    BY DEF Init
  <2>2. /\ calls \in Nat /\ calls <= MaxCalls + 1 /\ calls <= MaxCalls
        /\ direct \subseteq 1 .. calls /\ inTx \subseteq 1 .. calls
    BY BoundsAssumption DEF Init
  <2> QED
    BY <2>1, <2>2 DEF Init, Types, Op
<1>2. Sent /\ Framed /\ Atomic
  BY DEF Init, Sent, Framed, DataAfter, Atomic
<1>3. InStep
  BY DEF Init, InStep, Returned, MultiKnown, Asked, Answering
<1> QED
  BY <1>1, <1>2, <1>3 DEF IInv

LEMMA Inductive == Spec => []IInv
  BY InitKeeps, NextKeeps, PTL DEF Spec

(* Whatever fails and whenever a reply comes, the counters and flags stay  *)
(* in their ranges, every entry is a whole reply of a command already sent *)
(* and a read that goes on is still missing something (recvresp).          *)
THEOREM TypeCorrect == Spec => []TypeOK
<1>1. IInv => TypeOK
  <2> SUFFICES ASSUME IInv PROVE TypeOK
    OBVIOUS
  <2>1. Types /\ Sent /\ Framed
    BY DEF IInv
  <2>2. calls \in 0 .. MaxCalls + 1
    BY <2>1, BoundsAssumption DEF Types
  <2>3. DOMAIN entries = 1 .. Len(entries)
    BY <2>1 DEF Types
  <2>4. direct \cup inTx \subseteq 1 .. calls
    BY <2>1 DEF Types
  <2>5. pc = "recv" => pending > 0 \/ expect = "line"
    BY <2>1 DEF Framed
  <2>6. /\ <<open, in_multi, srvMulti, dirty>> \in
             BOOLEAN \X BOOLEAN \X BOOLEAN \X BOOLEAN
        /\ <<failed, refused>> \in BOOLEAN \X BOOLEAN
    BY <2>1 DEF Types
  <2> QED
    BY <2>1, <2>2, <2>3, <2>4, <2>5, <2>6 DEF TypeOK, Types, Sent, Op
<1> QED
  BY <1>1, Inductive, PTL

(* Until a send or a receive fails, a response is made of the replies to   *)
(* its own command and leaves nothing for the next one, for arrays of any  *)
(* length and transactions of any size (dosend, recvresp).                 *)
THEOREM OwnReplies == Spec => []OwnReply
<1>1. IInv => OwnReply
  <2> SUFFICES ASSUME IInv, pc = "idle", ~failed
               PROVE  /\ requests = << >> /\ stream = << >>
                      /\ \A i \in DOMAIN entries : entries[i].k = calls
    BY DEF OwnReply
  <2>1. Returned
    BY DEF IInv, InStep, Asked, Answering
  <2>2. DOMAIN entries = 1 .. Len(entries)
    BY DEF IInv, Types
  <2> QED
    BY <2>1, <2>2 DEF Returned
<1> QED
  BY <1>1, Inductive, PTL

(* As long as no call failed and no MULTI was refused, no command that was *)
(* issued in a transaction is executed outside of it (in_multi and the     *)
(* state of the connection in Redis agree when the command arrives).       *)
THEOREM TransactionAtomic == Spec => []TransactionIsAtomic
<1>1. IInv => TransactionIsAtomic
  BY DEF IInv, Atomic, TransactionIsAtomic
<1> QED
  BY <1>1, Inductive, PTL

(* ~Transaction leaves the connection out of MULTI: a transaction that is  *)
(* still open is discarded, and Redis has answered before it returns.      *)
THEOREM NoMultiLeft == Spec => []DestroyedLeavesNoMulti
<1>1. IInv => DestroyedLeavesNoMulti
  BY DEF IInv, InStep, MultiKnown, DestroyedLeavesNoMulti
<1> QED
  BY <1>1, Inductive, PTL
=============================================================================
