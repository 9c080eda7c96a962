------------------------------ MODULE Messages ------------------------------
(***************************************************************************)
(* The values that windows and worker send each other (web/sqflite_sw.js): *)
(* an integer that no double holds is sent as a map with one marked key,   *)
(* and so a map of the program that looks like one is wrapped.             *)
(*                                                                         *)
(* A value is a record with one field, which says what it is.  A key is    *)
(* <<marked, name>>: marked keys begin with "@".  What is sent is the      *)
(* value itself, a structured clone, unless the browser cannot send it.    *)
(***************************************************************************)
EXTENDS Sequences, TLC

CONSTANTS
  Atoms,      \* null, numbers, strings, booleans and blobs
  Integers64, \* integers of class S
  FieldNames  \* keys of maps besides those that mark

Atom(a)  == [atom |-> a]
Big(n)   == [big |-> n]
Text(n)  == [text |-> n]    \* the string of figures of integer n
List(s)  == [list |-> s]
Map(f)   == [map |-> f]

IsA(kind, v) == kind \in DOMAIN v
Plain(v)    == IsA("atom", v) \/ IsA("text", v)

Wrapped == <<TRUE, "">>         \* "@"
BigKey  == <<TRUE, "BigInt">>   \* "@BigInt"

Refused == [refused |-> "not a value that can be sent"]

(* A map that could be taken for what the sender made of a value. *)
Marked(f) == \E k \in DOMAIN f : DOMAIN f = {k} /\ k[1]

-----------------------------------------------------------------------------
(* Slip: a map of the program is sent as it is. *)
RECURSIVE OutgoingUnwrapped(_)
OutgoingUnwrapped(v) ==
  IF Plain(v) THEN v
  ELSE IF IsA("big", v) THEN Map(BigKey :> Text(v.big))
  ELSE IF IsA("list", v) THEN List([i \in DOMAIN v.list |-> OutgoingUnwrapped(v.list[i])])
  ELSE Map([k \in DOMAIN v.map |-> OutgoingUnwrapped(v.map[k])])

(* What is wrapped is not looked into. *)
RECURSIVE Outgoing(_)
Outgoing(v) ==
  IF Plain(v) THEN v
  ELSE IF IsA("big", v) THEN Map(BigKey :> Text(v.big))
  ELSE IF IsA("list", v) THEN List([i \in DOMAIN v.list |-> Outgoing(v.list[i])])
  ELSE IF Marked(v.map) THEN Map(Wrapped :> v)
  ELSE Map([k \in DOMAIN v.map |-> Outgoing(v.map[k])])

(* The object that is posted. *)
RECURSIVE ToJs(_)
ToJs(v) ==
  LET parts == IF IsA("list", v) THEN v.list ELSE v.map
      sent  == [i \in DOMAIN parts |-> ToJs(parts[i])]
  IN  IF Plain(v) THEN v
      ELSE IF IsA("big", v) \/ \E i \in DOMAIN parts : sent[i] = Refused THEN Refused
      ELSE IF IsA("list", v) THEN List(sent) ELSE Map(sent)

(* A marked map that does not hold what its key says is a map of its own. *)
RECURSIVE Incoming(_)
Incoming(v) ==
  IF Plain(v) THEN v
  ELSE IF IsA("list", v) THEN List([i \in DOMAIN v.list |-> Incoming(v.list[i])])
  ELSE IF DOMAIN v.map = {Wrapped} THEN v.map[Wrapped]
  ELSE IF DOMAIN v.map = {BigKey} /\ IsA("text", v.map[BigKey]) THEN Big(v.map[BigKey].text)
  ELSE Map([k \in DOMAIN v.map |-> Incoming(v.map[k])])

-----------------------------------------------------------------------------
AllKeys   == FieldNames \cup {Wrapped, BigKey}
Simple    == {Atom(a) : a \in Atoms} \cup {Big(n) : n \in Integers64} \cup {Text(n) : n \in Integers64}
Around(V) == {List(s) : s \in {<<>>} \cup V \X {Atom(a) : a \in Atoms}}
             \cup {Map(f) : f \in UNION {[K -> V] : K \in {K \in SUBSET AllKeys :
                                  \A k, l \in K : k = l \/ ~k[1] \/ ~l[1]}}}
Values    == LET one == Simple \cup Around(Simple) IN one \cup Around(one)

Parts(v) == IF IsA("list", v) THEN v.list ELSE IF IsA("map", v) THEN v.map ELSE <<>>

RECURSIVE HasInteger(_)
HasInteger(v) == IsA("big", v) \/ \E i \in DOMAIN Parts(v) : HasInteger(Parts(v)[i])

RECURSIVE HidesInteger(_)
HidesInteger(v) ==
  \/ IsA("map", v) /\ Marked(v.map) /\ HasInteger(v)
  \/ \E i \in DOMAIN Parts(v) : HidesInteger(Parts(v)[i])

(* A value is received as it was sent, integers, maps that look like those *)
(* that stand for integers, and all that is inside them.  Only an integer  *)
(* in a map whose one key begins with "@" cannot be sent, and then nothing *)
(* is.                                                                     *)
IsReceived(v) ==
  LET sent == ToJs(Outgoing(v))
  IN  IF HidesInteger(v) THEN sent = Refused ELSE sent # Refused /\ Incoming(sent) = v
=============================================================================
