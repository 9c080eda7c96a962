--------------------------- MODULE WebWorkerProofs ---------------------------
(* For any number of windows, pages and pieces of work: the worker keeps   *)
(* the windows of a browser apart.                                         *)
EXTENDS WebDatabase, SequenceTheorems, TLAPS

(* The transaction that c is in, or would begin. *)
Own(c) == <<c, works[c]>>

(* Window c has been let in and not been let out. *)
InGate(c) ==
  \/ /\ owned[c] # None
     /\ stage[c] = "answered" => asked[c].kind \notin Ends /\ outcome[c] # "closed"
  \/ /\ asked[c].kind = "begin"
     /\ stage[c] \in {"locked", "executed", "settling", "answered"}

(* What a window asks for fits what it is in, and where it stands.         *)
RequestInv(c) ==
  LET r == asked[c]
  IN  /\ owned[c] \in {None, Own(c)}
      /\ phase[c] = "away" => owned[c] = None
      /\ stage[c] = "idle" <=> r.kind = "none"
      /\ stage[c] \in {"starting", "opening", "creating", "opened"} => r.kind = "open"
      /\ stage[c] \in {"queued", "locked", "executed", "settling"} => r.kind \notin {"none", "open"}
      /\ r.kind \notin {"none", "open"} => works[c] # 0
      /\ r.kind \in {"open", "begin", "read"} => owned[c] = None
      /\ r.kind \in Ends => owned[c] # None
      /\ r.kind \notin {"none", "begin"} => r.id = owned[c]
      /\ r.kind = "begin" => r.id = IF stage[c] = "answered" THEN Own(c) ELSE None
      /\ stage[c] = "queued" => r.id = None
      /\ r.kind = "begin" /\ stage[c] \in {"executed", "settling", "answered"} => outcome[c] = "ok"
      /\ stage[c] \in {"executed", "settling"} => outcome[c] # "closed"

(* At most one is let in. *)
GateInv ==
  /\ \A c \in Clients : InGate(c) => current = Own(c)
  /\ current # None => \E c \in Clients : InGate(c) /\ current = Own(c)

(* The first of the connection's lock is at work, or was; a BEGIN is the   *)
(* last that is let in, and what is not of its transaction came before it. *)
LockInv ==
  /\ \A i, j \in 1..Len(lock) : lock[i] = lock[j] => i = j
  /\ \A c \in Clients : stage[c] \in {"locked", "executed"} <=> \E i \in 1..Len(lock) : lock[i] = c
  /\ \A i \in 1..Len(lock) :
       LET c    == lock[i]
           last == lock[Len(lock)]
       IN  /\ i > 1 => stage[c] = "locked"
           /\ stage[c] = "locked" /\ asked[c].kind = "begin" => i = Len(lock)
           /\ stage[c] = "locked" /\ asked[c].id = None /\ current # None =>
                stage[last] = "locked" /\ asked[last].kind = "begin"

(* The connection is in a transaction while its window is let in, from the *)
(* end of BEGIN until the statement that ends it.                          *)
TransactionInv ==
  /\ inTransaction => current # None
  /\ \A c \in Clients : InGate(c) =>
       /\ asked[c].kind = "begin" => (inTransaction <=> stage[c] # "locked")
       /\ asked[c].kind \in Ends /\ stage[c] \in {"executed", "settling"} => ~inTransaction
       /\ owned[c] # None /\ ~inTransaction =>
            /\ stage[c] \in {"executed", "settling"}
            /\ asked[c].kind \notin Ends => outcome[c] # "ok"

(* One window at a time is opening the database. *)
OpeningInv ==
  /\ \A i, j \in 1..Len(opening) : opening[i] = opening[j] => i = j
  /\ \A c \in Clients : stage[c] \in {"opening", "creating", "opened"} <=>
                          \E i \in 1..Len(opening) : opening[i] = c
  /\ \A i \in 1..Len(opening) : i > 1 => stage[opening[i]] = "opening"
  /\ \A c \in Clients : stage[c] = "creating" => connections = 0
  /\ connections <= 1

(* The types, but for what the database holds. *)
WorkerTypes ==
  /\ phase \in [Clients -> Phases]
  /\ works \in [Clients -> 0..MaxWorks]
  /\ owned \in [Clients -> Works \cup {None}]
  /\ asked \in [Clients -> [kind : Kinds, id : Works \cup {None}, pages : SUBSET Pages]]
  /\ stage \in [Clients -> Stages]
  /\ outcome \in [Clients -> {"ok", "failed", "closed"}]
  /\ wrote \in [Works -> SUBSET Pages]
  /\ ready \in BOOLEAN /\ connections \in Nat /\ opening \in Seq(Clients)
  /\ current \in Works \cup {None} /\ queue \in Seq(Clients) /\ draining \in BOOLEAN
  /\ lock \in Seq(Clients) /\ turn \in BOOLEAN /\ inTransaction \in BOOLEAN

(* The inductive invariant. *)
WorkerInv ==
  /\ WorkerTypes
  /\ \A c \in Clients : RequestInv(c)
  /\ GateInv /\ LockInv /\ TransactionInv /\ OpeningInv /\ OneWriter

-----------------------------------------------------------------------------
(* A queue without repetitions that loses its first.                       *)
LEMMA TailFacts ==
  ASSUME NEW S, NEW q \in Seq(S), q # <<>>,
         \A i, j \in 1..Len(q) : q[i] = q[j] => i = j
  PROVE  /\ \A i, j \in 1..Len(q) - 1 : Tail(q)[i] = Tail(q)[j] => i = j
         /\ \A x \in S : (\E i \in 1..Len(q) - 1 : Tail(q)[i] = x) <=>
                            x # Head(q) /\ \E i \in 1..Len(q) : q[i] = x
<1>1. /\ Len(q) \in Nat /\ Len(q) >= 1 /\ Head(q) = q[1]
      /\ \A i \in 1..Len(q) - 1 : i + 1 \in 1..Len(q) /\ Tail(q)[i] = q[i + 1]
  OBVIOUS
<1>2. ASSUME NEW i \in 1..Len(q) - 1, NEW j \in 1..Len(q) - 1, Tail(q)[i] = Tail(q)[j]
      PROVE  i = j
  <2>1. i + 1 = j + 1
    BY <1>1, <1>2
  <2> QED
    BY <2>1
<1>3. ASSUME NEW x \in S, NEW i \in 1..Len(q) - 1, Tail(q)[i] = x
      PROVE  x # Head(q) /\ \E j \in 1..Len(q) : q[j] = x
  <2>1. q[i + 1] = x /\ i + 1 \in 1..Len(q) /\ 1 \in 1..Len(q) /\ i + 1 # 1
    BY <1>1, <1>3
  <2> QED
    BY <1>1, <2>1
<1>4. ASSUME NEW x \in S, x # Head(q), NEW i \in 1..Len(q), q[i] = x
      PROVE  \E j \in 1..Len(q) - 1 : Tail(q)[j] = x
  <2>1. i # 1 /\ i - 1 \in 1..Len(q) - 1 /\ Tail(q)[i - 1] = x
    BY <1>1, <1>4
  <2> QED
    BY <2>1
<1> QED
  BY <1>2, <1>3, <1>4

(* The invariant at the start. *)
LEMMA InitWorkerInv == WorkerInit => WorkerInv
<1> SUFFICES ASSUME WorkerInit PROVE WorkerInv
  OBVIOUS
<1>1. WorkerTypes
  <2>1. NoRequest \in [kind : Kinds, id : Works \cup {None}, pages : SUBSET Pages]
    BY DEF NoRequest, Kinds
  <2>2. works \in [Clients -> 0..MaxWorks]
    BY WorksAssumption DEF WorkerInit
  <2>3. opening \in Seq(Clients) /\ queue \in Seq(Clients) /\ lock \in Seq(Clients)
    BY DEF WorkerInit
  <2> QED
    BY <2>1, <2>2, <2>3 DEF WorkerInit, WorkerTypes, Phases, Stages
<1>2. \A c \in Clients : RequestInv(c) /\ ~InGate(c)
  BY DEF WorkerInit, RequestInv, InGate, NoRequest, Ends
<1>3. GateInv /\ TransactionInv /\ OneWriter
  BY <1>2 DEF WorkerInit, GateInv, TransactionInv, OneWriter
<1>4. LockInv /\ OpeningInv
  BY DEF WorkerInit, LockInv, OpeningInv
<1> QED
  BY <1>1, <1>2, <1>3, <1>4 DEF WorkerInv

-----------------------------------------------------------------------------
(* Steps of one window or request *)

SameRow(d) ==
  /\ phase'[d] = phase[d] /\ works'[d] = works[d] /\ owned'[d] = owned[d]
  /\ asked'[d] = asked[d] /\ stage'[d] = stage[d] /\ outcome'[d] = outcome[d]

OnlyRow(c) == \A d \in Clients \ {c} : SameRow(d)

(* What a step of one window leaves alone. *)
LEMMA OthersKept ==
  ASSUME NEW c \in Clients, OnlyRow(c), NEW d \in Clients, d # c
  PROVE  /\ Own(d)' = Own(d)
         /\ InGate(d)' <=> InGate(d)
         /\ RequestInv(d) => RequestInv(d)'
<1>1. SameRow(d)
  BY DEF OnlyRow
<1> QED
  BY <1>1 DEF SameRow, Own, InGate, RequestInv

(* The state of the connection that a window sees which is let in. *)
Served(c) ==
  /\ asked[c].kind = "begin" => (inTransaction <=> stage[c] # "locked")
  /\ asked[c].kind \in Ends /\ stage[c] \in {"executed", "settling"} => ~inTransaction
  /\ owned[c] # None /\ ~inTransaction =>
       /\ stage[c] \in {"executed", "settling"}
       /\ asked[c].kind \notin Ends => outcome[c] # "ok"

(* A step of a request that is neither let in nor let out and that does    *)
(* not touch the connection.                                               *)
LEMMA OutsideStep ==
  ASSUME WorkerInv, NEW c \in Clients, OnlyRow(c),
         UNCHANGED <<current, lock, inTransaction, working, committed>>,
         stage[c] \notin {"locked", "executed"}, stage'[c] \notin {"locked", "executed"},
         InGate(c)' <=> InGate(c), InGate(c) => Own(c)' = Own(c) /\ Served(c)'
  PROVE  GateInv' /\ LockInv' /\ TransactionInv' /\ OneWriter'
<1>1. \A d \in Clients : /\ InGate(d)' <=> InGate(d)
                         /\ InGate(d) => Own(d)' = Own(d)
  BY OthersKept
<1>2. GateInv'
  BY <1>1 DEF WorkerInv, GateInv
<1>3. \A d \in Clients : InGate(d) => Served(d)'
  <2> SUFFICES ASSUME NEW d \in Clients, InGate(d), d # c PROVE Served(d)'
    OBVIOUS
  <2> QED
    BY DEF WorkerInv, TransactionInv, Served, OnlyRow, SameRow
<1>4. TransactionInv'
  BY <1>1, <1>3 DEF WorkerInv, TransactionInv, Served
<1>5. LockInv'
  <2>1. \A i \in 1..Len(lock) : lock[i] \in Clients /\ lock[i] # c
    BY DEF WorkerInv, WorkerTypes, LockInv
  <2>2. \A i \in 1..Len(lock) : /\ stage'[lock[i]] = stage[lock[i]]
                                /\ asked'[lock[i]] = asked[lock[i]]
    BY <2>1 DEF OnlyRow, SameRow
  <2>3. \A d \in Clients : stage'[d] \in {"locked", "executed"} <=> stage[d] \in {"locked", "executed"}
    BY DEF OnlyRow, SameRow
  <2>4. Len(lock) \in Nat /\ (lock # <<>> => Len(lock) \in 1..Len(lock))
    BY DEF WorkerInv, WorkerTypes
  <2> QED
    BY <2>1, <2>2, <2>3, <2>4 DEF WorkerInv, LockInv
<1>6. OneWriter'
  BY DEF WorkerInv, OneWriter
<1> QED
  BY <1>2, <1>4, <1>5, <1>6

(* A step of a request that has nothing to do with opening the database. *)
LEMMA OpeningKept ==
  ASSUME WorkerInv, NEW c \in Clients, OnlyRow(c), UNCHANGED <<opening, connections>>,
         stage[c] \notin {"opening", "creating", "opened"},
         stage'[c] \notin {"opening", "creating", "opened"}
  PROVE  OpeningInv'
<1>1. \A i \in 1..Len(opening) : opening[i] \in Clients /\ opening[i] # c
  BY DEF WorkerInv, WorkerTypes, OpeningInv
<1>2. \A i \in 1..Len(opening) : stage'[opening[i]] = stage[opening[i]]
  BY <1>1 DEF OnlyRow, SameRow
<1>3. \A d \in Clients : d # c => stage'[d] = stage[d]
  BY DEF OnlyRow, SameRow
<1> QED
  BY <1>1, <1>2, <1>3 DEF WorkerInv, OpeningInv

-----------------------------------------------------------------------------
(* The windows *)

(* A window asks for something that fits what it is in. *)
LEMMA PostStep ==
  ASSUME WorkerInv, NEW c \in Clients, NEW kind \in Kinds \ {"none"}, NEW P \in SUBSET Pages,
         Post(c, kind, P),
         phase' \in [Clients -> Phases], works' \in [Clients -> 0..MaxWorks],
         wrote' \in [Works -> SUBSET Pages],
         \A d \in Clients \ {c} : phase'[d] = phase[d] /\ works'[d] = works[d],
         phase'[c] # "away", owned[c] # None => works'[c] = works[c],
         kind # "open" => works'[c] # 0,
         kind \in {"open", "begin", "read"} => owned[c] = None,
         kind \in Ends => owned[c] # None
  PROVE  WorkerInv'
<1> DEFINE r == [kind |-> kind, id |-> owned[c], pages |-> P]
<1>1. /\ asked' = [asked EXCEPT ![c] = r] /\ stage' = [stage EXCEPT ![c] = "posted"]
      /\ UNCHANGED <<owned, outcome, openVars, gateVars, lock, turn, databaseVars>>
      /\ stage[c] = "idle" /\ asked[c].kind = "none"
  BY DEF Post, Move, WorkerInv, RequestInv
<1>2. r \in [kind : Kinds, id : Works \cup {None}, pages : SUBSET Pages]
  BY DEF WorkerInv, WorkerTypes
<1>3. WorkerTypes'
  BY <1>1, <1>2 DEF WorkerInv, WorkerTypes, Stages, openVars, gateVars, databaseVars
<1>4. asked'[c] = r /\ stage'[c] = "posted" /\ owned'[c] = owned[c]
  BY <1>1, <1>3 DEF WorkerInv, WorkerTypes
<1>5. OnlyRow(c)
  BY <1>1 DEF OnlyRow, SameRow, WorkerInv, WorkerTypes
<1>6. RequestInv(c)'
  <2>1. asked'[c].kind = kind /\ asked'[c].id = owned[c] /\ kind # "none"
    BY <1>4
  <2>2. owned[c] \in {None, Own(c)} /\ (owned[c] # None => Own(c)' = Own(c))
    BY DEF WorkerInv, RequestInv, Own
  <2> QED
    BY <1>4, <2>1, <2>2 DEF RequestInv
<1>7. \A d \in Clients : RequestInv(d)'
  BY <1>5, <1>6, OthersKept DEF WorkerInv
<1>8. InGate(c)' <=> InGate(c)
  BY <1>1, <1>4 DEF InGate
<1>9. InGate(c) => Own(c)' = Own(c) /\ Served(c)'
  <2> SUFFICES ASSUME InGate(c) PROVE Own(c)' = Own(c) /\ Served(c)'
    OBVIOUS
  <2>1. owned[c] # None /\ inTransaction
    BY <1>1 DEF WorkerInv, InGate, TransactionInv
  <2> QED
    BY <1>1, <1>4, <2>1 DEF Own, Served, databaseVars
<1>10. GateInv' /\ LockInv' /\ TransactionInv' /\ OneWriter'
  BY <1>1, <1>4, <1>5, <1>8, <1>9, OutsideStep DEF gateVars, databaseVars
<1>11. OpeningInv'
  BY <1>1, <1>4, <1>5, OpeningKept DEF openVars
<1> QED
  BY <1>3, <1>7, <1>10, <1>11 DEF WorkerInv

(* A window asks for something. *)
LEMMA AskStep ==
  ASSUME WorkerInv, NEW c \in Clients,
         \/ Load(c) \/ AskBegin(c) \/ AskRead(c)
         \/ \E P \in Changes : AskSingle(c, P) \/ AskWrite(c, P)
         \/ \E kind \in Ends : AskEnd(c, kind)
  PROVE  WorkerInv'
<1>1. /\ WorkerTypes /\ RequestInv(c)
      /\ \A P \in Changes : P \in SUBSET Pages
      /\ {} \in SUBSET Pages /\ MaxWorks \in Nat
      /\ {"open", "begin", "read", "write"} \cup Ends \subseteq Kinds \ {"none"}
  BY WorksAssumption DEF WorkerInv, Kinds, Ends
<1>2. owned[c] # None => works[c] # 0
  BY <1>1 DEF WorkerTypes, RequestInv, Own, Works
<1> DEFINE Begun == works' = [works EXCEPT ![c] = @ + 1]
<1>3. ASSUME works[c] < MaxWorks, Begun
      PROVE  /\ works' \in [Clients -> 0..MaxWorks] /\ works'[c] # 0
             /\ \A d \in Clients \ {c} : works'[d] = works[d]
  BY <1>1, <1>3 DEF WorkerTypes
<1>4. CASE Load(c)
  <2>1. phase' \in [Clients -> Phases] /\ phase'[c] # "away"
    BY <1>1, <1>4 DEF Load, WorkerTypes, Phases
  <2>2. owned[c] = None
    BY <1>1, <1>4 DEF Load, RequestInv
  <2> QED
    BY <1>1, <1>4, <2>1, <2>2, PostStep DEF Load, WorkerTypes, Ends
<1>5. CASE AskBegin(c)
  BY <1>1, <1>3, <1>5, PostStep DEF AskBegin, WorkerTypes, Ends
<1>6. CASE AskRead(c)
  BY <1>1, <1>3, <1>6, PostStep DEF AskRead, WorkerTypes, Ends
<1>7. ASSUME NEW P \in Changes, AskSingle(c, P)
      PROVE  WorkerInv'
  <2>1. wrote' \in [Works -> SUBSET Pages]
    BY <1>1, <1>7 DEF AskSingle, WorkerTypes
  <2> QED
    BY <1>1, <1>3, <1>7, <2>1, PostStep DEF AskSingle, WorkerTypes, Ends
<1>8. ASSUME NEW P \in Changes, AskWrite(c, P)
      PROVE  WorkerInv'
  <2>1. wrote' \in [Works -> SUBSET Pages]
    BY <1>1, <1>8 DEF AskWrite, WorkerTypes
  <2> QED
    BY <1>1, <1>2, <1>8, <2>1, PostStep DEF AskWrite, WorkerTypes, Ends
<1>9. ASSUME NEW kind \in Ends, AskEnd(c, kind)
      PROVE  WorkerInv'
  BY <1>1, <1>2, <1>9, PostStep DEF AskEnd, WorkerTypes, Ends
<1> QED
  BY <1>4, <1>5, <1>6, <1>7, <1>8, <1>9

(* A window takes its answer. *)
LEMMA ReceiveStep ==
  ASSUME WorkerInv, NEW c \in Clients, Receive(c)
  PROVE  WorkerInv'
<1> DEFINE r == asked[c]
           over == r.kind \in Ends \/ outcome[c] = "closed"
<1>1. /\ WorkerTypes /\ RequestInv(c)
      /\ stage[c] = "answered" /\ phase[c] # "gone" /\ r.kind # "none"
  BY DEF Receive, WorkerInv, RequestInv
<1>2. /\ stage' = [stage EXCEPT ![c] = "idle"]
      /\ owned' = [owned EXCEPT ![c] =
           IF over THEN None
           ELSE IF r.kind = "begin" /\ outcome[c] = "ok" THEN r.id ELSE @]
      /\ asked' = [asked EXCEPT ![c] = NoRequest]
      /\ outcome' = [outcome EXCEPT ![c] = "ok"]
      /\ UNCHANGED <<works, wrote, openVars, gateVars, lock, turn, databaseVars>>
  BY DEF Receive, Move
<1>3. phase' \in [Clients -> Phases] /\ phase'[c] # "away"
      /\ \A d \in Clients \ {c} : phase'[d] = phase[d]
  BY <1>1 DEF Receive, WorkerTypes, Phases
<1>4. WorkerTypes'
  <2>1. NoRequest \in [kind : Kinds, id : Works \cup {None}, pages : SUBSET Pages]
    BY DEF NoRequest, Kinds
  <2>2. r.id \in Works \cup {None}
    BY <1>1 DEF WorkerTypes
  <2> QED
    BY <1>1, <1>2, <1>3, <2>1, <2>2 DEF WorkerTypes, Stages, openVars, gateVars, databaseVars
<1>5. /\ asked'[c] = NoRequest /\ stage'[c] = "idle" /\ works' = works
      /\ owned'[c] = IF over THEN None
                     ELSE IF r.kind = "begin" THEN Own(c) ELSE owned[c]
  <2>1. r.kind = "begin" => r.id = Own(c) /\ outcome[c] = "ok"
    BY <1>1 DEF RequestInv
  <2> QED
    BY <1>1, <1>2, <2>1 DEF WorkerTypes
<1>6. OnlyRow(c)
  BY <1>1, <1>2, <1>3 DEF OnlyRow, SameRow, WorkerTypes
<1>7. RequestInv(c)'
  BY <1>1, <1>3, <1>5 DEF RequestInv, Own, NoRequest, Ends
<1>8. \A d \in Clients : RequestInv(d)'
  BY <1>6, <1>7, OthersKept DEF WorkerInv
<1>9. InGate(c)' <=> InGate(c)
  <2>1. InGate(c)' <=> owned'[c] # None
    BY <1>5 DEF InGate, NoRequest
  <2>2. r.kind = "begin" => Own(c) # None
    BY <1>1, NoneAssumption DEF RequestInv, Own, WorkerTypes, Works
  <2> QED
    BY <1>1, <1>5, <2>1, <2>2 DEF InGate, RequestInv, Ends
<1>10. InGate(c) => Own(c)' = Own(c) /\ Served(c)'
  <2>1. Own(c)' = Own(c)
    BY <1>5 DEF Own
  <2>2. InGate(c) => inTransaction'
    BY <1>1, <1>2 DEF WorkerInv, InGate, TransactionInv, RequestInv, databaseVars
  <2> QED
    BY <1>5, <2>1, <2>2 DEF Served, NoRequest, Ends
<1>11. GateInv' /\ LockInv' /\ TransactionInv' /\ OneWriter'
  BY <1>1, <1>2, <1>5, <1>6, <1>9, <1>10, OutsideStep DEF gateVars, databaseVars
<1>12. OpeningInv'
  BY <1>1, <1>2, <1>5, <1>6, OpeningKept DEF openVars
<1> QED
  BY <1>4, <1>8, <1>11, <1>12 DEF WorkerInv

(* A window goes. *)
LEMMA LeaveStep ==
  ASSUME WorkerInv, NEW c \in Clients, Leave(c)
  PROVE  WorkerInv'
<1>1. /\ WorkerTypes /\ phase' = [phase EXCEPT ![c] = "gone"]
      /\ UNCHANGED <<works, owned, wrote, asked, stage, outcome, ready, connections, opening,
                     current, queue, draining, lock, turn, inTransaction, working, committed>>
  BY DEF Leave, WorkerInv, openVars, gateVars, databaseVars
<1>2. WorkerTypes'
  BY <1>1 DEF WorkerTypes, Phases
<1>3. \A d \in Clients : RequestInv(d)'
  BY <1>1 DEF WorkerInv, WorkerTypes, RequestInv, Own
<1>4. GateInv' /\ TransactionInv'
  BY <1>1 DEF WorkerInv, GateInv, TransactionInv, InGate, Own
<1>5. LockInv' /\ OpeningInv' /\ OneWriter'
  BY <1>1 DEF WorkerInv, LockInv, OpeningInv, OneWriter
<1> QED
  BY <1>2, <1>3, <1>4, <1>5 DEF WorkerInv

-----------------------------------------------------------------------------
(* Opening the database *)

(* A request to open the database is on its way or answered; what it does  *)
(* to the lock of the opening is left to OpeningInv.                       *)
LEMMA OpenStep ==
  ASSUME WorkerInv, NEW c \in Clients, asked[c].kind = "open",
         NEW s \in {"starting", "opening", "creating", "opened", "answered"}, Move(c, s),
         outcome' \in [Clients -> {"ok", "failed", "closed"}],
         \A d \in Clients \ {c} : outcome'[d] = outcome[d],
         opening' \in Seq(Clients), connections' \in Nat, ready' \in BOOLEAN, turn' \in BOOLEAN,
         UNCHANGED <<clientVars, asked, gateVars, lock, databaseVars>>,
         OpeningInv'
  PROVE  WorkerInv'
<1>1. /\ WorkerTypes /\ RequestInv(c) /\ stage' = [stage EXCEPT ![c] = s]
      /\ UNCHANGED <<phase, works, owned, wrote, asked, current, queue, draining, lock,
                     inTransaction, working, committed>>
  BY DEF WorkerInv, Move, clientVars, gateVars, databaseVars
<1>2. WorkerTypes'
  BY <1>1 DEF WorkerTypes, Stages
<1>3. OnlyRow(c) /\ stage'[c] = s
  BY <1>1 DEF OnlyRow, SameRow, WorkerTypes
<1>4. RequestInv(c)'
  BY <1>1, <1>3 DEF RequestInv, Own
<1>5. \A d \in Clients : RequestInv(d)'
  BY <1>3, <1>4, OthersKept DEF WorkerInv
<1>6. ~InGate(c) /\ ~InGate(c)'
  BY <1>1 DEF RequestInv, InGate
<1>7. stage[c] \notin {"locked", "executed"}
  BY <1>1 DEF RequestInv
<1>8. GateInv' /\ LockInv' /\ TransactionInv' /\ OneWriter'
  BY <1>1, <1>3, <1>6, <1>7, OutsideStep
<1> QED
  BY <1>2, <1>5, <1>8 DEF WorkerInv

(* The queue of those who open the database, one joining at its end.       *)
LEMMA EnterStep ==
  ASSUME WorkerInv, NEW c \in Clients, EnterOpening(c), UNCHANGED connections,
         stage[c] \notin {"opening", "creating", "opened"}
  PROVE  OpeningInv' /\ opening' \in Seq(Clients)
<1> DEFINE n == Len(opening)
<1>1. /\ WorkerTypes /\ opening' = Append(opening, c)
      /\ stage'[c] = "opening" /\ \A d \in Clients : d # c => stage'[d] = stage[d]
  BY DEF WorkerInv, WorkerTypes, EnterOpening, Move
<1>2. /\ n \in Nat /\ opening' \in Seq(Clients) /\ Len(opening') = n + 1
      /\ opening'[n + 1] = c /\ \A i \in 1..n : opening'[i] = opening[i] /\ opening[i] \in Clients
  BY <1>1 DEF WorkerTypes
<1>3. \A i \in 1..n : opening[i] # c
  BY <1>2 DEF WorkerInv, OpeningInv
<1>4. \A i, j \in 1..n + 1 : opening'[i] = opening'[j] => i = j
  BY <1>2, <1>3 DEF WorkerInv, OpeningInv
<1>5. \A d \in Clients : stage'[d] \in {"opening", "creating", "opened"} <=>
                           \E i \in 1..n + 1 : opening'[i] = d
  <2> SUFFICES ASSUME NEW d \in Clients
               PROVE  stage'[d] \in {"opening", "creating", "opened"} <=>
                        \E i \in 1..n + 1 : opening'[i] = d
    OBVIOUS
  <2>1. CASE d = c
    BY <1>1, <1>2, <2>1
  <2>2. CASE d # c
    BY <1>1, <1>2, <2>2 DEF WorkerInv, OpeningInv
  <2> QED
    BY <2>1, <2>2
<1>6. \A i \in 1..n + 1 : i > 1 => stage'[opening'[i]] = "opening"
  BY <1>1, <1>2, <1>3 DEF WorkerInv, OpeningInv
<1>7. /\ \A d \in Clients : stage'[d] = "creating" => connections' = 0
      /\ connections' <= 1
  BY <1>1 DEF WorkerInv, OpeningInv
<1> QED
  BY <1>2, <1>4, <1>5, <1>6, <1>7 DEF OpeningInv

(* The worker loads sqlite3.wasm. *)
LEMMA InitialiseStep ==
  ASSUME WorkerInv, NEW c \in Clients, Initialise(c)
  PROVE  WorkerInv'
<1>1. /\ WorkerTypes /\ asked[c].kind = "open" /\ stage[c] = "starting"
      /\ UNCHANGED <<clientVars, asked, gateVars, lock, turn, databaseVars>>
  BY DEF Initialise, WorkerInv, RequestInv
<1>2. CASE Loaded(c)
  <2>1. /\ EnterOpening(c) /\ ready' = TRUE /\ UNCHANGED <<connections, outcome>>
        /\ Move(c, "opening")
    BY <1>2 DEF Loaded, EnterOpening
  <2>2. OpeningInv' /\ opening' \in Seq(Clients)
    BY <1>1, <2>1, EnterStep
  <2> QED
    BY <1>1, <2>1, <2>2, OpenStep DEF WorkerTypes
<1>3. CASE LoadFails(c)
  <2>1. /\ outcome' = [outcome EXCEPT ![c] = "failed"] /\ Move(c, "answered")
        /\ UNCHANGED <<ready, connections, opening>>
        /\ stage' = [stage EXCEPT ![c] = "answered"]
    BY <1>3 DEF LoadFails, openVars, Move
  <2>2. OnlyRow(c) /\ stage'[c] = "answered"
    BY <1>1, <2>1 DEF OnlyRow, SameRow, WorkerTypes, clientVars
  <2>3. OpeningInv'
    BY <1>1, <2>1, <2>2, OpeningKept
  <2> QED
    BY <1>1, <2>1, <2>3, OpenStep DEF WorkerTypes
<1> QED
  BY <1>2, <1>3 DEF Initialise

(* The first of those who open the database takes a step, and stays.       *)
LEMMA FirstStays ==
  ASSUME WorkerInv, NEW c \in Clients, opening # <<>>, c = Head(opening),
         NEW s \in {"creating", "opened"}, Move(c, s), UNCHANGED opening,
         connections' \in {0, 1}, stage[c] \in {"opening", "creating"},
         s = "creating" => connections' = 0,
         stage[c] # "creating" => connections' = connections
  PROVE  OpeningInv'
<1>1. /\ WorkerTypes
      /\ stage'[c] = s /\ \A d \in Clients : d # c => stage'[d] = stage[d]
  BY DEF WorkerInv, WorkerTypes, Move
<1>2. /\ Len(opening) \in Nat /\ c = opening[1] /\ 1 \in 1..Len(opening)
      /\ \A i \in 1..Len(opening) : opening[i] \in Clients
  BY <1>1 DEF WorkerTypes
<1>3. \A d \in Clients : d # c => stage[d] # "creating"
  BY <1>2 DEF WorkerInv, OpeningInv
<1>4. \A i \in 1..Len(opening) : i > 1 => opening[i] # c
  BY <1>2 DEF WorkerInv, OpeningInv
<1> QED
  BY <1>1, <1>2, <1>3, <1>4 DEF WorkerInv, OpeningInv

(* An open request looks for the connection. *)
LEMMA LookupStep ==
  ASSUME WorkerInv, NEW c \in Clients, Lookup(c)
  PROVE  WorkerInv'
<1>1. /\ WorkerTypes /\ asked[c].kind = "open" /\ stage[c] = "opening"
      /\ opening # <<>> /\ c = Head(opening)
      /\ UNCHANGED <<clientVars, asked, ready, connections, opening, gateVars, lock, turn,
                     databaseVars>>
      /\ connections \in {0, 1}
  BY DEF Lookup, WorkerInv, RequestInv, WorkerTypes, OpeningInv, openVars
<1>2. CASE connections > 0
  BY <1>1, <1>2, FirstStays, OpenStep DEF Lookup, WorkerTypes
<1>3. CASE connections = 0
  BY <1>1, <1>3, FirstStays, OpenStep DEF Lookup, WorkerTypes
<1> QED
  BY <1>1, <1>2, <1>3

(* The event loop's turn. *)
LEMMA ContinueType == Continue => turn' \in BOOLEAN
  BY DEF Continue, Scheduled, Busy

(* Who opens is first of those that open, and whose statement has been     *)
(* executed is first in the lock.                                          *)
LEMMA AtWorkIsFirst ==
  ASSUME WorkerInv, NEW c \in Clients
  PROVE  /\ stage[c] \in {"creating", "opened"} => opening # <<>> /\ c = Head(opening)
         /\ stage[c] = "executed" => lock # <<>> /\ c = Head(lock)
<1>1. opening \in Seq(Clients) /\ lock \in Seq(Clients)
  BY DEF WorkerInv, WorkerTypes
<1>2. ASSUME stage[c] \in {"creating", "opened"}
      PROVE  opening # <<>> /\ c = Head(opening)
  <2>1. PICK i \in 1..Len(opening) : opening[i] = c
    BY <1>2 DEF WorkerInv, OpeningInv
  <2>2. i = 1
    BY <1>1, <1>2, <2>1 DEF WorkerInv, OpeningInv
  <2> QED
    BY <1>1, <2>1, <2>2
<1>3. ASSUME stage[c] = "executed"
      PROVE  lock # <<>> /\ c = Head(lock)
  <2>1. PICK i \in 1..Len(lock) : lock[i] = c
    BY <1>3 DEF WorkerInv, LockInv
  <2>2. i = 1
    BY <1>1, <1>3, <2>1 DEF WorkerInv, LockInv
  <2> QED
    BY <1>1, <2>1, <2>2
<1> QED
  BY <1>2, <1>3

(* The connection is created. *)
LEMMA CreateStep ==
  ASSUME WorkerInv, NEW c \in Clients, Create(c)
  PROVE  WorkerInv'
<1>1. /\ WorkerTypes /\ asked[c].kind = "open" /\ stage[c] = "creating" /\ connections = 0
      /\ Move(c, "opened")
      /\ UNCHANGED <<clientVars, asked, ready, opening, gateVars, lock, databaseVars>>
      /\ connections' \in {0, 1}
  BY DEF Create, WorkerInv, RequestInv, OpeningInv
<1>2. /\ outcome' \in [Clients -> {"ok", "failed", "closed"}]
      /\ \A d \in Clients \ {c} : outcome'[d] = outcome[d]
  BY <1>1 DEF Create, WorkerTypes
<1>3. turn' \in BOOLEAN
  BY ContinueType DEF Create
<1>4. OpeningInv'
  BY <1>1, AtWorkIsFirst, FirstStays
<1>5. opening' \in Seq(Clients) /\ connections' \in Nat /\ ready' \in BOOLEAN
  BY <1>1 DEF WorkerTypes
<1> QED
  BY <1>1, <1>2, <1>3, <1>4, <1>5, OpenStep

(* An open request is done. *)
LEMMA OpenedStep ==
  ASSUME WorkerInv, NEW c \in Clients, Opened(c)
  PROVE  WorkerInv'
<1> DEFINE n == Len(opening)
<1>1. /\ WorkerTypes /\ asked[c].kind = "open" /\ stage[c] = "opened"
      /\ opening' = Tail(opening) /\ Move(c, "answered") /\ connections' = connections
      /\ UNCHANGED <<clientVars, asked, outcome, ready, gateVars, lock, databaseVars>>
  BY DEF Opened, WorkerInv, RequestInv
<1>2. opening # <<>> /\ c = Head(opening)
  BY <1>1, AtWorkIsFirst
<1>3. /\ n \in Nat /\ n >= 1 /\ c = opening[1] /\ opening' \in Seq(Clients) /\ Len(opening') = n - 1
      /\ \A i \in 1..n - 1 : opening'[i] = opening[i + 1]
      /\ \A i \in 1..n : opening[i] \in Clients
  BY <1>1, <1>2 DEF WorkerTypes
<1>4. stage'[c] = "answered" /\ \A d \in Clients : d # c => stage'[d] = stage[d]
  BY <1>1 DEF Move, WorkerTypes
<1>5. /\ \A i, j \in 1..n - 1 : opening'[i] = opening'[j] => i = j
      /\ \A d \in Clients : (\E i \in 1..n - 1 : opening'[i] = d) <=>
                               d # c /\ \E i \in 1..n : opening[i] = d
  <2>1. opening \in Seq(Clients) /\ \A i, j \in 1..n : opening[i] = opening[j] => i = j
    BY <1>1 DEF WorkerInv, WorkerTypes, OpeningInv
  <2> QED
    BY <1>1, <1>2, <2>1, TailFacts
<1>6. ASSUME NEW i \in 1..n - 1
      PROVE  stage'[opening'[i]] = "opening"
  <2>1. i + 1 \in 1..n /\ i + 1 > 1 /\ opening'[i] = opening[i + 1] /\ opening[i + 1] \in Clients
    BY <1>3
  <2>2. opening'[i] # c
    BY <1>5, <2>1
  <2>3. stage[opening[i + 1]] = "opening"
    BY <2>1 DEF WorkerInv, OpeningInv
  <2> QED
    BY <1>4, <2>1, <2>2, <2>3
<1>7. \A d \in Clients : stage'[d] \in {"opening", "creating", "opened"} <=>
                           \E i \in 1..n - 1 : opening'[i] = d
  BY <1>4, <1>5 DEF WorkerInv, OpeningInv
<1>8. OpeningInv'
  BY <1>1, <1>3, <1>4, <1>5, <1>6, <1>7 DEF WorkerInv, OpeningInv
<1>9. turn' \in BOOLEAN
  BY ContinueType DEF Opened
<1> QED
  BY <1>1, <1>3, <1>8, <1>9, OpenStep DEF WorkerTypes

-----------------------------------------------------------------------------
(* The gate *)

(* A request waits at the gate of the transactions. *)
LEMMA QueueStep ==
  ASSUME WorkerInv, NEW c \in Clients, Queue(c), stage[c] = "posted",
         asked[c].kind \notin {"none", "open"}, current \notin {None, asked[c].id},
         UNCHANGED <<clientVars, asked, outcome, openVars, draining, turn, databaseVars>>
  PROVE  WorkerInv'
<1>1. /\ WorkerTypes /\ RequestInv(c) /\ stage' = [stage EXCEPT ![c] = "queued"]
      /\ UNCHANGED <<phase, works, owned, wrote, asked, outcome, ready, connections, opening,
                     current, draining, lock, turn, inTransaction, working, committed>>
      /\ queue' \in Seq(Clients)
  BY DEF WorkerInv, WorkerTypes, Queue, Move, clientVars, openVars, databaseVars
<1>2. WorkerTypes'
  BY <1>1 DEF WorkerTypes, Stages
<1>3. OnlyRow(c) /\ stage'[c] = "queued"
  BY <1>1 DEF OnlyRow, SameRow, WorkerTypes
<1>4. owned[c] = None /\ ~InGate(c)
  <2>1. owned[c] # None => InGate(c)
    BY DEF InGate
  <2>2. InGate(c) => current = Own(c)
    BY DEF WorkerInv, GateInv
  <2>3. InGate(c) => owned[c] = asked[c].id /\ owned[c] = Own(c)
    BY <1>1 DEF InGate, RequestInv
  <2> QED
    BY <2>1, <2>2, <2>3
<1>5. RequestInv(c)' /\ ~InGate(c)'
  BY <1>1, <1>3, <1>4 DEF RequestInv, InGate, Own, Ends
<1>6. \A d \in Clients : RequestInv(d)'
  BY <1>3, <1>5, OthersKept DEF WorkerInv
<1>7. GateInv' /\ LockInv' /\ TransactionInv' /\ OneWriter'
  BY <1>1, <1>3, <1>4, <1>5, OutsideStep
<1>8. OpeningInv'
  BY <1>1, <1>3, OpeningKept
<1> QED
  BY <1>2, <1>6, <1>7, <1>8 DEF WorkerInv

(* A request is let in. *)
LEMMA PassStep ==
  ASSUME WorkerInv, NEW c \in Clients, Pass(c), stage[c] \in {"posted", "queued"},
         asked[c].kind \notin {"none", "open"}, current \in {None, asked[c].id},
         queue' \in Seq(Clients), draining' \in BOOLEAN, turn' \in BOOLEAN,
         UNCHANGED <<clientVars, asked, outcome, openVars, databaseVars>>
  PROVE  WorkerInv'
<1> DEFINE n == Len(lock)
<1>1. /\ WorkerTypes /\ RequestInv(c) /\ stage' = [stage EXCEPT ![c] = "locked"]
      /\ UNCHANGED <<phase, works, owned, wrote, asked, outcome, ready, connections, opening,
                     inTransaction, working, committed>>
      /\ lock' = Append(lock, c)
      /\ current' = IF asked[c].kind = "begin" THEN Own(c) ELSE current
  BY DEF WorkerInv, Pass, Move, Own, clientVars, openVars, databaseVars
<1>2. WorkerTypes'
  <2>1. asked[c].kind = "begin" => Own(c) \in Works
    BY <1>1 DEF WorkerTypes, RequestInv, Own, Works
  <2>2. lock' \in Seq(Clients)
    BY <1>1 DEF WorkerTypes
  <2> QED
    BY <1>1, <2>1, <2>2 DEF WorkerTypes, Stages
<1>3. OnlyRow(c) /\ stage'[c] = "locked"
  BY <1>1 DEF OnlyRow, SameRow, WorkerTypes
<1>4. RequestInv(c)' /\ Own(c)' = Own(c)
  BY <1>1, <1>3 DEF RequestInv, Own
<1>5. \A d \in Clients : RequestInv(d)'
  BY <1>3, <1>4, OthersKept DEF WorkerInv
<1>6. OpeningInv'
  BY <1>1, <1>3, OpeningKept
<1>7. /\ \A d \in Clients \ {c} : /\ InGate(d)' <=> InGate(d)
                                  /\ Own(d)' = Own(d) /\ stage'[d] = stage[d]
  BY <1>3, OthersKept DEF OnlyRow, SameRow
<1>8. asked[c].kind = "begin" => /\ owned[c] = None /\ current = None /\ ~inTransaction
                                 /\ \A d \in Clients : ~InGate(d)
  <2>1. asked[c].kind = "begin" => owned[c] = None /\ asked[c].id = None /\ current = None
    BY <1>1 DEF RequestInv
  <2>2. ASSUME NEW d \in Clients, InGate(d) PROVE current # None
    <3>1. current = Own(d) /\ Own(d) # None
      BY <2>2, NoneAssumption DEF WorkerInv, WorkerTypes, GateInv, InGate, RequestInv, Own, Works
    <3> QED
      BY <3>1
  <2> QED
    BY <2>1, <2>2 DEF WorkerInv, TransactionInv
<1>9. asked[c].kind # "begin" => (InGate(c)' <=> owned[c] # None) /\ (InGate(c) <=> owned[c] # None)
  BY <1>1, <1>3 DEF InGate
<1>10. GateInv'
  <2>1. CASE asked[c].kind = "begin"
    BY <1>1, <1>3, <1>4, <1>7, <1>8, <2>1 DEF GateInv, InGate
  <2>2. CASE asked[c].kind # "begin"
    BY <1>1, <1>4, <1>7, <1>9, <2>2 DEF WorkerInv, GateInv
  <2> QED
    BY <2>1, <2>2
<1>11. TransactionInv'
  <2>1. CASE asked[c].kind = "begin"
    <3>1. \A d \in Clients \ {c} : ~InGate(d)'
      BY <1>7, <1>8, <2>1
    <3> QED
      BY <1>1, <1>3, <1>8, <2>1, <3>1 DEF TransactionInv, Ends
  <2>2. CASE asked[c].kind # "begin"
    <3>1. InGate(c) => inTransaction
      BY <1>9, <2>2 DEF WorkerInv, TransactionInv
    <3>2. \A d \in Clients \ {c} : InGate(d)' => Served(d)'
      BY <1>1, <1>3, <1>7 DEF WorkerInv, TransactionInv, Served, OnlyRow, SameRow
    <3>3. InGate(c)' => Served(c)'
      BY <1>1, <1>3, <1>9, <2>2, <3>1 DEF Served
    <3>4. inTransaction' => current' # None
      BY <1>1, <2>2 DEF WorkerInv, TransactionInv
    <3> QED
      BY <3>2, <3>3, <3>4 DEF TransactionInv, Served
  <2> QED
    BY <2>1, <2>2
<1>12. /\ n \in Nat /\ Len(lock') = n + 1 /\ lock'[n + 1] = c
       /\ \A i \in 1..n : lock'[i] = lock[i] /\ lock[i] \in Clients
  BY <1>1 DEF WorkerTypes
<1>13. \A i \in 1..n : lock[i] # c
  BY <1>12 DEF WorkerInv, LockInv
<1>14. /\ \A i, j \in 1..n + 1 : lock'[i] = lock'[j] => i = j
       /\ \A d \in Clients : (\E i \in 1..n + 1 : lock'[i] = d) <=> d = c \/ \E i \in 1..n : lock[i] = d
  <2>1. \A i, j \in 1..n : lock[i] = lock[j] => i = j
    BY DEF WorkerInv, LockInv
  <2>2. \A i \in 1..n + 1 : i \in 1..n \/ i = n + 1
    BY <1>12
  <2>3. n + 1 \in 1..n + 1 /\ \A i \in 1..n : i \in 1..n + 1
    BY <1>12
  <2> QED
    BY <1>12, <1>13, <2>1, <2>2, <2>3
<1>15. ASSUME NEW i \in 1..n
       PROVE  /\ i > 1 => stage'[lock'[i]] = "locked"
              /\ stage'[lock'[i]] = "locked" => asked'[lock'[i]].kind # "begin"
              /\ stage'[lock'[i]] = "locked" /\ asked'[lock'[i]].id = None /\ current' # None =>
                   asked[c].kind = "begin"
  <2> DEFINE d == lock[i]
  <2>1. d \in Clients /\ d # c /\ lock'[i] = d /\ stage'[d] = stage[d] /\ asked' = asked
    BY <1>1, <1>7, <1>12, <1>13
  <2>2. i > 1 => stage[d] = "locked"
    BY <1>12 DEF WorkerInv, LockInv
  <2>3. ASSUME NEW b \in Clients, b # c, stage[b] = "locked", asked[b].kind = "begin" PROVE FALSE
    <3>1. InGate(b) /\ current = Own(b) /\ asked[b].id = None
      BY <2>3 DEF InGate, WorkerInv, GateInv, RequestInv
    <3>2. Own(b) # None /\ current # None
      BY <2>3, <3>1, NoneAssumption DEF WorkerInv, WorkerTypes, RequestInv, Own, Works
    <3>3. asked[c].kind # "begin" /\ owned[c] = current
      BY <1>1, <1>8, <3>2 DEF RequestInv
    <3>4. current = Own(c)
      BY <1>1, <3>2, <3>3 DEF RequestInv
    <3> QED
      BY <2>3, <3>1, <3>4 DEF Own
  <2>4. stage[d] = "locked" /\ asked[d].id = None /\ current # None => FALSE
    <3>1. lock[n] \in Clients /\ lock[n] # c
      BY <1>12, <1>13
    <3>2. stage[d] = "locked" /\ asked[d].id = None /\ current # None =>
            stage[lock[n]] = "locked" /\ asked[lock[n]].kind = "begin"
      BY <1>12 DEF WorkerInv, LockInv
    <3> QED
      BY <2>3, <3>1, <3>2
  <2> QED
    BY <1>1, <2>1, <2>2, <2>3, <2>4
<1>16. LockInv'
  <2>1. \A d \in Clients : stage'[d] \in {"locked", "executed"} <=> \E i \in 1..n + 1 : lock'[i] = d
    BY <1>3, <1>7, <1>14 DEF WorkerInv, LockInv
  <2>2. stage'[lock'[n + 1]] = "locked" /\ asked' = asked
    BY <1>1, <1>3, <1>12
  <2>3. asked[c].id = None /\ current' # None => asked[c].kind = "begin"
    BY <1>1
  <2>4. \A i \in 1..n + 1 : i \in 1..n \/ i = n + 1
    BY <1>12
  <2> QED
    BY <1>12, <1>14, <1>15, <2>1, <2>2, <2>3, <2>4 DEF LockInv
<1>17. OneWriter'
  <2>1. asked[c].kind # "begin" => current' = current
    BY <1>1
  <2> QED
    BY <1>1, <1>8, <2>1 DEF WorkerInv, OneWriter
<1> QED
  BY <1>2, <1>5, <1>6, <1>10, <1>11, <1>16, <1>17 DEF WorkerInv

(* A message is delivered. *)
LEMMA DeliverStep ==
  ASSUME WorkerInv, NEW c \in Clients, Deliver(c)
  PROVE  WorkerInv'
<1>1. /\ WorkerTypes /\ stage[c] = "posted" /\ asked[c].kind # "none"
      /\ UNCHANGED <<clientVars, asked, outcome, draining, turn, databaseVars>>
      /\ queue \in Seq(Clients) /\ draining \in BOOLEAN /\ turn \in BOOLEAN
  BY DEF Deliver, WorkerInv, RequestInv, WorkerTypes
<1>2. CASE asked[c].kind # "open" /\ Gate(c) /\ UNCHANGED openVars
  <2>1. CASE current \in {None, asked[c].id}
    BY <1>1, <1>2, <2>1, PassStep DEF Gate
  <2>2. CASE current \notin {None, asked[c].id}
    BY <1>1, <1>2, <2>2, QueueStep DEF Gate
  <2> QED
    BY <2>1, <2>2
<1>3. CASE asked[c].kind = "open" /\ EnterOpening(c) /\ UNCHANGED <<ready, connections, current, queue, lock>>
  <2>1. OpeningInv' /\ opening' \in Seq(Clients) /\ Move(c, "opening")
    BY <1>1, <1>3, EnterStep DEF EnterOpening
  <2> QED
    BY <1>1, <1>3, <2>1, OpenStep DEF WorkerTypes, gateVars
<1>4. CASE asked[c].kind = "open" /\ Move(c, "starting") /\ UNCHANGED <<openVars, current, queue, lock>>
  <2>1. OnlyRow(c) /\ stage'[c] = "starting"
    BY <1>1, <1>4 DEF OnlyRow, SameRow, WorkerTypes, clientVars, Move
  <2>2. OpeningInv'
    BY <1>1, <1>4, <2>1, OpeningKept DEF openVars
  <2> QED
    BY <1>1, <1>4, <2>2, OpenStep DEF WorkerTypes, gateVars, openVars
<1> QED
  BY <1>2, <1>3, <1>4 DEF Deliver

(* The first of the queue is let through. *)
LEMMA RunHeadStep ==
  ASSUME WorkerInv, RunHead
  PROVE  WorkerInv'
<1> DEFINE c == Head(queue)
<1>1. c \in Clients
  BY DEF RunHead, WorkerInv, WorkerTypes
<1>2. /\ stage[c] = "queued" /\ asked[c].kind \notin {"none", "open"} /\ current = None
      /\ Pass(c) /\ UNCHANGED <<clientVars, asked, outcome, openVars, databaseVars>>
      /\ queue' \in Seq(Clients) /\ draining' \in BOOLEAN
  BY <1>1 DEF RunHead, WorkerInv, RequestInv, WorkerTypes
<1>3. turn' \in BOOLEAN
  BY ContinueType DEF RunHead
<1> QED
  BY <1>1, <1>2, <1>3, PassStep

-----------------------------------------------------------------------------
(* The connection *)

(* While the connection is in a transaction, what is at work there belongs *)
(* to it: a request from outside was let in before BEGIN was.              *)
LEMMA InsideIfOpen ==
  ASSUME WorkerInv, NEW c \in Clients, Executable(c), inTransaction
  PROVE  /\ InGate(c) /\ current = Own(c) /\ owned[c] # None
         /\ asked[c].kind \notin {"none", "open", "begin", "read"}
<1> DEFINE n == Len(lock)
<1>1. /\ WorkerTypes /\ RequestInv(c) /\ stage[c] = "locked"
      /\ n \in Nat /\ n >= 1 /\ c = lock[1] /\ \A i \in 1..n : lock[i] \in Clients
  BY DEF Executable, WorkerInv, WorkerTypes
<1>2. current # None
  BY DEF WorkerInv, TransactionInv
<1>3. ASSUME NEW b \in Clients, stage[b] = "locked", asked[b].kind = "begin" PROVE FALSE
  BY <1>3 DEF InGate, WorkerInv, TransactionInv
<1>4. asked[c].id # None
  <2>1. SUFFICES ASSUME asked[c].id = None PROVE FALSE
    OBVIOUS
  <2>2. stage[lock[n]] = "locked" /\ asked[lock[n]].kind = "begin"
    BY <1>1, <1>2, <2>1 DEF WorkerInv, LockInv
  <2> QED
    BY <1>1, <1>3, <2>2
<1>5. owned[c] # None /\ asked[c].kind \notin {"none", "open", "begin", "read"}
  BY <1>1, <1>3, <1>4 DEF RequestInv
<1> QED
  BY <1>1, <1>5 DEF InGate, WorkerInv, GateInv

(* Who is let in has begun a piece of work, and the gate stands at it.     *)
LEMMA OwnIsWork ==
  ASSUME WorkerInv, NEW d \in Clients, InGate(d)
  PROVE  current = Own(d) /\ Own(d) \in Works /\ Own(d) # None
<1>1. WorkerTypes /\ RequestInv(d) /\ MaxWorks \in Nat
  BY WorksAssumption DEF WorkerInv
<1>2. owned[d] # None => Own(d) \in Works
  BY <1>1 DEF WorkerTypes, RequestInv
<1>3. ASSUME owned[d] = None
      PROVE  Own(d) \in Works
  <2>1. works[d] # 0 /\ works[d] \in 0..MaxWorks
    BY <1>1, <1>3 DEF WorkerTypes, RequestInv, InGate
  <2>2. works[d] \in 1..MaxWorks
    BY <1>1, <2>1
  <2> QED
    BY <2>2 DEF Own, Works
<1>4. Own(d) \in Works
  BY <1>2, <1>3
<1>5. current = Own(d)
  BY DEF WorkerInv, GateInv
<1> QED
  BY <1>4, <1>5, NoneAssumption

(* What all statements do; what they do to the transaction and the pages   *)
(* is left to the single ones.                                             *)
LEMMA ExecutedStep ==
  ASSUME WorkerInv, NEW c \in Clients, Executable(c), asked[c].kind \notin {"none", "open"},
         NEW o \in {"ok", "failed"}, Executed(c, o), asked[c].kind = "begin" => o = "ok",
         inTransaction' \in BOOLEAN, inTransaction' # inTransaction => InGate(c),
         InGate(c) => Served(c)', OneWriter'
  PROVE  WorkerInv'
<1> DEFINE n == Len(lock)
<1>1. /\ WorkerTypes /\ RequestInv(c) /\ stage[c] = "locked"
      /\ stage' = [stage EXCEPT ![c] = "executed"] /\ outcome' = [outcome EXCEPT ![c] = o]
      /\ UNCHANGED <<phase, works, owned, wrote, asked, ready, connections, opening, current,
                     queue, draining, lock, turn>>
  BY DEF WorkerInv, Executable, Executed, Move, clientVars, openVars, gateVars
<1>2. WorkerTypes'
  BY <1>1 DEF WorkerTypes, Stages
<1>3. OnlyRow(c) /\ stage'[c] = "executed" /\ outcome'[c] = o
  BY <1>1 DEF OnlyRow, SameRow, WorkerTypes
<1>4. RequestInv(c)' /\ Own(c)' = Own(c)
  BY <1>1, <1>3 DEF RequestInv, Own
<1>5. \A d \in Clients : RequestInv(d)'
  BY <1>3, <1>4, OthersKept DEF WorkerInv
<1>6. OpeningInv'
  BY <1>1, <1>3, OpeningKept
<1>7. \A d \in Clients : (InGate(d)' <=> InGate(d)) /\ Own(d)' = Own(d)
  <2>1. InGate(c)' <=> InGate(c)
    BY <1>1, <1>3 DEF InGate
  <2> QED
    BY <1>3, <1>4, <2>1, OthersKept
<1>8. GateInv'
  BY <1>1, <1>7 DEF WorkerInv, GateInv
<1>9. \A d \in Clients : InGate(d) => Own(d) # None /\ current = Own(d)
  BY OwnIsWork
<1>10. TransactionInv'
  <2>1. inTransaction' => current' # None
    BY <1>1, <1>9 DEF WorkerInv, TransactionInv
  <2>2. ASSUME NEW d \in Clients, InGate(d), d # c
        PROVE  Served(d)'
    <3>1. inTransaction' = inTransaction
      BY <1>9, <2>2 DEF Own
    <3>2. Served(d)
      BY <2>2 DEF WorkerInv, TransactionInv, Served
    <3> QED
      BY <1>3, <2>2, <3>1, <3>2 DEF Served, OnlyRow, SameRow
  <2>3. \A d \in Clients : InGate(d)' => Served(d)'
    BY <1>7, <2>2
  <2> QED
    BY <2>1, <2>3 DEF TransactionInv, Served
<1>11. LockInv'
  <2>1. /\ n \in Nat /\ n >= 1 /\ c = lock[1] /\ n \in 1..n
        /\ \A i \in 1..n : lock[i] \in Clients /\ (i > 1 => lock[i] # c)
    BY <1>1 DEF Executable, WorkerInv, WorkerTypes, LockInv
  <2>2. \A d \in Clients : d # c => stage'[d] = stage[d]
    BY <1>3 DEF OnlyRow, SameRow
  <2>3. \A d \in Clients : stage'[d] \in {"locked", "executed"} <=> \E i \in 1..n : lock[i] = d
    BY <1>1, <1>3, <2>2 DEF WorkerInv, LockInv
  <2>4. ASSUME NEW i \in 1..n, stage'[lock[i]] = "locked"
        PROVE  stage[lock[i]] = "locked" /\ i > 1 /\ n > 1 /\ lock[n] # c
    BY <1>3, <2>1, <2>2, <2>4
  <2>5. \A i \in 1..n : i > 1 => stage'[lock[i]] = "locked"
    BY <2>1, <2>2 DEF WorkerInv, LockInv
  <2>6. \A i \in 1..n : stage'[lock[i]] = "locked" =>
          /\ asked[lock[i]].kind = "begin" => i = n
          /\ asked[lock[i]].id = None /\ current # None =>
               stage'[lock[n]] = "locked" /\ asked[lock[n]].kind = "begin"
    BY <2>1, <2>2, <2>4 DEF WorkerInv, LockInv
  <2>7. \A i, j \in 1..n : lock[i] = lock[j] => i = j
    BY DEF WorkerInv, LockInv
  <2> QED
    BY <1>1, <2>3, <2>5, <2>6, <2>7 DEF LockInv
<1> QED
  BY <1>2, <1>5, <1>6, <1>8, <1>10, <1>11 DEF WorkerInv

(* The statements, one by one. *)
LEMMA ExecuteStep ==
  ASSUME WorkerInv, NEW c \in Clients,
         \/ ExecuteBegin(c) \/ ExecuteRead(c) \/ ExecuteWrite(c) \/ ExecuteCommit(c)
         \/ ExecuteRollback(c) \/ ExecuteFails(c) \/ ExecuteAborts(c)
  PROVE  WorkerInv'
<1>1. /\ WorkerTypes /\ RequestInv(c) /\ stage[c] = "locked" /\ Executable(c) /\ OneWriter
      /\ (InGate(c) => Served(c)) /\ inTransaction \in BOOLEAN
  BY DEF ExecuteBegin, ExecuteRead, ExecuteWrite, ExecuteCommit, ExecuteRollback, ExecuteFails,
         ExecuteAborts, Executable, WorkerInv, WorkerTypes, TransactionInv, Served
<1>2. inTransaction => /\ InGate(c) /\ current = Own(c) /\ owned[c] # None
                       /\ asked[c].kind \notin {"none", "open", "begin", "read"}
  BY <1>1, InsideIfOpen
<1>3. \A o \in {"ok", "failed"} : Executed(c, o) =>
        /\ stage'[c] = "executed" /\ outcome'[c] = o
        /\ asked' = asked /\ owned' = owned /\ works' = works /\ current' = current
  BY <1>1 DEF Executed, Move, WorkerTypes, clientVars, gateVars
<1>4. CASE ExecuteBegin(c)
  <2>1. ~inTransaction /\ inTransaction' /\ InGate(c) /\ Executed(c, "ok")
    BY <1>1, <1>2, <1>4 DEF ExecuteBegin, InGate
  <2>2. Served(c)'
    BY <1>1, <1>3, <1>4, <2>1 DEF Served, ExecuteBegin, RequestInv, Ends
  <2>3. OneWriter'
    BY <1>1, <1>4, <2>1 DEF ExecuteBegin, OneWriter
  <2> QED
    BY <1>1, <1>4, <2>1, <2>2, <2>3, ExecutedStep DEF ExecuteBegin
<1>5. CASE ExecuteRead(c) \/ ExecuteFails(c)
  <2>1. PICK o \in {"ok", "failed"} : Executed(c, o)
    BY <1>5 DEF ExecuteRead, ExecuteFails
  <2>2. /\ UNCHANGED <<inTransaction, working, committed>> /\ asked[c].kind \in {"read", "write"}
        /\ current' = current
    BY <1>3, <1>5, <2>1 DEF ExecuteRead, ExecuteFails, databaseVars
  <2>3. InGate(c) => Served(c)'
    BY <1>1, <1>3, <2>1, <2>2 DEF Served, Ends
  <2>4. OneWriter'
    BY <1>1, <2>2 DEF OneWriter
  <2> QED
    BY <1>1, <2>1, <2>2, <2>3, <2>4, ExecutedStep
<1>6. CASE ExecuteWrite(c)
  <2>1. /\ Executed(c, "ok") /\ asked[c].kind = "write" /\ inTransaction' = inTransaction
        /\ working' = Marked(c) /\ committed' = IF inTransaction THEN committed ELSE working'
    BY <1>6 DEF ExecuteWrite
  <2>2. InGate(c) => Served(c)'
    BY <1>1, <1>3, <2>1 DEF Served, Ends
  <2>3. OneWriter'
    <3>1. ASSUME inTransaction, NEW p \in Pages
          PROVE  working'[p] \ committed'[p] \subseteq {current'}
      <4>1. working'[p] \subseteq working[p] \cup {Own(c)}
        BY <2>1 DEF Marked, Own
      <4> QED
        BY <1>1, <1>2, <1>3, <2>1, <3>1, <4>1 DEF OneWriter
    <3> QED
      BY <2>1, <3>1 DEF OneWriter
  <2> QED
    BY <1>1, <2>1, <2>2, <2>3, ExecutedStep
<1>7. CASE ExecuteCommit(c) \/ ExecuteRollback(c) \/ ExecuteAborts(c)
  <2>1. PICK o \in {"ok", "failed"} : Executed(c, o)
    BY <1>7 DEF ExecuteCommit, ExecuteRollback, ExecuteAborts
  <2>2. /\ inTransaction /\ ~inTransaction' /\ inTransaction' \in BOOLEAN /\ working' = committed'
    BY <1>7 DEF ExecuteCommit, ExecuteRollback, ExecuteAborts
  <2>3. asked[c].kind \notin Ends => outcome'[c] # "ok"
    BY <1>1, <1>7 DEF ExecuteCommit, ExecuteRollback, ExecuteAborts, Executed, WorkerTypes, Ends
  <2>4. Served(c)'
    BY <1>2, <1>3, <2>1, <2>2, <2>3 DEF Served
  <2>5. OneWriter'
    BY <2>2 DEF OneWriter
  <2> QED
    BY <1>1, <1>2, <2>1, <2>2, <2>4, <2>5, ExecutedStep
<1> QED
  BY <1>4, <1>5, <1>6, <1>7

-----------------------------------------------------------------------------
(* The turns of the event loop *)

(* The lock is passed on. *)
LEMMA UnlockStep ==
  ASSUME WorkerInv, NEW c \in Clients, Unlock(c)
  PROVE  WorkerInv'
<1> DEFINE n == Len(lock)
<1>1. /\ WorkerTypes /\ RequestInv(c) /\ stage[c] = "executed" /\ lock' = Tail(lock)
      /\ stage' = [stage EXCEPT ![c] = "settling"]
      /\ UNCHANGED <<phase, works, owned, wrote, asked, outcome, ready, connections, opening,
                     current, queue, draining, inTransaction, working, committed>>
      /\ turn' \in BOOLEAN
  BY ContinueType DEF Unlock, Move, WorkerInv, clientVars, openVars, gateVars, databaseVars
<1>2. lock # <<>> /\ c = Head(lock)
  BY <1>1, AtWorkIsFirst
<1>3. /\ n \in Nat /\ n >= 1 /\ c = lock[1] /\ lock' \in Seq(Clients) /\ Len(lock') = n - 1
      /\ \A i \in 1..n - 1 : lock'[i] = lock[i + 1]
      /\ \A i \in 1..n : lock[i] \in Clients
  BY <1>1, <1>2 DEF WorkerTypes
<1>4. WorkerTypes'
  BY <1>1, <1>3 DEF WorkerTypes, Stages
<1>5. OnlyRow(c) /\ stage'[c] = "settling"
  BY <1>1 DEF OnlyRow, SameRow, WorkerTypes
<1>6. RequestInv(c)' /\ Own(c)' = Own(c)
  BY <1>1, <1>5 DEF RequestInv, Own
<1>7. \A d \in Clients : RequestInv(d)' /\ (InGate(d)' <=> InGate(d)) /\ Own(d)' = Own(d)
  <2>1. InGate(c)' <=> InGate(c)
    BY <1>1, <1>5 DEF InGate
  <2> QED
    BY <1>5, <1>6, <2>1, OthersKept DEF WorkerInv
<1>8. OpeningInv'
  BY <1>1, <1>5, OpeningKept
<1>9. GateInv'
  BY <1>1, <1>7 DEF WorkerInv, GateInv
<1>10. TransactionInv'
  <2>1. ASSUME NEW d \in Clients, InGate(d)
        PROVE  Served(d)'
    <3>1. Served(d)
      BY <2>1 DEF WorkerInv, TransactionInv, Served
    <3> QED
      BY <1>1, <1>5, <3>1 DEF Served, OnlyRow, SameRow
  <2> QED
    BY <1>1, <1>7, <2>1 DEF WorkerInv, TransactionInv, Served
<1>11. OneWriter'
  BY <1>1 DEF WorkerInv, OneWriter
<1>12. /\ \A i, j \in 1..n - 1 : lock'[i] = lock'[j] => i = j
       /\ \A d \in Clients : (\E i \in 1..n - 1 : lock'[i] = d) <=>
                                d # c /\ \E i \in 1..n : lock[i] = d
  <2>1. lock \in Seq(Clients) /\ \A i, j \in 1..n : lock[i] = lock[j] => i = j
    BY <1>1 DEF WorkerInv, WorkerTypes, LockInv
  <2> QED
    BY <1>1, <1>2, <2>1, TailFacts
<1>13. \A d \in Clients : stage'[d] \in {"locked", "executed"} <=> \E i \in 1..n - 1 : lock'[i] = d
  BY <1>5, <1>12 DEF WorkerInv, LockInv, OnlyRow, SameRow
<1>14. ASSUME NEW i \in 1..n - 1
       PROVE  /\ i > 1 => stage'[lock'[i]] = "locked"
              /\ stage'[lock'[i]] = "locked" /\ asked'[lock'[i]].kind = "begin" => i = n - 1
              /\ stage'[lock'[i]] = "locked" /\ asked'[lock'[i]].id = None /\ current' # None =>
                   stage'[lock'[n - 1]] = "locked" /\ asked'[lock'[n - 1]].kind = "begin"
  <2>1. /\ i + 1 \in 1..n /\ i + 1 > 1 /\ n \in 1..n /\ n - 1 \in 1..n - 1
        /\ lock'[i] = lock[i + 1] /\ lock'[n - 1] = lock[n]
    BY <1>3
  <2>2. /\ lock'[i] # c /\ lock'[i] \in Clients /\ lock'[n - 1] # c /\ lock'[n - 1] \in Clients
    BY <1>3, <1>12, <2>1
  <2>3. stage'[lock'[i]] = stage[lock[i + 1]] /\ stage'[lock'[n - 1]] = stage[lock[n]]
    BY <1>5, <2>1, <2>2 DEF OnlyRow, SameRow
  <2>4. /\ stage[lock[i + 1]] = "locked"
        /\ asked[lock[i + 1]].kind = "begin" => i + 1 = n
        /\ asked[lock[i + 1]].id = None /\ current # None =>
             stage[lock[n]] = "locked" /\ asked[lock[n]].kind = "begin"
    BY <2>1 DEF WorkerInv, LockInv
  <2>5. i + 1 = n => i = n - 1
    BY <1>3
  <2> QED
    BY <1>1, <2>1, <2>3, <2>4, <2>5
<1>15. LockInv'
  BY <1>3, <1>12, <1>13, <1>14 DEF LockInv
<1> QED
  BY <1>4, <1>7, <1>8, <1>9, <1>10, <1>11, <1>15 DEF WorkerInv

(* The answer opens the gate exactly when the transaction of the request   *)
(* is over on the connection.                                              *)
LEMMA SettleStep ==
  ASSUME WorkerInv, NEW c \in Clients, Settle(c)
  PROVE  WorkerInv'
<1> DEFINE r == asked[c]
           closing == (r.kind \in Ends /\ outcome[c] = "ok") \/ Told(c) = "closed"
<1>1. /\ WorkerTypes /\ RequestInv(c) /\ stage[c] = "settling" /\ r.kind \notin {"none", "open"}
      /\ stage' = [stage EXCEPT ![c] = "answered"] /\ outcome' = [outcome EXCEPT ![c] = Told(c)]
      /\ UNCHANGED <<phase, works, owned, wrote, ready, connections, opening, lock,
                     inTransaction, working, committed>>
      /\ outcome[c] \in {"ok", "failed"}
  BY DEF Settle, Move, WorkerInv, WorkerTypes, RequestInv, clientVars, openVars, databaseVars
<1>2. r.kind = "begin" => /\ r.id = None /\ outcome[c] = "ok" /\ Told(c) = "ok" /\ InGate(c)
                          /\ current = Own(c)
  BY <1>1 DEF RequestInv, Told, InGate, WorkerInv, GateInv
<1>3. /\ current' = (IF r.kind # "begin" /\ closing THEN None ELSE current)
      /\ asked' = [asked EXCEPT ![c].id = IF r.kind = "begin" THEN Own(c) ELSE @]
  <2>1. CASE r.kind = "begin"
    BY <1>2, <2>1 DEF Settle, Ends
  <2>2. CASE r.kind # "begin" /\ r.kind \in Ends /\ outcome[c] = "ok"
    BY <2>2 DEF Settle
  <2>3. CASE r.kind # "begin" /\ ~(r.kind \in Ends /\ outcome[c] = "ok") /\ Told(c) = "closed"
    BY <2>3 DEF Settle
  <2>4. CASE r.kind # "begin" /\ ~closing
    BY <2>4 DEF Settle
  <2> QED
    BY <2>1, <2>2, <2>3, <2>4
<1>4. WorkerTypes'
  <2>1. r.kind = "begin" => Own(c) \in Works
    BY <1>2, OwnIsWork
  <2>2. asked' \in [Clients -> [kind : Kinds, id : Works \cup {None}, pages : SUBSET Pages]]
    <3> DEFINE i == IF r.kind = "begin" THEN Own(c) ELSE r.id
    <3>1. r \in [kind : Kinds, id : Works \cup {None}, pages : SUBSET Pages]
      BY <1>1 DEF WorkerTypes
    <3>2. i \in Works \cup {None}
      BY <2>1, <3>1
    <3>3. [r EXCEPT !.id = i] \in [kind : Kinds, id : Works \cup {None}, pages : SUBSET Pages]
      BY <3>1, <3>2
    <3>4. asked' = [asked EXCEPT ![c] = [r EXCEPT !.id = i]]
      BY <1>3
    <3> QED
      BY <1>1, <3>3, <3>4 DEF WorkerTypes
  <2>3. queue' \in Seq(Clients) /\ draining' \in BOOLEAN /\ turn' \in BOOLEAN
    BY <1>1, ContinueType DEF Settle, WorkerTypes, FromQueue, Wakes
  <2>4. Told(c) \in {"ok", "failed", "closed"} /\ current' \in Works \cup {None}
    BY <1>1, <1>3 DEF WorkerTypes, Told
  <2> QED
    BY <1>1, <2>2, <2>3, <2>4 DEF WorkerTypes, Stages
<1>5. /\ stage'[c] = "answered" /\ outcome'[c] = Told(c) /\ asked'[c].kind = r.kind
      /\ asked'[c].id = IF r.kind = "begin" THEN Own(c) ELSE r.id
      /\ OnlyRow(c)
  BY <1>1, <1>3 DEF OnlyRow, SameRow, WorkerTypes
<1>6. RequestInv(c)' /\ Own(c)' = Own(c)
  BY <1>1, <1>2, <1>5 DEF RequestInv, Own
<1>7. \A d \in Clients : RequestInv(d)'
  BY <1>5, <1>6, OthersKept DEF WorkerInv
<1>8. OpeningInv'
  BY <1>1, <1>5, OpeningKept
<1>9. CASE r.kind # "begin" /\ closing
  <2>1. /\ ~inTransaction /\ InGate(c) /\ current = Own(c) /\ owned[c] # None
    <3>1. owned[c] # None
      BY <1>1, <1>9 DEF RequestInv, Told
    <3>2. InGate(c)
      BY <1>1, <3>1 DEF InGate
    <3> QED
      BY <1>1, <1>9, <3>1, <3>2 DEF WorkerInv, GateInv, TransactionInv, Told
  <2>2. ~InGate(c)'
    BY <1>1, <1>5, <1>9 DEF InGate, Told
  <2>3. \A d \in Clients \ {c} : ~InGate(d)'
    <3> SUFFICES ASSUME NEW d \in Clients, d # c, InGate(d) PROVE FALSE
      BY <1>5, OthersKept
    <3>1. current = Own(d)
      BY DEF WorkerInv, GateInv
    <3> QED
      BY <2>1, <3>1 DEF Own
  <2>4. current' = None
    BY <1>3, <1>9
  <2>5. GateInv' /\ TransactionInv'
    BY <1>1, <2>1, <2>2, <2>3, <2>4 DEF GateInv, TransactionInv
  <2>6. LockInv'
    <3>1. \A i \in 1..Len(lock) : lock[i] \in Clients /\ lock[i] # c
      <4>1. LockInv /\ stage[c] = "settling" /\ lock \in Seq(Clients)
        BY <1>1 DEF WorkerInv, WorkerTypes
      <4> QED
        BY <4>1 DEF LockInv
    <3>2. \A i \in 1..Len(lock) : stage'[lock[i]] = stage[lock[i]] /\ asked'[lock[i]] = asked[lock[i]]
      BY <1>5, <3>1 DEF OnlyRow, SameRow
    <3>3. \A d \in Clients : d # c => stage'[d] = stage[d]
      BY <1>5 DEF OnlyRow, SameRow
    <3> QED
      BY <1>1, <1>5, <2>4, <3>1, <3>2, <3>3 DEF WorkerInv, LockInv
  <2>7. OneWriter'
    BY <1>1, <2>1 DEF WorkerInv, OneWriter
  <2> QED
    BY <1>4, <1>7, <1>8, <2>5, <2>6, <2>7 DEF WorkerInv
<1>10. CASE r.kind = "begin" \/ ~closing
  <2>1. current' = current
    BY <1>3, <1>10
  <2>2. r.kind # "begin" /\ owned[c] # None =>
          InGate(c) /\ inTransaction /\ r.kind \notin Ends /\ Told(c) # "closed"
    <3> SUFFICES ASSUME r.kind # "begin", owned[c] # None
                 PROVE  InGate(c) /\ inTransaction /\ r.kind \notin Ends /\ Told(c) # "closed"
      OBVIOUS
    <3>1. InGate(c) /\ r.id # None /\ Told(c) # "closed"
      BY <1>1, <1>10 DEF InGate, RequestInv
    <3>2. inTransaction
      <4> SUFFICES ASSUME ~inTransaction PROVE FALSE
        OBVIOUS
      <4>1. outcome[c] # "failed"
        BY <3>1 DEF Told
      <4>2. r.kind \notin Ends
        BY <1>1, <1>10, <4>1
      <4>3. outcome[c] # "ok"
        BY <3>1, <4>2 DEF WorkerInv, TransactionInv
      <4> QED
        BY <1>1, <4>1, <4>3
    <3>3. r.kind \notin Ends
      BY <1>1, <3>1, <3>2 DEF WorkerInv, TransactionInv
    <3> QED
      BY <3>1, <3>2, <3>3
  <2>3. InGate(c)' <=> InGate(c)
    <3>1. CASE r.kind = "begin"
      BY <1>2, <1>5, <3>1 DEF InGate
    <3>2. CASE r.kind # "begin"
      BY <1>1, <1>5, <2>2, <3>2 DEF InGate
    <3> QED
      BY <3>1, <3>2
  <2>4. InGate(c) => Served(c)'
    <3>1. CASE r.kind = "begin"
      <4>1. inTransaction /\ owned[c] = None
        BY <1>1, <1>2, <3>1 DEF WorkerInv, TransactionInv, RequestInv
      <4> QED
        BY <1>1, <1>5, <3>1, <4>1 DEF Served, Ends
    <3>2. CASE r.kind # "begin"
      <4>1. InGate(c) => owned[c] # None
        BY <3>2 DEF InGate
      <4> QED
        BY <1>1, <1>5, <2>2, <3>2, <4>1 DEF Served
    <3> QED
      BY <3>1, <3>2
  <2>5. GateInv' /\ LockInv' /\ TransactionInv' /\ OneWriter'
    BY <1>1, <1>5, <1>6, <2>1, <2>3, <2>4, OutsideStep
  <2> QED
    BY <1>4, <1>7, <1>8, <2>5 DEF WorkerInv
<1> QED
  BY <1>9, <1>10

(* The queue is drained. *)
LEMMA RestStep ==
  ASSUME WorkerInv, Rest
  PROVE  WorkerInv'
<1>1. /\ WorkerTypes /\ draining' = FALSE /\ turn' \in BOOLEAN
      /\ UNCHANGED <<phase, works, owned, wrote, asked, stage, outcome, ready, connections,
                     opening, current, queue, lock, inTransaction, working, committed>>
  BY ContinueType DEF Rest, WorkerInv, clientVars, openVars, databaseVars
<1>2. WorkerTypes'
  BY <1>1 DEF WorkerTypes
<1>3. \A d \in Clients : RequestInv(d)'
  BY <1>1 DEF WorkerInv, RequestInv, Own
<1>4. GateInv' /\ TransactionInv'
  BY <1>1 DEF WorkerInv, GateInv, TransactionInv, InGate, Own
<1>5. LockInv' /\ OpeningInv' /\ OneWriter'
  BY <1>1 DEF WorkerInv, LockInv, OpeningInv, OneWriter
<1> QED
  BY <1>2, <1>3, <1>4, <1>5 DEF WorkerInv

-----------------------------------------------------------------------------
(* All steps *)

(* Every step of the worker keeps the invariant. *)
LEMMA WorkerStep ==
  ASSUME WorkerInv, WorkerNext
  PROVE  WorkerInv'
<1>1. CASE TurnStep
  BY <1>1, RunHeadStep, RestStep, OpenedStep, UnlockStep, SettleStep DEF TurnStep
<1>2. ASSUME NEW c \in Clients, ClientStep(c) \/ Leave(c)
      PROVE  WorkerInv'
  BY <1>2, AskStep, ReceiveStep, LeaveStep DEF ClientStep
<1>3. ASSUME NEW c \in Clients, Serve(c)
      PROVE  WorkerInv'
  BY <1>3, DeliverStep, InitialiseStep, LookupStep, CreateStep, ExecuteStep DEF Serve
<1> QED
  BY <1>1, <1>2, <1>3 DEF WorkerNext

(* A new worker starts from nothing but what the files hold. *)
LEMMA StopStep ==
  ASSUME WorkerInv, Stop
  PROVE  WorkerInv'
<1>1. /\ phase' = [c \in Clients |-> "away"] /\ owned' = [c \in Clients |-> None]
      /\ asked' = [c \in Clients |-> NoRequest] /\ stage' = [c \in Clients |-> "idle"]
      /\ outcome' = [c \in Clients |-> "ok"]
      /\ ready' = FALSE /\ connections' = 0 /\ opening' = <<>>
      /\ current' = None /\ queue' = <<>> /\ draining' = FALSE
      /\ lock' = <<>> /\ turn' = FALSE /\ inTransaction' = FALSE /\ working' = committed'
      /\ works' = works /\ wrote' = wrote
  BY DEF Stop
<1>2. WorkerTypes'
  <2>1. NoRequest \in [kind : Kinds, id : Works \cup {None}, pages : SUBSET Pages]
    BY DEF NoRequest, Kinds
  <2>2. opening' \in Seq(Clients) /\ queue' \in Seq(Clients) /\ lock' \in Seq(Clients)
    BY <1>1
  <2> QED
    BY <1>1, <2>1, <2>2 DEF WorkerInv, WorkerTypes, Phases, Stages
<1>3. \A c \in Clients : RequestInv(c)' /\ ~InGate(c)'
  BY <1>1 DEF RequestInv, InGate, NoRequest, Ends
<1>4. GateInv' /\ TransactionInv' /\ OneWriter'
  BY <1>1, <1>3 DEF GateInv, TransactionInv, OneWriter
<1>5. LockInv' /\ OpeningInv'
  BY <1>1 DEF LockInv, OpeningInv
<1> QED
  BY <1>2, <1>3, <1>4, <1>5 DEF WorkerInv

(* The steps of the worker with its files are steps of the worker, but for *)
(* those of IndexedDB and the end of the worker.                           *)
LEMMA WebStep ==
  ASSUME WorkerInv, [WebNext]_webVars
  PROVE  WorkerInv'
<1>1. ASSUME UNCHANGED workerVars
      PROVE  WorkerInv'
  <2>1. UNCHANGED <<phase, works, owned, wrote, asked, stage, outcome, ready, connections,
                    opening, current, queue, draining, lock, turn, inTransaction, working,
                    committed>>
    BY <1>1 DEF workerVars, clientVars, openVars, gateVars, databaseVars
  <2>2. WorkerTypes' /\ OneWriter' /\ LockInv' /\ OpeningInv'
    BY <2>1 DEF WorkerInv, WorkerTypes, OneWriter, LockInv, OpeningInv
  <2>3. GateInv' /\ TransactionInv'
    BY <2>1 DEF WorkerInv, GateInv, TransactionInv, InGate, Own
  <2>4. \A d \in Clients : RequestInv(d)'
    BY <2>1 DEF WorkerInv, RequestInv, Own
  <2> QED
    BY <2>2, <2>3, <2>4 DEF WorkerInv
<1>2. CASE UNCHANGED webVars
  BY <1>1, <1>2 DEF webVars
<1>3. CASE WebBatchDone \/ WebBatchFails
  BY <1>1, <1>3 DEF WebBatchDone, WebBatchFails
<1>4. CASE Stop
  BY <1>4, StopStep
<1>5. ASSUME NEW c \in Clients, WebServe(c)
      PROVE  Serve(c)
  BY <1>5 DEF WebServe, WebCreate, WebWrite, WebCommit, WebRollback, Serve
<1>6. ASSUME NEW c \in Clients, WebClient(c)
      PROVE  ClientStep(c) \/ Leave(c)
  BY <1>6 DEF WebClient
<1>7. WebNext => WorkerNext \/ WebBatchDone \/ WebBatchFails \/ Stop
  BY <1>5, <1>6 DEF WebNext, WorkerNext
<1> QED
  BY <1>2, <1>3, <1>4, <1>7, WorkerStep

(* What the windows may rely on follows. *)
LEMMA InvIsolates ==
  ASSUME WorkerInv
  PROVE  Isolation
<1>1. OneConnection
  BY DEF WorkerInv, OpeningInv, OneConnection
<1>2. OwnTransaction
  <2> SUFFICES ASSUME NEW c \in Clients, stage[c] = "posted", asked[c].id # None
               PROVE  current = asked[c].id /\ inTransaction
    BY DEF OwnTransaction
  <2>1. owned[c] # None /\ asked[c].id = owned[c] /\ owned[c] = Own(c)
    BY DEF WorkerInv, RequestInv
  <2>2. InGate(c)
    BY <2>1 DEF InGate
  <2> QED
    BY <2>1, <2>2 DEF WorkerInv, GateInv, TransactionInv
<1>3. OneWriter
  BY DEF WorkerInv
<1>4. ReadsCommitted
  <2> SUFFICES ASSUME NEW c \in Clients, Executable(c), asked[c].kind = "read"
               PROVE  working = committed
    BY DEF ReadsCommitted
  <2>1. ~inTransaction
    BY InsideIfOpen
  <2> QED
    BY <1>3, <2>1 DEF OneWriter
<1> QED
  BY <1>1, <1>2, <1>3, <1>4 DEF Isolation

(* The windows of a browser share one connection to the database, and yet  *)
(* no statement of one gets into the transaction of another, no commit     *)
(* takes along what somebody else has written, and no query sees it:       *)
(* however many windows there are and whatever order the worker            *)
(* (web/sqflite_sw.js) handles their messages in, windows that go in the   *)
(* middle of a transaction, failures and ends of the worker included.      *)
THEOREM WindowsAreIsolated == WebSpec => []Isolation
<1>1. WebInit => WorkerInv
  BY InitWorkerInv DEF WebInit
<1>2. WorkerInv /\ [WebNext]_webVars => WorkerInv'
  BY WebStep
<1>3. WorkerInv => Isolation
  BY InvIsolates
<1> QED
  BY <1>1, <1>2, <1>3, PTL DEF WebSpec
=============================================================================
