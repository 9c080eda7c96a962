--------------------------- MODULE PostgresProofs ---------------------------
(* For every number of calls, operations and batches: the transactions of  *)
(* Postgres are the atomic methods of Store, and number their rows without *)
(* gaps.                                                                   *)
EXTENDS Postgres, FiniteSetTheorems, TLAPS

Numbered == {"operations", "audit"}

(* Stages at which a call holds the row of the workspace. *)
Running == {"locked", "authorized", "writing", "logging"}

(* The rows inserted for the first a places, logged for the first b.       *)
Part(S, r, a, b) ==
  {Effect(S, r, n) : n \in UpTo(Missing(S, r), a)}
    \cup {Line(S, r, n) : n \in UpTo(Missing(S, r), b)}

(* The rows of mine[c] come behind those that are committed. *)
Behind(c) ==
  \A t \in Numbered :
    LET size == Cardinality(Table(mine[c], t))
    IN  Numbers(mine[c], t) = counter[t] + 1 .. counter[t] + size

Plain(S) == \A x \in S : x.table \notin Numbered => x.number = 0

(* How far c has come: its rows are the first of those that Handle adds.   *)
Progress(c, k) ==
  LET r == request[c]
      N == Missing(db, r)
  IN  /\ mine[c] = Part(db, r, k, done[c])
      /\ Cardinality(Table(mine[c], "audit")) = Cardinality(UpTo(N, done[c]))
      /\ r.kind = "push" =>
           Cardinality(Table(mine[c], "operations")) = Cardinality(UpTo(N, k))
      /\ Behind(c) /\ Plain(mine[c])
      /\ \A n \in 1 .. done[c] : Wanted(r)[n][2] \in Keys(View(c), Wanted(r)[n][1])

(* What call c relies on.  All of it holds because others, in the stages   *)
(* that read or write the tables, would hold the same row.                 *)
CallInv(c) ==
  /\ at[c] \in Running => lock = c
  /\ at[c] \in {"authorized", "writing", "logging"} => Entitled(db, request[c])
  /\ at[c] \in {"writing", "logging"} => Consistent(db, request[c])
  /\ at[c] \notin {"writing", "logging"} => mine[c] = {}
  /\ at[c] \notin {"writing", "logging", "answered"} => done[c] = 0
  /\ at[c] = "writing" => Progress(c, done[c])
  /\ at[c] = "logging" => /\ done[c] + 1 \in Missing(db, request[c])
                          /\ Progress(c, done[c] + 1)

TableInv == GapFree /\ Plain(db)

(* Between its statements a Pull remembers what was true when it looked.   *)
LookInv == \A p \in Pulls : pull[p].at = "looking" =>
  pull[p].after <= counter.operations /\ pull[p].latest <= counter.operations

(* The inductive invariant. *)
IInv == /\ TypeOK /\ TableInv /\ LookInv /\ PageIsContiguous /\ AnswerIsTrue
        /\ \A c \in Calls : CallInv(c)

-----------------------------------------------------------------------------
(* Operators *)

(* What a request wants: rows of tables other than the audit log, of the   *)
(* operations if and only if it is a push.                                 *)
LEMMA WantedFacts ==
  ASSUME NEW r \in Requests
  PROVE  /\ Len(Wanted(r)) \in Nat /\ DOMAIN Wanted(r) = 1 .. Len(Wanted(r))
         /\ \A n \in DOMAIN Wanted(r) :
              /\ Wanted(r)[n] = <<Wanted(r)[n][1], Wanted(r)[n][2]>>
              /\ Wanted(r)[n][1] # "audit"
              /\ Wanted(r)[n][1] = "operations" <=> r.kind = "push"
<1>1. CASE r \in Pushes
  <2>1. r.kind = "push" /\ r.batch \in Seq(Ops)
    BY <1>1, BatchAssumption DEF Pushes
  <2>2. Wanted(r) = [k \in 1 .. Len(r.batch) |-> <<"operations", r.batch[k]>>]
    BY <2>1 DEF Wanted
  <2>3. Len(r.batch) \in Nat /\ Len(Wanted(r)) = Len(r.batch)
    BY <2>1, <2>2
  <2> QED
    BY <2>1, <2>2, <2>3
<1>2. CASE r \in Registrations
  <2>1. r.kind = "register"
    BY <1>2 DEF Registrations
  <2>2. Wanted(r) = << <<"devices", r.device>> >>
    BY <2>1 DEF Wanted
  <2> QED
    BY <2>1, <2>2
<1>3. CASE r \in Revocations
  <2>1. r.kind = "revoke"
    BY <1>3 DEF Revocations
  <2>2. Wanted(r) = << <<"revoked", r.device>> >>
    BY <2>1 DEF Wanted
  <2> QED
    BY <2>1, <2>2
<1>4. CASE r \in Uploads
  <2>1. r.kind = "upload"
    BY <1>4 DEF Uploads
  <2>2. Wanted(r) = << <<"attachments", r.file>> >>
    BY <2>1 DEF Wanted
  <2> QED
    BY <2>1, <2>2
<1> QED
  BY <1>1, <1>2, <1>3, <1>4 DEF Requests

(* One place more: it counts if it is missing, and not otherwise. *)
LEMMA UpToFacts ==
  ASSUME NEW S, NEW r \in Requests
  PROVE  LET N == Missing(S, r)
         IN  /\ N \subseteq 1 .. Len(Wanted(r))
             /\ UpTo(N, 0) = {} /\ UpTo(N, Len(Wanted(r))) = N
             /\ \A n \in Nat : IsFiniteSet(UpTo(N, n)) /\ Cardinality(UpTo(N, n)) \in Nat
             /\ \A n \in Nat : n + 1 \notin N => UpTo(N, n + 1) = UpTo(N, n)
             /\ \A n \in Nat : n + 1 \in N =>
                  /\ UpTo(N, n + 1) = UpTo(N, n) \cup {n + 1}
                  /\ Cardinality(UpTo(N, n + 1)) = Cardinality(UpTo(N, n)) + 1
<1> DEFINE N == Missing(S, r)
<1>1. N \subseteq 1 .. Len(Wanted(r)) /\ Len(Wanted(r)) \in Nat
  BY WantedFacts DEF Missing
<1>2. \A j \in N : j \in Nat /\ 1 <= j /\ j <= Len(Wanted(r))
  BY <1>1
<1> HIDE DEF N
<1>3. IsFiniteSet(N)
  <2>1. IsFiniteSet(1 .. Len(Wanted(r)))
    BY <1>1, FS_Interval
  <2> QED
    BY <1>1, <2>1, FS_Subset
<1>4. ASSUME NEW n \in Nat
      PROVE  IsFiniteSet(UpTo(N, n)) /\ Cardinality(UpTo(N, n)) \in Nat
  <2>1. UpTo(N, n) \in SUBSET N
    BY DEF UpTo
  <2> QED
    BY <1>3, <2>1, FS_Subset, FS_CardinalityType
<1>5. UpTo(N, 0) = {} /\ UpTo(N, Len(Wanted(r))) = N
  <2>1. \A j \in N : ~(j <= 0)
    BY <1>2
  <2> QED
    BY <1>2, <2>1 DEF UpTo
<1>6. \A n \in Nat : n + 1 \notin N => UpTo(N, n + 1) = UpTo(N, n)
  <2>1. \A n \in Nat, j \in Nat : j # n + 1 => (j <= n + 1 <=> j <= n)
    OBVIOUS
  <2> QED
    BY <1>2, <2>1 DEF UpTo
<1>7. ASSUME NEW n \in Nat, n + 1 \in N
      PROVE  /\ UpTo(N, n + 1) = UpTo(N, n) \cup {n + 1}
             /\ Cardinality(UpTo(N, n + 1)) = Cardinality(UpTo(N, n)) + 1
  <2>1. UpTo(N, n + 1) = UpTo(N, n) \cup {n + 1} /\ n + 1 \notin UpTo(N, n)
    <3>1. \A j \in Nat : j <= n + 1 <=> j <= n \/ j = n + 1
      OBVIOUS
    <3> QED
      BY <1>2, <1>7, <3>1 DEF UpTo
  <2> QED
    BY <1>4, <2>1, FS_AddElement
<1> QED
  BY <1>1, <1>4, <1>5, <1>6, <1>7 DEF N

(* One row more in a set of rows, if it has a number of its own. *)
LEMMA RowAdded ==
  ASSUME NEW S, IsFiniteSet(S), NEW row, NEW t,
         row.table = t => row.number \notin Numbers(S, t)
  PROVE  /\ row.table # t => Table(S \cup {row}, t) = Table(S, t)
         /\ row.table = t =>
              /\ Cardinality(Table(S \cup {row}, t)) = Cardinality(Table(S, t)) + 1
              /\ Numbers(S \cup {row}, t) = Numbers(S, t) \cup {row.number}
<1>1. IsFiniteSet(Table(S, t)) /\ Cardinality(Table(S, t)) \in Nat
  BY FS_Subset, FS_CardinalityType DEF Table
<1>2. row.table # t => Table(S \cup {row}, t) = Table(S, t)
  BY DEF Table
<1>3. ASSUME row.table = t
      PROVE  /\ Cardinality(Table(S \cup {row}, t)) = Cardinality(Table(S, t)) + 1
             /\ Numbers(S \cup {row}, t) = Numbers(S, t) \cup {row.number}
  <2>1. Table(S \cup {row}, t) = Table(S, t) \cup {row}
    BY <1>3 DEF Table
  <2>2. row \notin Table(S, t)
    BY <1>3 DEF Numbers
  <2>3. Numbers(S \cup {row}, t) = Numbers(S, t) \cup {row.number}
    BY <2>1 DEF Numbers
  <2> QED
    BY <1>1, <2>1, <2>2, <2>3, FS_AddElement
<1> QED
  BY <1>2, <1>3

-----------------------------------------------------------------------------
(* What a step leaves to the others *)

(* Nothing of a call changes, and if it holds the row, it goes on holding  *)
(* it, and the tables stay: the call finds what it relied on.              *)
LEMMA Undisturbed ==
  ASSUME NEW d \in Calls, CallInv(d),
         at'[d] = at[d], request'[d] = request[d], done'[d] = done[d], mine'[d] = mine[d],
         at[d] \in Running => lock' = lock /\ db' = db /\ counter' = counter
  PROVE  CallInv(d)'
<1>1. CASE at[d] \in Running
  BY <1>1 DEF CallInv, Progress, Behind, View
<1>2. CASE at[d] \notin Running
  BY <1>2 DEF CallInv, Running
<1> QED
  BY <1>1, <1>2

(* A step of c, as the others see it. *)
Apart(c) ==
  /\ \A d \in Calls \ {c} :
       /\ at'[d] = at[d] /\ request'[d] = request[d] /\ done'[d] = done[d]
       /\ mine'[d] = mine[d] /\ answer'[d] = answer[d]
  /\ lock' = lock \/ (lock \in {None, c} /\ lock' \in {None, c})

(* A step of one call, and the other calls. *)
LEMMA OthersUndisturbed ==
  ASSUME NEW c \in Calls, \A d \in Calls : CallInv(d), Apart(c),
         lock = c \/ (db' = db /\ counter' = counter)
  PROVE  \A d \in Calls \ {c} : CallInv(d)'
<1> SUFFICES ASSUME NEW d \in Calls \ {c}
             PROVE  CallInv(d)'
  OBVIOUS
<1>1. at[d] \in Running => lock = d
  BY DEF CallInv
<1>2. at[d] \in Running => lock' = lock /\ db' = db /\ counter' = counter
  BY <1>1, NoneAssumption DEF Apart
<1> QED
  BY <1>2, Undisturbed DEF Apart

(* A step of c that leaves the tables and the pulls alone. *)
LEMMA Quiet ==
  ASSUME IInv, NEW c \in Calls, Apart(c), UNCHANGED <<db, workspace, pull>>,
         TypeOK', CallInv(c)', at'[c] # "answered"
  PROVE  IInv'
<1>1. TableInv' /\ LookInv' /\ PageIsContiguous'
  BY DEF IInv, TableInv, GapFree, LookInv, PageIsContiguous, workspace
<1>2. AnswerIsTrue'
  BY DEF IInv, AnswerIsTrue, Apart
<1>3. \A d \in Calls \ {c} : CallInv(d)'
  BY OthersUndisturbed DEF IInv, workspace
<1> QED
  BY <1>1, <1>2, <1>3 DEF IInv

-----------------------------------------------------------------------------
(* The first state *)

(* The invariant at the start. *)
LEMMA InitIInv == Init => IInv
<1> SUFFICES ASSUME Init
             PROVE  IInv
  OBVIOUS
<1> USE DEF Init, StoreInit
<1>1. TypeOK
  <2>1. counter \in [{"operations", "audit"} -> Nat]
    OBVIOUS
  <2>2. pull \in [Pulls -> [at : {"idle", "looking", "answered"}, after : Nat, latest : Nat,
                            page : SUBSET db, cursor : Nat, more : BOOLEAN]]
    BY DEF NoPull
  <2>3. IsFiniteSet({})
    BY FS_EmptySet
  <2> QED
    BY <2>1, <2>2, <2>3, NoneAssumption DEF TypeOK, Stages
<1>2. TableInv
  BY FS_EmptySet DEF TableInv, GapFree, Plain, Numbers, Table
<1>3. LookInv /\ PageIsContiguous /\ AnswerIsTrue
  BY DEF LookInv, PageIsContiguous, AnswerIsTrue, NoPull
<1>4. \A c \in Calls : CallInv(c)
  BY DEF CallInv, Running
<1> QED
  BY <1>1, <1>2, <1>3, <1>4 DEF IInv

-----------------------------------------------------------------------------
(* Steps that leave the tables alone *)

(* A transaction begins. *)
LEMMA BeginStep ==
  ASSUME IInv, NEW c \in Calls, NEW r \in Requests, Begin(c, r)
  PROVE  IInv'
<1> USE DEF Begin, Go
<1>1. TypeOK'
  <2>1. \A q \in Requests : Len(Wanted(q)) \in Nat
    BY WantedFacts
  <2>2. done[c] = 0
    BY DEF IInv, CallInv
  <2> QED
    BY <2>1, <2>2 DEF IInv, TypeOK, Stages, workspace
<1>2. Apart(c)
  BY DEF Apart, IInv, TypeOK
<1>3. CallInv(c)' /\ at'[c] # "answered"
  BY DEF CallInv, Running, IInv, TypeOK
<1> QED
  BY <1>1, <1>2, <1>3, Quiet

(* The workspace is created. *)
LEMMA CreateStep ==
  ASSUME IInv, NEW c \in Calls, Create(c)
  PROVE  IInv'
<1> USE DEF Create, Go
<1>1. TypeOK'
  BY DEF IInv, TypeOK, Stages, workspace
<1>2. Apart(c)
  BY DEF Apart, IInv, TypeOK
<1>3. CallInv(c)' /\ at'[c] # "answered"
  BY DEF CallInv, Running, IInv, TypeOK
<1> QED
  BY <1>1, <1>2, <1>3, Quiet

(* The workspace's row is locked. *)
LEMMA LockStep ==
  ASSUME IInv, NEW c \in Calls, Lock(c)
  PROVE  IInv'
<1> USE DEF Lock, Go
<1>1. TypeOK'
  BY DEF IInv, TypeOK, Stages, workspace
<1>2. Apart(c)
  BY DEF Apart, IInv, TypeOK
<1>3. CallInv(c)' /\ at'[c] # "answered"
  BY DEF CallInv, Running, IInv, TypeOK
<1> QED
  BY <1>1, <1>2, <1>3, Quiet

(* The capability is checked. *)
LEMMA AuthorizeStep ==
  ASSUME IInv, NEW c \in Calls, Authorize(c)
  PROVE  IInv'
<1> USE DEF Authorize, Go
<1>1. TypeOK'
  BY DEF IInv, TypeOK, Stages, workspace
<1>2. Apart(c)
  BY DEF Apart, IInv, TypeOK
<1>3. CallInv(c)' /\ at'[c] # "answered"
  <2>1. View(c) = db
    BY DEF View, IInv, CallInv
  <2> QED
    BY <2>1 DEF CallInv, Running, IInv, TypeOK
<1> QED
  BY <1>1, <1>2, <1>3, Quiet

(* Nothing is written yet: no places, no rows. *)
LEMMA PlanStep ==
  ASSUME IInv, NEW c \in Calls, Plan(c)
  PROVE  IInv'
<1> USE DEF Plan, Go
<1>1. TypeOK'
  BY DEF IInv, TypeOK, Stages, workspace
<1>2. Apart(c)
  BY DEF Apart, IInv, TypeOK
<1>3. mine[c] = {} /\ done[c] = 0 /\ View(c) = db /\ request[c] \in Requests /\ lock = c
  BY DEF View, IInv, CallInv, TypeOK, Running
<1>4. Progress(c, 0)
  <2> DEFINE r == request[c]
             N == Missing(db, r)
  <2>1. UpTo(N, 0) = {} /\ Cardinality({}) = 0
    BY <1>3, UpToFacts, FS_EmptySet
  <2>2. mine[c] = Part(db, r, 0, 0)
    BY <1>3, <2>1 DEF Part
  <2>3. \A t : Table(mine[c], t) = {} /\ Numbers(mine[c], t) = {}
    BY <1>3 DEF Table, Numbers
  <2>4. Behind(c)
    <3>1. \A t \in Numbered : counter[t] \in Nat
      BY DEF Numbered, IInv, TypeOK
    <3>2. \A t : Cardinality(Table(mine[c], t)) = 0
      BY <2>1, <2>3
    <3>3. \A n \in Nat : n + 1 .. n + 0 = {}
      OBVIOUS
    <3> QED
      BY <2>3, <3>1, <3>2, <3>3 DEF Behind
  <2>5. Plain(mine[c])
    BY <1>3 DEF Plain
  <2>6. Cardinality(Table(mine[c], "audit")) = 0 /\ Cardinality(Table(mine[c], "operations")) = 0
    BY <2>1, <2>3
  <2>7. \A m \in 1 .. done[c] : FALSE
    BY <1>3
  <2> HIDE DEF N
  <2> QED
    BY <1>3, <2>1, <2>2, <2>4, <2>5, <2>6, <2>7 DEF Progress, N
<1>5. Progress(c, 0)'
  BY <1>4 DEF Progress, Behind, View, workspace
<1>6. CallInv(c)' /\ at'[c] # "answered"
  BY <1>3, <1>5 DEF CallInv, Running, IInv, TypeOK
<1> QED
  BY <1>1, <1>2, <1>6, Quiet

(* A call is over, or is rolled back. *)
LEMMA LeaveStep ==
  ASSUME IInv, NEW c \in Calls, Leave(c), Release(c) \/ lock' = lock,
         UNCHANGED <<db, workspace, pull>>
  PROVE  IInv'
<1> USE DEF Leave, Go
<1>1. TypeOK'
  BY FS_EmptySet, NoneAssumption DEF IInv, TypeOK, Stages, workspace, Release
<1>2. Apart(c)
  BY DEF Apart, IInv, TypeOK, Release
<1>3. CallInv(c)' /\ at'[c] # "answered"
  BY DEF CallInv, Running, IInv, TypeOK
<1> QED
  BY <1>1, <1>2, <1>3, Quiet

-----------------------------------------------------------------------------
(* Inserting a row *)

(* Whether the next row is there is whether Missing has its place. *)
LEMMA NextMissing ==
  ASSUME NEW S, NEW r \in Requests, NEW k \in Nat, k < Len(Wanted(r)),
         \A n \in 1 .. k : Wanted(r)[n][2] \in Keys(S \cup Part(S, r, k, k), Wanted(r)[n][1])
  PROVE  k + 1 \in Missing(S, r)
           <=> Wanted(r)[k + 1][2] \notin Keys(S \cup Part(S, r, k, k), Wanted(r)[k + 1][1])
<1> DEFINE w == Wanted(r)
           M == Part(S, r, k, k)
<1>1. k + 1 \in DOMAIN w
  BY WantedFacts
<1>2. ASSUME w[k + 1][2] \notin Keys(S \cup M, w[k + 1][1])
      PROVE  k + 1 \in Missing(S, r)
  <2>1. w[k + 1][2] \notin Keys(S, w[k + 1][1])
    BY <1>2 DEF Keys, Table
  <2>2. \A j \in 1 .. (k + 1) - 1 : j \in 1 .. k
    OBVIOUS
  <2>3. \A j \in 1 .. (k + 1) - 1 : w[j] # w[k + 1]
    BY <1>2, <2>2
  <2> QED
    BY <1>1, <2>1, <2>3 DEF Missing
<1>3. ASSUME k + 1 \in Missing(S, r)
      PROVE  w[k + 1][2] \notin Keys(S \cup M, w[k + 1][1])
  <2>1. w[k + 1][2] \notin Keys(S, w[k + 1][1])
    BY <1>3 DEF Missing
  <2>2. SUFFICES ASSUME NEW x \in M, x.table = w[k + 1][1], x.key = w[k + 1][2]
                 PROVE  FALSE
    BY <2>1 DEF Keys, Table
  <2>3. PICK n \in UpTo(Missing(S, r), k) : x = Effect(S, r, n) \/ x = Line(S, r, n)
    BY DEF Part
  <2>4. n \in DOMAIN w /\ n \in Nat /\ 1 <= n /\ n <= k
    BY <2>3, UpToFacts, WantedFacts DEF UpTo
  <2>5. x = Effect(S, r, n)
    BY <1>1, <2>2, <2>3, WantedFacts DEF Line, Row
  <2>6. w[n] = w[k + 1]
    BY <1>1, <2>2, <2>4, <2>5, WantedFacts DEF Effect, Row
  <2>7. n \in 1 .. (k + 1) - 1
    BY <2>4
  <2> QED
    BY <1>3, <2>6, <2>7 DEF Missing
<1> QED
  BY <1>2, <1>3

(* A row with the next number of its table. *)
LEMMA RowInserted ==
  ASSUME IInv, NEW c \in Calls, counter' = counter, Behind(c), Plain(mine[c]),
         NEW row, row.number = NextNumber(c, row.table), mine'[c] = mine[c] \cup {row}
  PROVE  /\ IsFiniteSet(mine'[c]) /\ Behind(c)' /\ Plain(mine'[c])
         /\ \A t \in Numbered :
              /\ Cardinality(Table(mine[c], t)) \in Nat
              /\ t = row.table => Cardinality(Table(mine'[c], t)) = Cardinality(Table(mine[c], t)) + 1
              /\ t # row.table => Cardinality(Table(mine'[c], t)) = Cardinality(Table(mine[c], t))
<1> DEFINE number == NextNumber(c, row.table)
           size(t) == Cardinality(Table(mine[c], t))
<1>1. IsFiniteSet(mine[c]) /\ \A t \in Numbered : counter[t] \in Nat
  BY DEF IInv, TypeOK, Numbered
<1>2. \A t \in Numbered : size(t) \in Nat
  BY <1>1, FS_Subset, FS_CardinalityType DEF Table
<1>3. \A t \in Numbered : row.table = t => number = counter[t] + size(t) + 1
  BY DEF NextNumber, Numbered
<1>4. \A t \in Numbered : Numbers(mine[c], t) = counter[t] + 1 .. counter[t] + size(t)
  BY DEF Behind
<1>5. \A t \in Numbered : row.table = t => number \notin Numbers(mine[c], t)
  BY <1>1, <1>2, <1>3, <1>4
<1> HIDE DEF number
<1>6. ASSUME NEW t \in Numbered
      PROVE  /\ t # row.table => Table(mine'[c], t) = Table(mine[c], t)
             /\ t = row.table =>
                  /\ Cardinality(Table(mine'[c], t)) = size(t) + 1
                  /\ Numbers(mine'[c], t) = Numbers(mine[c], t) \cup {number}
  <2>1. IsFiniteSet(mine[c]) /\ (row.table = t => row.number \notin Numbers(mine[c], t))
    BY <1>1, <1>5 DEF number
  <2>2. /\ row.table # t => Table(mine[c] \cup {row}, t) = Table(mine[c], t)
        /\ row.table = t =>
             /\ Cardinality(Table(mine[c] \cup {row}, t)) = size(t) + 1
             /\ Numbers(mine[c] \cup {row}, t) = Numbers(mine[c], t) \cup {row.number}
    BY <2>1, RowAdded
  <2> QED
    BY <2>2 DEF number
<1>7. ASSUME NEW t \in Numbered
      PROVE  Numbers(mine'[c], t) = counter[t] + 1 .. counter[t] + Cardinality(Table(mine'[c], t))
  <2>1. CASE t # row.table
    BY <1>4, <1>6, <2>1 DEF Numbers
  <2>2. CASE t = row.table
    <3>1. \A a \in Nat, b \in Nat : (a + 1 .. a + b) \cup {a + b + 1} = a + 1 .. a + (b + 1)
      OBVIOUS
    <3>2. (counter[t] + 1 .. counter[t] + size(t)) \cup {counter[t] + size(t) + 1}
            = counter[t] + 1 .. counter[t] + (size(t) + 1)
      BY <1>1, <1>2, <3>1
    <3> QED
      BY <1>3, <1>4, <1>6, <2>2, <3>2
  <2> QED
    BY <2>1, <2>2
<1>8. Behind(c)'
  BY <1>7 DEF Behind
<1>9. Plain(mine'[c])
  BY DEF Plain, Row, NextNumber, Numbered
<1>10. IsFiniteSet(mine'[c])
  BY <1>1, FS_AddElement
<1> QED
  BY <1>2, <1>6, <1>8, <1>9, <1>10

(* An operation is inserted. *)
LEMMA WriteStep ==
  ASSUME IInv, NEW c \in Calls, Write(c)
  PROVE  IInv'
<1> DEFINE r == request[c]
           k == done[c]
           w == Wanted(r)[k + 1]
           N == Missing(db, r)
<1>1. /\ r \in Requests /\ k \in Nat /\ k < Len(Wanted(r)) /\ at[c] = "writing" /\ lock = c
      /\ CallInv(c) /\ Progress(c, k)
  BY DEF Write, IInv, TypeOK, CallInv, Running
<1>2. /\ UNCHANGED <<db, workspace, pull, request, answer>> /\ counter' = counter
      /\ Len(Wanted(r)) \in Nat /\ k + 1 \in Nat /\ k + 1 <= Len(Wanted(r))
      /\ k + 1 \in DOMAIN Wanted(r)
  BY <1>1, WantedFacts DEF Write, workspace
<1>3. k + 1 \in N <=> w[2] \notin Keys(View(c), w[1])
  <2>1. View(c) = db \cup Part(db, r, k, k)
    BY <1>1 DEF Progress, View
  <2> QED
    BY <1>1, <2>1, NextMissing DEF Progress
<1>4. Apart(c)
  BY <1>1 DEF Apart, IInv, TypeOK, Write, Insert, Go
<1>5. CASE w[2] \notin Keys(View(c), w[1])
  <2> DEFINE row == Row(w[1], w[2], NextNumber(c, w[1]), By(w[1], r))
  <2>1. /\ mine' = [mine EXCEPT ![c] = @ \cup {row}] /\ lock' = c
        /\ at' = [at EXCEPT ![c] = "logging"] /\ done' = done
    BY <1>5 DEF Write, Insert, Go
  <2>2. mine'[c] = mine[c] \cup {row}
    BY <2>1 DEF IInv, TypeOK
  <2>3. /\ IsFiniteSet(mine'[c]) /\ Behind(c)' /\ Plain(mine'[c])
        /\ \A t \in Numbered :
             /\ Cardinality(Table(mine[c], t)) \in Nat
             /\ t = w[1] => Cardinality(Table(mine'[c], t)) = Cardinality(Table(mine[c], t)) + 1
             /\ t # w[1] => Cardinality(Table(mine'[c], t)) = Cardinality(Table(mine[c], t))
    <3>1. Behind(c) /\ Plain(mine[c]) /\ counter' = counter
      BY <1>1, <1>2 DEF Progress
    <3>2. row.table = w[1] /\ row.number = NextNumber(c, w[1])
      BY DEF Row
    <3> HIDE DEF row
    <3>3. row.number = NextNumber(c, row.table)
      BY <3>2
    <3>4. /\ IsFiniteSet(mine'[c]) /\ Behind(c)' /\ Plain(mine'[c])
          /\ \A t \in Numbered :
               /\ Cardinality(Table(mine[c], t)) \in Nat
               /\ t = row.table =>
                    Cardinality(Table(mine'[c], t)) = Cardinality(Table(mine[c], t)) + 1
               /\ t # row.table => Cardinality(Table(mine'[c], t)) = Cardinality(Table(mine[c], t))
      BY <2>2, <3>1, <3>3, RowInserted
    <3> QED
      BY <3>2, <3>4
  <2>4. k + 1 \in N /\ UpTo(N, k + 1) = UpTo(N, k) \cup {k + 1}
        /\ Cardinality(UpTo(N, k + 1)) = Cardinality(UpTo(N, k)) + 1
        /\ Cardinality(UpTo(N, k)) \in Nat
    <3>1. k \in Nat /\ k + 1 \in N
      BY <1>1, <1>3, <1>5
    <3> HIDE DEF k, N
    <3>2. /\ \A n \in Nat : Cardinality(UpTo(N, n)) \in Nat
          /\ \A n \in Nat : n + 1 \in N =>
               /\ UpTo(N, n + 1) = UpTo(N, n) \cup {n + 1}
               /\ Cardinality(UpTo(N, n + 1)) = Cardinality(UpTo(N, n)) + 1
      BY <1>1, UpToFacts DEF N
    <3> QED
      BY <3>1, <3>2
  <2>5. row = Effect(db, r, k + 1)
    <3>1. w[1] \in Numbered => w[1] = "operations" /\ r.kind = "push"
      BY <1>1, <1>2, WantedFacts DEF Numbered
    <3>2. w[1] = "operations" =>
            NextNumber(c, w[1]) = Number(db, w[1], Cardinality(UpTo(N, k + 1)))
      <4> SUFFICES ASSUME w[1] = "operations"
                   PROVE  NextNumber(c, w[1]) = Number(db, w[1], Cardinality(UpTo(N, k + 1)))
        OBVIOUS
      <4>1. Cardinality(Table(mine[c], "operations")) = Cardinality(UpTo(N, k))
        BY <1>1, <3>1 DEF Progress, Numbered
      <4>2. counter["operations"] \in Nat /\ Cardinality(Table(db, "operations")) = counter["operations"]
        BY DEF IInv, TypeOK, TableInv, GapFree
      <4> QED
        BY <2>4, <4>1, <4>2 DEF NextNumber, Number
    <3>3. w[1] # "operations" =>
            NextNumber(c, w[1]) = Number(db, w[1], Cardinality(UpTo(N, k + 1)))
      BY <3>1 DEF NextNumber, Number, Numbered
    <3> QED
      BY <3>2, <3>3 DEF Effect
  <2>6. mine'[c] = Part(db, r, k + 1, k)
    <3>1. mine[c] = Part(db, r, k, k)
      BY <1>1 DEF Progress
    <3> QED
      BY <2>2, <2>4, <2>5, <3>1 DEF Part
  <2>7. Cardinality(Table(mine'[c], "audit")) = Cardinality(UpTo(N, k))
    BY <1>1, <1>2, <2>3, WantedFacts DEF Progress, Numbered
  <2>8. r.kind = "push" => Cardinality(Table(mine'[c], "operations")) = Cardinality(UpTo(N, k + 1))
    BY <1>1, <1>2, <2>3, <2>4, WantedFacts DEF Progress, Numbered
  <2>9. \A n \in 1 .. k : Wanted(r)[n][2] \in Keys(View(c)', Wanted(r)[n][1])
    BY <1>1, <1>2, <2>2 DEF Progress, View, Keys, Table
  <2>10. Progress(c, k + 1)'
    BY <1>2, <2>1, <2>3, <2>6, <2>7, <2>8, <2>9 DEF Progress
  <2>11. CallInv(c)' /\ at'[c] # "answered"
    BY <1>1, <1>2, <2>1, <2>4, <2>10 DEF CallInv, Running, IInv, TypeOK
  <2>12. TypeOK'
    <3>1. DOMAIN mine' = Calls /\ \A d \in Calls : IsFiniteSet(mine'[d])
      BY <2>1, <2>3 DEF IInv, TypeOK
    <3>2. \A d \in Calls : /\ at'[d] # "idle" => request'[d] \in Requests
                          /\ request'[d] # None => done'[d] <= Len(Wanted(request'[d]))
      BY <1>1, <1>2, <2>1 DEF IInv, TypeOK
    <3> QED
      BY <1>1, <1>2, <2>1, <3>1, <3>2 DEF IInv, TypeOK, Stages, workspace
  <2> QED
    BY <1>2, <1>4, <2>11, <2>12, Quiet
<1>6. CASE w[2] \in Keys(View(c), w[1])
  <2>1. done' = [done EXCEPT ![c] = @ + 1] /\ UNCHANGED <<lock, at, mine>>
    BY <1>6 DEF Write
  <2>2. UpTo(N, k + 1) = UpTo(N, k)
    BY <1>1, <1>3, <1>6, UpToFacts
  <2>3. View(c)' = View(c)
    BY <1>2, <2>1 DEF View
  <2>4. \A n \in 1 .. k + 1 : Wanted(r)[n][2] \in Keys(View(c), Wanted(r)[n][1])
    <3>1. \A n \in 1 .. k + 1 : n \in 1 .. k \/ n = k + 1
      BY <1>1
    <3> QED
      BY <1>1, <1>6, <3>1 DEF Progress
  <2>5. Behind(c)'
    BY <1>1, <1>2, <2>1 DEF Progress, Behind
  <2>6. mine'[c] = Part(db, r, k + 1, k + 1)
    BY <1>1, <2>1, <2>2 DEF Progress, Part
  <2>7. done'[c] = k + 1
    BY <1>1, <2>1 DEF IInv, TypeOK
  <2>8. Progress(c, done[c])'
    <3>1. request'[c] = r /\ db' = db /\ mine'[c] = mine[c]
      BY <1>2, <2>1
    <3> HIDE DEF r
    <3>2. \A n \in 1 .. done'[c] : Wanted(r)[n][2] \in Keys(View(c)', Wanted(r)[n][1])
      BY <2>3, <2>4, <2>7
    <3>3. /\ Cardinality(Table(mine[c], "audit")) = Cardinality(UpTo(N, k + 1))
          /\ r.kind = "push" =>
               Cardinality(Table(mine[c], "operations")) = Cardinality(UpTo(N, k + 1))
          /\ Plain(mine[c])
      BY <1>1, <2>2 DEF Progress, r
    <3> QED
      BY <2>5, <2>6, <2>7, <3>1, <3>2, <3>3 DEF Progress
  <2>9. CallInv(c)' /\ at'[c] # "answered"
    BY <1>1, <1>2, <2>1, <2>7, <2>8 DEF CallInv, Running
  <2>10. TypeOK'
    <3>1. \A d \in Calls : request'[d] # None => done'[d] <= Len(Wanted(request'[d]))
      BY <1>1, <1>2, <2>1 DEF IInv, TypeOK
    <3> QED
      BY <1>1, <1>2, <2>1, <3>1 DEF IInv, TypeOK, Stages, workspace
  <2> QED
    BY <1>2, <1>4, <2>9, <2>10, Quiet
<1> QED
  BY <1>5, <1>6

(* The audit row of an operation is inserted. *)
LEMMA LogAuditStep ==
  ASSUME IInv, NEW c \in Calls, LogAudit(c)
  PROVE  IInv'
<1> DEFINE r == request[c]
           k == done[c]
           w == Wanted(r)[k + 1]
           N == Missing(db, r)
           row == Row("audit", w, NextNumber(c, "audit"), By("audit", r))
<1>1. /\ r \in Requests /\ k \in Nat /\ at[c] = "logging" /\ lock = c
      /\ CallInv(c) /\ k + 1 \in N /\ Progress(c, k + 1)
  BY DEF LogAudit, IInv, TypeOK, CallInv, Running
<1>2. /\ UNCHANGED <<db, workspace, pull, request, answer>> /\ counter' = counter
      /\ Len(Wanted(r)) \in Nat /\ k + 1 \in Nat /\ k + 1 <= Len(Wanted(r))
  BY <1>1, WantedFacts, UpToFacts DEF LogAudit, workspace
<1>3. /\ mine' = [mine EXCEPT ![c] = @ \cup {row}] /\ lock' = c
      /\ at' = [at EXCEPT ![c] = "writing"] /\ done' = [done EXCEPT ![c] = @ + 1]
  BY DEF LogAudit, Insert, Go
<1>4. mine'[c] = mine[c] \cup {row} /\ done'[c] = k + 1
  BY <1>1, <1>3 DEF IInv, TypeOK
<1>5. Apart(c)
  BY <1>1, <1>2, <1>3 DEF Apart, IInv, TypeOK, LogAudit
<1>6. /\ IsFiniteSet(mine'[c]) /\ Behind(c)' /\ Plain(mine'[c])
      /\ \A t \in Numbered :
           /\ Cardinality(Table(mine[c], t)) \in Nat
           /\ t = "audit" => Cardinality(Table(mine'[c], t)) = Cardinality(Table(mine[c], t)) + 1
           /\ t # "audit" => Cardinality(Table(mine'[c], t)) = Cardinality(Table(mine[c], t))
  <2>1. Behind(c) /\ Plain(mine[c]) /\ counter' = counter
    BY <1>1, <1>2 DEF Progress
  <2>2. row.table = "audit" /\ row.number = NextNumber(c, "audit")
    BY DEF Row
  <2>3. mine'[c] = mine[c] \cup {row}
    BY <1>4
  <2> HIDE DEF row
  <2>4. row.number = NextNumber(c, row.table)
    BY <2>2
  <2>5. /\ IsFiniteSet(mine'[c]) /\ Behind(c)' /\ Plain(mine'[c])
        /\ \A t \in Numbered :
             /\ Cardinality(Table(mine[c], t)) \in Nat
             /\ t = row.table => Cardinality(Table(mine'[c], t)) = Cardinality(Table(mine[c], t)) + 1
             /\ t # row.table => Cardinality(Table(mine'[c], t)) = Cardinality(Table(mine[c], t))
    BY <2>1, <2>3, <2>4, RowInserted
  <2> QED
    BY <2>2, <2>5
<1>7. /\ UpTo(N, k + 1) = UpTo(N, k) \cup {k + 1}
      /\ Cardinality(UpTo(N, k + 1)) = Cardinality(UpTo(N, k)) + 1
      /\ Cardinality(UpTo(N, k)) \in Nat
  <2>1. k \in Nat /\ k + 1 \in N
    BY <1>1
  <2> HIDE DEF k, N
  <2>2. /\ \A n \in Nat : Cardinality(UpTo(N, n)) \in Nat
        /\ \A n \in Nat : n + 1 \in N =>
             /\ UpTo(N, n + 1) = UpTo(N, n) \cup {n + 1}
             /\ Cardinality(UpTo(N, n + 1)) = Cardinality(UpTo(N, n)) + 1
    BY <1>1, UpToFacts DEF N
  <2> QED
    BY <2>1, <2>2
<1>8. Cardinality(Table(mine[c], "audit")) = Cardinality(UpTo(N, k))
  BY <1>1 DEF Progress
<1>9. row = Line(db, r, k + 1)
  <2>1. counter["audit"] \in Nat /\ Cardinality(Table(db, "audit")) = counter["audit"]
    BY DEF IInv, TypeOK, TableInv, GapFree
  <2> QED
    BY <1>7, <1>8, <2>1 DEF NextNumber, Number, Line
<1>10. mine'[c] = Part(db, r, k + 1, k + 1)
  <2>1. mine[c] = Part(db, r, k + 1, k)
    BY <1>1 DEF Progress
  <2> QED
    BY <1>4, <1>7, <1>9, <2>1 DEF Part
<1>11. \A n \in 1 .. k + 1 : Wanted(r)[n][2] \in Keys(View(c)', Wanted(r)[n][1])
  <2>1. \A n \in 1 .. k : Wanted(r)[n][2] \in Keys(View(c)', Wanted(r)[n][1])
    BY <1>1, <1>2, <1>4 DEF Progress, View, Keys, Table
  <2>2. Effect(db, r, k + 1) \in View(c)'
    BY <1>2, <1>7, <1>10 DEF Part, View
  <2>3. w[2] \in Keys(View(c)', w[1])
    BY <2>2 DEF Effect, Row, Keys, Table
  <2>4. \A n \in 1 .. k + 1 : n \in 1 .. k \/ n = k + 1
    BY <1>1
  <2> QED
    BY <2>1, <2>3, <2>4
<1>12. Progress(c, done[c])'
  BY <1>1, <1>2, <1>4, <1>6, <1>7, <1>8, <1>10, <1>11 DEF Progress, Numbered
<1>13. CallInv(c)' /\ at'[c] # "answered"
  BY <1>1, <1>2, <1>3, <1>4, <1>12 DEF CallInv, Running, IInv, TypeOK
<1>14. TypeOK'
  BY <1>1, <1>2, <1>3, <1>6 DEF IInv, TypeOK, Stages, workspace, LogAudit
<1> QED
  BY <1>2, <1>5, <1>13, <1>14, Quiet

-----------------------------------------------------------------------------
(* The commit *)

(* What a call that has finished has written is what Store would add, and  *)
(* what it found out of the tables is still so.                            *)
LEMMA FinishedCall ==
  ASSUME IInv, NEW c \in Calls, Finished(c)
  PROVE  /\ request[c] \in Requests /\ lock = c
         /\ Entitled(db, request[c]) /\ Consistent(db, request[c])
         /\ mine[c] = Additions(db, request[c])
         /\ Behind(c) /\ Plain(mine[c])
         /\ \A n \in DOMAIN Wanted(request[c]) :
              Wanted(request[c])[n][2] \in Keys(db \cup mine[c], Wanted(request[c])[n][1])
<1> DEFINE r == request[c]
<1>1. /\ r \in Requests /\ lock = c /\ done[c] = Len(Wanted(r)) /\ Progress(c, done[c])
      /\ Entitled(db, r) /\ Consistent(db, r)
  BY DEF Finished, IInv, TypeOK, CallInv, Running
<1>2. UpTo(Missing(db, r), done[c]) = Missing(db, r)
  BY <1>1, UpToFacts
<1>3. mine[c] = Additions(db, r)
  BY <1>1, <1>2 DEF Progress, Part, Additions
<1>4. \A n \in DOMAIN Wanted(r) : Wanted(r)[n][2] \in Keys(db \cup mine[c], Wanted(r)[n][1])
  BY <1>1, WantedFacts DEF Progress, View
<1> QED
  BY <1>1, <1>3, <1>4 DEF Progress

(* The tables after a commit. *)
LEMMA Published ==
  ASSUME IInv, NEW c \in Calls, Finished(c), Publish(c)
  PROVE  /\ TableInv' /\ IsFiniteSet(db') /\ db \subseteq db'
         /\ counter' \in [{"operations", "audit"} -> Nat]
         /\ counter["operations"] <= counter'["operations"]
         /\ counter'["operations"] = Taken(c)["operations"]
<1>1. /\ Behind(c) /\ Plain(mine[c]) /\ IsFiniteSet(mine[c]) /\ IsFiniteSet(db)
      /\ db' = db \cup mine[c]
  BY FinishedCall DEF IInv, TypeOK, Publish
<1>2. \A t \in Numbered :
        /\ counter[t] \in Nat
        /\ Cardinality(Table(mine[c], t)) \in Nat
        /\ Numbers(db, t) = 1 .. counter[t] /\ Cardinality(Table(db, t)) = counter[t]
  BY <1>1, FS_Subset, FS_CardinalityType DEF IInv, TypeOK, TableInv, GapFree, Numbered, Table
<1>3. DOMAIN counter = Numbered
  BY DEF IInv, TypeOK, Numbered
<1>4. counter' = [t \in Numbered |-> counter[t] + Cardinality(Table(mine[c], t))]
  BY <1>3 DEF Publish, Taken
<1>5. counter' \in [Numbered -> Nat]
  BY <1>2, <1>4
<1>6. ASSUME NEW t \in Numbered
      PROVE  Numbers(db', t) = 1 .. counter'[t] /\ Cardinality(Table(db', t)) = counter'[t]
  <2> DEFINE a == counter[t]
             b == Cardinality(Table(mine[c], t))
  <2>1. a \in Nat /\ b \in Nat /\ counter'[t] = a + b
    BY <1>2, <1>4
  <2>2. Numbers(db, t) = 1 .. a /\ Numbers(mine[c], t) = a + 1 .. a + b
    BY <1>1, <1>2 DEF Behind
  <2> HIDE DEF a, b
  <2>3. (1 .. a) \cap (a + 1 .. a + b) = {} /\ (1 .. a) \cup (a + 1 .. a + b) = 1 .. a + b
    BY <2>1
  <2>4. Table(db', t) = Table(db, t) \cup Table(mine[c], t)
    BY <1>1 DEF Table
  <2>5. Numbers(db', t) = Numbers(db, t) \cup Numbers(mine[c], t)
    BY <2>4 DEF Numbers
  <2>6. Table(db, t) \cap Table(mine[c], t) = {}
    <3> SUFFICES ASSUME NEW x \in Table(db, t), x \in Table(mine[c], t)
                 PROVE  FALSE
      OBVIOUS
    <3>1. x.number \in Numbers(db, t) /\ x.number \in Numbers(mine[c], t)
      BY DEF Numbers
    <3> QED
      BY <3>1, <2>2, <2>3
  <2>7. IsFiniteSet(Table(db, t)) /\ IsFiniteSet(Table(mine[c], t))
    BY <1>1, FS_Subset DEF Table
  <2>8. Cardinality(Table(db', t)) = Cardinality(Table(db, t)) + Cardinality(Table(mine[c], t))
                                      - Cardinality(Table(db, t) \cap Table(mine[c], t))
    BY <2>4, <2>7, FS_Union
  <2>9. Cardinality(Table(db, t)) = a /\ Cardinality(Table(mine[c], t)) = b
    BY <1>2 DEF a, b
  <2>10. Cardinality(Table(db', t)) = a + b
    BY <2>1, <2>6, <2>8, <2>9, FS_EmptySet
  <2> QED
    BY <2>1, <2>2, <2>3, <2>5, <2>10
<1>7. Plain(db')
  BY <1>1 DEF IInv, TableInv, Plain
<1>8. TableInv'
  BY <1>6, <1>7 DEF TableInv, GapFree, Numbered
<1>9. IsFiniteSet(db') /\ db \subseteq db'
  BY <1>1, FS_Union
<1>10. counter["operations"] <= counter'["operations"]
  BY <1>2, <1>4 DEF Numbered
<1>11. counter' = Taken(c)
  BY DEF Publish
<1> QED
  BY <1>5, <1>8, <1>9, <1>10, <1>11 DEF Numbered

(* Pulls lose nothing when rows are committed behind what they have read.  *)
LEMMA PullsKept ==
  ASSUME IInv, UNCHANGED pull, db \subseteq db',
         counter["operations"] <= counter'["operations"],
         counter' \in [{"operations", "audit"} -> Nat]
  PROVE  LookInv' /\ PageIsContiguous'
<1>1. counter["operations"] \in Nat /\ counter'["operations"] \in Nat
  BY DEF IInv, TypeOK
<1>2. \A p \in Pulls : pull[p].after \in Nat /\ pull[p].latest \in Nat /\ pull[p].cursor \in Nat
  BY DEF IInv, TypeOK
<1>3. LookInv'
  BY <1>1, <1>2 DEF IInv, LookInv
<1>4. PageIsContiguous'
  BY <1>1, <1>2 DEF IInv, PageIsContiguous
<1> QED
  BY <1>3, <1>4

(* What was answered stays true when rows come.                            *)
LEMMA AnswersStay ==
  ASSUME AnswerIsTrue, db \subseteq db', NEW d \in Calls, at[d] = "answered",
         request'[d] = request[d], answer'[d] = answer[d]
  PROVE  \A n \in DOMAIN Wanted(request[d]) :
           \E x \in Table(db', Wanted(request[d])[n][1]) :
             x.key = Wanted(request[d])[n][2] /\ x.number <= answer'[d]
<1> DEFINE w == Wanted(request[d])
<1>1. \A n \in DOMAIN w : \E x \in Table(db, w[n][1]) : x.key = w[n][2] /\ x.number <= answer[d]
  BY DEF AnswerIsTrue
<1>2. \A u : Table(db, u) \subseteq Table(db', u)
  BY DEF Table
<1> HIDE DEF w
<1>3. \A n \in DOMAIN w : \E x \in Table(db', w[n][1]) : x.key = w[n][2] /\ x.number <= answer[d]
  BY <1>1, <1>2
<1> QED
  BY <1>3 DEF w

(* A transaction is committed. *)
LEMMA CommitStep ==
  ASSUME IInv, NEW c \in Calls, Commit(c)
  PROVE  IInv'
<1> DEFINE r == request[c]
<1>1. Finished(c) /\ Publish(c)
  BY DEF Commit
<1>2. /\ r \in Requests /\ lock = c
      /\ \A n \in DOMAIN Wanted(r) : Wanted(r)[n][2] \in Keys(db \cup mine[c], Wanted(r)[n][1])
  BY <1>1, FinishedCall
<1>3. /\ TableInv' /\ IsFiniteSet(db') /\ db \subseteq db'
      /\ counter' \in [{"operations", "audit"} -> Nat]
      /\ counter["operations"] <= counter'["operations"]
      /\ counter'["operations"] = Taken(c)["operations"]
  BY <1>1, Published
<1>4. LookInv' /\ PageIsContiguous'
  BY <1>3, PullsKept DEF Commit
<1>5. /\ answer' = [answer EXCEPT ![c] = counter'["operations"]]
      /\ mine' = [mine EXCEPT ![c] = {}] /\ at' = [at EXCEPT ![c] = "answered"]
      /\ UNCHANGED <<request, done, pull>> /\ created' = TRUE /\ lock' = None
      /\ db' = db \cup mine[c]
  BY <1>2, <1>3 DEF Commit, Go, Publish, Release
<1>6. TypeOK'
  <2>1. DOMAIN mine' = Calls /\ \A d \in Calls : IsFiniteSet(mine'[d])
    BY <1>5, FS_EmptySet DEF IInv, TypeOK
  <2>2. \A d \in Calls : at'[d] # "idle" => request'[d] \in Requests
    BY <1>2, <1>5 DEF IInv, TypeOK
  <2>3. pull' \in [Pulls -> [at : {"idle", "looking", "answered"}, after : Nat, latest : Nat,
                             page : SUBSET db', cursor : Nat, more : BOOLEAN]]
    BY <1>3, <1>5 DEF IInv, TypeOK
  <2> QED
    BY <1>3, <1>5, <2>1, <2>2, <2>3 DEF IInv, TypeOK, Stages
<1>7. Apart(c)
  BY <1>2, <1>5 DEF Apart, IInv, TypeOK
<1>8. CallInv(c)' /\ \A d \in Calls \ {c} : CallInv(d)'
  BY <1>2, <1>5, <1>7, OthersUndisturbed DEF CallInv, Running, IInv, TypeOK
<1>9. AnswerIsTrue'
  <2> DEFINE Told(d) == \A n \in DOMAIN Wanted(request[d]) :
               \E x \in Table(db', Wanted(request[d])[n][1]) :
                 x.key = Wanted(request[d])[n][2] /\ x.number <= answer'[d]
  <2>1. Told(c)
    <3> SUFFICES ASSUME NEW n \in DOMAIN Wanted(r)
                 PROVE  \E x \in Table(db', Wanted(r)[n][1]) :
                          x.key = Wanted(r)[n][2] /\ x.number <= answer'[c]
      OBVIOUS
    <3> DEFINE t == Wanted(r)[n][1]
    <3>1. PICK x \in Table(db', t) : x.key = Wanted(r)[n][2]
      BY <1>2, <1>5 DEF Keys
    <3>2. answer'[c] = counter'["operations"] /\ answer'[c] \in Nat
      BY <1>3, <1>5 DEF IInv, TypeOK
    <3>3. t # "audit"
      BY <1>2, WantedFacts
    <3>4. CASE t = "operations"
      <4>1. x.number \in Numbers(db', "operations")
        BY <3>1, <3>4 DEF Numbers
      <4>2. x.number \in 1 .. counter'["operations"]
        BY <1>3, <4>1 DEF TableInv, GapFree
      <4> QED
        BY <3>1, <3>2, <4>2
    <3>5. CASE t # "operations"
      <4>1. x.number = 0
        BY <1>3, <3>1, <3>3, <3>5 DEF TableInv, Plain, Numbered, Table
      <4> QED
        BY <3>1, <3>2, <4>1
    <3> QED
      BY <3>4, <3>5
  <2>2. ASSUME NEW d \in Calls \ {c}, at'[d] = "answered"
        PROVE  Told(d)
    BY <1>3, <1>7, <2>2, AnswersStay DEF IInv, Apart
  <2> QED
    BY <1>5, <2>1, <2>2 DEF AnswerIsTrue
<1> QED
  BY <1>3, <1>4, <1>6, <1>8, <1>9 DEF IInv

(* It is committed, and the caller is not told. *)
LEMMA CommitUnseenStep ==
  ASSUME IInv, NEW c \in Calls, CommitUnseen(c)
  PROVE  IInv'
<1>1. Finished(c) /\ Publish(c) /\ lock = c
  BY FinishedCall DEF CommitUnseen
<1>2. /\ TableInv' /\ IsFiniteSet(db') /\ db \subseteq db'
      /\ counter' \in [{"operations", "audit"} -> Nat]
      /\ counter["operations"] <= counter'["operations"]
  BY <1>1, Published
<1>3. LookInv' /\ PageIsContiguous'
  BY <1>2, PullsKept DEF CommitUnseen
<1>4. /\ at' = [at EXCEPT ![c] = "idle"] /\ request' = [request EXCEPT ![c] = None]
      /\ done' = [done EXCEPT ![c] = 0] /\ mine' = [mine EXCEPT ![c] = {}]
      /\ answer' = [answer EXCEPT ![c] = 0]
      /\ UNCHANGED pull /\ created' = TRUE /\ lock' = None
  BY <1>1 DEF CommitUnseen, Leave, Go, Publish, Release
<1>5. TypeOK'
  <2>1. DOMAIN mine' = Calls /\ \A d \in Calls : IsFiniteSet(mine'[d])
    BY <1>4, FS_EmptySet DEF IInv, TypeOK
  <2>2. \A d \in Calls : /\ at'[d] # "idle" => request'[d] \in Requests
                        /\ request'[d] # None => done'[d] <= Len(Wanted(request'[d]))
    BY <1>4 DEF IInv, TypeOK
  <2>3. pull' \in [Pulls -> [at : {"idle", "looking", "answered"}, after : Nat, latest : Nat,
                             page : SUBSET db', cursor : Nat, more : BOOLEAN]]
    BY <1>2, <1>4 DEF IInv, TypeOK
  <2> QED
    BY <1>2, <1>4, <2>1, <2>2, <2>3 DEF IInv, TypeOK, Stages
<1>6. Apart(c)
  BY <1>1, <1>4 DEF Apart, IInv, TypeOK
<1>7. CallInv(c)' /\ \A d \in Calls \ {c} : CallInv(d)'
  BY <1>1, <1>4, <1>6, OthersUndisturbed DEF CallInv, Running, IInv, TypeOK
<1>8. AnswerIsTrue'
  <2>1. at'[c] = "idle"
    BY <1>4 DEF IInv, TypeOK
  <2>2. ASSUME NEW d \in Calls, at'[d] = "answered"
        PROVE  /\ request'[d] = request[d]
               /\ \A n \in DOMAIN Wanted(request[d]) :
                    \E x \in Table(db', Wanted(request[d])[n][1]) :
                      x.key = Wanted(request[d])[n][2] /\ x.number <= answer'[d]
    <3>1. d \in Calls \ {c}
      BY <2>1, <2>2
    <3> QED
      BY <1>2, <1>6, <2>2, <3>1, AnswersStay DEF IInv, Apart
  <2> QED
    BY <2>2 DEF AnswerIsTrue
<1> QED
  BY <1>2, <1>3, <1>5, <1>7, <1>8 DEF IInv

-----------------------------------------------------------------------------
(* The steps of Pull *)

(* A step of p that leaves calls and tables alone. *)
LEMMA OnePull ==
  ASSUME IInv, NEW p \in Pulls, UNCHANGED <<db, workspace, lock, transaction>>,
         NEW q \in [at : {"idle", "looking", "answered"}, after : Nat, latest : Nat,
                    page : SUBSET db, cursor : Nat, more : BOOLEAN],
         pull' = [pull EXCEPT ![p] = q],
         q.at = "looking" => q.after <= counter["operations"] /\ q.latest <= counter["operations"],
         q.at = "answered" =>
           /\ q.page \subseteq db
           /\ Numbers(q.page, "operations") = q.after + 1 .. q.cursor
           /\ q.cursor <= counter["operations"]
           /\ q.more \/ q.latest <= q.cursor
  PROVE  IInv'
<1> USE DEF workspace, transaction
<1>1. TypeOK'
  BY DEF IInv, TypeOK
<1>2. TableInv' /\ AnswerIsTrue'
  BY DEF IInv, TableInv, GapFree, AnswerIsTrue
<1>3. pull'[p] = q /\ \A o \in Pulls \ {p} : pull'[o] = pull[o]
  BY DEF IInv, TypeOK
<1>4. LookInv'
  BY <1>3 DEF IInv, LookInv
<1>5. PageIsContiguous'
  BY <1>3 DEF IInv, PageIsContiguous
<1>6. \A c \in Calls : CallInv(c)'
  BY Undisturbed DEF IInv
<1> QED
  BY <1>1, <1>2, <1>4, <1>5, <1>6 DEF IInv

(* The first statement of a pull. *)
LEMMA LookStep ==
  ASSUME IInv, NEW p \in Pulls, NEW after \in 0 .. counter["operations"], Look(p, after)
  PROVE  IInv'
<1> DEFINE q == [NoPull EXCEPT !.at = "looking", !.after = after, !.latest = counter["operations"]]
<1>1. counter["operations"] \in Nat /\ after \in Nat /\ after <= counter["operations"]
  BY DEF IInv, TypeOK
<1>2. q \in [at : {"idle", "looking", "answered"}, after : Nat, latest : Nat,
             page : SUBSET db, cursor : Nat, more : BOOLEAN]
  BY <1>1 DEF NoPull
<1>3. q.at = "looking" /\ q.after = after /\ q.latest = counter["operations"]
  BY DEF NoPull
<1>4. pull' = [pull EXCEPT ![p] = q] /\ UNCHANGED <<db, workspace, lock, transaction>>
  BY DEF Look
<1> HIDE DEF q
<1>5. /\ q.at = "looking" => q.after <= counter["operations"] /\ q.latest <= counter["operations"]
      /\ q.at # "answered"
  BY <1>1, <1>3
<1> QED
  BY <1>2, <1>4, <1>5, OnePull

(* A pull of a workspace that is not there. *)
LEMMA FindNothingStep ==
  ASSUME IInv, NEW p \in Pulls, FindNothing(p)
  PROVE  IInv'
<1> DEFINE q == [NoPull EXCEPT !.at = "answered"]
<1>1. q \in [at : {"idle", "looking", "answered"}, after : Nat, latest : Nat,
             page : SUBSET db, cursor : Nat, more : BOOLEAN]
  BY DEF NoPull
<1>2. /\ q.at = "answered" /\ q.page = {} /\ q.after = 0 /\ q.cursor = 0 /\ q.latest = 0
  BY DEF NoPull
<1>3. pull' = [pull EXCEPT ![p] = q] /\ UNCHANGED <<db, workspace, lock, transaction>>
  BY DEF FindNothing
<1> HIDE DEF q
<1>4. Numbers(q.page, "operations") = q.after + 1 .. q.cursor
  BY <1>2 DEF Numbers, Table
<1>5. 0 <= counter["operations"] /\ 0 <= 0
  BY DEF IInv, TypeOK
<1> QED
  BY <1>1, <1>2, <1>3, <1>4, <1>5, OnePull

(* A pull is over. *)
LEMMA CloseStep ==
  ASSUME IInv, NEW p \in Pulls, Close(p)
  PROVE  IInv'
<1>1. NoPull \in [at : {"idle", "looking", "answered"}, after : Nat, latest : Nat,
                  page : SUBSET db, cursor : Nat, more : BOOLEAN]
  BY DEF NoPull
<1>2. NoPull.at = "idle"
  BY DEF NoPull
<1> QED
  BY <1>1, <1>2, OnePull DEF Close

(* The first of the rows behind a cursor are numbered from the cursor on:  *)
(* with a row, those before it are on the page, and they are all there.    *)
LEMMA ReadStep ==
  ASSUME IInv, NEW p \in Pulls, Read(p)
  PROVE  IInv'
<1> DEFINE a    == pull[p].after
           C    == counter["operations"]
           rest == {r \in Table(db, "operations") : r.number > a}
           before(r) == {x \in rest : x.number < r.number}
           page == {r \in rest : Cardinality(before(r)) < PageLimit}
           last == {r \in page : \A x \in page : x.number <= r.number}
<1>1. pull[p].at = "looking" /\ UNCHANGED <<db, workspace, lock, transaction>>
  BY DEF Read
<1>2. PICK n \in IF page = {} THEN {a} ELSE {r.number : r \in last} :
        pull' = [pull EXCEPT ![p].at = "answered", ![p].page = page, ![p].cursor = n,
                                        ![p].more = page # rest]
  BY DEF Read
<1>3. /\ a \in Nat /\ C \in Nat /\ a <= C
      /\ pull[p].latest \in Nat /\ pull[p].latest <= C
  BY <1>1 DEF IInv, TypeOK, LookInv
<1>4. /\ \A r \in rest : r.number \in Nat /\ a < r.number /\ r.number <= C
      /\ \A m \in Nat : a < m /\ m <= C => \E r \in rest : r.number = m
  <2>1. Numbers(db, "operations") = 1 .. C
    BY DEF IInv, TableInv, GapFree
  <2>2. \A r \in rest : r.number \in 1 .. C
    BY <2>1 DEF Numbers
  <2>3. \A r \in rest : r.number \in Nat /\ a < r.number /\ r.number <= C
    BY <1>3, <2>2
  <2>4. ASSUME NEW m \in Nat, a < m, m <= C
        PROVE  \E r \in rest : r.number = m
    <3>1. m \in 1 .. C
      BY <1>3, <2>4
    <3>2. PICK r \in Table(db, "operations") : r.number = m
      BY <2>1, <3>1 DEF Numbers
    <3> QED
      BY <1>3, <2>4, <3>2
  <2> QED
    BY <2>3, <2>4
<1>5. \A x \in rest, r \in page : x.number < r.number => x \in page
  <2> SUFFICES ASSUME NEW x \in rest, NEW r \in page, x.number < r.number
               PROVE  Cardinality(before(x)) < PageLimit
    OBVIOUS
  <2>1. before(x) \subseteq before(r)
    BY <1>4
  <2>2. IsFiniteSet(before(r))
    BY FS_Subset DEF IInv, TypeOK, Table
  <2>3. /\ Cardinality(before(x)) <= Cardinality(before(r))
        /\ Cardinality(before(x)) \in Nat /\ Cardinality(before(r)) \in Nat
    BY <2>1, <2>2, FS_Subset, FS_CardinalityType
  <2> QED
    BY <2>3, PageLimitAssumption
<1> HIDE DEF page, rest
<1>6. page \subseteq rest /\ rest \subseteq Table(db, "operations")
  BY DEF page, rest
<1>7. /\ n \in Nat /\ a <= n /\ n <= C
      /\ \A r \in page : r.number <= n
      /\ page # {} => \E r \in page : r.number = n
  BY <1>2, <1>3, <1>4, <1>6
<1>8. Numbers(page, "operations") = a + 1 .. n
  <2>1. ASSUME NEW r \in page
        PROVE  r.number \in a + 1 .. n
    BY <1>3, <1>4, <1>6, <1>7
  <2>2. ASSUME NEW m \in a + 1 .. n
        PROVE  \E r \in page : r.number = m
    <3>1. m \in Nat /\ a < m /\ m <= n /\ m <= C
      BY <1>3, <1>7
    <3>2. PICK r \in rest : r.number = m
      BY <1>4, <3>1
    <3>3. page # {}
      BY <1>2, <1>3, <3>1
    <3>4. PICK top \in page : top.number = n
      BY <1>7, <3>3
    <3>5. CASE m < n
      BY <1>5, <3>2, <3>4, <3>5
    <3>6. CASE m = n
      BY <3>4, <3>6
    <3> QED
      BY <1>7, <3>1, <3>5, <3>6
  <2>3. Table(page, "operations") = page
    BY <1>6 DEF Table
  <2> QED
    BY <2>1, <2>2, <2>3 DEF Numbers
<1>9. page = rest => pull[p].latest <= n
  <2>1. CASE a < C
    <3>1. page = rest => \E r \in page : r.number = C
      BY <1>3, <1>4, <2>1
    <3> QED
      BY <1>3, <1>7, <3>1
  <2>2. CASE a = C
    BY <1>3, <1>7, <2>2
  <2> QED
    BY <1>3, <2>1, <2>2
<1> DEFINE q == [pull[p] EXCEPT !.at = "answered", !.page = page, !.cursor = n, !.more = page # rest]
<1>10. page \subseteq db
  BY <1>6 DEF Table
<1>11. q \in [at : {"idle", "looking", "answered"}, after : Nat, latest : Nat,
              page : SUBSET db, cursor : Nat, more : BOOLEAN]
  BY <1>7, <1>10 DEF IInv, TypeOK
<1>12. /\ q.at = "answered" /\ q.page = page /\ q.cursor = n /\ q.after = a
       /\ q.latest = pull[p].latest /\ q.more = (page # rest)
  BY DEF IInv, TypeOK
<1>13. pull' = [pull EXCEPT ![p] = q]
  BY <1>2 DEF IInv, TypeOK
<1> HIDE DEF q
<1> QED
  BY <1>1, <1>7, <1>8, <1>9, <1>10, <1>11, <1>12, <1>13, OnePull

-----------------------------------------------------------------------------
(* Every step *)

(* Every step keeps the invariant. *)
LEMMA NextIInv == IInv /\ [Next]_vars => IInv'
<1> SUFFICES ASSUME IInv, [Next]_vars
             PROVE  IInv'
  OBVIOUS
<1>1. ASSUME NEW c \in Calls, NEW r \in Requests, Begin(c, r)
      PROVE  IInv'
  BY <1>1, BeginStep
<1>2. ASSUME NEW c \in Calls, Create(c)
      PROVE  IInv'
  BY <1>2, CreateStep
<1>3. ASSUME NEW c \in Calls, Lock(c)
      PROVE  IInv'
  BY <1>3, LockStep
<1>4. ASSUME NEW c \in Calls, Statement(c)
      PROVE  IInv'
  <2>1. CASE Authorize(c)
    BY <2>1, AuthorizeStep
  <2>2. CASE Plan(c)
    BY <2>2, PlanStep
  <2>3. CASE Write(c)
    BY <2>3, WriteStep
  <2>4. CASE LogAudit(c)
    BY <2>4, LogAuditStep
  <2>5. CASE Commit(c)
    BY <2>5, CommitStep
  <2>6. CASE Answer(c)
    BY <2>6, LeaveStep DEF Answer
  <2>7. CASE Refuse(c)
    BY <2>7, LeaveStep DEF Refuse, Rollback
  <2> QED
    BY <1>4, <2>1, <2>2, <2>3, <2>4, <2>5, <2>6, <2>7 DEF Statement
<1>5. ASSUME NEW c \in Calls, CommitUnseen(c)
      PROVE  IInv'
  BY <1>5, CommitUnseenStep
<1>6. ASSUME NEW c \in Calls, Fail(c)
      PROVE  IInv'
  BY <1>6, LeaveStep DEF Fail, Rollback
<1>7. ASSUME NEW p \in Pulls, NEW after \in 0 .. counter.operations, Look(p, after)
      PROVE  IInv'
  BY <1>7, LookStep
<1>8. ASSUME NEW p \in Pulls, Read(p) \/ FindNothing(p)
      PROVE  IInv'
  BY <1>8, ReadStep, FindNothingStep
<1>9. ASSUME NEW p \in Pulls, Close(p)
      PROVE  IInv'
  BY <1>9, CloseStep
<1>10. ASSUME UNCHANGED vars
       PROVE  IInv'
  <2>1. UNCHANGED <<db, created, counter, lock, at, request, done, mine, answer, pull>>
    BY <1>10 DEF vars, workspace, transaction
  <2>2. TypeOK' /\ TableInv' /\ LookInv' /\ PageIsContiguous' /\ AnswerIsTrue'
    BY <2>1 DEF IInv, TypeOK, TableInv, GapFree, LookInv, PageIsContiguous, AnswerIsTrue
  <2>3. \A c \in Calls : CallInv(c)'
    BY <2>1, Undisturbed DEF IInv
  <2> QED
    BY <2>2, <2>3 DEF IInv
<1> QED
  BY <1>1, <1>2, <1>3, <1>4, <1>5, <1>6, <1>7, <1>8, <1>9, <1>10 DEF Next

(* The invariant that the theorems below rest on holds of every state. *)
THEOREM Invariance == Spec => []IInv
<1> QED
  BY InitIInv, NextIInv, PTL DEF Spec

(* The workspace's columns count the rows and no number is left out,       *)
(* whatever transactions were rolled back (postgres.go:182).               *)
THEOREM NoGaps == Spec => []GapFree
<1>1. IInv => GapFree
  BY DEF IInv, TableInv
<1> QED
  BY <1>1, Invariance, PTL

(* Every page of a Pull is the next piece of the log, although its two     *)
(* statements see two states (postgres.go:202).                            *)
THEOREM PagesAreContiguous == Spec => []PageIsContiguous
<1>1. IInv => PageIsContiguous
  BY DEF IInv
<1> QED
  BY <1>1, Invariance, PTL

(* Every variable keeps its type, and whatever statements fail no call is  *)
(* further in its batch than the batch is long (postgres.go:178).          *)
THEOREM TypeCorrect == Spec => []TypeOK
<1>1. IInv => TypeOK
  BY DEF IInv
<1> QED
  BY <1>1, Invariance, PTL

(* An answer of success is about rows that are committed and behind its    *)
(* cursor (postgres.go:65).                                                *)
THEOREM AnswersAreTrue == Spec => []AnswerIsTrue
<1>1. IInv => AnswerIsTrue
  BY DEF IInv
<1> QED
  BY <1>1, Invariance, PTL

(* A transaction that commits is the method of Store that it implements;   *)
(* no other statement is seen from outside.                                *)
LEMMA StepRefines == IInv /\ [Next]_vars => [StoreNext]_db
<1> SUFFICES ASSUME IInv, [Next]_vars
             PROVE  StoreNext \/ db' = db
  BY DEF StoreNext
<1>1. ASSUME NEW c \in Calls, Finished(c), Publish(c)
      PROVE  StoreNext
  BY <1>1, FinishedCall DEF Publish, Handle, StoreNext
<1>2. ASSUME NEW c \in Calls,
             \/ \E r \in Requests : Begin(c, r)
             \/ Create(c) \/ Lock(c) \/ Statement(c) \/ CommitUnseen(c) \/ Fail(c)
      PROVE  StoreNext \/ db' = db
  BY <1>1, <1>2 DEF Begin, Create, Lock, Statement, Authorize, Plan, Write, LogAudit, Commit,
                    CommitUnseen, Answer, Refuse, Fail, Rollback
<1>3. ASSUME NEW p \in Pulls,
             \/ \E after \in 0 .. counter.operations : Look(p, after)
             \/ FindNothing(p) \/ Read(p) \/ Close(p)
      PROVE  db' = db
  BY <1>3 DEF Look, FindNothing, Read, Close
<1>4. UNCHANGED vars => db' = db
  BY DEF vars
<1> QED
  BY <1>2, <1>3, <1>4 DEF Next

(* Whatever statements of other calls run between its own, a writing       *)
(* method of the adapter adds all its rows at once or none, and what it    *)
(* checked of devices, parents and identifiers holds when it does          *)
(* (postgres.go:50).                                                       *)
THEOREM Refinement == Spec => Implements
<1>1. Init => StoreInit
  BY DEF Init
<1> QED
  BY <1>1, Invariance, StepRefines, PTL DEF Spec, Implements, StoreSpec
=============================================================================
