-------------------------- MODULE AttachmentsProofs --------------------------
(* For any number of stores, windows, panels and files: what a store has   *)
(* marked is on the server, and a fetch that is done is complete.          *)
EXTENDS Attachments, FiniteSetTheorems, SequenceTheorems, TLAPS

(* The answer that a window has received is about the file that it marks:  *)
(* while it waits, the order of the rows does not change.                  *)
AnsweredIsStored ==
  \A w \in Windows : at[w] = "answered" => \A f \in queue[w] : Current(w, f) => f \in stored

(* What a panel has not looked at yet is all that can be missing.          *)
FetchInv ==
  \A p \in Panels :
    LET run == panel[p]
    IN  /\ run.at \in {"checking", "downloading", "done"} =>
             run.listed \subseteq Holds(StoreOf[p]) \cup ToSet(run.left)
        /\ run.at = "downloading" => run.left # <<>>
        /\ run.at = "done" => run.left = <<>>

(* The inductive invariant. *)
IInv ==
  /\ TypeOK /\ IsFiniteSet(stored)
  /\ UploadedIsStored /\ AnsweredIsStored /\ FetchInv

-----------------------------------------------------------------------------
(* Sequences and what they hold *)

(* One more item in a sequence. *)
LEMMA AppendHolds ==
  ASSUME NEW S, NEW q \in Seq(S), NEW x \in S
  PROVE  /\ ToSet(Append(q, x)) = ToSet(q) \cup {x}
         /\ IsInjective(q) /\ x \notin ToSet(q) => IsInjective(Append(q, x))
<1> DEFINE r == Append(q, x)
<1>1. /\ Len(q) \in Nat /\ DOMAIN q = 1 .. Len(q) /\ DOMAIN r = 1 .. Len(q) + 1
      /\ r[Len(q) + 1] = x /\ \A i \in 1 .. Len(q) : r[i] = q[i]
      /\ \A i \in 1 .. Len(q) + 1 : i \in 1 .. Len(q) \/ i = Len(q) + 1
      /\ Len(q) + 1 \in 1 .. Len(q) + 1 /\ \A i \in 1 .. Len(q) : i \in 1 .. Len(q) + 1
  OBVIOUS
<1> HIDE DEF r
<1>2. ToSet(r) = ToSet(q) \cup {x}
  BY <1>1 DEF ToSet
<1>3. IsInjective(q) /\ x \notin ToSet(q) => IsInjective(r)
  BY <1>1 DEF ToSet, IsInjective
<1> QED
  BY <1>2, <1>3 DEF r

(* A sequence without its first item. *)
LEMMA TailHolds ==
  ASSUME NEW S, NEW q \in Seq(S), q # <<>>
  PROVE  Head(q) \in S /\ Tail(q) \in Seq(S) /\ ToSet(q) = {Head(q)} \cup ToSet(Tail(q))
<1> DEFINE r == Tail(q)
<1>1. /\ Head(q) \in S /\ r \in Seq(S)
      /\ Len(q) \in Nat /\ DOMAIN q = 1 .. Len(q) /\ DOMAIN r = 1 .. Len(q) - 1
      /\ 1 \in 1 .. Len(q) /\ Head(q) = q[1]
      /\ \A i \in 1 .. Len(q) - 1 : i + 1 \in 1 .. Len(q) /\ r[i] = q[i + 1]
      /\ \A i \in 1 .. Len(q) : i = 1 \/ (i - 1 \in 1 .. Len(q) - 1 /\ (i - 1) + 1 = i)
  OBVIOUS
<1> HIDE DEF r
<1>2. ToSet(r) \subseteq ToSet(q) /\ Head(q) \in ToSet(q)
  <2>1. Head(q) \in ToSet(q)
    BY <1>1 DEF ToSet
  <2>2. ASSUME NEW i \in 1 .. Len(q) - 1 PROVE r[i] \in ToSet(q)
    BY <1>1 DEF ToSet
  <2>3. ToSet(r) = {r[i] : i \in 1 .. Len(q) - 1}
    BY <1>1 DEF ToSet
  <2> QED
    BY <2>1, <2>2, <2>3
<1>3. ASSUME NEW i \in 1 .. Len(q), i # 1 PROVE q[i] \in ToSet(r)
  <2>1. i - 1 \in DOMAIN r /\ r[i - 1] = q[i]
    BY <1>1, <1>3
  <2> QED
    BY <2>1 DEF ToSet
<1>4. ToSet(q) \subseteq {Head(q)} \cup ToSet(r)
  BY <1>1, <1>3 DEF ToSet
<1> QED
  BY <1>1, <1>2, <1>4 DEF r

(* The beginning of a sequence without repetitions. *)
LEMMA PrefixHolds ==
  ASSUME NEW S, NEW q \in Seq(S), IsInjective(q), NEW r \in Prefixes(q)
  PROVE  r \in Seq(S) /\ IsInjective(r)
<1>1. PICK l \in 0 .. Len(q) : r = SubSeq(q, 1, l)
  BY DEF Prefixes
<1>2. /\ Len(q) \in Nat /\ DOMAIN q = 1 .. Len(q) /\ l \in Nat /\ l <= Len(q)
      /\ r \in Seq(S) /\ Len(r) = l /\ DOMAIN r = 1 .. l
      /\ \A i \in 1 .. l : i \in 1 .. Len(q) /\ r[i] = q[i]
  BY <1>1
<1> QED
  BY <1>2 DEF IsInjective

-----------------------------------------------------------------------------
(* Rows are added at the end, or all at once to an empty store.            *)
RowsGrow ==
  /\ rows' \in [Stores -> Seq(Files)]
  /\ \A s \in Stores :
       /\ IsInjective(rows'[s]) /\ Len(rows[s]) <= Len(rows'[s])
       /\ \A n \in 1 .. Len(rows[s]) : rows'[s][n] = rows[s][n]

(* Rows that stay as they are have grown. *)
LEMMA SameRowsGrow == TypeOK /\ UNCHANGED rows => RowsGrow
  BY DEF TypeOK, RowsGrow

(* What a message or a check knew of the rows stays true when they grow. *)
LEMMA GrownRows ==
  ASSUME TypeOK, RowsGrow
  PROVE  /\ \A s \in Stores : Holds(s) \subseteq Holds(s)'
         /\ \A w \in Windows, f \in Files : queue'[w] = queue[w] => (Current(w, f)' => Current(w, f))
<1>1. ASSUME NEW s \in Stores
      PROVE  /\ rows[s] \in Seq(Files) /\ rows'[s] \in Seq(Files)
             /\ DOMAIN rows[s] = 1 .. Len(rows[s]) /\ DOMAIN rows'[s] = 1 .. Len(rows'[s])
             /\ Len(rows[s]) \in Nat /\ Len(rows'[s]) \in Nat
             /\ \A n \in 1 .. Len(rows[s]) : n \in 1 .. Len(rows'[s])
  BY <1>1 DEF TypeOK, RowsGrow
<1>2. ASSUME NEW s \in Stores
      PROVE  Holds(s) \subseteq Holds(s)'
  BY <1>1 DEF Holds, ToSet, RowsGrow
<1>3. ASSUME NEW w \in Windows, NEW f \in Files, queue'[w] = queue[w], Current(w, f)'
      PROVE  Current(w, f)
  <2> DEFINE s == StoreOf[w]
  <2>1. s \in Stores
    BY StoreOfAssumption
  <2>2. f \in queue[w]
    BY <1>3 DEF Current
  <2>3. PICK n \in DOMAIN rows'[s] :
          rows'[s][n] = f /\ \A j \in 1 .. n - 1 : rows'[s][j] \notin queue[w]
    BY <1>3 DEF Current
  <2>4. f \in Holds(s)
    BY <2>2 DEF TypeOK
  <2>5. PICK k \in 1 .. Len(rows[s]) : rows[s][k] = f
    BY <1>1, <2>1, <2>4 DEF Holds, ToSet
  <2>6. k = n
    BY <1>1, <2>1, <2>3, <2>5 DEF RowsGrow, IsInjective
  <2>7. \A j \in 1 .. n - 1 : rows[s][j] \notin queue[w]
    <3>1. \A j \in 1 .. n - 1 : j \in 1 .. Len(rows[s])
      BY <1>1, <2>1, <2>5, <2>6
    <3> QED
      BY <2>1, <2>3, <3>1 DEF RowsGrow
  <2> QED
    BY <1>1, <2>1, <2>2, <2>5, <2>6, <2>7 DEF Current
<1> QED
  BY <1>2, <1>3

(* A window is busy with one file. *)
LEMMA CurrentIsUnique ==
  ASSUME TypeOK, NEW w \in Windows, NEW f \in Files, NEW g \in Files, Current(w, f), Current(w, g)
  PROVE  f = g
<1> DEFINE q == rows[StoreOf[w]]
<1>1. q \in Seq(Files) /\ DOMAIN q = 1 .. Len(q) /\ Len(q) \in Nat
  BY StoreOfAssumption DEF TypeOK
<1>2. f \in queue[w] /\ g \in queue[w]
  BY DEF Current
<1>3. PICK n \in 1 .. Len(q) : q[n] = f /\ \A j \in 1 .. n - 1 : q[j] \notin queue[w]
  BY <1>1 DEF Current
<1>4. PICK k \in 1 .. Len(q) : q[k] = g /\ \A j \in 1 .. k - 1 : q[j] \notin queue[w]
  BY <1>1 DEF Current
<1>5. ~(n < k) /\ ~(k < n)
  <2>1. n < k => n \in 1 .. k - 1
    BY <1>1
  <2>2. k < n => k \in 1 .. n - 1
    BY <1>1
  <2> QED
    BY <1>2, <1>3, <1>4, <2>1, <2>2
<1>6. n = k
  BY <1>1, <1>5
<1> QED
  BY <1>3, <1>4, <1>6

-----------------------------------------------------------------------------
(* The invariant at the start. *)
LEMMA InitIInv == Init => IInv
<1> SUFFICES ASSUME Init PROVE IInv
  OBVIOUS
<1>1. \A s \in Stores : rows[s] = <<>> /\ uploaded[s] = {}
  BY DEF Init
<1>2. TypeOK
  <2>1. <<>> \in Seq(Files) /\ IsInjective(<<>>) /\ ToSet(<<>>) = {}
    BY DEF IsInjective, ToSet
  <2>2. Closed \in [at     : {"idle", "checking", "downloading", "done", "failed"},
                    listed : SUBSET Files, left : Seq(Files)]
    BY DEF Closed
  <2>3. \A p \in Panels : ToSet(panel[p].left) \subseteq panel[p].listed /\ panel[p].listed \subseteq stored
    BY <2>1 DEF Init, Closed
  <2>4. interruptions \in 0 .. MaxInterruptions
    BY LimitAssumption DEF Init
  <2> QED
    BY <1>1, <2>1, <2>2, <2>3, <2>4 DEF TypeOK, Init
<1>3. IsFiniteSet(stored) /\ UploadedIsStored /\ AnsweredIsStored
  BY <1>1, FS_EmptySet DEF Init, UploadedIsStored, AnsweredIsStored
<1>4. FetchInv
  BY DEF Init, Closed, FetchInv
<1> QED
  BY <1>2, <1>3, <1>4 DEF IInv

-----------------------------------------------------------------------------
(* Files come into a store *)

(* Rows are added; what is marked, read and on the server is untouched.    *)
LEMMA RowsStep ==
  ASSUME IInv, RowsGrow, UNCHANGED <<uploaded, stored, at, queue, stray, panel, interruptions>>
  PROVE  IInv'
<1>1. TypeOK /\ \A s \in Stores : Holds(s) \subseteq Holds(s)'
  BY GrownRows DEF IInv
<1>2. TypeOK'
  <2>1. \A s \in Stores : uploaded'[s] \subseteq Holds(s)'
    BY <1>1 DEF TypeOK
  <2>2. \A w \in Windows : queue'[w] \subseteq Holds(StoreOf[w])'
    BY <1>1, StoreOfAssumption DEF TypeOK
  <2> QED
    BY <1>1, <2>1, <2>2 DEF TypeOK, RowsGrow
<1>3. IsFiniteSet(stored') /\ UploadedIsStored'
  BY DEF IInv, UploadedIsStored
<1>4. AnsweredIsStored'
  <2>1. \A w \in Windows : \A f \in queue[w] : Current(w, f)' => Current(w, f)
    BY <1>1, GrownRows DEF TypeOK
  <2> QED
    BY <2>1 DEF IInv, AnsweredIsStored
<1>5. FetchInv'
  BY <1>1, StoreOfAssumption DEF IInv, FetchInv
<1> QED
  BY <1>2, <1>3, <1>4, <1>5 DEF IInv

(* A file is added. *)
LEMMA AddStep ==
  ASSUME IInv, NEW s \in Stores, NEW f \in Files, Add(s, f)
  PROVE  IInv'
<1>1. /\ TypeOK /\ rows[s] \in Seq(Files) /\ IsInjective(rows[s]) /\ f \notin ToSet(rows[s])
      /\ rows' = [rows EXCEPT ![s] = Append(rows[s], f)]
      /\ UNCHANGED <<uploaded, stored, at, queue, stray, panel, interruptions>>
  BY DEF Add, IInv, TypeOK, Used, Holds
<1>2. /\ Append(rows[s], f) \in Seq(Files) /\ IsInjective(Append(rows[s], f))
      /\ Len(rows[s]) <= Len(Append(rows[s], f))
      /\ \A n \in 1 .. Len(rows[s]) : Append(rows[s], f)[n] = rows[s][n]
  BY <1>1, AppendHolds
<1>3. \A x \in Stores : Len(rows[x]) \in Nat
  BY <1>1 DEF TypeOK
<1>4. RowsGrow
  BY <1>1, <1>2, <1>3 DEF TypeOK, RowsGrow
<1> QED
  BY <1>1, <1>4, RowsStep

(* A workspace is read from a bundle of another one. *)
LEMMA RestoreStep ==
  ASSUME IInv, NEW s \in Stores, NEW other \in Stores, NEW b \in Prefixes(rows[other]),
         Restore(s, b)
  PROVE  IInv'
<1>1. /\ TypeOK /\ rows[s] = <<>> /\ rows' = [rows EXCEPT ![s] = b]
      /\ UNCHANGED <<uploaded, stored, at, queue, stray, panel, interruptions>>
  BY DEF Restore, IInv
<1>2. b \in Seq(Files) /\ IsInjective(b)
  BY <1>1, PrefixHolds DEF TypeOK
<1>3. \A x \in Stores : Len(rows[x]) \in Nat
  BY <1>1 DEF TypeOK
<1>4. Len(b) \in Nat /\ Len(rows[s]) = 0 /\ 1 .. Len(rows[s]) = {}
  BY <1>1, <1>2
<1>5. RowsGrow
  BY <1>1, <1>2, <1>3, <1>4 DEF TypeOK, RowsGrow
<1> QED
  BY <1>1, <1>5, RowsStep

-----------------------------------------------------------------------------
(* Uploads *)

(* A window moves; the server may get files, and what becomes marked is    *)
(* there.                                                                  *)
LEMMA WindowStep ==
  ASSUME IInv, NEW w \in Windows, UNCHANGED <<rows, panel>>,
         NEW a \in {"idle", "sending", "answered"}, at' = [at EXCEPT ![w] = a],
         NEW Q \in SUBSET Holds(StoreOf[w]), queue' = [queue EXCEPT ![w] = Q],
         a = "idle" <=> Q = {},
         uploaded' \in [Stores -> SUBSET Files],
         \A s \in Stores : uploaded'[s] \subseteq Holds(s) /\ uploaded'[s] \subseteq stored',
         stored \subseteq stored', stored' \subseteq Files, IsFiniteSet(stored'),
         stray' \subseteq Files, interruptions' \in 0 .. MaxInterruptions,
         a = "answered" => \A f \in Q : Current(w, f)' => f \in stored'
  PROVE  IInv'
<1>1. TypeOK /\ RowsGrow /\ StoreOf[w] \in Stores
  BY SameRowsGrow, StoreOfAssumption DEF IInv
<1>2. \A s \in Stores : Holds(s)' = Holds(s)
  BY DEF Holds
<1>3. Holds(StoreOf[w]) \subseteq Files
  BY <1>1 DEF TypeOK, Holds, ToSet
<1>4. TypeOK'
  <2>1. \A v \in Windows : /\ at'[v] = "idle" <=> queue'[v] = {}
                           /\ queue'[v] \subseteq Holds(StoreOf[v])'
    BY <1>1, <1>2, StoreOfAssumption DEF TypeOK
  <2>2. queue' \in [Windows -> SUBSET Files] /\ at' \in [Windows -> {"idle", "sending", "answered"}]
    BY <1>1, <1>3 DEF TypeOK
  <2>3. \A p \in Panels : ToSet(panel'[p].left) \subseteq panel'[p].listed /\ panel'[p].listed \subseteq stored'
    BY <1>1 DEF TypeOK
  <2> QED
    BY <1>1, <1>2, <2>1, <2>2, <2>3 DEF TypeOK
<1>5. UploadedIsStored'
  BY DEF UploadedIsStored
<1>6. AnsweredIsStored'
  <2> SUFFICES ASSUME NEW v \in Windows, at'[v] = "answered", NEW f \in queue'[v], Current(v, f)'
               PROVE  f \in stored'
    BY DEF AnsweredIsStored
  <2>1. CASE v = w
    BY <1>1, <2>1 DEF TypeOK
  <2>2. CASE v # w
    <3>1. queue'[v] = queue[v] /\ at[v] = "answered" /\ f \in Files
      BY <1>1, <2>2 DEF TypeOK
    <3>2. Current(v, f)
      BY <1>1, <3>1, GrownRows
    <3> QED
      BY <3>1, <3>2 DEF IInv, AnsweredIsStored
  <2> QED
    BY <2>1, <2>2
<1>7. FetchInv'
  BY <1>2, StoreOfAssumption DEF IInv, FetchInv
<1> QED
  BY <1>4, <1>5, <1>6, <1>7 DEF IInv

(* The steps of an upload. *)
LEMMA UploadSteps ==
  ASSUME IInv, NEW w \in Windows,
         UploadStep(w) \/ \E f \in queue[w] : GiveUp(w, f)
  PROVE  IInv'
<1> DEFINE s == StoreOf[w]
<1>1. /\ TypeOK /\ s \in Stores /\ IsFiniteSet(stored)
      /\ queue[w] \subseteq Holds(s) /\ queue[w] \subseteq Files /\ {} \subseteq Holds(s)
      /\ Holds(s) \subseteq Files
      /\ uploaded \in [Stores -> SUBSET Files]
      /\ \A x \in Stores : uploaded[x] \subseteq Holds(x) /\ uploaded[x] \subseteq stored
      /\ stored \subseteq Files /\ stray \subseteq Files /\ interruptions \in 0 .. MaxInterruptions
  BY StoreOfAssumption DEF IInv, TypeOK, UploadedIsStored, Holds, ToSet
<1>2. CASE Start(w)
  <2>1. /\ queue' = [queue EXCEPT ![w] = Pending(s)] /\ at' = [at EXCEPT ![w] = "sending"]
        /\ Pending(s) # {}
        /\ UNCHANGED <<rows, uploaded, stored, stray, panel, interruptions>>
    BY <1>2 DEF Start
  <2>2. Pending(s) \subseteq Holds(s)
    BY DEF Pending, Waiting, Holds, ToSet
  <2> QED
    BY <1>1, <2>1, <2>2, WindowStep
<1>3. ASSUME NEW f \in queue[w], Upload(w, f)
      PROVE  IInv'
  <2>1. /\ at[w] = "sending" /\ Current(w, f) /\ stored' = stored \cup {f} /\ f \in Files
        /\ at' = [at EXCEPT ![w] = "answered"]
        /\ UNCHANGED <<rows, uploaded, queue, stray, panel, interruptions>>
    BY <1>1, <1>3 DEF Upload
  <2>2. IsFiniteSet(stored')
    BY <1>1, <2>1, FS_AddElement
  <2>3. queue[w] # {} /\ queue' = [queue EXCEPT ![w] = queue[w]]
    BY <1>1, <2>1 DEF TypeOK
  <2>4. \A g \in queue[w] : Current(w, g)' => g \in stored'
    <3> SUFFICES ASSUME NEW g \in queue[w], Current(w, g)' PROVE g = f
      BY <2>1
    <3>1. Current(w, g) /\ g \in Files
      BY <1>1, <2>1, SameRowsGrow, GrownRows
    <3> QED
      BY <1>1, <2>1, <3>1, CurrentIsUnique
  <2>5. stored \subseteq stored' /\ stored' \subseteq Files
    BY <1>1, <2>1
  <2> QED
    BY <1>1, <2>1, <2>2, <2>3, <2>4, <2>5, WindowStep
<1>4. ASSUME Stop(w), UNCHANGED <<rows, uploaded, stored, panel>>, stray' \subseteq Files,
             interruptions' \in 0 .. MaxInterruptions
      PROVE  IInv'
  BY <1>1, <1>4, WindowStep DEF Stop
<1>5. ASSUME NEW f \in queue[w], Refuse(w, f)
      PROVE  IInv'
  BY <1>1, <1>4, <1>5 DEF Refuse
<1>6. ASSUME NEW f \in queue[w], GiveUp(w, f)
      PROVE  IInv'
  <2>1. interruptions' \in 0 .. MaxInterruptions
    BY <1>1, <1>6, LimitAssumption DEF GiveUp, Interrupt
  <2> QED
    BY <1>1, <1>4, <1>6, <2>1 DEF GiveUp
<1>7. ASSUME NEW f \in queue[w], Mark(w, f)
      PROVE  IInv'
  <2> DEFINE a == IF queue[w] = {f} THEN "idle" ELSE "sending"
  <2>1. /\ at[w] = "answered" /\ Current(w, f)
        /\ uploaded' = [uploaded EXCEPT ![s] = uploaded[s] \cup {f}]
        /\ queue' = [queue EXCEPT ![w] = queue[w] \ {f}]
        /\ at' = [at EXCEPT ![w] = a]
        /\ UNCHANGED <<rows, stored, stray, panel, interruptions>>
    BY <1>7 DEF Mark
  <2>2. f \in stored /\ f \in Holds(s) /\ f \in Files
    BY <1>1, <1>7, <2>1 DEF IInv, AnsweredIsStored
  <2>3. uploaded' \in [Stores -> SUBSET Files]
    BY <1>1, <2>1, <2>2
  <2>4. \A x \in Stores : uploaded'[x] \subseteq Holds(x) /\ uploaded'[x] \subseteq stored'
    BY <1>1, <2>1, <2>2
  <2>5. a \in {"idle", "sending", "answered"} /\ (a = "idle" <=> queue[w] \ {f} = {}) /\ a # "answered"
    BY <1>7
  <2>6. queue[w] \ {f} \in SUBSET Holds(s)
    BY <1>1
  <2> QED
    BY <1>1, <2>1, <2>3, <2>4, <2>5, <2>6, WindowStep
<1> QED
  BY <1>2, <1>3, <1>5, <1>6, <1>7 DEF UploadStep

(* An upload arrives whose window has given up. *)
LEMMA StrayStep ==
  ASSUME IInv, NEW f \in Files, UploadStray(f)
  PROVE  IInv'
<1>1. /\ TypeOK /\ stray' = stray \ {f} /\ stored' = stored \cup ({f} \ Refused)
      /\ UNCHANGED <<rows, uploaded, at, queue, panel, interruptions>>
  BY DEF UploadStray, IInv
<1>2. IsFiniteSet(stored')
  <2>1. stored' = stored \/ stored' = stored \cup {f}
    BY <1>1
  <2> QED
    BY <2>1, FS_AddElement DEF IInv
<1>3. stored \subseteq stored' /\ stored' \subseteq Files
  BY <1>1 DEF TypeOK
<1>4. \A s \in Stores : Holds(s)' = Holds(s)
  BY <1>1 DEF Holds
<1>5. TypeOK'
  BY <1>1, <1>3, <1>4, StoreOfAssumption DEF TypeOK
<1>6. UploadedIsStored'
  BY <1>1, <1>3 DEF IInv, UploadedIsStored
<1>7. AnsweredIsStored'
  <2>1. \A w \in Windows : \A g \in queue[w] : Current(w, g)' => Current(w, g)
    BY <1>1, SameRowsGrow, GrownRows DEF TypeOK
  <2> QED
    BY <1>1, <1>3, <2>1 DEF IInv, AnsweredIsStored
<1>8. FetchInv'
  BY <1>1, <1>4, StoreOfAssumption DEF IInv, FetchInv
<1> QED
  BY <1>2, <1>5, <1>6, <1>7, <1>8 DEF IInv

-----------------------------------------------------------------------------
(* Fetches *)

Runs == [at     : {"idle", "checking", "downloading", "done", "failed"},
         listed : SUBSET Files, left : Seq(Files)]

(* A panel moves to run; its store may get a row of its own.               *)
LEMMA PanelStep ==
  ASSUME IInv, NEW p \in Panels, RowsGrow, UNCHANGED <<stored, at, queue, stray>>,
         NEW run \in Runs, panel' = [panel EXCEPT ![p] = run],
         ToSet(run.left) \subseteq run.listed, run.listed \subseteq stored,
         run.at \in {"checking", "downloading", "done"} =>
           run.listed \subseteq Holds(StoreOf[p])' \cup ToSet(run.left),
         run.at = "downloading" => run.left # <<>>, run.at = "done" => run.left = <<>>,
         uploaded' \in [Stores -> SUBSET Files],
         \A s \in Stores : uploaded'[s] \subseteq Holds(s)' /\ uploaded'[s] \subseteq stored,
         interruptions' \in 0 .. MaxInterruptions
  PROVE  IInv'
<1>1. TypeOK /\ \A s \in Stores : Holds(s) \subseteq Holds(s)'
  BY GrownRows DEF IInv
<1>2. TypeOK'
  <2>1. panel' \in [Panels -> Runs]
    BY <1>1 DEF TypeOK, Runs
  <2>2. \A q \in Panels : ToSet(panel'[q].left) \subseteq panel'[q].listed /\ panel'[q].listed \subseteq stored
    BY <1>1 DEF TypeOK
  <2>3. \A w \in Windows : queue[w] \subseteq Holds(StoreOf[w])'
    BY <1>1, StoreOfAssumption DEF TypeOK
  <2> QED
    BY <1>1, <2>1, <2>2, <2>3 DEF TypeOK, RowsGrow, Runs
<1>3. IsFiniteSet(stored') /\ UploadedIsStored'
  BY DEF IInv, UploadedIsStored
<1>4. AnsweredIsStored'
  <2>1. \A w \in Windows : \A f \in queue[w] : Current(w, f)' => Current(w, f)
    BY <1>1, GrownRows DEF TypeOK
  <2> QED
    BY <2>1 DEF IInv, AnsweredIsStored
<1>5. FetchInv'
  <2> SUFFICES ASSUME NEW q \in Panels
               PROVE  /\ panel'[q].at \in {"checking", "downloading", "done"} =>
                           panel'[q].listed \subseteq Holds(StoreOf[q])' \cup ToSet(panel'[q].left)
                      /\ panel'[q].at = "downloading" => panel'[q].left # <<>>
                      /\ panel'[q].at = "done" => panel'[q].left = <<>>
    BY DEF FetchInv
  <2>1. CASE q = p
    BY <1>1, <2>1 DEF TypeOK
  <2>2. CASE q # p
    BY <1>1, <2>2, StoreOfAssumption DEF IInv, FetchInv, TypeOK
  <2> QED
    BY <2>1, <2>2
<1> QED
  BY <1>2, <1>3, <1>4, <1>5 DEF IInv

(* The list of files arrives. *)
LEMMA ListStep ==
  ASSUME IInv, NEW p \in Panels, NEW r, List(p, r)
  PROVE  IInv'
<1>0. PICK remote \in Lists(r) : \E order \in [1 .. Cardinality(remote) -> remote] :
        /\ ToSet(order) = remote
        /\ panel' = [panel EXCEPT ![p] = [at |-> "checking", listed |-> remote, left |-> order]]
  BY DEF List
<1>1. PICK order \in [1 .. Cardinality(remote) -> remote] :
        /\ ToSet(order) = remote
        /\ panel' = [panel EXCEPT ![p] = [at |-> "checking", listed |-> remote, left |-> order]]
  BY <1>0
<1> DEFINE run == [at |-> "checking", listed |-> remote, left |-> order]
<1>2. /\ TypeOK /\ IsFiniteSet(stored) /\ remote \subseteq stored /\ remote \subseteq Files
      /\ UNCHANGED <<rows, uploaded, stored, at, queue, stray, interruptions>>
  BY DEF IInv, TypeOK, List, Lists
<1>3. order \in Seq(Files)
  <2>1. Cardinality(remote) \in Nat
    BY <1>2, FS_Subset, FS_CardinalityType
  <2>2. order \in Seq(remote)
    BY <1>1, <2>1, SeqDef
  <2> QED
    BY <1>2, <2>2
<1>4. RowsGrow /\ \A s \in Stores : Holds(s)' = Holds(s)
  BY <1>2, SameRowsGrow DEF Holds
<1>5. run \in Runs
  BY <1>2, <1>3 DEF Runs
<1>6. /\ uploaded' \in [Stores -> SUBSET Files]
      /\ \A s \in Stores : uploaded'[s] \subseteq Holds(s)' /\ uploaded'[s] \subseteq stored
      /\ interruptions' \in 0 .. MaxInterruptions
  BY <1>2, <1>4 DEF TypeOK, IInv, UploadedIsStored
<1>7. /\ run.at = "checking" /\ ToSet(run.left) = run.listed /\ run.listed \subseteq stored
      /\ panel' = [panel EXCEPT ![p] = run]
  BY <1>1, <1>2
<1> QED
  BY <1>2, <1>4, <1>5, <1>6, <1>7, PanelStep

(* The steps of a download. *)
LEMMA FetchSteps ==
  ASSUME IInv, NEW p \in Panels, FetchStep(p) \/ FailFetch(p)
  PROVE  IInv'
<1> DEFINE s   == StoreOf[p]
           old == panel[p]
<1>1. /\ TypeOK /\ s \in Stores /\ old \in Runs /\ UNCHANGED <<stored, at, queue, stray>>
      /\ ToSet(old.left) \subseteq old.listed /\ old.listed \subseteq stored /\ stored \subseteq Files
      /\ old.at \in {"checking", "downloading"}
      /\ old.listed \subseteq Holds(s) \cup ToSet(old.left)
      /\ old.at = "downloading" => old.left # <<>>
      /\ old.left \in Seq(Files) /\ old.listed \subseteq Files
  BY StoreOfAssumption DEF IInv, TypeOK, FetchInv, Runs, FetchStep, Check, Insert, Done, FailFetch
<1>2. old.left # <<>> =>
        /\ Head(old.left) \in Files /\ Tail(old.left) \in Seq(Files)
        /\ ToSet(old.left) = {Head(old.left)} \cup ToSet(Tail(old.left))
  BY <1>1, TailHolds
<1>3. ASSUME UNCHANGED <<rows, uploaded>>
      PROVE  /\ RowsGrow /\ Holds(s)' = Holds(s)
             /\ uploaded' \in [Stores -> SUBSET Files]
             /\ \A x \in Stores : uploaded'[x] \subseteq Holds(x)' /\ uploaded'[x] \subseteq stored
  BY <1>1, <1>3, SameRowsGrow DEF IInv, TypeOK, UploadedIsStored, Holds
<1>4. interruptions \in 0 .. MaxInterruptions /\ (Interrupt => interruptions' \in 0 .. MaxInterruptions)
  BY <1>1, LimitAssumption DEF TypeOK, Interrupt
(* A fetch fails, whichever way. *)
<1>5. ASSUME UNCHANGED <<rows, uploaded>>, interruptions' \in 0 .. MaxInterruptions,
             panel' = [panel EXCEPT ![p].at = "failed"]
      PROVE  IInv'
  <2> DEFINE run == [old EXCEPT !.at = "failed"]
  <2>1. run \in Runs /\ run.at = "failed" /\ run.left = old.left /\ run.listed = old.listed
    BY <1>1 DEF Runs
  <2>2. panel' = [panel EXCEPT ![p] = run]
    BY <1>5
  <2> HIDE DEF run
  <2> QED
    BY <1>1, <1>3, <1>5, <2>1, <2>2, PanelStep
<1>6. CASE Check(p) /\ Head(old.left) \in Holds(s)
  <2> DEFINE run == [old EXCEPT !.left = Tail(old.left)]
  <2>1. /\ old.left # <<>> /\ old.at = "checking" /\ panel' = [panel EXCEPT ![p] = run]
        /\ UNCHANGED <<rows, uploaded, interruptions>>
    <3>1. panel' = [panel EXCEPT ![p] =
            IF Head(old.left) \in Holds(s) THEN run ELSE [old EXCEPT !.at = "downloading"]]
      BY <1>6 DEF Check
    <3>2. old.left # <<>> /\ old.at = "checking" /\ UNCHANGED <<rows, uploaded, interruptions>>
      BY <1>6 DEF Check
    <3> QED
      BY <1>6, <3>1, <3>2
  <2>2. run \in Runs /\ run.at = "checking" /\ run.left = Tail(old.left) /\ run.listed = old.listed
    BY <1>1, <1>2, <2>1 DEF Runs
  <2>3. run.listed \subseteq Holds(s)' \cup ToSet(run.left) /\ ToSet(run.left) \subseteq run.listed
    BY <1>1, <1>2, <1>3, <1>6, <2>1, <2>2
  <2> HIDE DEF run
  <2> QED
    BY <1>1, <1>3, <1>4, <2>1, <2>2, <2>3, PanelStep
<1>7. CASE Check(p) /\ Head(old.left) \notin Holds(s)
  <2> DEFINE run == [old EXCEPT !.at = "downloading"]
  <2>1. /\ old.left # <<>> /\ panel' = [panel EXCEPT ![p] = run]
        /\ UNCHANGED <<rows, uploaded, interruptions>>
    BY <1>7 DEF Check
  <2>2. run \in Runs /\ run.at = "downloading" /\ run.left = old.left /\ run.listed = old.listed
    BY <1>1 DEF Runs
  <2> HIDE DEF run
  <2> QED
    BY <1>1, <1>3, <1>4, <2>1, <2>2, PanelStep
<1>8. CASE Insert(p)
  <2> DEFINE f   == Head(old.left)
             run == [old EXCEPT !.at = "checking", !.left = Tail(old.left)]
  <2>1. old.at = "downloading" /\ old.left # <<>> /\ interruptions' = interruptions
    BY <1>1, <1>8 DEF Insert
  <2>2. CASE f \in Holds(s)
    <3>1. panel' = [panel EXCEPT ![p].at = "failed"] /\ UNCHANGED <<rows, uploaded>>
      BY <1>8, <2>2 DEF Insert
    <3> QED
      BY <1>4, <1>5, <2>1, <3>1
  <2>3. CASE f \notin Holds(s)
    <3>1. /\ rows' = [rows EXCEPT ![s] = Append(rows[s], f)]
          /\ uploaded' = [uploaded EXCEPT ![s] = uploaded[s] \cup {f}]
          /\ panel' = [panel EXCEPT ![p] = run]
      BY <1>8, <2>3 DEF Insert
    <3>2. f \in Files /\ f \in stored /\ f \in ToSet(old.left)
      BY <1>1, <1>2, <2>1
    <3>3. /\ rows[s] \in Seq(Files) /\ IsInjective(rows[s]) /\ rows \in [Stores -> Seq(Files)]
          /\ \A x \in Stores : IsInjective(rows[x]) /\ Len(rows[x]) \in Nat
      BY <1>1 DEF TypeOK
    <3>4. /\ Append(rows[s], f) \in Seq(Files) /\ IsInjective(Append(rows[s], f))
          /\ ToSet(Append(rows[s], f)) = Holds(s) \cup {f}
          /\ Len(rows[s]) <= Len(Append(rows[s], f))
          /\ \A n \in 1 .. Len(rows[s]) : Append(rows[s], f)[n] = rows[s][n]
      BY <2>3, <3>2, <3>3, AppendHolds DEF Holds
    <3>5. RowsGrow
      BY <1>1, <3>1, <3>3, <3>4 DEF RowsGrow
    <3>6. Holds(s)' = Holds(s) \cup {f} /\ \A x \in Stores : x # s => Holds(x)' = Holds(x)
      BY <1>1, <3>1, <3>3, <3>4 DEF Holds
    <3>7. /\ uploaded' \in [Stores -> SUBSET Files]
          /\ \A x \in Stores : uploaded'[x] \subseteq Holds(x)' /\ uploaded'[x] \subseteq stored
      BY <1>1, <3>1, <3>2, <3>6 DEF IInv, TypeOK, UploadedIsStored
    <3>8. run \in Runs /\ run.at = "checking" /\ run.left = Tail(old.left) /\ run.listed = old.listed
      BY <1>1, <1>2, <2>1 DEF Runs
    <3>9. run.listed \subseteq Holds(s)' \cup ToSet(run.left) /\ ToSet(run.left) \subseteq run.listed
      BY <1>1, <1>2, <2>1, <3>6, <3>8
    <3> HIDE DEF run
    <3> QED
      BY <1>1, <1>4, <2>1, <3>1, <3>5, <3>7, <3>8, <3>9, PanelStep
  <2> QED
    BY <2>2, <2>3
<1>9. CASE Done(p)
  <2> DEFINE run == [old EXCEPT !.at = "done"]
  <2>1. /\ old.left = <<>> /\ panel' = [panel EXCEPT ![p] = run]
        /\ UNCHANGED <<rows, uploaded, interruptions>>
    BY <1>9 DEF Done
  <2>2. run \in Runs /\ run.at = "done" /\ run.left = old.left /\ run.listed = old.listed
    BY <1>1 DEF Runs
  <2> HIDE DEF run
  <2> QED
    BY <1>1, <1>3, <1>4, <2>1, <2>2, PanelStep
<1>10. CASE FailFetch(p)
  BY <1>4, <1>5, <1>10 DEF FailFetch
<1> QED
  BY <1>6, <1>7, <1>8, <1>9, <1>10 DEF FetchStep

-----------------------------------------------------------------------------
(* Every step keeps the invariant. *)
LEMMA NextIInv == IInv /\ [Next]_vars => IInv'
<1> SUFFICES ASSUME IInv, [Next]_vars PROVE IInv'
  OBVIOUS
<1>1. CASE UNCHANGED vars
  BY <1>1, SameRowsGrow, RowsStep DEF vars, IInv
<1>2. CASE Next
  BY <1>2, AddStep, RestoreStep, UploadSteps, StrayStep, ListStep, FetchSteps DEF Next
<1> QED
  BY <1>1, <1>2

(* The invariant holds of every state. *)
LEMMA IInvHolds == Spec => []IInv
  BY InitIInv, NextIInv, PTL DEF Spec

(* A row keeps its identifier to itself: neither an import, nor a restored *)
(* bundle, nor two panels that fetch the same record store a file twice,   *)
(* and only rows that exist are marked as uploaded (attachment_store.dart, *)
(* table attachments of database_schema.dart).                             *)
THEOREM TypesHold == Spec => []TypeOK
<1>1. IInv => TypeOK
  BY DEF IInv
<1> QED
  BY <1>1, IInvHolds, PTL

(* What uploadPending has marked, the server has: two windows that upload  *)
(* the same rows, requests that are given up and arrive later, refused     *)
(* files and rows that are added meanwhile never make it mark a file other *)
(* than the one that was answered (attachment_store.dart:62).              *)
THEOREM UploadsArrive == Spec => []UploadedIsStored
<1>1. IInv => UploadedIsStored
  BY DEF IInv
<1> QED
  BY <1>1, IInvHolds, PTL

(* A fetch that ends without an error has every file of the record that    *)
(* the server listed, in whatever order and whatever other panels insert   *)
(* meanwhile (attachment_store.dart:88).                                   *)
THEOREM FetchesAreComplete == Spec => []FetchIsComplete
<1>1. IInv => FetchIsComplete
  <2> SUFFICES ASSUME IInv, NEW p \in Panels, panel[p].at = "done"
               PROVE  panel[p].listed \subseteq Holds(StoreOf[p])
    BY DEF FetchIsComplete
  <2>1. panel[p].left = <<>> /\ panel[p].listed \subseteq Holds(StoreOf[p]) \cup ToSet(panel[p].left)
    BY DEF IInv, FetchInv
  <2> QED
    BY <2>1 DEF ToSet
<1> QED
  BY <1>1, IInvHolds, PTL
=============================================================================
