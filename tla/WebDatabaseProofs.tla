-------------------------- MODULE WebDatabaseProofs --------------------------
(* For any files, blocks and values: what is done to the queue keeps it    *)
(* faithful.  The recursive definitions are unfolded along the numbers of  *)
(* their steps, by the least step that goes wrong.                         *)
(*                                                                         *)
(* For any number of windows, pages and pieces of work, with any ends of   *)
(* the worker: the files hold what the log says, each work of it whole.    *)
EXTENDS WebWorkerProofs, FiniteSetTheorems, NaturalsInduction, WellFoundedInduction

-----------------------------------------------------------------------------
(* Numbers *)

(* Every set of numbers that is not empty has a least one. *)
LEMMA LeastNumber ==
  ASSUME NEW S \in SUBSET Nat, S # {}
  PROVE  \E n \in S : \A m \in S : n <= m
<1> DEFINE R == {p \in Nat \X Nat : p[1] < p[2]}
<1>1. IsWellFoundedOn(R, Nat)
  BY NatLessThanWellFounded DEF OpToRel
<1> HIDE DEF R
<1>2. PICK n \in S : \A m \in S : ~(<<m, n>> \in R)
  BY <1>1, WFMin
<1>3. \A m \in S : ~(m < n)
  BY <1>2 DEF R
<1> QED
  BY <1>3

(* What holds of 0 and goes from a number to the next one, holds up to n. *)
LEMMA UpTo ==
  ASSUME NEW n \in Nat, NEW S, 0 \in S,
         \A k \in 1..n : k - 1 \in S => k \in S
  PROVE  \A k \in 0..n : k \in S
<1> DEFINE T == {k \in 0..n : k \notin S}
<1> SUFFICES ASSUME T # {} PROVE FALSE
  OBVIOUS
<1>1. T \in SUBSET Nat
  OBVIOUS
<1>2. PICK k \in T : \A m \in T : k <= m
  BY <1>1, LeastNumber
<1>3. k \in 1..n /\ k - 1 \in 0..n /\ k - 1 \notin T
  BY <1>2
<1> QED
  BY <1>3

(* A finite set of numbers that is not empty has a greatest one, and it is *)
(* what Max chooses.                                                       *)
LEMMA MaxOfFinite ==
  ASSUME NEW S \in SUBSET Nat, IsFiniteSet(S), S # {}
  PROVE  Max(S) \in S /\ \A s \in S : s <= Max(S)
<1> DEFINE Bounded(U) == \E m \in U : \A s \in U : m >= s
           T == {U \in SUBSET S : U # {} /\ ~Bounded(U)}
<1>1. T = {}
  <2> SUFFICES ASSUME T # {} PROVE FALSE
    OBVIOUS
  <2>1. T \subseteq FiniteSubsetsOf(S)
    BY FS_FiniteSubsetsOfFinite
  <2>2. PICK U \in T : \A V \in T : ~(<<V, U>> \in StrictSubsetOrdering(S))
    BY <2>1, FS_StrictSubsetOrderingWellFounded, WFMin, Zenon
  <2>3. PICK x \in U : TRUE
    OBVIOUS
  <2>4. U \ {x} \notin T
    BY <2>2, <2>3 DEF StrictSubsetOrdering
  <2>5. CASE U \ {x} = {}
    <3>1. \A s \in U : s = x
      BY <2>5
    <3> QED
      BY <2>3, <3>1
  <2>6. CASE U \ {x} # {}
    <3>1. PICK m \in U \ {x} : \A s \in U \ {x} : m >= s
      BY <2>4, <2>6
    <3>2. m \in Nat /\ x \in Nat /\ U \subseteq Nat
      BY <2>3, <3>1
    <3>3. CASE m >= x
      BY <3>1, <3>2, <3>3
    <3>4. CASE x >= m
      <4>1. \A s \in U : x >= s
        BY <3>1, <3>2, <3>4
      <4> QED
        BY <2>3, <4>1
    <3> QED
      BY <3>2, <3>3, <3>4
  <2> QED
    BY <2>5, <2>6
<1>2. Bounded(S)
  BY <1>1
<1>3. Max(S) \in S /\ \A s \in S : Max(S) >= s
  BY <1>2, Zenon DEF Max
<1> QED
  BY <1>3

-----------------------------------------------------------------------------
(* Outcome, step by step *)

OutcomeStep(items, fs, k, o) ==
  IF o.ok /\ Applicable(items[k], o.files)
  THEN [ok |-> TRUE, files |-> Applied(items[k], o.files)]
  ELSE [ok |-> FALSE, files |-> fs]

(* The steps up to the n-th. *)
OutcomeSteps(items, fs, n, g) ==
  /\ g[0] = [ok |-> TRUE, files |-> fs]
  /\ \A k \in 1..n : g[k] = OutcomeStep(items, fs, k, g[k - 1])

IsOutcome(items, fs, g) ==
  g = [k \in 0..Len(items) |-> IF k = 0 THEN [ok |-> TRUE, files |-> fs]
                               ELSE OutcomeStep(items, fs, k, g[k - 1])]

(* Items that can all be applied, and the files after each of them. *)
Leads(items, fs, t) ==
  /\ t[0] = fs
  /\ \A k \in 1..Len(items) :
       Applicable(items[k], t[k - 1]) /\ t[k] = Applied(items[k], t[k - 1])

(* Outcome is the last of its steps. *)
LEMMA OutcomeUnfolds ==
  ASSUME NEW items, Len(items) \in Nat, NEW fs
  PROVE  \E g : OutcomeSteps(items, fs, Len(items), g) /\ Outcome(items, fs) = g[Len(items)]
<1> DEFINE S == {n \in Nat : \E g : OutcomeSteps(items, fs, n, g)}
<1>1. 0 \in S
  <2> DEFINE g == [k \in 0..0 |-> [ok |-> TRUE, files |-> fs]]
  <2>1. OutcomeSteps(items, fs, 0, g)
    BY DEF OutcomeSteps
  <2> QED
    BY <2>1
<1>2. ASSUME NEW n \in 1..Len(items), n - 1 \in S
      PROVE  n \in S
  <2>1. PICK g : OutcomeSteps(items, fs, n - 1, g)
    BY <1>2
  <2> DEFINE h == [k \in 0..n |-> IF k = n THEN OutcomeStep(items, fs, n, g[n - 1]) ELSE g[k]]
  <2>2. OutcomeSteps(items, fs, n, h)
    BY <2>1 DEF OutcomeSteps
  <2> QED
    BY <2>2
<1>3. PICK h : OutcomeSteps(items, fs, Len(items), h)
  <2> HIDE DEF S
  <2>1. \A k \in 0..Len(items) : k \in S
    BY <1>1, <1>2, UpTo
  <2> QED
    BY <2>1 DEF S
<1>4. \E g : IsOutcome(items, fs, g)
  <2> DEFINE g == [k \in 0..Len(items) |-> h[k]]
             e(k) == IF k = 0 THEN [ok |-> TRUE, files |-> fs]
                     ELSE OutcomeStep(items, fs, k, g[k - 1])
  <2>1. \A k \in 0..Len(items) : h[k] = e(k)
    BY <1>3 DEF OutcomeSteps
  <2>2. g = [k \in 0..Len(items) |-> e(k)]
    BY <2>1, Zenon
  <2> QED
    BY <2>2, Zenon DEF IsOutcome
<1> DEFINE f == CHOOSE g : IsOutcome(items, fs, g)
<1>5. IsOutcome(items, fs, f)
  BY <1>4, Zenon
<1>6. Outcome(items, fs) = f[Len(items)]
  BY Zenon DEF Outcome, IsOutcome, OutcomeStep
<1>7. OutcomeSteps(items, fs, Len(items), f)
  <2> HIDE DEF f
  <2>1. \A k \in 0..Len(items) : f[k] = IF k = 0 THEN [ok |-> TRUE, files |-> fs]
                                       ELSE OutcomeStep(items, fs, k, f[k - 1])
    BY <1>5, Zenon DEF IsOutcome
  <2>2. 0 \in 0..Len(items) /\ \A k \in 1..Len(items) : k \in 0..Len(items) /\ k # 0
    OBVIOUS
  <2> QED
    BY <2>1, <2>2, Zenon DEF OutcomeSteps
<1> QED
  BY <1>6, <1>7

(* Items lead from fs to the files that t ends with, if all of them can be *)
(* applied one after the other.                                            *)
LEMMA LeadsToOutcome ==
  ASSUME NEW items, Len(items) \in Nat, NEW fs, NEW t, Leads(items, fs, t)
  PROVE  Outcome(items, fs) = [ok |-> TRUE, files |-> t[Len(items)]]
<1>1. PICK g : OutcomeSteps(items, fs, Len(items), g) /\ Outcome(items, fs) = g[Len(items)]
  BY OutcomeUnfolds
<1> DEFINE S == {k \in 0..Len(items) : g[k] = [ok |-> TRUE, files |-> t[k]]}
<1>2. 0 \in S
  <2>1. g[0] = [ok |-> TRUE, files |-> fs] /\ t[0] = fs
    BY <1>1 DEF OutcomeSteps, Leads
  <2>2. 0 \in 0..Len(items)
    OBVIOUS
  <2> QED
    BY <2>1, <2>2
<1>3. ASSUME NEW k \in 1..Len(items), k - 1 \in S
      PROVE  k \in S
  <2>1. g[k] = OutcomeStep(items, fs, k, g[k - 1])
    BY <1>1 DEF OutcomeSteps
  <2>2. g[k - 1].ok /\ g[k - 1].files = t[k - 1]
    BY <1>3
  <2>3. g[k] = [ok |-> TRUE, files |-> t[k]]
    BY <2>1, <2>2 DEF OutcomeStep, Leads
  <2> QED
    BY <2>3
<1> HIDE DEF S
<1>4. \A k \in 0..Len(items) : k \in S
  BY <1>2, <1>3, UpTo
<1> QED
  BY <1>1, <1>4 DEF S

(* Conversely, what can be applied leads somewhere. *)
LEMMA OutcomeLeads ==
  ASSUME NEW items, Len(items) \in Nat, NEW fs, Outcome(items, fs).ok
  PROVE  \E t : Leads(items, fs, t) /\ Outcome(items, fs) = [ok |-> TRUE, files |-> t[Len(items)]]
<1>1. PICK g : OutcomeSteps(items, fs, Len(items), g) /\ Outcome(items, fs) = g[Len(items)]
  BY OutcomeUnfolds
<1> DEFINE n == Len(items)
           S == {k \in Nat : k <= n /\ g[n - k].ok}
<1>2. 0 \in S
  BY <1>1
<1>3. ASSUME NEW k \in 1..n, k - 1 \in S
      PROVE  k \in S
  <2>1. n - k + 1 \in 1..n /\ n - (k - 1) = n - k + 1 /\ (n - k + 1) - 1 = n - k /\ n - k \in Nat
    OBVIOUS
  <2>2. g[n - k + 1] = OutcomeStep(items, fs, n - k + 1, g[n - k])
    BY <1>1, <2>1 DEF OutcomeSteps
  <2>3. g[n - k + 1].ok
    BY <1>3, <2>1
  <2> QED
    BY <2>1, <2>2, <2>3 DEF OutcomeStep
<1>4. \A k \in 0..n : k \in S
  <2> HIDE DEF S
  <2> QED
    BY <1>2, <1>3, UpTo
<1>5. \A k \in 0..n : g[k].ok
  <2> TAKE k \in 0..n
  <2>1. n - k \in 0..n /\ n - (n - k) = k
    OBVIOUS
  <2> QED
    BY <1>4, <2>1
<1> DEFINE t == [k \in 0..n |-> g[k].files]
<1>6. ASSUME NEW k \in 1..n
      PROVE  Applicable(items[k], t[k - 1]) /\ t[k] = Applied(items[k], t[k - 1])
  <2>1. g[k] = OutcomeStep(items, fs, k, g[k - 1]) /\ g[k].ok
    BY <1>1, <1>5 DEF OutcomeSteps
  <2> QED
    BY <2>1 DEF OutcomeStep
<1>7. t[0] = fs
  BY <1>1 DEF OutcomeSteps
<1>8. Leads(items, fs, t)
  BY <1>6, <1>7 DEF Leads
<1> QED
  BY <1>8, LeadsToOutcome

(* All items can be applied, and lead from the files fs to the files gs. *)
Reaches(items, fs, gs) == Outcome(items, fs) = [ok |-> TRUE, files |-> gs]

(* Reaches, item by item. *)
LEMMA ReachesLeads ==
  ASSUME NEW items, Len(items) \in Nat, NEW fs, NEW gs
  PROVE  Reaches(items, fs, gs) <=> \E t : Leads(items, fs, t) /\ t[Len(items)] = gs
<1>1. ASSUME Reaches(items, fs, gs)
      PROVE  \E t : Leads(items, fs, t) /\ t[Len(items)] = gs
  <2>1. Outcome(items, fs).ok /\ Outcome(items, fs).files = gs
    BY <1>1 DEF Reaches
  <2>2. PICK t : Leads(items, fs, t) /\ Outcome(items, fs) = [ok |-> TRUE, files |-> t[Len(items)]]
    BY <2>1, OutcomeLeads
  <2> QED
    BY <2>1, <2>2
<1>2. ASSUME NEW t, Leads(items, fs, t), t[Len(items)] = gs
      PROVE  Reaches(items, fs, gs)
  BY <1>2, LeadsToOutcome DEF Reaches
<1> QED
  BY <1>1, <1>2

(* No items change nothing. *)
LEMMA ReachesNone ==
  ASSUME NEW fs
  PROVE  Reaches(<<>>, fs, fs)
<1> DEFINE t == [k \in {0} |-> fs]
<1>1. Leads(<<>>, fs, t)
  BY DEF Leads
<1>2. t[Len(<<>>)] = fs /\ Len(<<>>) \in Nat
  OBVIOUS
<1> HIDE DEF t
<1> QED
  BY <1>1, <1>2, ReachesLeads

(* Items one after the other. *)
LEMMA ReachesConcat ==
  ASSUME NEW I, NEW q \in Seq(I), NEW r \in Seq(I), NEW fs, NEW hs
  PROVE  Reaches(q \o r, fs, hs) <=> \E gs : Reaches(q, fs, gs) /\ Reaches(r, gs, hs)
<1>1. /\ Len(q) \in Nat /\ Len(r) \in Nat
      /\ Len(q \o r) = Len(q) + Len(r)
      /\ \A k \in 1..Len(q) : (q \o r)[k] = q[k]
      /\ \A k \in 1..Len(r) : (q \o r)[Len(q) + k] = r[k]
  OBVIOUS
<1> DEFINE m == Len(q)
           n == Len(r)
           s == q \o r
<1>2. m \in Nat /\ n \in Nat /\ Len(s) = m + n /\ Len(s) \in Nat
  BY <1>1
<1>3. (\A k \in 1..m : s[k] = q[k]) /\ \A k \in 1..n : s[m + k] = r[k]
  BY <1>1
<1>4. ASSUME NEW gs, Reaches(q, fs, gs), Reaches(r, gs, hs)
      PROVE  Reaches(s, fs, hs)
  <2>1. PICK t : Leads(q, fs, t) /\ t[m] = gs
    BY <1>2, <1>4, ReachesLeads
  <2>2. PICK u : Leads(r, gs, u) /\ u[n] = hs
    BY <1>2, <1>4, ReachesLeads
  <2> DEFINE v == [k \in 0..(m + n) |-> IF k <= m THEN t[k] ELSE u[k - m]]
  <2>3. v[0] = fs
    BY <1>2, <2>1 DEF Leads
  <2>4. v[m + n] = hs
    BY <1>2, <2>1, <2>2 DEF Leads
  <2>5. ASSUME NEW k \in 1..m
        PROVE  Applicable(s[k], v[k - 1]) /\ v[k] = Applied(s[k], v[k - 1])
    <3>1. v[k] = t[k] /\ v[k - 1] = t[k - 1] /\ s[k] = q[k]
      BY <1>2, <1>3
    <3> QED
      BY <2>1, <3>1 DEF Leads
  <2>6. ASSUME NEW j \in 1..n
        PROVE  Applicable(s[m + j], v[m + j - 1]) /\ v[m + j] = Applied(s[m + j], v[m + j - 1])
    <3>1. v[m + j] = u[j] /\ v[m + j - 1] = u[j - 1] /\ s[m + j] = r[j]
      <4>1. v[m + j] = u[j]
        BY <1>2
      <4>2. CASE j = 1
        BY <1>2, <1>3, <2>1, <2>2, <4>1, <4>2 DEF Leads
      <4>3. CASE j # 1
        BY <1>2, <1>3, <4>1, <4>3
      <4> QED
        BY <4>2, <4>3
    <3> QED
      BY <2>2, <3>1 DEF Leads
  <2>7. \A k \in 1..(m + n) : Applicable(s[k], v[k - 1]) /\ v[k] = Applied(s[k], v[k - 1])
    <3> HIDE DEF v
    <3> TAKE k \in 1..(m + n)
    <3>1. CASE k <= m
      BY <2>5, <3>1, <1>2
    <3>2. CASE k > m
      <4> DEFINE j == k - m
      <4>1. j \in 1..n /\ m + j = k /\ m + j - 1 = k - 1
        BY <1>2, <3>2
      <4> HIDE DEF j
      <4>2. Applicable(s[m + j], v[m + j - 1]) /\ v[m + j] = Applied(s[m + j], v[m + j - 1])
        BY <2>6, <4>1
      <4> HIDE DEF s, m, n
      <4> QED
        BY <4>1, <4>2
    <3> QED
      BY <3>1, <3>2, <1>2
  <2>8. Leads(s, fs, v)
    <3> HIDE DEF v
    <3> QED
      BY <1>2, <2>3, <2>7 DEF Leads
  <2> QED
    <3> HIDE DEF v, s
    <3> QED
      BY <1>2, <2>4, <2>8, ReachesLeads
<1>5. ASSUME Reaches(s, fs, hs)
      PROVE  \E gs : Reaches(q, fs, gs) /\ Reaches(r, gs, hs)
  <2>1. PICK v : Leads(s, fs, v) /\ v[Len(s)] = hs
    BY <1>2, <1>5, ReachesLeads
  <2> DEFINE u == [k \in 0..n |-> v[m + k]]
  <2>2. Leads(q, fs, v)
    BY <1>2, <1>3, <2>1 DEF Leads
  <2>3. u[0] = v[m] /\ u[n] = hs
    BY <1>2, <2>1
  <2>4. ASSUME NEW k \in 1..n
        PROVE  Applicable(r[k], u[k - 1]) /\ u[k] = Applied(r[k], u[k - 1])
    <3>1. m + k \in 1..Len(s) /\ u[k] = v[m + k] /\ u[k - 1] = v[m + k - 1] /\ s[m + k] = r[k]
      BY <1>2, <1>3
    <3> QED
      BY <2>1, <3>1 DEF Leads
  <2>5. Leads(r, v[m], u)
    BY <2>3, <2>4 DEF Leads
  <2>6. Reaches(q, fs, v[m])
    BY <1>2, <2>2, ReachesLeads
  <2>7. Reaches(r, v[m], hs)
    <3> HIDE DEF u
    <3> QED
      BY <1>2, <2>3, <2>5, ReachesLeads
  <2> QED
    BY <2>6, <2>7
<1> QED
  BY <1>4, <1>5

-----------------------------------------------------------------------------
(* Items on files with names in N whose blocks hold values in V *)

Contents(V) == UNION {[B -> V] : B \in SUBSET Nat}

Items(N, V) ==
       [op : {"create", "delete"}, file : N]
  \cup [op : {"write"}, file : N, data : Contents(V)]
  \cup [op : {"truncate"}, file : N, size : Nat]

IsFiles(fs) == fs = [f \in DOMAIN fs |-> fs[f]]

Ops == {"create", "delete", "write", "truncate"}

(* What item i leaves of the files fs. *)
Effect(i, fs, gs) ==
  /\ IsFiles(gs)
  /\ i.op \in Ops
  /\ i.op = "create" <=> i.file \notin DOMAIN fs
  /\ DOMAIN gs = IF i.op = "delete" THEN DOMAIN fs \ {i.file} ELSE DOMAIN fs \cup {i.file}
  /\ \A g \in DOMAIN fs \ {i.file} : gs[g] = fs[g]
  /\ i.op = "create" => gs[i.file] = Empty
  /\ i.op = "write" => gs[i.file] = Over(i.data, fs[i.file])
  /\ i.op = "truncate" => gs[i.file] = Restricted(fs[i.file], i.size)

(* What Applied makes of files is what Effect says. *)
LEMMA AppliedIs ==
  ASSUME NEW N, NEW V, NEW i \in Items(N, V), NEW fs, Applicable(i, fs)
  PROVE  Effect(i, fs, Applied(i, fs))
<1>1. i.op \in Ops
  BY DEF Items, Ops
<1>2. CASE i.op = "create"
  BY <1>2 DEF Applicable, Applied, Over, IsFiles, Effect, Ops
<1>3. CASE i.op = "delete"
  BY <1>3 DEF Applicable, Applied, IsFiles, Effect, Ops
<1>4. CASE i.op = "write"
  <2> DEFINE d == Over(i.data, fs[i.file])
  <2>1. Applied(i, fs) = [fs EXCEPT ![i.file] = d] /\ i.file \in DOMAIN fs
    BY <1>4 DEF Applicable, Applied
  <2> HIDE DEF d
  <2>2. Applied(i, fs) = [g \in DOMAIN fs |-> IF g = i.file THEN d ELSE fs[g]]
    BY <2>1
  <2>3. Applied(i, fs)[i.file] = d
    BY <2>1, <2>2
  <2> QED
    BY <1>4, <2>1, <2>2, <2>3 DEF IsFiles, d, Effect, Ops
<1>5. CASE i.op = "truncate"
  <2> DEFINE d == Restricted(fs[i.file], i.size)
  <2>1. Applied(i, fs) = [fs EXCEPT ![i.file] = d] /\ i.file \in DOMAIN fs
    BY <1>5 DEF Applicable, Applied
  <2> HIDE DEF d
  <2>2. Applied(i, fs) = [g \in DOMAIN fs |-> IF g = i.file THEN d ELSE fs[g]]
    BY <2>1
  <2>3. Applied(i, fs)[i.file] = d
    BY <2>1, <2>2
  <2> QED
    BY <1>5, <2>1, <2>2, <2>3 DEF IsFiles, d, Effect, Ops
<1> QED
  BY <1>1, <1>2, <1>3, <1>4, <1>5 DEF Ops

(* Files with the same names and the same data are the same. *)
LEMMA SameFiles ==
  ASSUME NEW fs, NEW gs, IsFiles(fs), IsFiles(gs), DOMAIN fs = DOMAIN gs,
         \A f \in DOMAIN fs : fs[f] = gs[f]
  PROVE  fs = gs
<1>1. [f \in DOMAIN fs |-> fs[f]] = [f \in DOMAIN gs |-> gs[f]]
  OBVIOUS
<1> QED
  BY <1>1, Zenon DEF IsFiles

(* A write over a write. *)
LEMMA OverTwice ==
  ASSUME NEW a, NEW b, NEW c
  PROVE  Over(a, Over(b, c)) = Over(Over(a, b), c)
  BY DEF Over

(* Items on different files commute. *)
LEMMA ItemsCommute ==
  ASSUME NEW N, NEW V, NEW i \in Items(N, V), NEW j \in Items(N, V), i.file # j.file,
         NEW fs, Applicable(i, fs), Applicable(j, Applied(i, fs))
  PROVE  /\ Applicable(j, fs) /\ Applicable(i, Applied(j, fs))
         /\ Applied(j, Applied(i, fs)) = Applied(i, Applied(j, fs))
<1> DEFINE fi == Applied(i, fs)
           fj == Applied(j, fs)
           fij == Applied(j, fi)
           fji == Applied(i, fj)
<1>1. Effect(i, fs, fi) /\ Effect(j, fi, fij)
  BY AppliedIs
<1>2. Applicable(j, fs)
  BY <1>1 DEF Effect, Applicable
<1>3. Effect(j, fs, fj)
  BY <1>2, AppliedIs
<1>4. Applicable(i, fj)
  BY <1>3 DEF Effect, Applicable
<1>5. Effect(i, fj, fji)
  BY <1>4, AppliedIs
<1> HIDE DEF fi, fj, fij, fji
<1>6. IsFiles(fij) /\ IsFiles(fji) /\ DOMAIN fij = DOMAIN fji
  BY <1>1, <1>3, <1>5 DEF Effect
<1>7. ASSUME NEW g \in DOMAIN fij
      PROVE  fij[g] = fji[g]
  <2>1. CASE g = i.file
    BY <1>1, <1>3, <1>5, <1>6, <1>7, <2>1 DEF Effect, Ops
  <2>2. CASE g = j.file
    BY <1>1, <1>3, <1>5, <1>6, <1>7, <2>2 DEF Effect, Ops
  <2>3. CASE g # i.file /\ g # j.file
    BY <1>1, <1>3, <1>5, <1>6, <1>7, <2>3 DEF Effect, Ops
  <2> QED
    BY <2>1, <2>2, <2>3
<1>8. fij = fji
  BY <1>6, <1>7, SameFiles
<1> QED
  BY <1>2, <1>4, <1>8 DEF fi, fj, fij, fji

(* One item. *)
LEMMA ReachesOne ==
  ASSUME NEW i, NEW fs, NEW gs
  PROVE  Reaches(<<i>>, fs, gs) <=> Applicable(i, fs) /\ gs = Applied(i, fs)
<1> DEFINE q == <<i>>
<1>1. Len(q) = 1 /\ Len(q) \in Nat /\ q[1] = i /\ 1..Len(q) = {1}
  OBVIOUS
<1> HIDE DEF q
<1>2. ASSUME Reaches(q, fs, gs)
      PROVE  Applicable(i, fs) /\ gs = Applied(i, fs)
  <2>1. PICK t : Leads(q, fs, t) /\ t[Len(q)] = gs
    BY <1>1, <1>2, ReachesLeads
  <2> QED
    BY <1>1, <2>1 DEF Leads
<1>3. ASSUME Applicable(i, fs), gs = Applied(i, fs)
      PROVE  Reaches(q, fs, gs)
  <2> DEFINE t == [k \in 0..1 |-> IF k = 0 THEN fs ELSE gs]
  <2>1. t[0] = fs /\ t[1] = gs
    OBVIOUS
  <2> HIDE DEF t
  <2>2. Leads(q, fs, t) /\ t[Len(q)] = gs
    BY <1>1, <1>3, <2>1 DEF Leads
  <2> QED
    BY <1>1, <2>2, ReachesLeads
<1>4. Reaches(q, fs, gs) <=> Applicable(i, fs) /\ gs = Applied(i, fs)
  BY <1>2, <1>3
<1> QED
  BY <1>4 DEF q

(* One more item. *)
LEMMA ReachesAppend ==
  ASSUME NEW I, NEW q \in Seq(I), NEW i \in I, NEW fs, NEW gs,
         Reaches(q, fs, gs), Applicable(i, gs)
  PROVE  Reaches(Append(q, i), fs, Applied(i, gs))
<1>1. Append(q, i) = q \o <<i>> /\ <<i>> \in Seq(I)
  OBVIOUS
<1>2. Reaches(<<i>>, gs, Applied(i, gs))
  BY ReachesOne
<1> QED
  BY <1>1, <1>2, ReachesConcat

(* An item that can be applied before items of other files can be applied  *)
(* after them, with the same effect.                                       *)
LEMMA ReachesAround ==
  ASSUME NEW N, NEW V, NEW q \in Seq(Items(N, V)), NEW i \in Items(N, V),
         \A k \in 1..Len(q) : q[k].file # i.file,
         NEW fs, NEW gs, Reaches(q, fs, gs), Applicable(i, fs)
  PROVE  Applicable(i, gs) /\ Reaches(q, Applied(i, fs), Applied(i, gs))
<1>1. Len(q) \in Nat /\ \A k \in 1..Len(q) : q[k] \in Items(N, V)
  OBVIOUS
<1>2. PICK t : Leads(q, fs, t) /\ t[Len(q)] = gs
  BY <1>1, ReachesLeads
<1> DEFINE S == {k \in 0..Len(q) : Applicable(i, t[k])}
<1>3. 0 \in S
  BY <1>1, <1>2 DEF Leads
<1>4. ASSUME NEW k \in 1..Len(q), k - 1 \in S
      PROVE  k \in S
  <2>1. Applicable(i, t[k - 1]) /\ Applicable(q[k], t[k - 1]) /\ t[k] = Applied(q[k], t[k - 1])
    BY <1>2, <1>4 DEF Leads
  <2>2. Effect(q[k], t[k - 1], t[k])
    BY <1>1, <2>1, AppliedIs
  <2> QED
    BY <2>1, <2>2 DEF Effect, Applicable
<1>5. \A k \in 0..Len(q) : Applicable(i, t[k])
  <2>1. \A k \in 0..Len(q) : k \in S
    <3> HIDE DEF S
    <3> QED
      BY <1>1, <1>3, <1>4, UpTo
  <2> QED
    BY <2>1
<1> DEFINE u == [k \in 0..Len(q) |-> Applied(i, t[k])]
<1>6. ASSUME NEW k \in 1..Len(q)
      PROVE  Applicable(q[k], u[k - 1]) /\ u[k] = Applied(q[k], u[k - 1])
  <2>1. /\ Applicable(q[k], t[k - 1]) /\ t[k] = Applied(q[k], t[k - 1]) /\ Applicable(i, t[k])
        /\ u[k] = Applied(i, t[k]) /\ u[k - 1] = Applied(i, t[k - 1])
    BY <1>1, <1>2, <1>5 DEF Leads
  <2> HIDE DEF u
  <2> QED
    BY <1>1, <2>1, ItemsCommute
<1>7. Leads(q, Applied(i, fs), u)
  <2>1. u[0] = Applied(i, fs)
    BY <1>1, <1>2 DEF Leads
  <2> HIDE DEF u
  <2> QED
    BY <1>6, <2>1 DEF Leads
<1>8. u[Len(q)] = Applied(i, gs) /\ Applicable(i, gs)
  BY <1>1, <1>2, <1>5
<1> HIDE DEF u
<1> QED
  BY <1>1, <1>7, <1>8, ReachesLeads

Merged(w, i) == [w EXCEPT !.data = Over(i.data, @)]

(* Two writes of a file have the effect of the merged one. *)
LEMMA WritesMerge ==
  ASSUME NEW N, NEW V, NEW w \in Items(N, V), NEW i \in Items(N, V),
         w.op = "write", i.op = "write", w.file = i.file,
         NEW fs, Applicable(w, fs)
  PROVE  /\ Merged(w, i) \in Items(N, V) /\ Applicable(Merged(w, i), fs)
         /\ Applicable(i, Applied(w, fs))
         /\ Applied(Merged(w, i), fs) = Applied(i, Applied(w, fs))
<1> DEFINE m == Merged(w, i)
<1>1. w \in [op : {"write"}, file : N, data : Contents(V)] /\ i.data \in Contents(V)
  BY DEF Items
<1>2. Over(i.data, w.data) \in Contents(V)
  <2>1. PICK A \in SUBSET Nat : i.data \in [A -> V]
    BY <1>1 DEF Contents
  <2>2. PICK B \in SUBSET Nat : w.data \in [B -> V]
    BY <1>1 DEF Contents
  <2>3. Over(i.data, w.data) \in [A \cup B -> V] /\ A \cup B \in SUBSET Nat
    BY <2>1, <2>2 DEF Over
  <2> QED
    BY <2>3 DEF Contents
<1>3. m \in Items(N, V) /\ m.op = "write" /\ m.file = i.file /\ m.data = Over(i.data, w.data)
  BY <1>1, <1>2 DEF Merged, Items
<1>4. Applicable(m, fs)
  BY <1>3 DEF Applicable
<1>5. Effect(w, fs, Applied(w, fs)) /\ Effect(m, fs, Applied(m, fs))
  BY <1>3, <1>4, AppliedIs
<1>6. Applicable(i, Applied(w, fs))
  BY <1>5 DEF Effect, Applicable
<1>7. Effect(i, Applied(w, fs), Applied(i, Applied(w, fs)))
  BY <1>6, AppliedIs
<1> DEFINE gw == Applied(w, fs)
           gm == Applied(m, fs)
           gi == Applied(i, gw)
<1> HIDE DEF gw, gm, gi
<1>8. Effect(w, fs, gw) /\ Effect(m, fs, gm) /\ Effect(i, gw, gi)
  BY <1>5, <1>7 DEF gw, gm, gi
<1>9. IsFiles(gm) /\ IsFiles(gi) /\ DOMAIN gm = DOMAIN gi
  BY <1>3, <1>8 DEF Effect
<1>10. gm[i.file] = gi[i.file]
  BY <1>3, <1>8, OverTwice DEF Effect
<1>11. \A g \in DOMAIN gm \ {i.file} : gm[g] = gi[g]
  BY <1>3, <1>8 DEF Effect
<1>12. gm = gi
  BY <1>9, <1>10, <1>11, SameFiles
<1> QED
  BY <1>3, <1>4, <1>6, <1>12 DEF gw, gm, gi

-----------------------------------------------------------------------------
(* A write that joins the queue *)

(* Where the walk back through the queue ends. *)
LEMMA LastOfIs ==
  ASSUME NEW n \in Nat, NEW stops \in SUBSET (1..n)
  PROVE  /\ LastOf(stops) \in 0..n
         /\ LastOf(stops) # 0 => LastOf(stops) \in stops
         /\ \A k \in stops : k <= LastOf(stops)
<1> DEFINE S == {0} \cup stops
<1>1. S \in SUBSET Nat /\ S # {} /\ \A s \in S : s <= n
  OBVIOUS
<1>2. IsFiniteSet(S)
  BY <1>1, FS_BoundedSetOfNaturals
<1>3. Max(S) \in S /\ \A s \in S : s <= Max(S)
  BY <1>1, <1>2, MaxOfFinite
<1>4. LastOf(stops) = Max(S)
  BY DEF LastOf
<1>5. LastOf(stops) \in S /\ \A s \in S : s <= LastOf(stops)
  BY <1>3, <1>4
<1> HIDE DEF S
<1>6. \A s \in S : s = 0 \/ s \in stops
  BY DEF S
<1>7. stops \subseteq S
  BY DEF S
<1>8. LastOf(stops) = 0 \/ LastOf(stops) \in stops
  BY <1>5, <1>6
<1>9. \A k \in stops : k \in 0..n /\ k <= LastOf(stops)
  BY <1>5, <1>7
<1>10. LastOf(stops) \in 0..n
  <2>1. 0 \in 0..n
    OBVIOUS
  <2> QED
    BY <1>8, <1>9, <2>1, Zenon
<1> QED
  BY <1>8, <1>9, <1>10

(* The items before the k-th, and those after it. *)
Before(q, k) == SubSeq(q, 1, k - 1)
After(q, k)  == SubSeq(q, k + 1, Len(q))

Replaced(q, k, x) == [q EXCEPT ![k] = x]

(* A queue, cut before and after one of its items. *)
LEMMA SplitAt ==
  ASSUME NEW I, NEW q \in Seq(I), NEW k \in 1..Len(q)
  PROVE  /\ Before(q, k) \in Seq(I) /\ After(q, k) \in Seq(I)
         /\ Len(After(q, k)) = Len(q) - k
         /\ \A j \in 1..(Len(q) - k) : After(q, k)[j] = q[k + j]
         /\ \A x \in I : Replaced(q, k, x) = (Before(q, k) \o <<x>>) \o After(q, k)
<1> SUFFICES ASSUME NEW x \in I
             PROVE  /\ Before(q, k) \in Seq(I) /\ After(q, k) \in Seq(I)
                    /\ Len(After(q, k)) = Len(q) - k
                    /\ \A j \in 1..(Len(q) - k) : After(q, k)[j] = q[k + j]
                    /\ Replaced(q, k, x) = (Before(q, k) \o <<x>>) \o After(q, k)
  <2>1. q[k] \in I
    OBVIOUS
  <2> QED
    BY <2>1
<1> DEFINE a == SubSeq(q, 1, k - 1)
           b == SubSeq(q, k + 1, Len(q))
           s == [q EXCEPT ![k] = x]
           o == <<x>>
           c == a \o o
           r == c \o b
<1>1. a \in Seq(I) /\ Len(a) = k - 1 /\ \A j \in 1..(k - 1) : a[j] = q[j]
  OBVIOUS
<1>2. b \in Seq(I) /\ Len(b) = Len(q) - k /\ \A j \in 1..(Len(q) - k) : b[j] = q[k + j]
  OBVIOUS
<1>3. s \in Seq(I) /\ Len(s) = Len(q) /\ s[k] = x /\ \A j \in 1..Len(q) : j # k => s[j] = q[j]
  OBVIOUS
<1>o. o \in Seq(I) /\ Len(o) = 1 /\ o[1] = x
  OBVIOUS
<1> HIDE DEF a, b, s, o
<1>c. c \in Seq(I) /\ Len(c) = k /\ c[k] = x /\ \A j \in 1..(k - 1) : c[j] = q[j]
  <2>1. k \in Nat /\ k - 1 \in Nat /\ Len(a) + Len(o) = k
    BY <1>1, <1>o
  <2>2. /\ c \in Seq(I) /\ Len(c) = Len(a) + Len(o)
        /\ \A j \in 1..(Len(a) + Len(o)) : c[j] = IF j <= Len(a) THEN a[j] ELSE o[j - Len(a)]
    BY <1>1, <1>o, ConcatProperties, Zenon
  <2> HIDE DEF c
  <2>3. c[k] = o[k - Len(a)] /\ k - Len(a) = 1
    BY <1>1, <2>1, <2>2
  <2>4. ASSUME NEW j \in 1..(k - 1) PROVE c[j] = a[j]
    <3>1. j \in 1..(Len(a) + Len(o)) /\ j <= Len(a)
      BY <1>1, <2>1
    <3> QED
      BY <3>1, <2>2
  <2> QED
    BY <1>1, <1>o, <2>1, <2>2, <2>3, <2>4
<1> HIDE DEF c
<1>4. r \in Seq(I) /\ Len(r) = Len(q)
  <2>1. r \in Seq(I) /\ Len(r) = Len(c) + Len(b)
    BY <1>2, <1>c, ConcatProperties, Zenon
  <2> HIDE DEF r
  <2> QED
    BY <1>2, <1>c, <2>1
<1>e. \A j \in 1..Len(q) : r[j] = IF j <= k THEN c[j] ELSE b[j - k]
  <2>1. Len(c) + Len(b) = Len(q)
    BY <1>2, <1>c
  <2>2. \A j \in 1..(Len(c) + Len(b)) : r[j] = IF j <= Len(c) THEN c[j] ELSE b[j - Len(c)]
    BY <1>2, <1>c, ConcatProperties, Zenon
  <2> HIDE DEF r
  <2> QED
    BY <1>c, <2>1, <2>2
<1>5. ASSUME NEW j \in 1..Len(q)
      PROVE  r[j] = s[j]
  <2> HIDE DEF r
  <2>1. CASE j < k
    BY <1>3, <1>c, <1>e, <2>1
  <2>2. CASE j = k
    BY <1>3, <1>c, <1>e, <2>2
  <2>3. CASE j > k
    <3>1. r[j] = b[j - k]
      BY <1>c, <1>e, <2>3
    <3>2. j - k \in 1..(Len(q) - k) /\ k + (j - k) = j
      BY <2>3
    <3> QED
      BY <1>2, <1>3, <3>1, <3>2, <2>3
  <2> QED
    BY <2>1, <2>2, <2>3
<1>6. r = s
  <2> HIDE DEF r
  <2> QED
    BY <1>3, <1>4, <1>5, SeqEqual
<1> QED
  BY <1>1, <1>2, <1>6 DEF a, b, c, o, s, Before, After, Replaced

(* A write joins the queue. *)
LEMMA JoinWriteReaches ==
  ASSUME NEW N, NEW V, NEW q \in Seq(Items(N, V)), NEW i \in Items(N, V), i.op = "write",
         NEW fs, NEW gs, Reaches(q, fs, gs), Applicable(i, gs)
  PROVE  JoinWrite(q, i) \in Seq(Items(N, V)) /\ Reaches(JoinWrite(q, i), fs, Applied(i, gs))
<1> DEFINE I == Items(N, V)
           stops == {k \in DOMAIN q : q[k].op \in {"delete", "truncate"} \/ q[k].file = i.file}
           at == LastOf(stops)
<1>1. DOMAIN q = 1..Len(q) /\ Len(q) \in Nat /\ \A k \in 1..Len(q) : q[k] \in I
  OBVIOUS
<1>2. /\ at \in 0..Len(q)
      /\ at # 0 => at \in stops
      /\ \A k \in stops : k <= at
  <2>1. stops \in SUBSET (1..Len(q))
    BY <1>1
  <2> HIDE DEF stops
  <2> QED
    BY <1>1, <2>1, LastOfIs
<1>3. CASE at > 0 /\ q[at].op = "write"
  <2>1. at \in 1..Len(q) /\ q[at].file = i.file /\ \A k \in 1..Len(q) : k > at => q[k].file # i.file
    <3> HIDE DEF at
    <3>1. at \in stops
      BY <1>2, <1>3
    <3>2. at \in 1..Len(q) /\ q[at].file = i.file
      BY <1>1, <1>3, <3>1
    <3> QED
      BY <1>1, <1>2, <3>2
  <2> DEFINE w == q[at]
             m == Merged(w, i)
             a == Before(q, at)
             b == After(q, at)
             aw == a \o <<w>>
             am == a \o <<m>>
  <2>2. w \in I /\ w.op = "write" /\ w.file = i.file
    BY <1>1, <1>3, <2>1
  <2>3. m \in I
    <3>1. PICK f : Applicable(w, [x \in {f} |-> {}])
      BY <2>2 DEF Applicable
    <3> QED
      BY <2>2, <3>1, WritesMerge
  <2>4. /\ a \in Seq(I) /\ b \in Seq(I) /\ Len(b) = Len(q) - at
        /\ \A j \in 1..(Len(q) - at) : b[j] = q[at + j]
        /\ Replaced(q, at, m) = am \o b
        /\ Replaced(q, at, w) = aw \o b
    <3> HIDE DEF m, w, at, I
    <3>1. q \in Seq(I)
      BY DEF I
    <3>2. Replaced(q, at, m) = am \o b
      BY <2>1, <2>3, <3>1, SplitAt
    <3>4. a \in Seq(I) /\ b \in Seq(I) /\ Len(b) = Len(q) - at
      BY <2>1, <2>2, <3>1, SplitAt
    <3>5. \A j \in 1..(Len(q) - at) : b[j] = q[at + j]
      BY <2>1, <2>2, <3>1, SplitAt, Zenon
    <3>3. Replaced(q, at, w) = aw \o b
      BY <2>1, <2>2, <3>1, SplitAt
    <3> QED
      BY <3>2, <3>3, <3>4, <3>5
  <2>5. Replaced(q, at, w) = q
    BY DEF Replaced
  <2>6. JoinWrite(q, i) = Replaced(q, at, m)
    BY <1>3 DEF JoinWrite, Merged, Replaced
  <2> HIDE DEF at, w, m, a, b, aw, am, I, stops
  <2>7. <<w>> \in Seq(I) /\ <<m>> \in Seq(I) /\ aw \in Seq(I) /\ am \in Seq(I)
    BY <2>2, <2>3, <2>4 DEF aw, am
  <2>8. PICK hs : Reaches(aw, fs, hs) /\ Reaches(b, hs, gs)
    BY <2>4, <2>5, <2>7, ReachesConcat
  <2>9. PICK es : Reaches(a, fs, es) /\ Reaches(<<w>>, es, hs)
    BY <2>4, <2>7, <2>8, ReachesConcat DEF aw
  <2>10. Applicable(w, es) /\ hs = Applied(w, es)
    BY <2>9, ReachesOne
  <2>11. Applicable(m, es) /\ Applicable(i, hs) /\ Applied(m, es) = Applied(i, hs)
    BY <2>2, <2>10, WritesMerge DEF I, m
  <2>12. Reaches(<<m>>, es, Applied(i, hs))
    BY <2>11, ReachesOne
  <2>13. Reaches(am, fs, Applied(i, hs))
    BY <2>4, <2>7, <2>9, <2>12, ReachesConcat DEF am
  <2>14. Reaches(b, Applied(i, hs), Applied(i, gs))
    <3>1. \A k \in 1..Len(b) : b[k].file # i.file
      <4> TAKE k \in 1..Len(b)
      <4>1. b[k] = q[at + k] /\ at + k \in 1..Len(q) /\ at + k > at
        BY <1>1, <2>1, <2>4
      <4> QED
        BY <2>1, <4>1
    <3> QED
      BY <2>4, <2>8, <2>11, <3>1, ReachesAround DEF I
  <2>15. Reaches(am \o b, fs, Applied(i, gs))
    BY <2>4, <2>7, <2>13, <2>14, ReachesConcat
  <2>16. am \o b \in Seq(I)
    BY <2>4, <2>7, ConcatProperties
  <2>17. JoinWrite(q, i) = am \o b
    BY <2>4, <2>6
  <2> QED
    BY <2>15, <2>16, <2>17 DEF I
<1>4. CASE ~(at > 0 /\ q[at].op = "write")
  <2>1. JoinWrite(q, i) = Append(q, i)
    BY <1>4 DEF JoinWrite
  <2>2. Append(q, i) \in Seq(I)
    OBVIOUS
  <2> HIDE DEF I
  <2>3. Reaches(Append(q, i), fs, Applied(i, gs))
    BY ReachesAppend DEF I
  <2> QED
    BY <2>1, <2>2, <2>3 DEF I
<1> QED
  BY <1>3, <1>4

-----------------------------------------------------------------------------
(* A delete that joins the queue *)

(* What is left of the first n items. *)
LeftSteps(q, gone, n, g) ==
  /\ g[0] = <<>>
  /\ \A k \in 1..n : g[k] = IF k \in gone THEN g[k - 1] ELSE Append(g[k - 1], q[k])

IsLeft(q, gone, g) ==
  g = [k \in 0..Len(q) |->
         IF k = 0 THEN <<>> ELSE IF k \in gone THEN g[k - 1] ELSE Append(g[k - 1], q[k])]

(* Without is the last of its steps. *)
LEMMA WithoutUnfolds ==
  ASSUME NEW q, Len(q) \in Nat, NEW gone
  PROVE  \E g : LeftSteps(q, gone, Len(q), g) /\ Without(q, gone) = g[Len(q)]
<1> DEFINE S == {n \in Nat : \E g : LeftSteps(q, gone, n, g)}
<1>1. 0 \in S
  <2> DEFINE g == [k \in 0..0 |-> <<>>]
  <2>1. LeftSteps(q, gone, 0, g)
    BY DEF LeftSteps
  <2> QED
    BY <2>1
<1>2. ASSUME NEW n \in 1..Len(q), n - 1 \in S
      PROVE  n \in S
  <2>1. PICK g : LeftSteps(q, gone, n - 1, g)
    BY <1>2
  <2> DEFINE x == IF n \in gone THEN g[n - 1] ELSE Append(g[n - 1], q[n])
             h == [k \in 0..n |-> IF k = n THEN x ELSE g[k]]
  <2>2. LeftSteps(q, gone, n, h)
    BY <2>1 DEF LeftSteps
  <2> QED
    BY <2>2
<1>3. PICK h : LeftSteps(q, gone, Len(q), h)
  <2> HIDE DEF S
  <2>1. \A k \in 0..Len(q) : k \in S
    BY <1>1, <1>2, UpTo
  <2> QED
    BY <2>1 DEF S
<1>4. \E g : IsLeft(q, gone, g)
  <2> DEFINE g == [k \in 0..Len(q) |-> h[k]]
             e(k) == IF k = 0 THEN <<>>
                     ELSE IF k \in gone THEN g[k - 1] ELSE Append(g[k - 1], q[k])
  <2>1. \A k \in 0..Len(q) : h[k] = e(k)
    BY <1>3 DEF LeftSteps
  <2>2. g = [k \in 0..Len(q) |-> e(k)]
    BY <2>1, Zenon
  <2> QED
    BY <2>2, Zenon DEF IsLeft
<1> DEFINE f == CHOOSE g : IsLeft(q, gone, g)
<1>5. IsLeft(q, gone, f)
  BY <1>4, Zenon
<1>6. Without(q, gone) = f[Len(q)]
  BY Zenon DEF Without, IsLeft
<1>7. LeftSteps(q, gone, Len(q), f)
  <2> HIDE DEF f
  <2>1. \A k \in 0..Len(q) :
          f[k] = IF k = 0 THEN <<>>
                 ELSE IF k \in gone THEN f[k - 1] ELSE Append(f[k - 1], q[k])
    BY <1>5, Zenon DEF IsLeft
  <2>2. 0 \in 0..Len(q) /\ \A k \in 1..Len(q) : k \in 0..Len(q) /\ k # 0
    OBVIOUS
  <2> QED
    BY <2>1, <2>2, Zenon DEF LeftSteps
<1> QED
  BY <1>6, <1>7

(* The files after each item are files. *)
LEMMA ReachesFiles ==
  ASSUME NEW N, NEW V, NEW q \in Seq(Items(N, V)), NEW fs, NEW t, IsFiles(fs), Leads(q, fs, t)
  PROVE  /\ \A k \in 0..Len(q) : IsFiles(t[k])
         /\ \A k \in 1..Len(q) : Effect(q[k], t[k - 1], t[k])
<1>1. ASSUME NEW k \in 1..Len(q)
      PROVE  Effect(q[k], t[k - 1], t[k])
  <2>1. q[k] \in Items(N, V)
    OBVIOUS
  <2> QED
    BY <2>1, AppliedIs DEF Leads
<1>2. \A k \in 1..Len(q) : IsFiles(t[k])
  BY <1>1 DEF Effect
<1>3. IsFiles(t[0])
  BY DEF Leads
<1>4. \A k \in 0..Len(q) : k = 0 \/ k \in 1..Len(q)
  OBVIOUS
<1> QED
  BY <1>1, <1>2, <1>3, <1>4

(* The file was created in the queue: neither that nor what followed is    *)
(* needed.                                                                 *)
LEMMA CreatedInQueue ==
  ASSUME NEW N, NEW V, NEW q \in Seq(Items(N, V)), NEW i \in Items(N, V), i.op = "delete",
         NEW fs, NEW gs, IsFiles(fs), Reaches(q, fs, gs),
         NEW at \in 1..Len(q), q[at].op = "create", q[at].file = i.file,
         \A k \in 1..Len(q) : k > at /\ q[k].file = i.file => q[k].op = "write",
         NEW gone, gone = {k \in DOMAIN q : q[k].file = i.file /\ (k > at \/ (k = at /\ q[k].op = "create"))}
  PROVE  Without(q, gone) \in Seq(Items(N, V)) /\ Reaches(Without(q, gone), fs, Applied(i, gs))
<1> DEFINE I == Items(N, V)
           n == Len(q)
           f == i.file
<1>1. n \in Nat /\ DOMAIN q = 1..n /\ at \in 1..n /\ (\A k \in 1..n : q[k] \in I)
  OBVIOUS
<1>2. PICK t : Leads(q, fs, t) /\ t[n] = gs
  BY <1>1, ReachesLeads
<1>3. /\ \A k \in 0..n : IsFiles(t[k])
      /\ \A k \in 1..n : Effect(q[k], t[k - 1], t[k]) /\ Applicable(q[k], t[k - 1])
                         /\ t[k] = Applied(q[k], t[k - 1])
  BY <1>2, ReachesFiles DEF Leads
<1>4. PICK g : LeftSteps(q, gone, n, g) /\ Without(q, gone) = g[n]
  BY <1>1, WithoutUnfolds
<1>5. g[0] = <<>> /\ \A k \in 1..n : g[k] = IF k \in gone THEN g[k - 1] ELSE Append(g[k - 1], q[k])
  BY <1>4 DEF LeftSteps
<1>6. \A k \in 1..n : k \in gone <=> q[k].file = f /\ k >= at
  BY <1>1
<1> DEFINE u(k) == IF k < at THEN t[k] ELSE Applied(i, t[k])
           S == {k \in 0..n : /\ g[k] \in Seq(I) /\ Reaches(g[k], fs, u(k))
                              /\ k >= at => Applicable(i, t[k])}
<1>7. 0 \in S
  <2>1. <<>> \in Seq(I) /\ 0 \in 0..n /\ 0 < at
    BY <1>1
  <2>2. Reaches(<<>>, fs, t[0])
    BY <1>2, ReachesNone DEF Leads
  <2>3. u(0) = t[0] /\ ~(0 >= at) /\ g[0] = <<>>
    BY <1>1, <1>5
  <2> HIDE DEF u
  <2> QED
    BY <2>1, <2>2, <2>3
<1> HIDE DEF I, n, f
<1>8. ASSUME NEW k \in 1..n, k - 1 \in S
      PROVE  k \in S
  <2>1. k - 1 \in 0..n /\ g[k - 1] \in Seq(I) /\ Reaches(g[k - 1], fs, u(k - 1))
    BY <1>8
  <2>2. /\ Effect(q[k], t[k - 1], t[k]) /\ Applicable(q[k], t[k - 1]) /\ t[k] = Applied(q[k], t[k - 1])
        /\ IsFiles(t[k - 1]) /\ IsFiles(t[k]) /\ q[k] \in I
    BY <1>1, <1>3, <2>1
  <2> SUFFICES /\ g[k] \in Seq(I) /\ Reaches(g[k], fs, u(k))
               /\ k >= at => Applicable(i, t[k])
    BY <1>1
  <2> HIDE DEF S
  <2>3. CASE k < at
    <3>1. u(k) = t[k] /\ u(k - 1) = t[k - 1] /\ k \notin gone /\ ~(k >= at)
      BY <1>1, <1>6, <2>3
    <3>2. g[k] = Append(g[k - 1], q[k])
      BY <1>5, <3>1
    <3> HIDE DEF u
    <3>3. Reaches(g[k], fs, t[k]) /\ g[k] \in Seq(I)
      BY <2>1, <2>2, <3>1, <3>2, ReachesAppend
    <3> QED
      BY <3>1, <3>3
  <2>4. CASE k = at
    <3>1. u(k) = Applied(i, t[k]) /\ u(k - 1) = t[k - 1] /\ k \in gone
      BY <1>1, <1>6, <2>4 DEF f
    <3>2. Applicable(i, t[k])
      BY <2>2, <2>4 DEF Effect, Applicable
    <3>3. Effect(i, t[k], Applied(i, t[k]))
      BY <3>2, AppliedIs
    <3>4. Applied(i, t[k]) = t[k - 1]
      <4> DEFINE r == Applied(i, t[k])
      <4> HIDE DEF r
      <4>1. Effect(i, t[k], r) /\ q[k].op = "create" /\ q[k].file = i.file
        BY <2>4, <3>3 DEF r
      <4>2. IsFiles(r) /\ DOMAIN r = DOMAIN t[k - 1]
        BY <2>2, <4>1 DEF Effect
      <4>3. \A x \in DOMAIN r : r[x] = t[k - 1][x]
        BY <2>2, <4>1, <4>2 DEF Effect
      <4> QED
        BY <2>2, <4>2, <4>3, SameFiles DEF r
    <3>5. g[k] = g[k - 1]
      BY <1>5, <3>1
    <3> QED
      BY <2>1, <3>1, <3>2, <3>4, <3>5
  <2>5. CASE k > at
    <3>1. u(k) = Applied(i, t[k]) /\ u(k - 1) = Applied(i, t[k - 1])
      BY <1>1, <2>5
    <3>2. Applicable(i, t[k - 1])
      BY <1>1, <1>8, <2>5 DEF S
    <3> HIDE DEF u
    <3>3. CASE q[k].file = f
      <4>1. q[k].op = "write" /\ k \in gone
        BY <1>1, <1>6, <2>5, <3>3 DEF f, n
      <4>2. Applicable(i, t[k])
        BY <2>2, <3>2, <4>1 DEF Effect, Applicable
      <4>3. Effect(i, t[k], Applied(i, t[k])) /\ Effect(i, t[k - 1], Applied(i, t[k - 1]))
        BY <3>2, <4>2, AppliedIs
      <4>4. Applied(i, t[k]) = Applied(i, t[k - 1])
        <5> DEFINE r == Applied(i, t[k])
                   s == Applied(i, t[k - 1])
        <5> HIDE DEF r, s
        <5>1. Effect(i, t[k], r) /\ Effect(i, t[k - 1], s)
          BY <4>3 DEF r, s
        <5>2. IsFiles(r) /\ IsFiles(s) /\ DOMAIN r = DOMAIN s /\ \A x \in DOMAIN r : r[x] = s[x]
          BY <2>2, <3>3, <4>1, <5>1 DEF Effect, f
        <5> QED
          BY <5>2, SameFiles DEF r, s
      <4>5. g[k] = g[k - 1]
        BY <1>5, <4>1
      <4> QED
        BY <2>1, <3>1, <4>2, <4>4, <4>5
    <3>4. CASE q[k].file # f
      <4>1. k \notin gone
        BY <1>6, <3>4
      <4>2. Applicable(i, t[k])
        BY <2>2, <3>2, <3>4 DEF Effect, Applicable, f
      <4>3. /\ Applicable(q[k], Applied(i, t[k - 1]))
            /\ Applied(q[k], Applied(i, t[k - 1])) = Applied(i, t[k])
        BY <2>2, <3>4, <4>2, ItemsCommute DEF I, f
      <4>4. g[k] = Append(g[k - 1], q[k])
        BY <1>5, <4>1
      <4>5. Reaches(g[k], fs, Applied(i, t[k])) /\ g[k] \in Seq(I)
        BY <2>1, <2>2, <3>1, <4>3, <4>4, ReachesAppend
      <4> QED
        BY <3>1, <4>2, <4>5
    <3> QED
      BY <3>3, <3>4
  <2> QED
    BY <1>1, <2>3, <2>4, <2>5
<1>9. n \in S
  <2>1. \A k \in 0..n : k \in S
    <3> HIDE DEF S
    <3> QED
      BY <1>1, <1>7, <1>8, UpTo
  <2> QED
    BY <1>1, <2>1
<1>10. u(n) = Applied(i, gs)
  BY <1>1, <1>2
<1> QED
  BY <1>4, <1>9, <1>10 DEF I

(* What is queued for the file was written to it since it was there.       *)
LEMMA DeletedInQueue ==
  ASSUME NEW N, NEW V, NEW q \in Seq(Items(N, V)), NEW i \in Items(N, V), i.op = "delete",
         NEW fs, NEW gs, IsFiles(fs), Reaches(q, fs, gs), Applicable(i, gs),
         NEW at \in 0..Len(q), at # 0 => q[at].op = "truncate",
         \A k \in 1..Len(q) : k > at /\ q[k].file = i.file => q[k].op = "write",
         NEW gone, gone = {k \in DOMAIN q : q[k].file = i.file /\ (k > at \/ (k = at /\ q[k].op = "create"))}
  PROVE  /\ Append(Without(q, gone), i) \in Seq(Items(N, V))
         /\ Reaches(Append(Without(q, gone), i), fs, Applied(i, gs))
<1> DEFINE I == Items(N, V)
           n == Len(q)
           f == i.file
<1>1. n \in Nat /\ DOMAIN q = 1..n /\ at \in 0..n /\ (\A k \in 1..n : q[k] \in I)
  OBVIOUS
<1>2. PICK t : Leads(q, fs, t) /\ t[n] = gs
  BY <1>1, ReachesLeads
<1>3. /\ \A k \in 0..n : IsFiles(t[k])
      /\ \A k \in 1..n : Effect(q[k], t[k - 1], t[k]) /\ Applicable(q[k], t[k - 1])
                         /\ t[k] = Applied(q[k], t[k - 1])
  BY <1>2, ReachesFiles DEF Leads
<1>4. PICK g : LeftSteps(q, gone, n, g) /\ Without(q, gone) = g[n]
  BY <1>1, WithoutUnfolds
<1>5. g[0] = <<>> /\ \A k \in 1..n : g[k] = IF k \in gone THEN g[k - 1] ELSE Append(g[k - 1], q[k])
  BY <1>4 DEF LeftSteps
<1>6. \A k \in 1..n : k \in gone <=> q[k].file = f /\ k > at
  BY <1>1
<1> DEFINE Like(u, v) == /\ IsFiles(u) /\ DOMAIN u = DOMAIN v
                         /\ \A x \in DOMAIN u \ {f} : u[x] = v[x]
           S == {k \in 0..n : /\ g[k] \in Seq(I)
                              /\ \E u : /\ Reaches(g[k], fs, u) /\ Like(u, t[k])
                                        /\ k <= at => u = t[k]}
<1>7. 0 \in S
  <2>1. <<>> \in Seq(I) /\ 0 \in 0..n /\ g[0] = <<>>
    BY <1>1, <1>5
  <2>2. Reaches(<<>>, fs, t[0]) /\ t[0] = fs
    BY <1>2, ReachesNone DEF Leads
  <2>3. Like(t[0], t[0])
    BY <2>2
  <2> HIDE DEF Like
  <2> QED
    BY <2>1, <2>2, <2>3
<1> HIDE DEF I, n, f
<1>8. ASSUME NEW k \in 1..n, k - 1 \in S
      PROVE  k \in S
  <2>1. PICK u : /\ k - 1 \in 0..n /\ g[k - 1] \in Seq(I) /\ Reaches(g[k - 1], fs, u)
                 /\ Like(u, t[k - 1]) /\ (k - 1 <= at => u = t[k - 1])
    BY <1>8
  <2>2. /\ Effect(q[k], t[k - 1], t[k]) /\ Applicable(q[k], t[k - 1]) /\ t[k] = Applied(q[k], t[k - 1])
        /\ IsFiles(t[k - 1]) /\ IsFiles(t[k]) /\ q[k] \in I
    BY <1>1, <1>3, <2>1
  <2> SUFFICES ASSUME TRUE
               PROVE  /\ g[k] \in Seq(I)
                      /\ \E v : Reaches(g[k], fs, v) /\ Like(v, t[k]) /\ (k <= at => v = t[k])
    BY <1>1
  <2> HIDE DEF S
  <2>3. CASE k <= at
    <3>1. u = t[k - 1] /\ k \notin gone
      BY <1>1, <1>6, <2>1, <2>3
    <3>2. g[k] = Append(g[k - 1], q[k])
      BY <1>5, <3>1
    <3>3. Reaches(g[k], fs, t[k]) /\ g[k] \in Seq(I)
      BY <2>1, <2>2, <3>1, <3>2, ReachesAppend
    <3>4. Like(t[k], t[k])
      BY <2>2
    <3> HIDE DEF Like
    <3> QED
      BY <3>3, <3>4
  <2>4. CASE k > at /\ q[k].file = f
    <3>1. q[k].op = "write" /\ k \in gone /\ ~(k <= at)
      BY <1>1, <1>6, <2>4 DEF f, n
    <3>2. g[k] = g[k - 1]
      BY <1>5, <3>1
    <3>3. Like(u, t[k])
      BY <2>1, <2>2, <2>4, <3>1 DEF Effect
    <3> HIDE DEF Like
    <3> QED
      BY <2>1, <3>1, <3>2, <3>3
  <2>5. CASE k > at /\ q[k].file # f
    <3>1. k \notin gone /\ ~(k <= at)
      BY <1>1, <1>6, <2>5
    <3>2. g[k] = Append(g[k - 1], q[k])
      BY <1>5, <3>1
    <3>3. Applicable(q[k], u)
      BY <2>1, <2>2 DEF Applicable
    <3> DEFINE v == Applied(q[k], u)
    <3>4. Effect(q[k], u, v)
      BY <2>2, <3>3, AppliedIs DEF I
    <3>5. Reaches(g[k], fs, v) /\ g[k] \in Seq(I)
      BY <2>1, <2>2, <3>2, <3>3, ReachesAppend
    <3> HIDE DEF v
    <3>6. Like(v, t[k])
      <4>1. IsFiles(v) /\ DOMAIN v = DOMAIN t[k]
        BY <2>1, <2>2, <3>4 DEF Effect
      <4>2. ASSUME NEW x \in DOMAIN v \ {f}
            PROVE  v[x] = t[k][x]
        <5>1. CASE x = q[k].file
          BY <2>1, <2>2, <2>5, <3>4, <4>1, <4>2, <5>1 DEF Effect, Ops
        <5>2. CASE x # q[k].file
          BY <2>1, <2>2, <3>4, <4>1, <4>2, <5>2 DEF Effect, Ops
        <5> QED
          BY <5>1, <5>2
      <4> QED
        BY <4>1, <4>2
    <3> HIDE DEF Like
    <3> QED
      BY <3>1, <3>5, <3>6
  <2> QED
    BY <1>1, <2>3, <2>4, <2>5
<1>9. n \in S
  <2>1. \A k \in 0..n : k \in S
    <3> HIDE DEF S
    <3> QED
      BY <1>1, <1>7, <1>8, UpTo
  <2> QED
    BY <1>1, <2>1
<1>10. PICK u : g[n] \in Seq(I) /\ Reaches(g[n], fs, u) /\ Like(u, gs)
  BY <1>2, <1>9
<1>11. Applicable(i, u)
  BY <1>10 DEF Applicable
<1> DEFINE r == Applied(i, u)
           s == Applied(i, gs)
<1>12. Effect(i, u, r) /\ Effect(i, gs, s)
  BY <1>11, AppliedIs
<1> HIDE DEF r, s, S
<1>13. IsFiles(r) /\ IsFiles(s) /\ DOMAIN r = DOMAIN s /\ \A x \in DOMAIN r : r[x] = s[x]
  BY <1>10, <1>12 DEF Effect, f
<1>14. r = s
  BY <1>13, SameFiles
<1> HIDE DEF Like
<1>15. i \in I
  BY DEF I
<1>16. Append(g[n], i) \in Seq(I) /\ Reaches(Append(g[n], i), fs, Applied(i, u))
  BY <1>10, <1>11, <1>15, ReachesAppend
<1> QED
  BY <1>4, <1>14, <1>16 DEF I, r, s

(* A deletion joins the queue. *)
LEMMA JoinDeleteReaches ==
  ASSUME NEW N, NEW V, NEW q \in Seq(Items(N, V)), NEW i \in Items(N, V), i.op = "delete",
         NEW fs, NEW gs, IsFiles(fs), Reaches(q, fs, gs), Applicable(i, gs)
  PROVE  JoinDelete(q, i) \in Seq(Items(N, V)) /\ Reaches(JoinDelete(q, i), fs, Applied(i, gs))
<1> DEFINE I == Items(N, V)
           n == Len(q)
           f == i.file
           stops == {k \in DOMAIN q : q[k].op = "truncate" \/ (q[k].file = f /\ q[k].op # "write")}
           at == LastOf(stops)
           gone == {k \in DOMAIN q : q[k].file = f /\ (k > at \/ (k = at /\ q[k].op = "create"))}
<1>1. DOMAIN q = 1..n /\ n \in Nat /\ \A k \in 1..n : q[k] \in I
  OBVIOUS
<1>2. at \in 0..n /\ (at # 0 => at \in stops) /\ \A k \in stops : k <= at
  <2>1. stops \in SUBSET (1..n)
    BY <1>1
  <2> HIDE DEF stops
  <2> QED
    BY <1>1, <2>1, LastOfIs
<1>3. JoinDelete(q, i) = IF at > 0 /\ q[at].op # "truncate"
                         THEN Without(q, gone) ELSE Append(Without(q, gone), i)
  BY DEF JoinDelete
<1> HIDE DEF at
<1>4. \A k \in 1..n : k > at /\ q[k].file = f => q[k].op = "write"
  BY <1>1, <1>2
<1>5. CASE at = 0 \/ q[at].op = "truncate"
  <2>1. JoinDelete(q, i) = Append(Without(q, gone), i)
    BY <1>2, <1>3, <1>5
  <2> QED
    BY <1>2, <1>4, <1>5, <2>1, DeletedInQueue
<1>6. CASE at # 0 /\ q[at].op = "create"
  <2>1. JoinDelete(q, i) = Without(q, gone) /\ at \in 1..n /\ q[at].file = f
    BY <1>1, <1>2, <1>3, <1>6
  <2> QED
    BY <1>4, <1>6, <2>1, CreatedInQueue
<1>7. CASE at # 0 /\ q[at].op = "delete"
  <2>1. at \in 1..n /\ q[at].file = f /\ q[at].op = "delete"
    BY <1>1, <1>2, <1>7
  <2>2. PICK t : Leads(q, fs, t) /\ t[n] = gs
    BY <1>1, ReachesLeads
  <2>3. \A k \in 1..n : Effect(q[k], t[k - 1], t[k])
    BY <2>2, ReachesFiles
  <2> DEFINE S == {k \in 0..n : k >= at => f \notin DOMAIN t[k]}
  <2>4. 0 \in S
    BY <1>1, <2>1
  <2>5. ASSUME NEW k \in 1..n, k - 1 \in S
        PROVE  k \in S
    <3>1. CASE k < at
      BY <1>1, <2>1, <3>1
    <3>2. CASE k = at
      <4>1. Effect(q[k], t[k - 1], t[k]) /\ q[k].op = "delete" /\ q[k].file = f
        BY <2>1, <2>3, <3>2
      <4>2. f \notin DOMAIN t[k]
        BY <4>1 DEF Effect
      <4> QED
        BY <4>2
    <3>3. CASE k > at
      <4>1. Effect(q[k], t[k - 1], t[k]) /\ f \notin DOMAIN t[k - 1]
        BY <1>1, <2>1, <2>3, <2>5, <3>3
      <4>2. q[k].file = f => q[k].op = "write"
        BY <1>4, <3>3
      <4>3. f \notin DOMAIN t[k]
        BY <4>1, <4>2 DEF Effect
      <4> QED
        BY <4>3
    <3> QED
      BY <1>1, <2>1, <3>1, <3>2, <3>3
  <2>6. \A k \in 0..n : k \in S
    <3> HIDE DEF S
    <3> QED
      BY <1>1, <2>4, <2>5, UpTo
  <2>7. f \notin DOMAIN gs
    BY <1>1, <2>1, <2>2, <2>6
  <2> QED
    BY <2>7 DEF Applicable
<1>8. at # 0 => q[at].op \in {"truncate", "create", "delete"}
  <2>1. at # 0 => at \in 1..n /\ q[at] \in I /\ (q[at].op = "truncate" \/ q[at].op # "write")
    BY <1>1, <1>2
  <2> QED
    BY <2>1 DEF Items
<1> QED
  BY <1>5, <1>6, <1>7, <1>8

(* An item that can be applied to the files a queue leads to can join the  *)
(* queue: it then leads to what the item makes of them.                    *)
LEMMA JoinReaches ==
  ASSUME NEW N, NEW V, NEW q \in Seq(Items(N, V)), NEW i \in Items(N, V),
         NEW fs, NEW gs, IsFiles(fs), Reaches(q, fs, gs), Applicable(i, gs)
  PROVE  Join(q, i) \in Seq(Items(N, V)) /\ Reaches(Join(q, i), fs, Applied(i, gs))
<1>1. CASE i.op = "write"
  BY <1>1, JoinWriteReaches DEF Join
<1>2. CASE i.op = "delete"
  BY <1>2, JoinDeleteReaches DEF Join
<1>3. CASE i.op \notin {"write", "delete"}
  <2>1. Join(q, i) = Append(q, i)
    BY <1>3 DEF Join
  <2>2. Append(q, i) \in Seq(Items(N, V))
    OBVIOUS
  <2> QED
    BY <2>1, <2>2, ReachesAppend
<1> QED
  BY <1>1, <1>2, <1>3

-----------------------------------------------------------------------------
(* Changes, batches and the end of the worker *)

(* IndexedDB holds the files disk, the batch that is being written makes   *)
(* mid of them, and what is queued makes the files in memory of those.     *)
Faithful(N, V, mid) ==
  /\ inflight \in Seq(Items(N, V)) /\ pending \in Seq(Items(N, V))
  /\ IsFiles(disk)
  /\ Reaches(inflight, disk, mid) /\ Reaches(pending, mid, files)
  /\ inflight = <<>> => pending = <<>>

(* What items make of files are files. *)
LEMMA ReachesIsFiles ==
  ASSUME NEW N, NEW V, NEW q \in Seq(Items(N, V)), NEW fs, NEW gs, IsFiles(fs), Reaches(q, fs, gs)
  PROVE  IsFiles(gs)
<1>1. Len(q) \in Nat
  OBVIOUS
<1>2. PICK t : Leads(q, fs, t) /\ t[Len(q)] = gs
  BY <1>1, ReachesLeads
<1>3. Len(q) \in 0..Len(q)
  BY <1>1
<1> QED
  BY <1>2, <1>3, ReachesFiles

(* Items lead to one result. *)
LEMMA ReachesOnly ==
  ASSUME NEW q, NEW fs, NEW gs, NEW hs, Reaches(q, fs, gs), Reaches(q, fs, hs)
  PROVE  gs = hs
<1>1. [ok |-> TRUE, files |-> gs] = [ok |-> TRUE, files |-> hs]
  BY Zenon DEF Reaches
<1> QED
  BY <1>1

(* The first item of a queue. *)
LEMMA JoinNone ==
  ASSUME NEW i
  PROVE  Join(<<>>, i) = <<i>>
<1>1. LastOf({}) = 0
  <2>1. {} \in SUBSET (1..0) /\ 0 \in Nat
    OBVIOUS
  <2>2. LastOf({}) \in 0..0
    BY <2>1, LastOfIs
  <2> QED
    BY <2>2
<1>2. Without(<<>>, {}) = <<>>
  <2> DEFINE q == <<>>
  <2>1. Len(q) = 0 /\ Len(q) \in Nat
    OBVIOUS
  <2> HIDE DEF q
  <2>2. PICK g : LeftSteps(q, {}, Len(q), g) /\ Without(q, {}) = g[Len(q)]
    BY <2>1, WithoutUnfolds
  <2>3. Without(q, {}) = <<>>
    BY <2>1, <2>2 DEF LeftSteps
  <2> QED
    BY <2>3 DEF q
<1>3. JoinWrite(<<>>, i) = <<i>>
  <2>1. {k \in DOMAIN <<>> : <<>>[k].op \in {"delete", "truncate"} \/ <<>>[k].file = i.file} = {}
    OBVIOUS
  <2> QED
    BY <1>1, <2>1 DEF JoinWrite
<1>4. JoinDelete(<<>>, i) = <<i>>
  <2> DEFINE q == <<>>
             stops == {k \in DOMAIN q : q[k].op = "truncate" \/ (q[k].file = i.file /\ q[k].op # "write")}
             at == LastOf(stops)
             gone == {k \in DOMAIN q : q[k].file = i.file /\ (k > at \/ (k = at /\ q[k].op = "create"))}
  <2>1. stops = {} /\ gone = {} /\ Append(q, i) = <<i>>
    OBVIOUS
  <2>2. JoinDelete(q, i) = IF at > 0 /\ q[at].op # "truncate"
                           THEN Without(q, gone) ELSE Append(Without(q, gone), i)
    BY DEF JoinDelete
  <2> HIDE DEF gone, stops, q
  <2>3. at = 0
    BY <1>1, <2>1
  <2>4. Without(q, gone) = q
    BY <1>2, <2>1 DEF q
  <2> HIDE DEF at
  <2>5. JoinDelete(q, i) = Append(Without(q, gone), i)
    BY <2>2, <2>3
  <2>6. JoinDelete(q, i) = <<i>>
    BY <2>1, <2>4, <2>5
  <2> QED
    BY <2>6 DEF q
<1> QED
  BY <1>3, <1>4 DEF Join

ChangeSteps(items, s, n, g) ==
  /\ g[0] = s
  /\ \A k \in 1..n : g[k] = Changed(g[k - 1], items[k])

IsChange(items, s, g) ==
  g = [k \in 0..Len(items) |-> IF k = 0 THEN s ELSE Changed(g[k - 1], items[k])]

Now == [files |-> files, pending |-> pending, inflight |-> inflight]

(* Change is the last of its steps. *)
LEMMA ChangeUnfolds ==
  ASSUME NEW items, Len(items) \in Nat, Change(items)
  PROVE  \E g : /\ ChangeSteps(items, Now, Len(items), g)
                /\ files' = g[Len(items)].files
                /\ pending' = g[Len(items)].pending
                /\ inflight' = g[Len(items)].inflight
<1> DEFINE S == {n \in Nat : \E g : ChangeSteps(items, Now, n, g)}
<1>1. 0 \in S
  <2> DEFINE g == [k \in 0..0 |-> Now]
  <2>1. ChangeSteps(items, Now, 0, g)
    BY DEF ChangeSteps
  <2> QED
    BY <2>1
<1>2. ASSUME NEW n \in 1..Len(items), n - 1 \in S
      PROVE  n \in S
  <2>1. PICK g : ChangeSteps(items, Now, n - 1, g)
    BY <1>2
  <2> DEFINE x == Changed(g[n - 1], items[n])
             h == [k \in 0..n |-> IF k = n THEN x ELSE g[k]]
  <2>2. ChangeSteps(items, Now, n, h)
    BY <2>1 DEF ChangeSteps
  <2> QED
    BY <2>2
<1>3. PICK h : ChangeSteps(items, Now, Len(items), h)
  <2> HIDE DEF S
  <2>1. \A k \in 0..Len(items) : k \in S
    BY <1>1, <1>2, UpTo
  <2> QED
    BY <2>1 DEF S
<1>4. \E g : IsChange(items, Now, g)
  <2> DEFINE g == [k \in 0..Len(items) |-> h[k]]
             e(k) == IF k = 0 THEN Now ELSE Changed(g[k - 1], items[k])
  <2>1. \A k \in 0..Len(items) : h[k] = e(k)
    BY <1>3 DEF ChangeSteps
  <2>2. g = [k \in 0..Len(items) |-> e(k)]
    BY <2>1, Zenon
  <2> QED
    BY <2>2, Zenon DEF IsChange
<1> DEFINE f == CHOOSE g : IsChange(items, Now, g)
<1>5. IsChange(items, Now, f)
  BY <1>4, Zenon
<1>6. /\ files' = f[Len(items)].files
      /\ pending' = f[Len(items)].pending
      /\ inflight' = f[Len(items)].inflight
  BY Zenon DEF Change, IsChange, Now
<1>7. ChangeSteps(items, Now, Len(items), f)
  <2> HIDE DEF f
  <2>1. \A k \in 0..Len(items) :
          f[k] = IF k = 0 THEN Now ELSE Changed(f[k - 1], items[k])
    BY <1>5, Zenon DEF IsChange
  <2>2. 0 \in 0..Len(items) /\ \A k \in 1..Len(items) : k \in 0..Len(items) /\ k # 0
    OBVIOUS
  <2> QED
    BY <2>1, <2>2, Zenon DEF ChangeSteps
<1> QED
  BY <1>6, <1>7, Zenon

(* Memory changes as it should, whatever has become of the batches.        *)
LEMMA ChangeFiles ==
  ASSUME NEW items, Len(items) \in Nat, NEW t, Leads(items, files, t), Change(items)
  PROVE  files' = t[Len(items)] /\ disk' = disk /\ intact' = intact
<1>1. PICK g : ChangeSteps(items, Now, Len(items), g) /\ files' = g[Len(items)].files
  BY ChangeUnfolds
<1> DEFINE S == {k \in 0..Len(items) : g[k].files = t[k]}
<1>2. 0 \in S
  BY <1>1 DEF ChangeSteps, Now, Leads
<1>3. ASSUME NEW k \in 1..Len(items), k - 1 \in S
      PROVE  k \in S
  <2>1. g[k] = Changed(g[k - 1], items[k]) /\ t[k] = Applied(items[k], t[k - 1])
    BY <1>1 DEF ChangeSteps, Leads
  <2> QED
    BY <1>3, <2>1 DEF Changed
<1>4. \A k \in 0..Len(items) : k \in S
  <2> HIDE DEF S
  <2> QED
    BY <1>2, <1>3, UpTo
<1>5. disk' = disk /\ intact' = intact
  BY DEF Change
<1> QED
  BY <1>1, <1>4, <1>5

(* Changes that can be made in memory are made in the queue, too: what is  *)
(* being written stays, or is the first of them if nothing was.            *)
LEMMA ChangeStep ==
  ASSUME NEW N, NEW V, NEW mid, Faithful(N, V, mid),
         NEW items \in Seq(Items(N, V)), NEW t, Leads(items, files, t), Change(items)
  PROVE  /\ files' = t[Len(items)] /\ disk' = disk
         /\ \E m : /\ Faithful(N, V, m)'
                   /\ m = mid \/ (items # <<>> /\ m = t[1])
<1> DEFINE I == Items(N, V)
           n == Len(items)
           m(k) == IF inflight = <<>> /\ k > 0 THEN t[1] ELSE mid
           Holds(s, k) == /\ s.files = t[k]
                          /\ s.inflight \in Seq(I) /\ s.pending \in Seq(I)
                          /\ Reaches(s.inflight, disk, m(k)) /\ Reaches(s.pending, m(k), s.files)
                          /\ s.inflight = <<>> => s.pending = <<>>
                          /\ s.inflight = <<>> <=> (inflight = <<>> /\ k = 0)
<1>1. n \in Nat /\ \A k \in 1..n : items[k] \in I
  OBVIOUS
<1>2. PICK g : /\ ChangeSteps(items, Now, n, g)
               /\ files' = g[n].files /\ pending' = g[n].pending /\ inflight' = g[n].inflight
  BY <1>1, ChangeUnfolds
<1>3. /\ t[0] = files
      /\ \A k \in 1..n : Applicable(items[k], t[k - 1]) /\ t[k] = Applied(items[k], t[k - 1])
  BY DEF Leads
<1>4. /\ inflight \in Seq(I) /\ pending \in Seq(I) /\ IsFiles(disk)
      /\ Reaches(inflight, disk, mid) /\ Reaches(pending, mid, files)
      /\ inflight = <<>> => pending = <<>>
  BY DEF Faithful
<1>5. IsFiles(mid)
  BY <1>4, ReachesIsFiles
<1>6. inflight = <<>> => mid = disk /\ files = disk
  <2> SUFFICES ASSUME inflight = <<>> PROVE mid = disk /\ files = disk
    OBVIOUS
  <2>1. Reaches(<<>>, disk, disk) /\ Reaches(<<>>, mid, mid)
    BY ReachesNone
  <2>2. Reaches(<<>>, disk, mid) /\ Reaches(<<>>, mid, files)
    BY <1>4
  <2> QED
    BY <2>1, <2>2, ReachesOnly
<1> DEFINE S == {k \in 0..n : Holds(g[k], k)}
<1>7. 0 \in S
  <2>1. g[0] = Now /\ Now.files = files /\ Now.pending = pending /\ Now.inflight = inflight
    BY <1>2 DEF ChangeSteps, Now
  <2>2. m(0) = mid
    OBVIOUS
  <2> HIDE DEF m
  <2>3. Holds(g[0], 0)
    BY <1>3, <1>4, <2>1, <2>2
  <2> HIDE DEF Holds
  <2> QED
    BY <1>1, <2>3
<1> HIDE DEF n, I
<1>8. ASSUME NEW k \in 1..n, k - 1 \in S
      PROVE  k \in S
  <2> DEFINE s == g[k - 1]
             i == items[k]
             q == Join(s.pending, i)
  <2>1. g[k] = Changed(s, i)
    BY <1>2 DEF ChangeSteps
  <2>2. Holds(s, k - 1)
    BY <1>8
  <2>3. i \in I /\ Applicable(i, t[k - 1]) /\ t[k] = Applied(i, t[k - 1])
    BY <1>1, <1>3
  <2> HIDE DEF S, s, i
  <2>4. /\ g[k].files = t[k]
        /\ g[k].pending = IF s.inflight = <<>> THEN <<>> ELSE q
        /\ g[k].inflight = IF s.inflight = <<>> THEN q ELSE s.inflight
    BY <2>1, <2>2, <2>3 DEF Changed
  <2>5. CASE inflight = <<>> /\ k = 1
    <3>1. s.inflight = <<>> /\ s.pending = <<>> /\ m(k) = t[1] /\ t[k - 1] = files /\ files = disk
      BY <1>3, <1>6, <2>2, <2>5
    <3>2. q = <<i>>
      BY <3>1, JoinNone
    <3>3. Reaches(<<i>>, disk, t[k]) /\ Reaches(<<>>, t[k], t[k])
      BY <2>3, <3>1, ReachesOne, ReachesNone
    <3>4. <<i>> \in Seq(I) /\ <<>> \in Seq(I) /\ <<i>> # <<>>
      BY <2>3
    <3>5. g[k].files = t[k] /\ g[k].pending = <<>> /\ g[k].inflight = <<i>> /\ m(k) = t[k]
      BY <2>4, <2>5, <3>1, <3>2
    <3> HIDE DEF m
    <3>6. Holds(g[k], k)
      BY <2>5, <3>3, <3>4, <3>5
    <3> HIDE DEF Holds
    <3> QED
      BY <3>6 DEF S
  <2>6. CASE ~(inflight = <<>> /\ k = 1)
    <3>1. s.inflight # <<>> /\ m(k - 1) = m(k) /\ (inflight = <<>> => k > 1)
      BY <2>2, <2>6
    <3>2. IsFiles(m(k))
      <4>1. Reaches(s.inflight, disk, m(k)) /\ s.inflight \in Seq(I)
        BY <2>2, <3>1
      <4> HIDE DEF m
      <4> QED
        BY <1>4, <4>1, ReachesIsFiles DEF I
    <3>3. s.pending \in Seq(I) /\ Reaches(s.pending, m(k), t[k - 1])
      BY <2>2, <3>1
    <3>4. Reaches(s.inflight, disk, m(k)) /\ s.inflight \in Seq(I)
      BY <2>2, <3>1
    <3> HIDE DEF m, q
    <3>5. q \in Seq(I) /\ Reaches(q, m(k), t[k])
      BY <2>3, <3>2, <3>3, JoinReaches DEF I, q
    <3>6. g[k].files = t[k] /\ g[k].pending = q /\ g[k].inflight = s.inflight
      BY <2>4, <3>1
    <3>7. ~(inflight = <<>> /\ k = 0)
      BY <1>1
    <3>8. Holds(g[k], k)
      BY <3>1, <3>4, <3>5, <3>6, <3>7
    <3> HIDE DEF Holds
    <3> QED
      BY <3>8 DEF S
  <2> QED
    BY <2>5, <2>6
<1>9. Holds(g[n], n)
  <2>1. \A k \in 0..n : k \in S
    <3> HIDE DEF S
    <3> QED
      BY <1>1, <1>7, <1>8, UpTo
  <2> HIDE DEF Holds
  <2> QED
    BY <1>1, <2>1
<1>10. disk' = disk
  BY DEF Change
<1>11. files' = t[n]
  BY <1>2, <1>9
<1>12. PICK e : e = m(n)
  OBVIOUS
<1>13. Faithful(N, V, e)'
  <2>1. inflight' \in Seq(I) /\ pending' \in Seq(I)
    BY <1>2, <1>9
  <2>2. Reaches(inflight', disk, e) /\ Reaches(pending', e, files')
    BY <1>2, <1>9, <1>12
  <2>3. inflight' = <<>> => pending' = <<>>
    BY <1>2, <1>9
  <2> QED
    BY <1>4, <1>10, <2>1, <2>2, <2>3 DEF Faithful, I
<1>14. e = mid \/ (items # <<>> /\ e = t[1])
  <2>1. items = <<>> => n = 0
    BY DEF n
  <2> QED
    BY <1>12, <2>1
<1> HIDE DEF m
<1> QED
  BY <1>10, <1>11, <1>13, <1>14 DEF n

(* A batch ends, and the next one starts. *)
LEMMA BatchStep ==
  ASSUME NEW N, NEW V, NEW mid, Faithful(N, V, mid), BatchDone
  PROVE  (intact => intact') /\ disk' = mid /\ \E m : m = files /\ Faithful(N, V, m)'
<1>1. disk' = mid /\ (intact => intact')
  <2>1. Outcome(inflight, disk) = [ok |-> TRUE, files |-> mid]
    BY DEF Faithful, Reaches
  <2>2. Outcome(inflight, disk).ok = TRUE /\ Outcome(inflight, disk).files = mid
    BY <2>1
  <2>3. disk' = mid
    BY <2>2 DEF BatchDone
  <2>4. intact => intact'
    BY <2>2, Zenon DEF BatchDone
  <2> QED
    BY <2>3, <2>4
<1>2. IsFiles(mid)
  BY ReachesIsFiles DEF Faithful
<1>3. /\ inflight' = pending /\ pending' = <<>> /\ files' = files
      /\ <<>> \in Seq(Items(N, V)) /\ pending \in Seq(Items(N, V))
  BY DEF BatchDone, BatchEnds, Faithful
<1>4. PICK m : m = files
  OBVIOUS
<1>5. Reaches(inflight', disk', m) /\ Reaches(pending', m, files')
  BY <1>1, <1>3, <1>4, ReachesNone DEF Faithful
<1>6. Faithful(N, V, m)'
  BY <1>1, <1>2, <1>3, <1>5 DEF Faithful
<1> QED
  BY <1>1, <1>4, <1>6

(* The worker ends, with or without the batch. *)
LEMMA StopFilesStep ==
  ASSUME NEW N, NEW V, NEW mid, Faithful(N, V, mid), StopFiles
  PROVE  /\ disk' \in {disk, mid} /\ files' = disk'
         /\ \E m : m = disk' /\ Faithful(N, V, m)'
<1>1. disk' \in {disk, mid} /\ files' = disk' /\ inflight' = <<>> /\ pending' = <<>>
  BY DEF StopFiles, Faithful, Reaches
<1>2. IsFiles(disk')
  BY <1>1, ReachesIsFiles DEF Faithful
<1>3. PICK m : m = disk'
  OBVIOUS
<1>4. Reaches(<<>>, m, m)
  BY ReachesNone
<1>5. Faithful(N, V, m)'
  BY <1>1, <1>2, <1>3, <1>4 DEF Faithful
<1> QED
  BY <1>1, <1>3, <1>5

(* Faithful is what the runs check of every state. *)
LEMMA FaithfulQueue ==
  ASSUME NEW N, NEW V, NEW mid, Faithful(N, V, mid)
  PROVE  QueueIsFaithful
<1>1. Reaches(inflight \o pending, disk, files)
  BY ReachesConcat DEF Faithful
<1> QED
  BY <1>1 DEF Reaches, QueueIsFaithful

(* Joining the queue (the work items of web/sqflite_sw.js) makes it        *)
(* shorter and changes nothing else: items that can all be applied, one    *)
(* after the other, lead to the same files when the last of them has       *)
(* joined the others.                                                      *)
THEOREM JoiningChangesNothing ==
  ASSUME NEW N, NEW V, NEW q \in Seq(Items(N, V)), NEW i \in Items(N, V),
         NEW fs, IsFiles(fs),
         NEW hs, Outcome(Append(q, i), fs) = [ok |-> TRUE, files |-> hs]
  PROVE  Outcome(Join(q, i), fs) = [ok |-> TRUE, files |-> hs]
<1>1. Append(q, i) = q \o <<i>> /\ <<i>> \in Seq(Items(N, V))
  OBVIOUS
<1>2. PICK gs : Reaches(q, fs, gs) /\ Reaches(<<i>>, gs, hs)
  <2>1. Reaches(q \o <<i>>, fs, hs)
    BY <1>1 DEF Reaches
  <2> QED
    BY <1>1, <2>1, ReachesConcat
<1>3. Applicable(i, gs) /\ hs = Applied(i, gs)
  BY <1>2, ReachesOne
<1>4. Reaches(Join(q, i), fs, hs)
  BY <1>2, <1>3, JoinReaches
<1> QED
  BY <1>4 DEF Reaches


-----------------------------------------------------------------------------
(* The pages of a set, in order *)

(* InOrder lists a set. *)
LEMMA InOrderIs ==
  ASSUME NEW S, IsFiniteSet(S)
  PROVE  /\ InOrder(S) \in Seq(S)
         /\ \A x \in S : \E k \in 1..Len(InOrder(S)) : InOrder(S)[k] = x
<1> DEFINE n == Cardinality(S)
           q == InOrder(S)
<1>1. n \in Nat /\ ExistsBijection(1..n, S)
  BY FS_CardinalityType
<1>2. q = CHOOSE f \in [1..n -> S] : IsInjective(f)
  BY DEF InOrder, SetToSeq
<1>3. \E f \in [1..n -> S] : IsInjective(f)
  BY <1>1 DEF ExistsBijection, Bijection, Injection
<1> HIDE DEF n, q
<1>4. q \in [1..n -> S] /\ IsInjective(q)
  BY <1>2, <1>3
<1>5. IsFiniteSet(1..n) /\ Cardinality(1..n) = n
  BY <1>1, FS_Interval
<1>6. q \in Surjection(1..n, S)
  <2>1. q \in Injection(1..n, S)
    BY <1>4 DEF Injection
  <2>2. Cardinality(1..n) = Cardinality(S)
    BY <1>5 DEF n
  <2> QED
    BY <2>1, <2>2, FS_Injection
<1>7. \A x \in S : \E k \in 1..n : q[k] = x
  BY <1>6 DEF Surjection
<1>8. q \in Seq(S) /\ Len(q) = n
  BY <1>1, <1>4
<1> QED
  BY <1>7, <1>8 DEF q

-----------------------------------------------------------------------------
(* The files of a database *)

(* The names and the values of the files. *)
Names   == {Database, Journal}
Headers == [records : SUBSET Pages, size : Nat]
Values  == (SUBSET Works) \cup Headers

At(d, p) == IF p \in DOMAIN d THEN d[p] ELSE {}

DatabaseOK(d) == d \in [DOMAIN d -> SUBSET Works] /\ DOMAIN d \subseteq Pages

(* The header of the journal lists pages that the journal holds. *)
JournalOK(j) ==
  /\ j = [b \in DOMAIN j |-> j[b]] /\ DOMAIN j \subseteq {0} \cup Pages
  /\ 0 \in DOMAIN j /\ j[0] \in Headers /\ j[0].records \subseteq DOMAIN j \ {0}
  /\ \A p \in DOMAIN j \ {0} : j[p] \in SUBSET Works /\ p <= j[0].size

FilesOK(fs) ==
  /\ IsFiles(fs) /\ DOMAIN fs \subseteq Names
  /\ Database \in DOMAIN fs => DatabaseOK(fs[Database])
  /\ Journal \in DOMAIN fs =>
       \/ fs[Journal] = Empty
       \/ Database \in DOMAIN fs /\ JournalOK(fs[Journal])

(* What a rollback of the journal makes of the pages. *)
Restored(fs) ==
  [p \in Pages |->
     IF ~HasHeader(fs) THEN Block(fs, Database, p)
     ELSE IF p \in fs[Journal][0].records THEN fs[Journal][p]
     ELSE IF p > fs[Journal][0].size THEN {}
     ELSE Block(fs, Database, p)]

(* The same of the contents of the two files. *)
Only(d)    == [f \in {Database} |-> d]
Both(d, j) == [f \in Names |-> IF f = Database THEN d ELSE j]

Shown(d)   == [p \in Pages |-> At(d, p)]
Back(d, j) == [p \in Pages |-> IF p \in j[0].records THEN j[p]
                               ELSE IF p > j[0].size THEN {} ELSE At(d, p)]
SizeOf(d)  == Max({0} \cup DOMAIN d)

(* Pages are positive numbers, and there are finitely many. *)
LEMMA PagesAre ==
  /\ \A p \in Pages : p \in Nat /\ p # 0
  /\ \A S \in SUBSET Pages : IsFiniteSet(S)
<1>1. \A p \in Pages : p \in Nat /\ p # 0
  BY PagesAssumption
<1>2. \A S \in SUBSET Pages : IsFiniteSet(S)
  BY PagesAssumption, FS_Subset
<1> QED
  BY <1>1, <1>2

(* A database's size is its last page. *)
LEMMA SizeIs ==
  ASSUME NEW d, DatabaseOK(d)
  PROVE  SizeOf(d) \in Nat /\ \A p \in DOMAIN d : p <= SizeOf(d)
<1> DEFINE S == {0} \cup DOMAIN d
<1>1. S \in SUBSET Nat /\ S # {}
  BY PagesAre DEF DatabaseOK
<1>2. IsFiniteSet(S)
  <2>1. IsFiniteSet(DOMAIN d) /\ IsFiniteSet({0})
    BY PagesAre, FS_Singleton DEF DatabaseOK
  <2> QED
    BY <2>1, FS_Union
<1>3. Max(S) \in S /\ \A s \in S : s <= Max(S)
  BY <1>1, <1>2, MaxOfFinite
<1> QED
  BY <1>1, <1>3 DEF SizeOf

(* A database without a journal. *)
LEMMA OnlyIs ==
  ASSUME NEW d
  PROVE  /\ IsFiles(Only(d)) /\ DOMAIN Only(d) = {Database} /\ Only(d)[Database] = d
         /\ ~HasHeader(Only(d)) /\ Size(Only(d)) = SizeOf(d)
         /\ Restored(Only(d)) = Shown(d)
         /\ DatabaseOK(d) => FilesOK(Only(d))
<1>1. IsFiles(Only(d)) /\ DOMAIN Only(d) = {Database} /\ Only(d)[Database] = d
  BY DEF Only, IsFiles
<1>2. ~HasHeader(Only(d)) /\ Size(Only(d)) = SizeOf(d)
  BY <1>1, FilesAssumption DEF HasHeader, Size, SizeOf
<1>3. Restored(Only(d)) = Shown(d)
  BY <1>1, <1>2 DEF Restored, Shown, Block, At
<1>4. DatabaseOK(d) => FilesOK(Only(d))
  BY <1>1, FilesAssumption DEF FilesOK, Names
<1> QED
  BY <1>1, <1>2, <1>3, <1>4

(* A database with a journal. *)
LEMMA BothIs ==
  ASSUME NEW d, NEW j
  PROVE  LET fs == Both(d, j)
         IN  /\ IsFiles(fs) /\ DOMAIN fs = Names
             /\ fs[Database] = d /\ fs[Journal] = j
             /\ HasHeader(fs) <=> 0 \in DOMAIN j
             /\ Size(fs) = SizeOf(d)
             /\ \A p : Block(fs, Database, p) = At(d, p)
             /\ Restored(fs) = IF 0 \in DOMAIN j THEN Back(d, j) ELSE Shown(d)
             /\ DatabaseOK(d) /\ (j = Empty \/ JournalOK(j)) => FilesOK(fs)
<1> DEFINE fs == Both(d, j)
<1>1. IsFiles(fs) /\ DOMAIN fs = Names /\ fs[Database] = d /\ fs[Journal] = j
  BY FilesAssumption DEF Both, IsFiles, Names
<1>2. Database \in Names /\ Journal \in Names
  BY DEF Names
<1> HIDE DEF fs
<1>3. (HasHeader(fs) <=> 0 \in DOMAIN j) /\ Size(fs) = SizeOf(d)
  BY <1>1, <1>2 DEF HasHeader, Size, SizeOf
<1>4. \A p : Block(fs, Database, p) = At(d, p)
  BY <1>1, <1>2 DEF Block, At
<1>5. Restored(fs) = IF 0 \in DOMAIN j THEN Back(d, j) ELSE Shown(d)
  <2>1. CASE 0 \in DOMAIN j
    BY <1>1, <1>3, <1>4, <2>1 DEF Restored, Back
  <2>2. CASE 0 \notin DOMAIN j
    BY <1>1, <1>3, <1>4, <2>2 DEF Restored, Shown
  <2> QED
    BY <2>1, <2>2
<1>6. DatabaseOK(d) /\ (j = Empty \/ JournalOK(j)) => FilesOK(fs)
  BY <1>1, <1>2 DEF FilesOK
<1> QED
  BY <1>1, <1>3, <1>4, <1>5, <1>6 DEF fs

(* What there may be. *)
LEMMA FilesAre ==
  ASSUME NEW fs, FilesOK(fs)
  PROVE  /\ Database \in DOMAIN fs => DatabaseOK(fs[Database])
         /\ HasHeader(fs) => /\ Database \in DOMAIN fs /\ JournalOK(fs[Journal])
                             /\ fs = Both(fs[Database], fs[Journal])
         /\ Database \in DOMAIN fs /\ Journal \in DOMAIN fs => fs = Both(fs[Database], fs[Journal])
         /\ Database \in DOMAIN fs /\ Journal \notin DOMAIN fs => fs = Only(fs[Database])
         /\ Journal \in DOMAIN fs /\ ~HasHeader(fs) => fs[Journal] = Empty
<1>1. IsFiles(fs) /\ DOMAIN fs \subseteq Names
  BY DEF FilesOK
<1>2. Database \in DOMAIN fs => DatabaseOK(fs[Database])
  BY DEF FilesOK
<1>3. Database \in DOMAIN fs /\ Journal \in DOMAIN fs => fs = Both(fs[Database], fs[Journal])
  <2> SUFFICES ASSUME Database \in DOMAIN fs, Journal \in DOMAIN fs
               PROVE  fs = Both(fs[Database], fs[Journal])
    OBVIOUS
  <2>1. DOMAIN fs = Names
    BY <1>1 DEF Names
  <2>2. \A f \in Names : fs[f] = Both(fs[Database], fs[Journal])[f]
    BY BothIs DEF Names
  <2> QED
    BY <1>1, <2>1, <2>2, BothIs, SameFiles
<1>4. Database \in DOMAIN fs /\ Journal \notin DOMAIN fs => fs = Only(fs[Database])
  <2> SUFFICES ASSUME Database \in DOMAIN fs, Journal \notin DOMAIN fs
               PROVE  fs = Only(fs[Database])
    OBVIOUS
  <2>1. DOMAIN fs = {Database}
    BY <1>1 DEF Names
  <2>2. \A f \in {Database} : fs[f] = Only(fs[Database])[f]
    BY OnlyIs
  <2> QED
    BY <1>1, <2>1, <2>2, OnlyIs, SameFiles
<1>5. Journal \in DOMAIN fs => fs[Journal] = Empty \/ (Database \in DOMAIN fs /\ JournalOK(fs[Journal]))
  BY DEF FilesOK
<1>6. 0 \notin DOMAIN Empty
  BY DEF Empty
<1>7. HasHeader(fs) => Database \in DOMAIN fs /\ JournalOK(fs[Journal])
  BY <1>5, <1>6 DEF HasHeader
<1>8. Journal \in DOMAIN fs /\ ~HasHeader(fs) => fs[Journal] = Empty
  BY <1>5 DEF HasHeader, JournalOK
<1> QED
  BY <1>2, <1>3, <1>4, <1>7, <1>8 DEF HasHeader

-----------------------------------------------------------------------------
(* What items do to the files of a database *)

(* A written block is an item. *)
LEMMA WriteBlockIs ==
  ASSUME NEW f \in Names, NEW b \in Nat, NEW v \in Values
  PROVE  /\ WriteBlock(f, b, v) \in Items(Names, Values)
         /\ WriteBlock(f, b, v) = WriteItem(f, [x \in {b} |-> v])
<1>1. [x \in {b} |-> v] \in Contents(Values)
  <2>1. [x \in {b} |-> v] \in [{b} -> Values] /\ {b} \in SUBSET Nat
    OBVIOUS
  <2> QED
    BY <2>1 DEF Contents
<1> QED
  BY <1>1 DEF WriteBlock, WriteItem, Items

(* Both files, after data is written to f. *)
Written(f, data, d, j) ==
  IF f = Database THEN Both(Over(data, d), j) ELSE Both(d, Over(data, j))

(* A write, to the database or to the journal. *)
LEMMA WriteBoth ==
  ASSUME NEW f \in Names, NEW data, NEW d, NEW j
  PROVE  /\ Applicable(WriteItem(f, data), Both(d, j))
         /\ Applied(WriteItem(f, data), Both(d, j)) = Written(f, data, d, j)
<1> DEFINE fs == Both(d, j)
           i  == WriteItem(f, data)
<1>1. i.op = "write" /\ i.file = f /\ i.data = data
  BY DEF WriteItem
<1>2. IsFiles(fs) /\ DOMAIN fs = Names /\ fs[Database] = d /\ fs[Journal] = j
  BY BothIs
<1> HIDE DEF fs, i
<1>3. Applicable(i, fs)
  BY <1>1, <1>2 DEF Applicable
<1>4. Applied(i, fs) = [fs EXCEPT ![f] = Over(data, @)]
  BY <1>1 DEF Applied
<1>5. IsFiles(Applied(i, fs)) /\ DOMAIN Applied(i, fs) = Names
  BY <1>2, <1>4 DEF IsFiles
<1> DEFINE gs == Written(f, data, d, j)
<1>6. IsFiles(gs) /\ DOMAIN gs = Names
  BY BothIs DEF Written
<1>7. \A g \in Names : Applied(i, fs)[g] = gs[g]
  <2>1. Applied(i, fs)[Database] = gs[Database]
    BY <1>2, <1>4, BothIs, FilesAssumption DEF Written, Names
  <2>2. Applied(i, fs)[Journal] = gs[Journal]
    BY <1>2, <1>4, BothIs, FilesAssumption DEF Written, Names
  <2> QED
    BY <2>1, <2>2 DEF Names
<1> HIDE DEF gs
<1>8. Applied(i, fs) = gs
  BY <1>5, <1>6, <1>7, SameFiles
<1> QED
  BY <1>3, <1>8 DEF fs, i, gs

(* The journal is deleted, which commits. *)
LEMMA DeleteJournal ==
  ASSUME NEW d, NEW j
  PROVE  /\ DeleteItem(Journal) \in Items(Names, Values)
         /\ Applicable(DeleteItem(Journal), Both(d, j))
         /\ Applied(DeleteItem(Journal), Both(d, j)) = Only(d)
<1>1. DeleteItem(Journal) \in Items(Names, Values) /\ Applicable(DeleteItem(Journal), Both(d, j))
  BY BothIs DEF DeleteItem, Items, Names, Applicable
<1>2. Applied(DeleteItem(Journal), Both(d, j))
        = [f \in DOMAIN Both(d, j) \ {Journal} |-> Both(d, j)[f]]
  BY DEF Applied, DeleteItem
<1>3. DOMAIN Both(d, j) \ {Journal} = {Database} /\ Both(d, j)[Database] = d
  BY BothIs, FilesAssumption DEF Names
<1> QED
  BY <1>1, <1>2, <1>3 DEF Only

(* The journal is created. *)
LEMMA CreateJournal ==
  ASSUME NEW d
  PROVE  /\ CreateItem(Journal) \in Items(Names, Values)
         /\ Applicable(CreateItem(Journal), Only(d))
         /\ Applied(CreateItem(Journal), Only(d)) = Both(d, Empty)
<1>1. CreateItem(Journal) \in Items(Names, Values) /\ Applicable(CreateItem(Journal), Only(d))
  BY OnlyIs, FilesAssumption DEF CreateItem, Items, Names, Applicable
<1>2. Applied(CreateItem(Journal), Only(d)) = Over([f \in {Journal} |-> Empty], Only(d))
  BY DEF Applied, CreateItem
<1>3. Over([f \in {Journal} |-> Empty], Only(d)) = Both(d, Empty)
  BY OnlyIs, FilesAssumption DEF Over, Both, Names
<1> QED
  BY <1>1, <1>2, <1>3

(* The database is cut. *)
LEMMA TruncateDatabase ==
  ASSUME NEW d, NEW j, NEW n \in Nat
  PROVE  /\ TruncateItem(Database, n) \in Items(Names, Values)
         /\ Applicable(TruncateItem(Database, n), Both(d, j))
         /\ Applied(TruncateItem(Database, n), Both(d, j)) = Both(Restricted(d, n), j)
<1> DEFINE fs == Both(d, j)
           i  == TruncateItem(Database, n)
           gs == Both(Restricted(d, n), j)
<1>1. i.op = "truncate" /\ i.file = Database /\ i.size = n
  BY DEF TruncateItem
<1>2. i \in Items(Names, Values)
  BY DEF TruncateItem, Items, Names
<1>3. IsFiles(fs) /\ DOMAIN fs = Names /\ fs[Database] = d /\ fs[Journal] = j
  BY BothIs
<1>4. IsFiles(gs) /\ DOMAIN gs = Names /\ gs[Database] = Restricted(d, n) /\ gs[Journal] = j
  BY BothIs
<1> HIDE DEF fs, i, gs
<1>5. Applicable(i, fs)
  BY <1>1, <1>3 DEF Applicable, Names
<1>6. Applied(i, fs) = [fs EXCEPT ![Database] = Restricted(d, n)]
  BY <1>1, <1>3 DEF Applied
<1>7. IsFiles(Applied(i, fs)) /\ DOMAIN Applied(i, fs) = Names
  BY <1>3, <1>6 DEF IsFiles
<1>8. \A g \in Names : Applied(i, fs)[g] = gs[g]
  BY <1>3, <1>4, <1>6, FilesAssumption DEF Names
<1>9. Applied(i, fs) = gs
  BY <1>4, <1>7, <1>8, SameFiles
<1> QED
  BY <1>2, <1>5, <1>9 DEF fs, i, gs

(* The blocks of a set are written one after the other. *)
IsWrites(items, f, S, v) ==
  items = [k \in DOMAIN InOrder(S) |-> WriteBlock(f, InOrder(S)[k], v[InOrder(S)[k]])]

IsFunction(d) == d = [b \in DOMAIN d |-> d[b]]

AreWritten(items, f, S, v, d, j) ==
  /\ f \in Names /\ S \in SUBSET Nat /\ IsFiniteSet(S) /\ v \in [S -> Values]
  /\ IsFunction(d) /\ IsFunction(j) /\ IsWrites(items, f, S, v)

WriteAll(items, f, S, v, d, j) ==
  /\ items \in Seq(Items(Names, Values))
  /\ items # <<>> => \E b \in S : items[1] = WriteBlock(f, b, v[b])
  /\ items = <<>> => S = {}
  /\ Reaches(items, Both(d, j), Written(f, v, d, j))

(* Writes of different blocks of a file, in any order. *)
LEMMA WritesReach ==
  ASSUME NEW items, NEW f, NEW S, NEW v, NEW d, NEW j, AreWritten(items, f, S, v, d, j)
  PROVE  WriteAll(items, f, S, v, d, j)
<1>a. f \in Names /\ S \in SUBSET Nat /\ IsFiniteSet(S) /\ v \in [S -> Values]
  BY Zenon DEF AreWritten
<1>b. IsFunction(d) /\ IsFunction(j) /\ IsWrites(items, f, S, v)
  BY Zenon DEF AreWritten
<1> USE <1>a, <1>b
<1> DEFINE q == InOrder(S)
           n == Len(q)
<1>1. q \in Seq(S) /\ \A x \in S : \E k \in 1..n : q[k] = x
  BY InOrderIs
<1>2. n \in Nat /\ DOMAIN q = 1..n /\ \A k \in 1..n : q[k] \in S
  BY <1>1
<1> HIDE DEF q, n
<1>3. items = [k \in 1..n |-> WriteBlock(f, q[k], v[q[k]])]
  BY <1>2 DEF q, IsWrites
<1>4. \A k \in 1..n : /\ items[k] \in Items(Names, Values)
                      /\ items[k] = WriteItem(f, [x \in {q[k]} |-> v[q[k]]])
  <2> TAKE k \in 1..n
  <2>1. q[k] \in Nat /\ v[q[k]] \in Values /\ items[k] = WriteBlock(f, q[k], v[q[k]])
    BY <1>2, <1>3
  <2> QED
    BY <2>1, WriteBlockIs
<1>5. items \in Seq(Items(Names, Values)) /\ Len(items) = n
  <2> DEFINE I == Items(Names, Values)
  <2>1. items \in [1..n -> I]
    <3>1. DOMAIN items = 1..n /\ items = [k \in DOMAIN items |-> items[k]]
      BY <1>3
    <3> HIDE DEF I
    <3> QED
      BY <3>1, <1>4 DEF I
  <2> HIDE DEF I
  <2>2. items \in Seq(I) /\ Len(items) = n
    BY <2>1, <1>2
  <2> QED
    BY <2>2 DEF I
<1>6. items # <<>> => \E b \in S : items[1] = WriteBlock(f, b, v[b])
  <2> SUFFICES ASSUME items # <<>>
               PROVE  \E b \in S : items[1] = WriteBlock(f, b, v[b])
    OBVIOUS
  <2>1. 1 \in 1..n
    BY <1>2, <1>5
  <2> QED
    BY <2>1, <1>2, <1>3
<1>7. items = <<>> => S = {}
  BY <1>1, <1>2, <1>5
<1>8. Reaches(items, Both(d, j), Written(f, v, d, j))
  <2> DEFINE Some(k) == [b \in {q[i] : i \in 1..k} |-> v[b]]
             t == [k \in 0..n |-> Written(f, Some(k), d, j)]
  <2>1. Over(Some(0), d) = d /\ Over(Some(0), j) = j
    <3> DEFINE e == Some(0)
    <3>1. DOMAIN e = {}
      OBVIOUS
    <3> HIDE DEF Some, e
    <3>2. ASSUME NEW c, IsFunction(c) PROVE Over(e, c) = c
      <4>1. Over(e, c) = [b \in DOMAIN c |-> c[b]]
        BY <3>1 DEF Over
      <4> QED
        BY <4>1, <3>2 DEF IsFunction
    <3> QED
      BY <3>2 DEF e
  <2>2. Some(n) = v
    <3>1. {q[i] : i \in 1..n} = S
      BY <1>1, <1>2
    <3> QED
      BY <3>1
  <2>3. ASSUME NEW k \in 1..n, NEW c
        PROVE  Over([x \in {q[k]} |-> v[q[k]]], Over(Some(k - 1), c)) = Over(Some(k), c)
    <3>1. {q[i] : i \in 1..k} = {q[k]} \cup {q[i] : i \in 1..(k - 1)}
      BY <1>2
    <3>2. Over([x \in {q[k]} |-> v[q[k]]], Some(k - 1)) = Some(k)
      BY <3>1 DEF Over
    <3> HIDE DEF Some
    <3> QED
      BY <3>2, OverTwice
  <2> HIDE DEF Some
  <2>4. t[0] = Both(d, j)
    BY <1>2, <2>1 DEF Written
  <2>5. ASSUME NEW k \in 1..n
        PROVE  Applicable(items[k], t[k - 1]) /\ t[k] = Applied(items[k], t[k - 1])
    <3> DEFINE x == [x \in {q[k]} |-> v[q[k]]]
    <3>1. t[k - 1] = Written(f, Some(k - 1), d, j) /\ t[k] = Written(f, Some(k), d, j)
      BY <1>2
    <3>2. items[k] = WriteItem(f, x)
      BY <1>4
    <3>3. Over(x, Over(Some(k - 1), d)) = Over(Some(k), d) /\ Over(x, Over(Some(k - 1), j)) = Over(Some(k), j)
      BY <2>3
    <3> HIDE DEF t, x
    <3>4. CASE f = Database
      BY <3>1, <3>2, <3>3, <3>4, WriteBoth DEF Written
    <3>5. CASE f # Database
      BY <3>1, <3>2, <3>3, <3>5, WriteBoth DEF Written
    <3> QED
      BY <3>4, <3>5
  <2>6. t[n] = Written(f, v, d, j)
    BY <1>2, <2>2
  <2> HIDE DEF t
  <2>7. Leads(items, Both(d, j), t)
    BY <1>5, <2>4, <2>5 DEF Leads
  <2> QED
    BY <1>2, <1>5, <2>6, <2>7, ReachesLeads
<1> QED
  BY <1>5, <1>6, <1>7, <1>8, Zenon DEF WriteAll

-----------------------------------------------------------------------------
(* What the pager does to the files *)

(* An item that alone leaves what a worker would start with. *)
Harmless(i, fs) == FilesOK(Applied(i, fs)) /\ Restored(Applied(i, fs)) = Restored(fs)

OnHeader(h) == [x \in {0} |-> h]

(* The journal is opened. *)
LEMMA HeaderIsHarmless ==
  ASSUME NEW d, DatabaseOK(d),
         NEW j, j = Over(OnHeader([records |-> {}, size |-> SizeOf(d)]), Empty)
  PROVE  /\ JournalOK(j) /\ Back(d, j) = Shown(d)
         /\ DOMAIN j = {0} /\ j[0] = [records |-> {}, size |-> SizeOf(d)]
<1>1. DOMAIN j = {0} /\ j[0] = [records |-> {}, size |-> SizeOf(d)]
  BY DEF Over, Empty, OnHeader
<1>2. j = [b \in DOMAIN j |-> j[b]]
  BY DEF Over
<1>3. SizeOf(d) \in Nat /\ \A p \in DOMAIN d : p <= SizeOf(d)
  BY SizeIs
<1>4. JournalOK(j)
  BY <1>1, <1>2, <1>3 DEF JournalOK, Headers
<1>5. \A p \in Pages : p > SizeOf(d) => At(d, p) = {}
  BY <1>3, PagesAre DEF At
<1>6. Back(d, j) = Shown(d)
  BY <1>1, <1>5 DEF Back, Shown
<1> QED
  BY <1>1, <1>4, <1>6

(* Pages are saved that the journal does not have. *)
LEMMA SavingIsHarmless ==
  ASSUME NEW d, NEW j, JournalOK(j), NEW R, NEW v,
         R \in SUBSET (Pages \ DOMAIN j), \A p \in R : p <= j[0].size,
         v \in [R -> SUBSET Works]
  PROVE  /\ JournalOK(Over(v, j)) /\ Back(d, Over(v, j)) = Back(d, j)
         /\ DOMAIN Over(v, j) = DOMAIN j \cup R /\ Over(v, j)[0] = j[0]
         /\ \A p \in R : Over(v, j)[p] = v[p]
         /\ \A p \in DOMAIN j : Over(v, j)[p] = j[p]
<1> DEFINE o == Over(v, j)
<1>1. /\ o = [b \in DOMAIN o |-> o[b]] /\ DOMAIN o = DOMAIN j \cup R
      /\ \A p \in R : o[p] = v[p]
      /\ \A p \in DOMAIN j : o[p] = j[p]
  BY DEF Over
<1>2. /\ DOMAIN j \subseteq {0} \cup Pages
      /\ 0 \in DOMAIN j /\ j[0] \in Headers /\ j[0].records \subseteq DOMAIN j \ {0}
      /\ \A p \in DOMAIN j \ {0} : j[p] \in SUBSET Works /\ p <= j[0].size
  BY DEF JournalOK
<1> HIDE DEF o
<1>3. o[0] = j[0]
  BY <1>1, <1>2
<1>4. JournalOK(o)
  BY <1>1, <1>2, <1>3 DEF JournalOK
<1>5. Back(d, o) = Back(d, j)
  BY <1>1, <1>2, <1>3 DEF Back
<1> QED
  BY <1>1, <1>3, <1>4, <1>5 DEF o

(* A record that does not count yet does not change what is restored. *)
LEMMA SavingOne ==
  ASSUME NEW d, NEW j, JournalOK(j), NEW x \in Pages \ DOMAIN j, x <= j[0].size,
         NEW w \in [{x} -> SUBSET Works]
  PROVE  JournalOK(Over(w, j)) /\ Back(d, Over(w, j)) = Back(d, j)
<1>1. PICK R : R = {x}
  OBVIOUS
<1>2. R \in SUBSET (Pages \ DOMAIN j) /\ (\A p \in R : p <= j[0].size) /\ w \in [R -> SUBSET Works]
  BY <1>1
<1> QED
  BY <1>2, SavingIsHarmless, ZenonT(60)

(* The header says that all records count. *)
LEMMA CountingIs ==
  ASSUME NEW j, JournalOK(j), NEW S \in SUBSET (DOMAIN j \ {0}), NEW o,
         o = Over(OnHeader([records |-> S, size |-> j[0].size]), j)
  PROVE  /\ JournalOK(o)
         /\ DOMAIN o = DOMAIN j /\ o[0] = [records |-> S, size |-> j[0].size]
         /\ \A p \in DOMAIN j \ {0} : o[p] = j[p]
<1>1. /\ DOMAIN j \subseteq {0} \cup Pages
      /\ 0 \in DOMAIN j /\ j[0] \in Headers /\ j[0].records \subseteq DOMAIN j \ {0}
      /\ \A p \in DOMAIN j \ {0} : j[p] \in SUBSET Works /\ p <= j[0].size
  BY DEF JournalOK
<1>2. /\ o = [b \in DOMAIN o |-> o[b]] /\ DOMAIN o = DOMAIN j
      /\ o[0] = [records |-> S, size |-> j[0].size]
      /\ \A p \in DOMAIN j \ {0} : o[p] = j[p]
  BY <1>1 DEF Over, OnHeader
<1>3. S \subseteq Pages /\ j[0].size \in Nat
  BY <1>1 DEF Headers
<1>4. JournalOK(o)
  BY <1>1, <1>2, <1>3 DEF JournalOK, Headers
<1> QED
  BY <1>2, <1>4

(* The journal once it is open, and with the pages saved that P changes. *)
JournalOpen ==
  IF HasHeader(files) THEN files[Journal]
  ELSE Over(OnHeader([records |-> {}, size |-> SizeBefore]), Empty)

JournalSaved(P) ==
  Over([p \in ToSave(P) |-> At(files[Database], p)], JournalOpen)

(* The header is a block of the journal. *)
LEMMA HeaderIs ==
  ASSUME NEW S \in SUBSET Pages, SizeBefore \in Nat
  PROVE  /\ Header(S) \in Items(Names, Values)
         /\ Header(S) = WriteItem(Journal, OnHeader([records |-> S, size |-> SizeBefore]))
<1>1. [records |-> S, size |-> SizeBefore] \in Values
  BY DEF Values, Headers
<1>2. Journal \in Names
  BY DEF Names
<1> QED
  BY <1>1, <1>2, WriteBlockIs DEF Header, OnHeader

(* The journal and the size, before a statement. *)
LEMMA BeforeIs ==
  ASSUME FilesOK(files), Database \in DOMAIN files
  PROVE  /\ DatabaseOK(files[Database])
         /\ SizeBefore \in Nat
         /\ JournalOK(JournalOpen) /\ JournalOpen[0].size = SizeBefore
         /\ DOMAIN JournalOpen = {0} \cup Saved /\ Saved \subseteq Pages
         /\ Back(files[Database], JournalOpen) = Restored(files)
         /\ \A P \in SUBSET Pages : /\ ToSave(P) \in SUBSET (Pages \ DOMAIN JournalOpen)
                                    /\ IsFiniteSet(ToSave(P))
                                    /\ \A p \in ToSave(P) : p <= SizeBefore
<1> DEFINE d == files[Database]
<1>1. DatabaseOK(d)
  BY FilesAre
<1>2. /\ SizeBefore \in Nat
      /\ JournalOK(JournalOpen) /\ JournalOpen[0].size = SizeBefore
      /\ DOMAIN JournalOpen = {0} \cup Saved /\ Saved \subseteq Pages
      /\ Back(d, JournalOpen) = Restored(files)
  <2>1. CASE HasHeader(files)
    <3> DEFINE j == files[Journal]
    <3>1. JournalOK(j) /\ files = Both(d, j)
      BY <2>1, FilesAre
    <3>2. JournalOpen = j /\ SizeBefore = j[0].size /\ Saved = DOMAIN j \ {0}
      BY <2>1 DEF JournalOpen, SizeBefore, Saved
    <3> HIDE DEF d, j
    <3>3. 0 \in DOMAIN j /\ DOMAIN j \subseteq {0} \cup Pages /\ j[0].size \in Nat
      BY <3>1 DEF JournalOK, Headers
    <3>4. Restored(files) = Back(d, j)
      BY <3>1, <3>3, BothIs, Zenon
    <3> QED
      BY <3>1, <3>2, <3>3, <3>4
  <2>2. CASE ~HasHeader(files)
    <3>1. files = Only(d) \/ files = Both(d, Empty)
      <4>1. CASE Journal \in DOMAIN files
        BY <2>2, <4>1, FilesAre
      <4>2. CASE Journal \notin DOMAIN files
        BY <4>2, FilesAre
      <4> QED
        BY <4>1, <4>2
    <3>2. 0 \notin DOMAIN Empty
      BY DEF Empty
    <3>3. Size(files) = SizeOf(d) /\ Restored(files) = Shown(d)
      <4> HIDE DEF d
      <4>1. CASE files = Only(d)
        BY <4>1, OnlyIs, Zenon
      <4>2. CASE files = Both(d, Empty)
        BY <4>2, <3>2, BothIs, Zenon
      <4> QED
        BY <3>1, <4>1, <4>2
    <3>4. SizeBefore = SizeOf(d) /\ Saved = {}
      BY <2>2, <3>3 DEF SizeBefore, Saved
    <3>5. JournalOpen = Over(OnHeader([records |-> {}, size |-> SizeOf(d)]), Empty)
      BY <2>2, <3>4 DEF JournalOpen
    <3> HIDE DEF d
    <3>6. /\ JournalOK(JournalOpen) /\ Back(d, JournalOpen) = Shown(d)
          /\ DOMAIN JournalOpen = {0} /\ JournalOpen[0] = [records |-> {}, size |-> SizeOf(d)]
      BY <1>1, <3>5, HeaderIsHarmless
    <3>7. SizeOf(d) \in Nat
      BY <1>1, SizeIs
    <3> QED
      BY <3>3, <3>4, <3>6, <3>7
  <2> QED
    BY <2>1, <2>2
<1>3. ASSUME NEW P \in SUBSET Pages
      PROVE  /\ ToSave(P) \in SUBSET (Pages \ DOMAIN JournalOpen)
             /\ IsFiniteSet(ToSave(P))
             /\ \A p \in ToSave(P) : p <= SizeBefore
  <2>1. /\ ToSave(P) \in SUBSET (Pages \ DOMAIN JournalOpen)
        /\ \A p \in ToSave(P) : p <= SizeBefore
    BY <1>2, PagesAre DEF ToSave
  <2> QED
    BY <2>1, PagesAre
<1> QED
  BY <1>1, <1>2, <1>3

(* The journal, after a statement has saved its pages. *)
LEMMA SavedIs ==
  ASSUME FilesOK(files), Database \in DOMAIN files, NEW P \in SUBSET Pages
  PROVE  /\ [p \in ToSave(P) |-> At(files[Database], p)] \in [ToSave(P) -> SUBSET Works]
         /\ JournalOK(JournalSaved(P)) /\ JournalSaved(P)[0].size = SizeBefore
         /\ DOMAIN JournalSaved(P) = {0} \cup Saved \cup ToSave(P)
         /\ JournalSaved(P)[0] = JournalOpen[0]
         /\ Back(files[Database], JournalSaved(P)) = Restored(files)
         /\ \A p \in ToSave(P) : JournalSaved(P)[p] = At(files[Database], p)
         /\ \A p \in Saved : JournalSaved(P)[p] = JournalOpen[p]
<1> DEFINE d == files[Database]
           v == [p \in ToSave(P) |-> At(d, p)]
           R == ToSave(P)
<1>1. DatabaseOK(d)
  BY BeforeIs
<1>2. /\ JournalOK(JournalOpen) /\ JournalOpen[0].size = SizeBefore
      /\ DOMAIN JournalOpen = {0} \cup Saved
      /\ Back(d, JournalOpen) = Restored(files)
      /\ R \in SUBSET (Pages \ DOMAIN JournalOpen) /\ \A p \in R : p <= SizeBefore
  BY BeforeIs
<1>3. v \in [R -> SUBSET Works] /\ \A p \in R : v[p] = At(d, p)
  BY <1>1 DEF At, DatabaseOK
<1>4. JournalSaved(P) = Over(v, JournalOpen)
  BY DEF JournalSaved
<1> HIDE DEF v, d, R
<1>5. /\ JournalOK(Over(v, JournalOpen)) /\ Back(d, Over(v, JournalOpen)) = Back(d, JournalOpen)
      /\ DOMAIN Over(v, JournalOpen) = DOMAIN JournalOpen \cup R
      /\ Over(v, JournalOpen)[0] = JournalOpen[0]
      /\ \A p \in R : Over(v, JournalOpen)[p] = v[p]
      /\ \A p \in DOMAIN JournalOpen : Over(v, JournalOpen)[p] = JournalOpen[p]
  BY <1>2, <1>3, SavingIsHarmless
<1>6. /\ v \in [R -> SUBSET Works]
      /\ JournalOK(JournalSaved(P)) /\ JournalSaved(P)[0].size = SizeBefore
      /\ DOMAIN JournalSaved(P) = {0} \cup Saved \cup R
      /\ JournalSaved(P)[0] = JournalOpen[0]
      /\ Back(d, JournalSaved(P)) = Restored(files)
      /\ \A p \in R : JournalSaved(P)[p] = At(d, p)
      /\ \A p \in Saved : JournalSaved(P)[p] = JournalOpen[p]
  BY <1>2, <1>3, <1>4, <1>5
<1> QED
  BY <1>6 DEF v, d, R

(* Pages are saved: the database stays as it is, and so does what a worker *)
(* would start with.                                                       *)
LEMMA SaveReaches ==
  ASSUME FilesOK(files), Database \in DOMAIN files, NEW P \in SUBSET Pages
  PROVE  /\ SaveItems(P) \in Seq(Items(Names, Values))
         /\ Reaches(SaveItems(P), files, Both(files[Database], JournalSaved(P)))
         /\ SaveItems(P) # <<>> => Harmless(SaveItems(P)[1], files)
         /\ SaveItems(P) = <<>> => HasHeader(files) /\ ToSave(P) = {}
<1> DEFINE d == files[Database]
           v == [p \in ToSave(P) |-> At(d, p)]
           R == ToSave(P)
           q == InOrder(R)
           I == Items(Names, Values)
           a == IF Journal \in DOMAIN files THEN <<>> ELSE <<CreateItem(Journal)>>
           b == IF HasHeader(files) THEN <<>> ELSE <<Header({})>>
           c == [k \in DOMAIN q |-> WriteBlock(Journal, q[k], Block(files, Database, q[k]))]
           e == IF Journal \in DOMAIN files THEN files[Journal] ELSE Empty
<1>1. DatabaseOK(d) /\ SizeBefore \in Nat
  BY BeforeIs
<1>2. /\ JournalOK(JournalOpen) /\ JournalOpen[0].size = SizeBefore
      /\ Back(d, JournalOpen) = Restored(files)
      /\ R \in SUBSET (Pages \ DOMAIN JournalOpen) /\ IsFiniteSet(R)
      /\ \A p \in R : p <= SizeBefore
  BY BeforeIs
<1>3. v \in [R -> SUBSET Works] /\ v \in [R -> Values] /\ R \in SUBSET Nat
  BY <1>2, SavedIs, PagesAre DEF Values
<1>4. SaveItems(P) = (a \o b) \o c
  BY DEF SaveItems
<1>5. JournalSaved(P) = Over(v, JournalOpen)
  BY DEF JournalSaved
<1>6. c = [k \in DOMAIN q |-> WriteBlock(Journal, q[k], v[q[k]])]
  <2>1. q \in Seq(R)
    BY <1>2, InOrderIs
  <2>2. \A k \in DOMAIN q : q[k] \in R
    BY <2>1
  <2>3. \A k \in DOMAIN q : Block(files, Database, q[k]) = v[q[k]]
    BY <2>2 DEF Block, At
  <2> QED
    BY <2>3
<1>7. Journal \in Names /\ Journal # Database
  BY FilesAssumption DEF Names
<1>8. /\ Journal \notin DOMAIN files => files = Only(d)
      /\ Journal \in DOMAIN files => files = Both(d, files[Journal])
      /\ Journal \in DOMAIN files /\ ~HasHeader(files) => files[Journal] = Empty
      /\ HasHeader(files) => Journal \in DOMAIN files
  BY FilesAre DEF HasHeader
<1>9. IsFunction(d) /\ IsFunction(JournalOpen)
  BY <1>1, <1>2 DEF DatabaseOK, JournalOK, IsFunction
<1>10. HasHeader(files) => JournalOpen = files[Journal]
  BY DEF JournalOpen
<1>11. ~HasHeader(files) => JournalOpen = Over(OnHeader([records |-> {}, size |-> SizeBefore]), Empty)
  BY DEF JournalOpen
<1>12. /\ c \in Seq(I)
       /\ c # <<>> => \E x \in R : c[1] = WriteBlock(Journal, x, v[x])
       /\ c = <<>> => R = {}
       /\ Reaches(c, Both(d, JournalOpen), Written(Journal, v, d, JournalOpen))
  <2> HIDE DEF v, d, R, c
  <2>1. IsWrites(c, Journal, R, v)
    BY <1>6 DEF IsWrites
  <2>2. AreWritten(c, Journal, R, v, d, JournalOpen)
    BY <1>2, <1>3, <1>7, <1>9, <2>1, Zenon DEF AreWritten
  <2>3. WriteAll(c, Journal, R, v, d, JournalOpen)
    BY <2>2, WritesReach, Zenon
  <2> QED
    BY <2>3, Zenon DEF WriteAll
<1>13. Written(Journal, v, d, JournalOpen) = Both(d, Over(v, JournalOpen))
  BY <1>7 DEF Written
<1> HIDE DEF v, d, R, c, q
<1>14. /\ a \in Seq(I) /\ Reaches(a, files, Both(d, e))
       /\ Journal \notin DOMAIN files => Harmless(CreateItem(Journal), files)
  <2>1. CASE Journal \in DOMAIN files
    BY <1>8, <2>1, ReachesNone
  <2>2. CASE Journal \notin DOMAIN files
    <3>1. files = Only(d) /\ a = <<CreateItem(Journal)>> /\ e = Empty
      BY <1>8, <2>2
    <3>2. /\ CreateItem(Journal) \in I /\ Applicable(CreateItem(Journal), files)
          /\ Applied(CreateItem(Journal), files) = Both(d, Empty)
      BY <3>1, CreateJournal
    <3>3. FilesOK(Both(d, Empty)) /\ Restored(Both(d, Empty)) = Restored(files)
      <4>1. 0 \notin DOMAIN Empty
        BY DEF Empty
      <4>2. Restored(Both(d, Empty)) = Shown(d) /\ FilesOK(Both(d, Empty))
        BY <1>1, <4>1, BothIs
      <4>3. Restored(files) = Shown(d)
        BY <3>1, OnlyIs, Zenon
      <4> QED
        BY <4>2, <4>3
    <3>4. Reaches(a, files, Both(d, e))
      BY <3>1, <3>2, ReachesOne
    <3> QED
      BY <3>1, <3>2, <3>3, <3>4 DEF Harmless
  <2> QED
    BY <2>1, <2>2
<1>15. /\ b \in Seq(I) /\ Reaches(b, Both(d, e), Both(d, JournalOpen))
       /\ Journal \in DOMAIN files /\ ~HasHeader(files) => Harmless(Header({}), files)
  <2>1. CASE HasHeader(files)
    <3>1. b = <<>> /\ e = JournalOpen
      BY <1>8, <1>10, <2>1
    <3> QED
      BY <2>1, <3>1, ReachesNone
  <2>2. CASE ~HasHeader(files)
    <3>1. b = <<Header({})>> /\ e = Empty
      BY <1>8, <2>2
    <3>2. Header({}) \in I /\ Header({}) = WriteItem(Journal, OnHeader([records |-> {}, size |-> SizeBefore]))
      BY <1>1, HeaderIs
    <3>3. /\ Applicable(Header({}), Both(d, Empty))
          /\ Applied(Header({}), Both(d, Empty)) = Both(d, JournalOpen)
      BY <1>7, <1>11, <2>2, <3>2, WriteBoth DEF Written
    <3>4. FilesOK(Both(d, JournalOpen)) /\ Restored(Both(d, JournalOpen)) = Restored(files)
      <4>1. 0 \in DOMAIN JournalOpen
        BY <1>2 DEF JournalOK
      <4> QED
        BY <1>1, <1>2, <4>1, BothIs
    <3>5. Journal \in DOMAIN files => files = Both(d, Empty)
      BY <1>8, <2>2
    <3>6. Reaches(b, Both(d, e), Both(d, JournalOpen))
      BY <3>1, <3>3, ReachesOne
    <3> QED
      BY <3>1, <3>2, <3>3, <3>4, <3>5, <3>6 DEF Harmless
  <2> QED
    BY <2>1, <2>2
<1>16. HasHeader(files) /\ c # <<>> => Harmless(c[1], files)
  <2> SUFFICES ASSUME HasHeader(files), c # <<>>
               PROVE  Harmless(c[1], files)
    OBVIOUS
  <2>1. PICK x \in R : c[1] = WriteBlock(Journal, x, v[x])
    BY <1>12
  <2> DEFINE w == [y \in {x} |-> v[x]]
  <2>2. x \in Pages \ DOMAIN JournalOpen /\ x <= SizeBefore /\ v[x] \in SUBSET Works
    BY <1>2, <1>3
  <2>3. x \in Nat /\ v[x] \in Values
    BY <2>2, PagesAre DEF Values
  <2>4. c[1] = WriteItem(Journal, w)
    BY <1>7, <2>1, <2>3, WriteBlockIs
  <2>5. w \in [{x} -> SUBSET Works]
    BY <2>2
  <2> HIDE DEF w
  <2>6. files = Both(d, JournalOpen)
    BY <1>8, <1>10
  <2>7. Applied(c[1], files) = Both(d, Over(w, JournalOpen))
    BY <1>7, <2>4, <2>6, WriteBoth DEF Written
  <2>8. JournalOK(Over(w, JournalOpen)) /\ Back(d, Over(w, JournalOpen)) = Back(d, JournalOpen)
    BY <1>2, <2>2, <2>5, SavingOne
  <2>9. 0 \in DOMAIN Over(w, JournalOpen)
    BY <2>8 DEF JournalOK
  <2>10. /\ FilesOK(Both(d, Over(w, JournalOpen)))
         /\ Restored(Both(d, Over(w, JournalOpen))) = Back(d, Over(w, JournalOpen))
    BY <1>1, <2>8, <2>9, BothIs
  <2> QED
    BY <1>2, <2>7, <2>8, <2>10 DEF Harmless
<1>17. (a \o b) \in Seq(I) /\ Reaches(a \o b, files, Both(d, JournalOpen))
  <2> HIDE DEF a, b, e, I
  <2> QED
    BY <1>14, <1>15, ReachesConcat
<1>18. SaveItems(P) \in Seq(I) /\ Reaches(SaveItems(P), files, Both(d, JournalSaved(P)))
  <2> HIDE DEF a, b, e, I
  <2>1. Reaches(c, Both(d, JournalOpen), Both(d, JournalSaved(P)))
    BY <1>5, <1>12, <1>13
  <2>2. Reaches((a \o b) \o c, files, Both(d, JournalSaved(P)))
    BY <1>12, <1>17, <2>1, ReachesConcat
  <2>3. ((a \o b) \o c) \in Seq(I)
    BY <1>12, <1>17
  <2> QED
    BY <1>4, <2>2, <2>3
<1>19. SaveItems(P) # <<>> => Harmless(SaveItems(P)[1], files)
  <2>1. CASE Journal \notin DOMAIN files
    <3>1. a = <<CreateItem(Journal)>>
      BY <2>1
    <3> HIDE DEF b, I
    <3>2. (a \o b) \o c = a \o (b \o c) /\ (a \o (b \o c))[1] = a[1] /\ a[1] = CreateItem(Journal)
      BY <1>12, <1>14, <1>15, <3>1
    <3> QED
      BY <1>4, <1>14, <2>1, <3>2
  <2>2. CASE Journal \in DOMAIN files /\ ~HasHeader(files)
    <3>1. a = <<>> /\ b = <<Header({})>>
      BY <2>2
    <3> HIDE DEF a, b, I
    <3>2. a \o b = b /\ (b \o c)[1] = b[1] /\ b[1] = Header({})
      BY <1>12, <1>14, <1>15, <3>1
    <3> QED
      BY <1>4, <1>15, <2>2, <3>2
  <2>3. CASE HasHeader(files)
    <3>1. a = <<>> /\ b = <<>>
      BY <1>8, <2>3
    <3> HIDE DEF a, b, I
    <3>2. (a \o b) \o c = c
      BY <1>12, <3>1
    <3> QED
      BY <1>4, <1>16, <2>3, <3>2
  <2> QED
    BY <1>8, <2>1, <2>2, <2>3
<1>20. SaveItems(P) = <<>> => HasHeader(files) /\ R = {}
  <2>1. CASE HasHeader(files)
    <3>1. a = <<>> /\ b = <<>>
      BY <1>8, <2>1
    <3> HIDE DEF a, b, I
    <3>2. (a \o b) \o c = c
      BY <1>12, <3>1
    <3> QED
      BY <1>4, <1>12, <2>1, <3>2
  <2>2. CASE ~HasHeader(files)
    <3>1. b = <<Header({})>>
      BY <2>2
    <3> HIDE DEF a, b, I
    <3>2. Len((a \o b) \o c) = Len(a) + 1 + Len(c) /\ Len(a) \in Nat /\ Len(c) \in Nat
      BY <1>12, <1>14, <1>15, <3>1
    <3> QED
      BY <1>4, <3>2
  <2> QED
    BY <2>1, <2>2
<1> QED
  BY <1>18, <1>19, <1>20 DEF d, R

(* The first of two sequences' items. *)
LEMMA FirstOfBoth ==
  ASSUME NEW I, NEW a \in Seq(I), NEW b \in Seq(I), a # <<>>
  PROVE  (a \o b) \in Seq(I) /\ (a \o b) # <<>> /\ (a \o b)[1] = a[1]
<1>1. Len(a) \in Nat /\ Len(b) \in Nat /\ Len(a) # 0 /\ Len(a \o b) = Len(a) + Len(b)
  OBVIOUS
<1> QED
  BY <1>1

(* What the files are after pages are stored in the database. *)
StoredAs(P, content, j, d2, j2) ==
  /\ DatabaseOK(d2) /\ Shown(d2) = content
  /\ JournalOK(j2) /\ DOMAIN j2 = DOMAIN j
  /\ j2[0] = [records |-> Saved \cup ToSave(P), size |-> SizeBefore]
  /\ \A p \in DOMAIN j \ {0} : j2[p] = j[p]

(* The pages are written to the database. *)
LEMMA StoreReaches ==
  ASSUME FilesOK(files), Database \in DOMAIN files, NEW P, P \in SUBSET Pages,
         NEW content, content \in [Pages -> SUBSET Works],
         NEW j, JournalOK(j), j[0].size = SizeBefore, DOMAIN j = {0} \cup Saved \cup ToSave(P)
  PROVE  /\ StoreItems(P, content) \in Seq(Items(Names, Values))
         /\ StoreItems(P, content) # <<>>
         /\ StoreItems(P, content)[1] = Header(Saved \cup ToSave(P))
         /\ \E d2, j2 : /\ StoredAs(P, content, j, d2, j2)
                        /\ Reaches(StoreItems(P, content), Both(files[Database], j), Both(d2, j2))
<1> DEFINE d == files[Database]
           D == {p \in Pages : content[p] # Block(files, Database, p)}
           v == [p \in D |-> content[p]]
           q == InOrder(D)
           I == Items(Names, Values)
           S == Saved \cup ToSave(P)
           h == OnHeader([records |-> S, size |-> SizeBefore])
           a == <<Header(S)>>
           b == [k \in DOMAIN q |-> WriteBlock(Database, q[k], content[q[k]])]
           j2 == Over(h, j)
           d2 == Over(v, d)
<1>1. DatabaseOK(d) /\ SizeBefore \in Nat
  BY BeforeIs
<1>2. S \in SUBSET Pages /\ S \in SUBSET (DOMAIN j \ {0})
  <2>1. Saved \subseteq Pages
    BY BeforeIs
  <2> QED
    BY <2>1, PagesAre DEF ToSave
<1>3. Header(S) \in I /\ Header(S) = WriteItem(Journal, h)
  <2> HIDE DEF S
  <2> QED
    BY <1>1, <1>2, HeaderIs
<1>4. Journal \in Names /\ Database \in Names /\ Journal # Database
  BY FilesAssumption DEF Names
<1>5. D \subseteq Pages /\ D \in SUBSET Nat /\ IsFiniteSet(D) /\ v \in [D -> Values]
  BY PagesAre DEF Values
<1>6. /\ DatabaseOK(d2)
      /\ \A p \in Pages : At(d2, p) = content[p]
  <2>1. \A p \in Pages : Block(files, Database, p) = At(d, p)
    BY DEF Block, At
  <2>2. DOMAIN d2 = D \cup DOMAIN d /\ \A p \in DOMAIN d2 : d2[p] = IF p \in D THEN content[p] ELSE d[p]
    BY DEF Over
  <2>3. d2 = [p \in DOMAIN d2 |-> d2[p]]
    BY DEF Over
  <2>4. \A p \in Pages \ D : content[p] = At(d, p)
    BY <2>1
  <2>5. \A p \in D : p \in Pages
    OBVIOUS
  <2> HIDE DEF d, D, d2
  <2>6. \A p \in DOMAIN d2 : d2[p] \in SUBSET Works
    BY <1>1, <1>5, <2>2 DEF DatabaseOK
  <2>7. DatabaseOK(d2)
    BY <1>1, <1>5, <2>2, <2>3, <2>6 DEF DatabaseOK
  <2>8. \A p \in Pages : At(d2, p) = content[p]
    BY <2>2, <2>4 DEF At
  <2> QED
    BY <2>7, <2>8
<1>7. Shown(d2) = content
  <2> HIDE DEF d2
  <2> QED
    BY <1>6 DEF Shown
<1>8. /\ JournalOK(j2) /\ DOMAIN j2 = DOMAIN j /\ j2[0] = [records |-> S, size |-> SizeBefore]
      /\ \A p \in DOMAIN j \ {0} : j2[p] = j[p]
  <2>1. j2 = Over(OnHeader([records |-> S, size |-> j[0].size]), j)
    OBVIOUS
  <2> HIDE DEF j2, S
  <2> QED
    BY <1>2, <2>1, CountingIs
<1>9. StoreItems(P, content) = a \o b
  BY DEF StoreItems
<1>10. a \in Seq(I) /\ Len(a) = 1 /\ a[1] = Header(S)
  <2> HIDE DEF I, S
  <2> QED
    BY <1>3
<1>11. Reaches(a, Both(d, j), Both(d, j2))
  <2>1. Applicable(Header(S), Both(d, j)) /\ Applied(Header(S), Both(d, j)) = Both(d, j2)
    <3> HIDE DEF S, h, d
    <3> QED
      BY <1>3, <1>4, WriteBoth DEF Written
  <2> HIDE DEF S, d, j2
  <2> QED
    BY <2>1, ReachesOne
<1>12. b \in Seq(I) /\ Reaches(b, Both(d, j2), Both(d2, j2))
  <2>1. b = [k \in DOMAIN q |-> WriteBlock(Database, q[k], v[q[k]])]
    <3>1. \A k \in DOMAIN q : q[k] \in D
      <4> HIDE DEF D
      <4>1. q \in Seq(D)
        BY <1>5, InOrderIs
      <4> HIDE DEF q
      <4> QED
        BY <4>1
    <3> QED
      BY <3>1
  <2>2. IsWrites(b, Database, D, v)
    BY <2>1 DEF IsWrites
  <2>3. IsFunction(d) /\ IsFunction(j2)
    BY <1>1, <1>8 DEF DatabaseOK, JournalOK, IsFunction
  <2>4. Written(Database, v, d, j2) = Both(d2, j2)
    BY DEF Written
  <2> HIDE DEF D, v, d, j2, b, d2
  <2>5. b \in Seq(I) /\ Reaches(b, Both(d, j2), Written(Database, v, d, j2))
    <3>1. AreWritten(b, Database, D, v, d, j2)
      BY <1>4, <1>5, <2>2, <2>3, Zenon DEF AreWritten
    <3>2. WriteAll(b, Database, D, v, d, j2)
      BY <3>1, WritesReach, Zenon
    <3> QED
      BY <3>2, Zenon DEF WriteAll
  <2> QED
    BY <2>4, <2>5
<1>13. StoredAs(P, content, j, d2, j2)
  <2> HIDE DEF d2, j2
  <2> QED
    BY <1>6, <1>7, <1>8 DEF StoredAs, S
<1> HIDE DEF d, D, v, q, I, h, a, b, j2, d2, S
<1>14. StoreItems(P, content) \in Seq(I) /\ StoreItems(P, content) # <<>> /\ StoreItems(P, content)[1] = Header(S)
  <2>1. (a \o b) \in Seq(I) /\ (a \o b) # <<>> /\ (a \o b)[1] = a[1]
    BY <1>10, <1>12, FirstOfBoth
  <2> QED
    BY <1>9, <1>10, <2>1
<1>15. Reaches(StoreItems(P, content), Both(d, j), Both(d2, j2))
  BY <1>9, <1>10, <1>11, <1>12, ReachesConcat
<1> QED
  BY <1>13, <1>14, <1>15 DEF I, S, d

(* That the records count makes no difference while the database holds     *)
(* nothing else.                                                           *)
LEMMA CountingIsHarmless ==
  ASSUME FilesOK(files), HasHeader(files),
         \A p \in Saved : files[Journal][p] = Restored(files)[p]
  PROVE  Harmless(Header(Saved), files)
<1> DEFINE d == files[Database]
           j == files[Journal]
           o == Over(OnHeader([records |-> Saved, size |-> j[0].size]), j)
<1>1. DatabaseOK(d) /\ JournalOK(j) /\ files = Both(d, j) /\ Database \in DOMAIN files
  BY FilesAre
<1>2. SizeBefore = j[0].size /\ Saved = DOMAIN j \ {0}
  BY DEF SizeBefore, Saved
<1>3. SizeBefore \in Nat /\ Saved \subseteq Pages
  BY <1>1, BeforeIs
<1>4. Journal \in Names /\ Journal # Database
  BY FilesAssumption DEF Names
<1> HIDE DEF d, j, o
<1>5. /\ JournalOK(o) /\ DOMAIN o = DOMAIN j /\ o[0] = [records |-> Saved, size |-> j[0].size]
      /\ \A p \in DOMAIN j \ {0} : o[p] = j[p]
  BY <1>1, <1>2, CountingIs DEF o
<1>6. Header(Saved) = WriteItem(Journal, OnHeader([records |-> Saved, size |-> j[0].size]))
  BY <1>2, <1>3, HeaderIs
<1>7. Applied(Header(Saved), files) = Both(d, o)
  BY <1>1, <1>4, <1>6, WriteBoth DEF Written, o
<1>8. FilesOK(Both(d, o)) /\ Restored(Both(d, o)) = Back(d, o)
  BY <1>1, <1>5, BothIs DEF JournalOK
<1>9. Restored(files) = Back(d, j) /\ 0 \in DOMAIN j /\ j[0].records \subseteq DOMAIN j \ {0}
  BY <1>1, BothIs DEF JournalOK
<1>10. Back(d, o) = Back(d, j)
  <2>1. \A p \in Saved : j[p] = Back(d, j)[p]
    BY <1>9 DEF j
  <2>2. \A p \in Pages : Back(d, o)[p] = Back(d, j)[p]
    <3> TAKE p \in Pages
    <3>1. CASE p \in Saved
      <4>1. o[0].records = Saved /\ o[p] = j[p]
        BY <1>2, <1>5, <3>1
      <4>2. Back(d, o)[p] = o[p]
        BY <3>1, <4>1 DEF Back
      <4> QED
        BY <2>1, <3>1, <4>1, <4>2
    <3>2. CASE p \notin Saved
      <4>1. p \notin o[0].records /\ p \notin j[0].records /\ o[0].size = j[0].size
        BY <1>2, <1>5, <1>9, <3>2
      <4> QED
        BY <4>1 DEF Back
    <3> QED
      BY <3>1, <3>2
  <2> QED
    BY <2>2 DEF Back
<1> QED
  BY <1>7, <1>8, <1>9, <1>10 DEF Harmless

(* The journal is rolled back. *)
LEMMA RollbackReaches ==
  ASSUME NEW d, DatabaseOK(d), NEW j, JournalOK(j), NEW fs, fs = Both(d, j)
  PROVE  /\ RestoreItems(fs) \in Seq(Items(Names, Values))
         /\ RestoreItems(fs) # <<>> /\ Harmless(RestoreItems(fs)[1], fs)
         /\ \E d2 : /\ DatabaseOK(d2) /\ Shown(d2) = Back(d, j)
                    /\ Reaches(RestoreItems(fs), fs, Only(d2))
<1> DEFINE n == j[0].size
           R == j[0].records
           q == InOrder(R)
           I == Items(Names, Values)
           v == [p \in R |-> j[p]]
           d1 == IF SizeOf(d) > n THEN Restricted(d, n) ELSE d
           d2 == Over(v, d1)
           a == IF SizeOf(d) > n THEN <<TruncateItem(Database, n)>> ELSE <<>>
           b == [k \in DOMAIN q |-> WriteBlock(Database, q[k], j[q[k]])]
           c == <<DeleteItem(Journal)>>
<1>1. /\ 0 \in DOMAIN j /\ DOMAIN j \subseteq {0} \cup Pages
      /\ n \in Nat /\ R \subseteq Pages /\ R \subseteq DOMAIN j \ {0}
      /\ \A p \in R : j[p] \in SUBSET Works
      /\ IsFunction(j)
  BY DEF JournalOK, Headers, IsFunction
<1>2. /\ HasHeader(fs) /\ Size(fs) = SizeOf(d) /\ fs[Journal] = j
      /\ Restored(fs) = Back(d, j)
  BY <1>1, BothIs
<1>3. RestoreItems(fs) = (a \o b) \o c
  BY <1>2, Zenon DEF RestoreItems
<1>4. /\ DatabaseOK(d1) /\ IsFunction(d1)
      /\ \A p \in Pages : At(d1, p) = IF p > n THEN {} ELSE At(d, p)
  <2>1. CASE SizeOf(d) > n
    <3>1. d1 = Restricted(d, n)
      BY <2>1
    <3>2. DOMAIN d1 = {p \in DOMAIN d : p <= n} /\ IsFunction(d1) /\ \A p \in DOMAIN d1 : d1[p] = d[p]
      BY <3>1 DEF Restricted, IsFunction
    <3> HIDE DEF d1, n
    <3>3. DatabaseOK(d1)
      BY <3>2 DEF DatabaseOK, IsFunction
    <3>4. \A p \in Pages : At(d1, p) = IF p > n THEN {} ELSE At(d, p)
      BY <1>1, <3>2, PagesAre DEF At, DatabaseOK
    <3> QED
      BY <3>2, <3>3, <3>4
  <2>2. CASE ~(SizeOf(d) > n)
    <3>1. d1 = d
      BY <2>2
    <3>2. SizeOf(d) \in Nat /\ \A p \in DOMAIN d : p <= SizeOf(d)
      BY SizeIs
    <3>3. \A p \in Pages : p > n => p \notin DOMAIN d
      BY <1>1, <2>2, <3>2, PagesAre
    <3> HIDE DEF d1, n
    <3> QED
      BY <3>1, <3>3 DEF At, DatabaseOK, IsFunction
  <2> QED
    BY <2>1, <2>2
<1>5. v \in [R -> SUBSET Works] /\ v \in [R -> Values] /\ R \in SUBSET Nat /\ IsFiniteSet(R)
  BY <1>1, PagesAre DEF Values
<1>6. DatabaseOK(d2) /\ \A p \in Pages : At(d2, p) = IF p \in R THEN j[p] ELSE At(d1, p)
  <2>1. /\ d2 = [p \in DOMAIN d2 |-> d2[p]] /\ DOMAIN d2 = R \cup DOMAIN d1
        /\ \A p \in DOMAIN d2 : d2[p] = IF p \in R THEN j[p] ELSE d1[p]
    BY DEF Over
  <2> HIDE DEF d2, d1, R
  <2> QED
    BY <1>1, <1>4, <2>1 DEF DatabaseOK, At
<1>7. Shown(d2) = Back(d, j)
  <2> HIDE DEF d2, d1
  <2> QED
    BY <1>1, <1>4, <1>6 DEF Shown, Back
<1>8. Database \in Names /\ Journal # Database
  BY FilesAssumption DEF Names
<1>9. a \in Seq(I) /\ Reaches(a, fs, Both(d1, j))
  <2>1. CASE SizeOf(d) > n
    <3>1. a = <<TruncateItem(Database, n)>> /\ d1 = Restricted(d, n)
      BY <2>1
    <3> HIDE DEF a, d1, n
    <3>2. /\ TruncateItem(Database, n) \in I
          /\ Applicable(TruncateItem(Database, n), fs)
          /\ Applied(TruncateItem(Database, n), fs) = Both(d1, j)
      BY <1>1, <3>1, TruncateDatabase
    <3> QED
      BY <3>1, <3>2, ReachesOne
  <2>2. CASE ~(SizeOf(d) > n)
    BY <2>2, ReachesNone
  <2> QED
    BY <2>1, <2>2
<1>10. /\ b \in Seq(I)
       /\ b # <<>> => \E x \in R : b[1] = WriteBlock(Database, x, v[x])
       /\ b = <<>> => R = {}
       /\ Reaches(b, Both(d1, j), Both(d2, j))
  <2>1. b = [k \in DOMAIN q |-> WriteBlock(Database, q[k], v[q[k]])]
    <3>1. \A k \in DOMAIN q : q[k] \in R
      <4> HIDE DEF R
      <4>1. q \in Seq(R)
        BY <1>5, InOrderIs
      <4> HIDE DEF q
      <4> QED
        BY <4>1
    <3> QED
      BY <3>1
  <2>2. IsWrites(b, Database, R, v)
    BY <2>1 DEF IsWrites
  <2>3. Written(Database, v, d1, j) = Both(d2, j)
    BY DEF Written
  <2> HIDE DEF R, v, d1, d2, b
  <2>4. /\ b \in Seq(I) /\ Reaches(b, Both(d1, j), Written(Database, v, d1, j))
        /\ b # <<>> => \E x \in R : b[1] = WriteBlock(Database, x, v[x])
        /\ b = <<>> => R = {}
    <3>1. IsFunction(d1) /\ IsFunction(j)
      BY <1>1, <1>4 DEF DatabaseOK
    <3>2. Database \in Names /\ R \in SUBSET Nat /\ IsFiniteSet(R) /\ v \in [R -> Values]
      BY <1>5, <1>8
    <3>3. AreWritten(b, Database, R, v, d1, j)
      BY <2>2, <3>1, <3>2, Zenon DEF AreWritten
    <3>4. WriteAll(b, Database, R, v, d1, j)
      BY <3>3, WritesReach, Zenon
    <3> QED
      BY <3>4, Zenon DEF WriteAll
  <2> QED
    BY <2>3, <2>4
<1>11. c \in Seq(I) /\ Reaches(c, Both(d2, j), Only(d2))
  <2> HIDE DEF d2
  <2>1. /\ DeleteItem(Journal) \in I /\ Applicable(DeleteItem(Journal), Both(d2, j))
        /\ Applied(DeleteItem(Journal), Both(d2, j)) = Only(d2)
    BY DeleteJournal
  <2> QED
    BY <2>1, ReachesOne
<1>12. /\ (a \o b) \o c \in Seq(I)
       /\ Reaches((a \o b) \o c, fs, Only(d2))
  <2> HIDE DEF a, b, c, I, d1, d2
  <2>1. a \o b \in Seq(I) /\ Reaches(a \o b, fs, Both(d2, j))
    BY <1>9, <1>10, ReachesConcat
  <2>2. Reaches((a \o b) \o c, fs, Only(d2))
    BY <1>11, <2>1, ReachesConcat
  <2>3. ((a \o b) \o c) \in Seq(I)
    BY <1>11, <2>1
  <2> QED
    BY <2>2, <2>3
<1>13. (a \o b) \o c # <<>> /\ Harmless(((a \o b) \o c)[1], fs)
  <2>1. CASE SizeOf(d) > n
    <3>1. a = <<TruncateItem(Database, n)>> /\ d1 = Restricted(d, n)
      BY <2>1
    <3> HIDE DEF a, b, c, I, d1, n
    <3>2. a # <<>> /\ a[1] = TruncateItem(Database, n)
      BY <3>1
    <3>3. a \o b \in Seq(I) /\ (a \o b) # <<>> /\ (a \o b)[1] = a[1]
      BY <1>9, <1>10, <3>2, FirstOfBoth
    <3>4. (a \o b) \o c # <<>> /\ ((a \o b) \o c)[1] = a[1]
      BY <1>11, <3>3, FirstOfBoth
    <3>5. Applied(TruncateItem(Database, n), fs) = Both(d1, j)
      BY <1>1, <3>1, TruncateDatabase
    <3>6. FilesOK(Both(d1, j)) /\ Restored(Both(d1, j)) = Back(d1, j)
      BY <1>1, <1>4, BothIs
    <3>7. Back(d1, j) = Back(d, j)
      BY <1>4 DEF Back, n
    <3> QED
      BY <1>2, <3>2, <3>4, <3>5, <3>6, <3>7 DEF Harmless
  <2>2. CASE ~(SizeOf(d) > n) /\ b # <<>>
    <3>1. a = <<>> /\ d1 = d
      BY <2>2
    <3>2. PICK x \in R : b[1] = WriteBlock(Database, x, v[x])
      BY <1>10, <2>2
    <3> DEFINE w == [y \in {x} |-> v[x]]
               e == Over(w, d)
    <3>3. b[1] = WriteItem(Database, w)
      <4>1. x \in Nat /\ v[x] \in Values
        BY <1>5
      <4> HIDE DEF b, v, R
      <4> QED
        BY <1>8, <3>2, <4>1, WriteBlockIs
    <3>4. DatabaseOK(e) /\ \A p \in Pages : p # x => At(e, p) = At(d, p)
      <4>1. /\ e = [p \in DOMAIN e |-> e[p]] /\ DOMAIN e = {x} \cup DOMAIN d
            /\ \A p \in DOMAIN e : e[p] = IF p = x THEN v[x] ELSE d[p]
        BY DEF Over
      <4>2. x \in Pages /\ v[x] \in SUBSET Works
        BY <1>1
      <4> HIDE DEF e, v, R
      <4> QED
        BY <4>1, <4>2 DEF DatabaseOK, At
    <3>5. Back(e, j) = Back(d, j)
      <4> HIDE DEF e
      <4> QED
        BY <3>4 DEF Back
    <3>6. Applied(b[1], fs) = Both(e, j)
      <4> HIDE DEF w, b
      <4> QED
        BY <1>8, <3>3, WriteBoth DEF Written
    <3> HIDE DEF a, b, c, I, e, w
    <3>7. a \o b = b
      BY <1>10, <3>1
    <3>8. (a \o b) \o c # <<>> /\ ((a \o b) \o c)[1] = b[1]
      BY <1>10, <1>11, <2>2, <3>7, FirstOfBoth
    <3>9. FilesOK(Both(e, j)) /\ Restored(Both(e, j)) = Back(e, j)
      BY <1>1, <3>4, BothIs
    <3> QED
      BY <1>2, <3>5, <3>6, <3>8, <3>9 DEF Harmless
  <2>3. CASE ~(SizeOf(d) > n) /\ b = <<>>
    <3>1. a = <<>> /\ d1 = d /\ R = {}
      BY <1>10, <2>3
    <3> HIDE DEF a, b, I, d1, d2, R
    <3>2. (a \o b) \o c = c
      BY <1>11, <2>3, <3>1
    <3>3. c # <<>> /\ c[1] = DeleteItem(Journal)
      OBVIOUS
    <3>4. Applied(DeleteItem(Journal), fs) = Only(d)
      BY DeleteJournal
    <3>5. FilesOK(Only(d)) /\ Restored(Only(d)) = Shown(d)
      BY OnlyIs
    <3>6. Shown(d) = Back(d, j)
      <4>1. \A p \in Pages : At(d2, p) = At(d, p)
        BY <1>6, <3>1
      <4>2. Shown(d2) = Shown(d)
        BY <4>1 DEF Shown
      <4> QED
        BY <1>7, <4>2
    <3> HIDE DEF c
    <3> QED
      BY <1>2, <3>2, <3>3, <3>4, <3>5, <3>6 DEF Harmless
  <2> QED
    BY <2>1, <2>2, <2>3
<1> HIDE DEF a, b, c, I, d1, d2
<1>14. \E e : DatabaseOK(e) /\ Shown(e) = Back(d, j) /\ Reaches(RestoreItems(fs), fs, Only(e))
  BY <1>3, <1>6, <1>7, <1>12
<1> QED
  BY <1>3, <1>12, <1>13, <1>14 DEF I

(* A rollback leads to a database without a journal, and its first         *)
(* item changes nothing of what would be restored.                         *)
LEMMA RestoreReaches ==
  ASSUME NEW fs, FilesOK(fs)
  PROVE  /\ RestoreItems(fs) \in Seq(Items(Names, Values))
         /\ ~HasHeader(fs) => RestoreItems(fs) = <<>>
         /\ HasHeader(fs) =>
              /\ RestoreItems(fs) # <<>> /\ Harmless(RestoreItems(fs)[1], fs)
              /\ \E d2 : /\ DatabaseOK(d2) /\ Shown(d2) = Restored(fs)
                         /\ Reaches(RestoreItems(fs), fs, Only(d2))
<1>1. CASE ~HasHeader(fs)
  <2>1. RestoreItems(fs) = <<>>
    BY <1>1 DEF RestoreItems
  <2> QED
    BY <1>1, <2>1
<1>2. CASE HasHeader(fs)
  <2> DEFINE d == fs[Database]
             j == fs[Journal]
  <2>1. DatabaseOK(d) /\ JournalOK(j) /\ fs = Both(d, j)
    BY <1>2, FilesAre
  <2> HIDE DEF d, j
  <2>2. Restored(fs) = Back(d, j)
    BY <2>1, BothIs DEF JournalOK
  <2>3. /\ RestoreItems(fs) \in Seq(Items(Names, Values))
        /\ RestoreItems(fs) # <<>> /\ Harmless(RestoreItems(fs)[1], fs)
        /\ \E d2 : /\ DatabaseOK(d2) /\ Shown(d2) = Back(d, j)
                   /\ Reaches(RestoreItems(fs), fs, Only(d2))
    BY <2>1, RollbackReaches
  <2> QED
    BY <1>2, <2>2, <2>3
<1> QED
  BY <1>1, <1>2

(* What SQLite recovers is what the journal says. *)
LEMMA RecoveredIs ==
  ASSUME NEW fs, FilesOK(fs)
  PROVE  Recovered(fs) = Restored(fs)
<1> DEFINE end == Outcome(RestoreItems(fs), fs).files
<1>1. Recovered(fs) = [p \in Pages |-> Block(end, Database, p)]
  BY DEF Recovered
<1>2. CASE ~HasHeader(fs)
  <2>1. end = fs
    BY <1>2, RestoreReaches, ReachesNone DEF Reaches
  <2> HIDE DEF end
  <2> QED
    BY <1>1, <1>2, <2>1 DEF Restored
<1>3. CASE HasHeader(fs)
  <2>1. PICK d2 : Shown(d2) = Restored(fs) /\ Reaches(RestoreItems(fs), fs, Only(d2))
    BY <1>3, RestoreReaches
  <2>2. end = Only(d2)
    BY <2>1 DEF Reaches
  <2> HIDE DEF end
  <2>3. \A p : Block(end, Database, p) = At(d2, p)
    BY <2>2, OnlyIs DEF Block, At
  <2> QED
    BY <1>1, <2>1, <2>3 DEF Shown
<1> QED
  BY <1>2, <1>3

(* What is restored are works, page by page. *)
LEMMA RestoredIs ==
  ASSUME NEW fs, FilesOK(fs)
  PROVE  Restored(fs) \in [Pages -> SUBSET Works]
<1>1. ASSUME NEW p \in Pages
      PROVE  Restored(fs)[p] \in SUBSET Works
  <2>1. Block(fs, Database, p) \in SUBSET Works
    BY FilesAre DEF Block, DatabaseOK
  <2>2. HasHeader(fs) /\ p \in fs[Journal][0].records => fs[Journal][p] \in SUBSET Works
    BY FilesAre DEF JournalOK
  <2> QED
    BY <2>1, <2>2 DEF Restored
<1>2. Restored(fs) = [p \in Pages |-> Restored(fs)[p]]
  BY DEF Restored
<1> QED
  BY <1>1, <1>2

-----------------------------------------------------------------------------
(* The inductive invariant *)

(* A worker that starts with the files fs finds what the first k works of  *)
(* the log have left.                                                      *)
Sound(fs, k) ==
  FilesOK(fs) /\ k \in 0..Len(log) /\ Restored(fs) = Content(SubSeq(log, 1, k))

(* That is so of IndexedDB, and it is no less when the batch has got there. *)
DiskHolds ==
  \E mid, k : Faithful(Names, Values, mid) /\ Sound(disk, kept) /\ Sound(mid, k) /\ kept <= k

(* It is so until the browser refuses a batch. *)
DiskInv ==
  /\ intact \in BOOLEAN /\ kept \in 0..Len(log)
  /\ intact => DiskHolds

(* Each work of the log is there once and has left its mark. *)
HistoryInv ==
  /\ \A i, j \in 1..Len(log) : log[i] = log[j] => i = j
  /\ \A m \in ToSet(log) : wrote[m] # {}

MemoryInv ==
  /\ FilesOK(files)
  /\ Restored(files) = committed /\ committed = Content(log)
  /\ working \in [Pages -> SUBSET Works]

(* While the database is open, the journal holds what the pages were that  *)
(* the transaction has changed, and only then.                             *)
JournalInv ==
  connections # 0 =>
    /\ Database \in DOMAIN files
    /\ HasHeader(files) <=> (inTransaction /\ working # committed)
    /\ HasHeader(files) =>
         LET j == files[Journal]
         IN  /\ \A p \in DOMAIN j \ {0} : j[p] = committed[p]
             /\ \A p \in Pages : working[p] # committed[p] => p \in DOMAIN j \/ p > j[0].size

(* Nothing is asked of a database that is not open. *)
Needs(c) ==
  \/ asked[c].kind \notin {"none", "open"}
  \/ phase[c] \in {"ready", "failing"}
  \/ asked[c].kind = "open" /\ stage[c] \in {"opened", "answered"} /\ outcome[c] = "ok"

Waits == {"posted", "queued", "locked"}
Done  == {"executed", "settling", "answered"}

(* What c works on may still be committed. *)
Unfinished(c) ==
  IF owned[c] # None
  THEN ~(asked[c].kind = "commit" /\ stage[c] \in Done /\ outcome[c] = "ok")
  ELSE asked[c].kind = "begin" \/ (asked[c].kind = "write" /\ stage[c] \in Waits)

Logged(c) == Unfinished(c) => Own(c) \notin ToSet(log)

(* What c has written, and what is not begun has written nothing. *)
WroteFits(c) ==
  /\ \A k \in 1..MaxWorks : k > works[c] => wrote[<<c, k>>] = {}
  /\ asked[c].kind = "begin" => wrote[Own(c)] = {}
  /\ asked[c].kind = "write" => asked[c].pages # {}
  /\ asked[c].kind = "write" /\ owned[c] = None => wrote[Own(c)] = asked[c].pages

(* Pages of a statement that is still to be executed. *)
Coming(c) == IF asked[c].kind = "write" /\ stage[c] \in Waits THEN asked[c].pages ELSE {}

(* A transaction that may be committed has changed what its window has     *)
(* written.                                                                *)
Committable(c) ==
  /\ InGate(c) /\ inTransaction
  /\ asked[c].kind # "rollback"
  /\ asked[c].kind = "write" /\ stage[c] \in Done => outcome[c] = "ok"
  /\ stage[c] = "idle" => phase[c] = "ready"

(* The mark of the work of c, if there is one. *)
Mark(c, there) == IF there THEN {Own(c)} ELSE {}

WorkFits(c) ==
  Committable(c) =>
    \A p \in Pages :
      working[p] \cup Mark(c, p \in Coming(c)) = committed[p] \cup Mark(c, p \in wrote[Own(c)])

LogInv ==
  /\ log \in Seq(Works)
  /\ \A m \in ToSet(log) : m[2] <= works[m[1]]

FilesInv == DiskInv /\ MemoryInv /\ JournalInv /\ HistoryInv

WindowsInv ==
  /\ inTransaction => connections # 0
  /\ LogInv
  /\ \A c \in Clients : /\ Needs(c) => connections # 0
                        /\ Logged(c) /\ WroteFits(c) /\ WorkFits(c)

DatabaseInv == FilesInv /\ WindowsInv

-----------------------------------------------------------------------------
(* The log *)

(* What the log says stays when its works have written what they had. *)
LEMMA ContentKept ==
  ASSUME NEW s \in Seq(Works), \A m \in ToSet(s) : wrote'[m] = wrote[m]
  PROVE  Content(s)' = Content(s)
  BY DEF Content

(* The first items of a sequence. *)
LEMMA PrefixIs ==
  ASSUME NEW S, NEW s \in Seq(S), NEW k \in 0..Len(s)
  PROVE  /\ SubSeq(s, 1, k) \in Seq(S) /\ Len(SubSeq(s, 1, k)) = k
         /\ ToSet(SubSeq(s, 1, k)) \subseteq ToSet(s)
         /\ \A i \in 0..k : SubSeq(SubSeq(s, 1, k), 1, i) = SubSeq(s, 1, i)
         /\ \A x \in S : SubSeq(Append(s, x), 1, k) = SubSeq(s, 1, k)
         /\ SubSeq(s, 1, Len(s)) = s
<1>1. /\ SubSeq(s, 1, k) \in Seq(S) /\ Len(SubSeq(s, 1, k)) = k
      /\ SubSeq(s, 1, k) = [i \in 1..k |-> s[i]] /\ Len(s) \in Nat
  OBVIOUS
<1>2. ToSet(SubSeq(s, 1, k)) \subseteq ToSet(s)
  BY <1>1 DEF ToSet
<1>3. \A i \in 0..k : SubSeq(SubSeq(s, 1, k), 1, i) = SubSeq(s, 1, i)
  BY <1>1
<1>4. \A x \in S : SubSeq(Append(s, x), 1, k) = SubSeq(s, 1, k)
  OBVIOUS
<1>5. SubSeq(s, 1, Len(s)) = s
  OBVIOUS
<1> QED
  BY <1>1, <1>2, <1>3, <1>4, <1>5

(* One more item in a sequence. *)
LEMMA AppendedIs ==
  ASSUME NEW S, NEW s \in Seq(S), NEW x \in S
  PROVE  Append(s, x) \in Seq(S) /\ ToSet(Append(s, x)) = ToSet(s) \cup {x}
<1>1. /\ Append(s, x) \in Seq(S) /\ Len(Append(s, x)) = Len(s) + 1 /\ Len(s) \in Nat
      /\ \A i \in 1..Len(s) : Append(s, x)[i] = s[i]
      /\ Append(s, x)[Len(s) + 1] = x
  OBVIOUS
<1>2. DOMAIN Append(s, x) = 1..(Len(s) + 1) /\ DOMAIN s = 1..Len(s)
  BY <1>1
<1> QED
  BY <1>1, <1>2 DEF ToSet

(* What was sound stays sound. *)
LEMMA SoundKept ==
  ASSUME log \in Seq(Works), \A m \in ToSet(log) : wrote'[m] = wrote[m],
         log' = log \/ \E m \in Works : log' = Append(log, m),
         NEW fs, NEW k, Sound(fs, k)
  PROVE  Sound(fs, k)'
<1>1. k \in 0..Len(log) /\ Restored(fs) = Content(SubSeq(log, 1, k))
  BY DEF Sound
<1> DEFINE s == SubSeq(log, 1, k)
<1>2. s \in Seq(Works) /\ ToSet(s) \subseteq ToSet(log)
  BY <1>1, PrefixIs
<1>3. PICK r : r = s
  OBVIOUS
<1>4. Restored(fs) = Content(r)'
  BY <1>1, <1>2, <1>3, ContentKept
<1>5. k \in 0..Len(log') /\ SubSeq(log', 1, k) = r
  BY <1>1, <1>3, PrefixIs
<1>6. Content(SubSeq(log, 1, k))' = Content(r)'
  BY <1>5 DEF Content
<1> QED
  BY <1>4, <1>5, <1>6 DEF Sound

(* Two prefixes of the log with the same content are the same. *)
LEMMA ContentGrows ==
  ASSUME HistoryInv, wrote \in [Works -> SUBSET Pages], log \in Seq(Works),
         NEW i \in 0..Len(log), NEW k \in 0..Len(log), i < k
  PROVE  Content(SubSeq(log, 1, i)) # Content(SubSeq(log, 1, k))
<1> DEFINE m == log[k]
<1>1. Len(log) \in Nat /\ k \in 1..Len(log) /\ m \in Works /\ m \in ToSet(log)
  BY DEF ToSet
<1>2. PICK p : p \in wrote[m]
  BY <1>1 DEF HistoryInv
<1>3. p \in Pages
  BY <1>1, <1>2
<1>4. m \in ToSet(SubSeq(log, 1, k))
  <2>1. SubSeq(log, 1, k)[k] = m /\ k \in DOMAIN SubSeq(log, 1, k)
    BY <1>1
  <2> QED
    BY <2>1 DEF ToSet
<1>5. m \notin ToSet(SubSeq(log, 1, i))
  <2> SUFFICES ASSUME NEW n \in DOMAIN SubSeq(log, 1, i), SubSeq(log, 1, i)[n] = m PROVE FALSE
    BY DEF ToSet
  <2>1. n \in 1..i /\ n \in 1..Len(log) /\ log[n] = m /\ n # k
    BY <1>1
  <2> QED
    BY <1>1, <2>1 DEF HistoryInv
<1>6. m \in Content(SubSeq(log, 1, k))[p]
  BY <1>2, <1>3, <1>4 DEF Content
<1>7. m \notin Content(SubSeq(log, 1, i))[p]
  BY <1>3, <1>5 DEF Content
<1> QED
  BY <1>6, <1>7

(* The works of the log are different ones, and none is empty. *)
LEMMA HistoryKept ==
  ASSUME HistoryInv, log' = log, \A m \in ToSet(log) : wrote'[m] = wrote[m]
  PROVE  HistoryInv'
  BY DEF HistoryInv, ToSet

(* And so they are when one more is committed. *)
LEMMA HistoryAppended ==
  ASSUME HistoryInv, log \in Seq(Works), NEW m \in Works, m \notin ToSet(log),
         wrote[m] # {}, log' = Append(log, m), wrote' = wrote
  PROVE  HistoryInv'
<1>1. /\ Len(log) \in Nat /\ Len(log') = Len(log) + 1 /\ log'[Len(log) + 1] = m
      /\ \A i \in 1..Len(log) : log'[i] = log[i] /\ log[i] # m
  BY DEF ToSet
<1>2. ToSet(log') = ToSet(log) \cup {m}
  <2>1. ToSet(Append(log, m)) = ToSet(log) \cup {m}
    BY AppendedIs
  <2> QED
    BY <2>1 DEF ToSet
<1>3. \A i, j \in 1..Len(log') : log'[i] = log'[j] => i = j
  BY <1>1 DEF HistoryInv
<1>4. \A n \in ToSet(log') : wrote'[n] # {}
  BY <1>2 DEF HistoryInv
<1> QED
  BY <1>3, <1>4 DEF HistoryInv

-----------------------------------------------------------------------------
(* Changes to the files *)

(* After a change the batch that is being written is the one of before, or *)
(* starts with the first item of the change.                               *)
LEMMA ChangeReaches ==
  ASSUME NEW mid, Faithful(Names, Values, mid),
         NEW items \in Seq(Items(Names, Values)), NEW gs, Reaches(items, files, gs), Change(items)
  PROVE  /\ files' = gs /\ disk' = disk
         /\ \E m : /\ Faithful(Names, Values, m)'
                   /\ m = mid \/ (items # <<>> /\ m = Applied(items[1], files))
<1>1. Len(items) \in Nat
  OBVIOUS
<1>2. PICK t : Leads(items, files, t) /\ t[Len(items)] = gs
  BY <1>1, ReachesLeads
<1>3. /\ files' = t[Len(items)] /\ disk' = disk
      /\ \E m : /\ Faithful(Names, Values, m)'
                /\ m = mid \/ (items # <<>> /\ m = t[1])
  BY <1>2, ChangeStep
<1>4. items # <<>> => t[1] = Applied(items[1], files)
  BY <1>1, <1>2 DEF Leads
<1> QED
  BY <1>2, <1>3, <1>4

(* Files that restore what is committed hold the whole log. *)
LEMMA FilesAreSound ==
  ASSUME MemoryInv, log \in Seq(Works), NEW fs, FilesOK(fs), Restored(fs) = Restored(files)
  PROVE  Sound(fs, Len(log))
<1>1. Restored(fs) = Content(SubSeq(log, 1, Len(log)))
  <2>1. SubSeq(log, 1, Len(log)) = log
    OBVIOUS
  <2> QED
    BY <2>1 DEF MemoryInv
<1>2. Len(log) \in 0..Len(log)
  OBVIOUS
<1> QED
  BY <1>1, <1>2 DEF Sound

(* Memory becomes what the changes make of it. *)
LEMMA MemoryChanges ==
  ASSUME NEW items \in Seq(Items(Names, Values)), NEW gs, Reaches(items, files, gs), Change(items)
  PROVE  files' = gs /\ intact' = intact
<1>1. Len(items) \in Nat
  OBVIOUS
<1>2. PICK t : Leads(items, files, t) /\ t[Len(items)] = gs
  BY <1>1, ReachesLeads
<1> QED
  BY <1>1, <1>2, ChangeFiles

(* Changes of which the first alone does no harm. *)
LEMMA HoldsStep ==
  ASSUME DiskHolds, MemoryInv, log \in Seq(Works), kept' = kept,
         \A m \in ToSet(log) : wrote'[m] = wrote[m],
         log' = log \/ \E m \in Works : log' = Append(log, m),
         NEW items \in Seq(Items(Names, Values)), NEW gs, Reaches(items, files, gs),
         items # <<>> => Harmless(items[1], files),
         Change(items)
  PROVE  DiskHolds'
<1>1. PICK mid, k : Faithful(Names, Values, mid) /\ Sound(disk, kept) /\ Sound(mid, k) /\ kept <= k
  BY DEF DiskHolds
<1>2. PICK m : /\ Faithful(Names, Values, m)'
               /\ m = mid \/ (items # <<>> /\ m = Applied(items[1], files))
  BY <1>1, ChangeReaches
<1>3. disk' = disk
  BY <1>1, ChangeReaches
<1>4. PICK n : Sound(m, n) /\ kept <= n
  <2>1. items # <<>> => Sound(Applied(items[1], files), Len(log))
    BY FilesAreSound DEF Harmless
  <2>2. kept <= Len(log)
    BY <1>1 DEF Sound
  <2> QED
    BY <1>1, <1>2, <2>1, <2>2
<1>5. PICK fs, l : fs = disk /\ l = kept
  OBVIOUS
<1>6. Sound(m, n)' /\ Sound(fs, l)'
  BY <1>1, <1>4, <1>5, SoundKept
<1>7. Sound(disk, kept)'
  BY <1>3, <1>5, <1>6 DEF Sound
<1> QED
  BY <1>2, <1>3, <1>4, <1>6, <1>7 DEF DiskHolds

LEMMA DiskStep ==
  ASSUME DiskInv, MemoryInv, log \in Seq(Works), kept' = kept,
         \A m \in ToSet(log) : wrote'[m] = wrote[m],
         log' = log \/ \E m \in Works : log' = Append(log, m),
         NEW items \in Seq(Items(Names, Values)), NEW gs, Reaches(items, files, gs),
         items # <<>> => Harmless(items[1], files),
         Change(items)
  PROVE  files' = gs /\ DiskInv'
<1>1. files' = gs /\ intact' = intact
  BY MemoryChanges
<1>2. intact' => DiskHolds'
  BY <1>1, HoldsStep DEF DiskInv
<1>3. kept' \in 0..Len(log')
  <2>1. kept \in 0..Len(log)
    BY DEF DiskInv
  <2>2. Len(log') = Len(log) \/ Len(log') = Len(log) + 1
    OBVIOUS
  <2> QED
    BY <2>1, <2>2
<1> QED
  BY <1>1, <1>2, <1>3 DEF DiskInv

(* A step that does not touch the files. *)
LEMMA HoldsKept ==
  ASSUME DiskHolds, UNCHANGED <<filesVars, log, kept>>, log \in Seq(Works),
         \A m \in ToSet(log) : wrote'[m] = wrote[m]
  PROVE  DiskHolds'
<1>1. PICK mid, k : Faithful(Names, Values, mid) /\ Sound(disk, kept) /\ Sound(mid, k) /\ kept <= k
  BY DEF DiskHolds
<1>2. PICK fs, l : fs = disk /\ l = kept
  OBVIOUS
<1>3. Sound(mid, k)' /\ Sound(fs, l)'
  BY <1>1, <1>2, SoundKept
<1>4. Sound(disk, kept)'
  BY <1>2, <1>3 DEF Sound, filesVars
<1>5. Faithful(Names, Values, mid)'
  BY <1>1 DEF Faithful, filesVars
<1> QED
  BY <1>1, <1>3, <1>4, <1>5 DEF DiskHolds

LEMMA DiskKept ==
  ASSUME DiskInv, UNCHANGED <<filesVars, log, kept>>, log \in Seq(Works),
         \A m \in ToSet(log) : wrote'[m] = wrote[m]
  PROVE  DiskInv'
<1>1. intact' = intact /\ kept' = kept /\ log' = log
  BY DEF filesVars
<1>2. intact' => DiskHolds'
  BY <1>1, HoldsKept DEF DiskInv
<1> QED
  BY <1>1, <1>2 DEF DiskInv

-----------------------------------------------------------------------------
(* The windows and the log *)

(* What the others have written stays. *)
OnlyWrote(c) ==
  \A d \in Clients \ {c} : \A k \in 1..MaxWorks : wrote'[<<d, k>>] = wrote[<<d, k>>]

(* What a window works on is one of its works. *)
LEMMA BegunIs ==
  ASSUME WorkerInv, NEW c \in Clients, asked[c].kind \notin {"none", "open"} \/ owned[c] # None
  PROVE  Own(c) \in Works /\ works[c] \in 1..MaxWorks
<1>1. WorkerTypes /\ RequestInv(c) /\ MaxWorks \in Nat
  BY WorksAssumption DEF WorkerInv
<1>2. CASE owned[c] # None
  BY <1>1, <1>2 DEF WorkerTypes, RequestInv, Own, Works
<1>3. CASE asked[c].kind \notin {"none", "open"}
  <2>1. works[c] # 0 /\ works[c] \in 0..MaxWorks
    BY <1>1, <1>3 DEF WorkerTypes, RequestInv
  <2> QED
    BY <1>1, <2>1 DEF Own, Works
<1> QED
  BY <1>2, <1>3

(* A step of c is nothing to the others. *)
LEMMA OtherWindows ==
  ASSUME WorkerInv, WindowsInv, NEW c \in Clients, OnlyRow(c), OnlyWrote(c),
         connections # 0 => connections' # 0,
         log' = log \/ log' = Append(log, Own(c)), Own(c) \in Works \/ log' = log,
         NEW d \in Clients, d # c
  PROVE  /\ Needs(d)' => connections' # 0
         /\ Logged(d)' /\ WroteFits(d)'
         /\ UNCHANGED <<inTransaction, working, committed>> => WorkFits(d)'
         /\ Committable(d)' => InGate(d)' /\ inTransaction'
<1>1. SameRow(d) /\ \A k \in 1..MaxWorks : wrote'[<<d, k>>] = wrote[<<d, k>>]
  BY DEF OnlyRow, OnlyWrote
<1>2. Own(d)' = Own(d) /\ (InGate(d)' <=> InGate(d))
  BY OthersKept
<1>3. /\ Needs(d) => connections # 0
      /\ Logged(d) /\ WroteFits(d) /\ WorkFits(d)
  BY DEF WindowsInv
<1>4. Needs(d)' => connections' # 0
  BY <1>1, <1>3 DEF SameRow, Needs
<1>5. Logged(d)'
  <2>1. Unfinished(d)' => Unfinished(d)
    BY <1>1 DEF SameRow, Unfinished
  <2>2. \A m \in ToSet(log') : m \in ToSet(log) \/ m = Own(c)
    <3>1. CASE log' = log
      BY <3>1
    <3>2. CASE log' # log
      <4>1. log' = Append(log, Own(c)) /\ Own(c) \in Works /\ log \in Seq(Works)
        BY <3>2 DEF WindowsInv, LogInv
      <4>2. ToSet(Append(log, Own(c))) = ToSet(log) \cup {Own(c)}
        BY <4>1, AppendedIs
      <4>3. ToSet(log') = ToSet(Append(log, Own(c)))
        BY <4>1 DEF ToSet
      <4> QED
        BY <4>2, <4>3
    <3> QED
      BY <3>1, <3>2
  <2>3. Own(d) # Own(c)
    BY DEF Own
  <2> QED
    BY <1>2, <1>3, <2>1, <2>2, <2>3 DEF Logged
<1>6. asked[d].kind \notin {"none", "open"} => wrote'[Own(d)] = wrote[Own(d)]
  BY <1>1, BegunIs DEF Own
<1>7. WroteFits(d)'
  BY <1>1, <1>2, <1>3, <1>6 DEF SameRow, WroteFits
<1>8. Committable(d)' => InGate(d)' /\ inTransaction'
  BY DEF Committable
<1>9. ASSUME UNCHANGED <<inTransaction, working, committed>>
      PROVE  WorkFits(d)'
  <2>1. Committable(d)' => Committable(d)
    BY <1>1, <1>2, <1>9 DEF SameRow, Committable
  <2>2. Coming(d)' = Coming(d)
    BY <1>1 DEF SameRow, Coming
  <2>3. Committable(d) => wrote'[Own(d)] = wrote[Own(d)]
    <3>1. Committable(d) => asked[d].kind \notin {"none", "open"} \/ owned[d] # None
      BY DEF Committable, InGate
    <3> QED
      BY <1>1, <3>1, BegunIs DEF Own
  <2> QED
    BY <1>2, <1>3, <1>9, <2>1, <2>2, <2>3 DEF WorkFits, Mark
<1> QED
  BY <1>4, <1>5, <1>7, <1>8, <1>9

(* What is left to show of a step of c that leaves the database alone. *)
LEMMA WindowStep ==
  ASSUME WorkerInv, WorkerInv', WindowsInv, NEW c \in Clients, OnlyRow(c), OnlyWrote(c),
         UNCHANGED <<log, inTransaction, working, committed>>,
         connections # 0 => connections' # 0, works'[c] >= works[c],
         Needs(c)' => connections' # 0, Logged(c)', WroteFits(c)', WorkFits(c)'
  PROVE  WindowsInv'
<1>1. \A d \in Clients : /\ Needs(d)' => connections' # 0
                         /\ Logged(d)' /\ WroteFits(d)' /\ WorkFits(d)'
  BY OtherWindows
<1>2. LogInv'
  <2>1. ASSUME NEW m \in ToSet(log)
        PROVE  m[2] <= works'[m[1]]
    <3>1. m \in Works /\ m[2] <= works[m[1]]
      BY DEF WindowsInv, LogInv, ToSet
    <3>2. m[1] \in Clients /\ m[2] \in Nat
      BY <3>1, WorksAssumption DEF Works
    <3>3. works[m[1]] \in Nat /\ works'[m[1]] \in Nat
      BY <3>2, WorksAssumption DEF WorkerInv, WorkerTypes
    <3>4. CASE m[1] = c
      BY <3>1, <3>2, <3>3, <3>4
    <3>5. CASE m[1] # c
      BY <3>1, <3>2, <3>5 DEF OnlyRow, SameRow
    <3> QED
      BY <3>4, <3>5
  <2> QED
    BY <2>1 DEF WindowsInv, LogInv
<1>3. inTransaction' => connections' # 0
  BY DEF WindowsInv
<1> QED
  BY <1>1, <1>2, <1>3 DEF WindowsInv

(* A request is posted. *)
LEMMA PostRow ==
  ASSUME WorkerInv, NEW c \in Clients, NEW kind, NEW P, Post(c, kind, P),
         \A d \in Clients \ {c} : phase'[d] = phase[d] /\ works'[d] = works[d]
  PROVE  /\ stage[c] = "idle" /\ asked[c].kind = "none"
         /\ asked'[c] = [kind |-> kind, id |-> owned[c], pages |-> P]
         /\ stage'[c] = "posted" /\ owned'[c] = owned[c]
         /\ UNCHANGED <<connections, inTransaction, working, committed>>
         /\ OnlyRow(c)
<1>1. /\ asked' = [asked EXCEPT ![c] = [kind |-> kind, id |-> owned[c], pages |-> P]]
      /\ stage' = [stage EXCEPT ![c] = "posted"] /\ stage[c] = "idle"
      /\ UNCHANGED <<owned, outcome, openVars, databaseVars>>
  BY DEF Post, Move
<1>2. /\ DOMAIN asked = Clients /\ DOMAIN stage = Clients /\ asked[c].kind = "none"
  BY <1>1 DEF WorkerInv, WorkerTypes, RequestInv
<1>3. OnlyRow(c)
  BY <1>1, <1>2 DEF OnlyRow, SameRow
<1> QED
  BY <1>1, <1>2, <1>3 DEF openVars, databaseVars

(* A new piece of work is not in the log, and has written nothing yet.     *)
LEMMA NewWork ==
  ASSUME WorkerInv, WindowsInv, NEW c \in Clients, works[c] < MaxWorks
  PROVE  LET m == <<c, works[c] + 1>>
         IN  m \in Works /\ m \notin ToSet(log) /\ wrote[m] = {}
<1>1. works[c] \in Nat /\ MaxWorks \in Nat
  BY WorksAssumption DEF WorkerInv, WorkerTypes
<1>2. works[c] + 1 \in 1..MaxWorks
  BY <1>1
<1>3. <<c, works[c] + 1>> \notin ToSet(log)
  <2>1. \A m \in ToSet(log) : m[2] <= works[m[1]]
    BY DEF WindowsInv, LogInv
  <2> QED
    BY <1>1, <2>1
<1>4. wrote[<<c, works[c] + 1>>] = {}
  BY <1>1, <1>2 DEF WindowsInv, WroteFits
<1> QED
  BY <1>2, <1>3, <1>4 DEF Works

Writes(m, P) == wrote' = [wrote EXCEPT ![m] = P]

(* A window asks for something. *)
LEMMA AskWindows ==
  ASSUME WorkerInv, WorkerInv', WindowsInv, NEW c \in Clients, log' = log,
         \/ Load(c) \/ AskBegin(c) \/ AskRead(c)
         \/ \E P \in Changes : AskSingle(c, P) \/ AskWrite(c, P)
         \/ \E kind \in Ends : AskEnd(c, kind)
  PROVE  WindowsInv'
<1>1. /\ WorkerTypes /\ RequestInv(c) /\ RequestInv(c)' /\ MaxWorks \in Nat
      /\ works[c] \in Nat
      /\ Needs(c) => connections # 0
      /\ Logged(c) /\ WroteFits(c) /\ WorkFits(c)
  BY WorksAssumption DEF WorkerInv, WorkerTypes, WindowsInv
<1>2. CASE Load(c)
  <2>1. Post(c, "open", {}) /\ phase' = [phase EXCEPT ![c] = "loading"] /\ UNCHANGED <<works, wrote>>
    BY <1>2 DEF Load
  <2>2. phase'[c] = "loading" /\ \A d \in Clients \ {c} : phase'[d] = phase[d] /\ works'[d] = works[d]
    BY <1>1, <2>1 DEF WorkerTypes
  <2>3. /\ asked'[c].kind = "open" /\ stage'[c] = "posted" /\ OnlyRow(c)
        /\ UNCHANGED <<connections, inTransaction, working, committed>>
    <3>1. /\ asked'[c] = [kind |-> "open", id |-> owned[c], pages |-> {}]
          /\ stage'[c] = "posted" /\ OnlyRow(c)
          /\ UNCHANGED <<connections, inTransaction, working, committed>>
      BY <2>1, <2>2, PostRow
    <3> QED
      BY <3>1
  <2>4. owned'[c] = None
    BY <1>1, <2>3 DEF RequestInv
  <2>5. OnlyWrote(c) /\ works'[c] >= works[c]
    BY <1>1, <2>1 DEF OnlyWrote
  <2>6. ~Needs(c)' /\ Logged(c)' /\ WorkFits(c)'
    BY <2>2, <2>3, <2>4 DEF Needs, Logged, Unfinished, WorkFits, Committable, InGate
  <2>7. WroteFits(c)'
    BY <1>1, <2>1, <2>3 DEF WroteFits
  <2> QED
    BY <2>3, <2>5, <2>6, <2>7, WindowStep
<1>3. ASSUME NEW kind, NEW P, kind \in {"begin", "read", "write"}, Post(c, kind, P),
             phase[c] = "ready", phase' = phase, owned[c] = None, works[c] < MaxWorks,
             works' = [works EXCEPT ![c] = @ + 1],
             wrote' = wrote \/ Writes(<<c, works[c] + 1>>, P),
             kind = "begin" => wrote' = wrote,
             kind = "write" => P # {} /\ Writes(<<c, works[c] + 1>>, P)
      PROVE  WindowsInv'
  <2> DEFINE m == <<c, works[c] + 1>>
  <2>1. m \in Works /\ m \notin ToSet(log) /\ wrote[m] = {}
    BY <1>3, NewWork
  <2>2. works'[c] = works[c] + 1 /\ \A d \in Clients \ {c} : phase'[d] = phase[d] /\ works'[d] = works[d]
    BY <1>1, <1>3 DEF WorkerTypes
  <2>3. /\ asked'[c] = [kind |-> kind, id |-> owned[c], pages |-> P]
        /\ stage'[c] = "posted" /\ owned'[c] = owned[c] /\ OnlyRow(c)
        /\ UNCHANGED <<connections, inTransaction, working, committed>>
    BY <1>3, <2>2, PostRow
  <2>4. Own(c)' = m
    BY <2>2 DEF Own
  <2>5. \A n \in Works : n # m => wrote'[n] = wrote[n]
    BY <1>1, <1>3 DEF WorkerTypes, Writes
  <2>6. OnlyWrote(c)
    BY <2>5 DEF OnlyWrote, Works
  <2>7. Logged(c)'
    BY <2>1, <2>4 DEF Logged
  <2>8. Needs(c)' => connections' # 0
    BY <1>1, <1>3, <2>3 DEF Needs
  <2>9. ~InGate(c)'
    BY <1>3, <2>3 DEF InGate
  <2>10. WorkFits(c)'
    BY <2>9 DEF WorkFits, Committable
  <2>11. WroteFits(c)'
    <3>1. ASSUME NEW k \in 1..MaxWorks, k > works'[c]
          PROVE  wrote'[<<c, k>>] = {}
      <4>1. <<c, k>> \in Works /\ <<c, k>> # m /\ k > works[c]
        BY <1>1, <2>2, <3>1 DEF Works
      <4> QED
        BY <1>1, <2>5, <4>1 DEF WroteFits
    <3>2. kind = "begin" => wrote'[m] = {}
      BY <1>3, <2>1
    <3>3. kind = "write" => wrote'[m] = P
      BY <1>1, <1>3, <2>1 DEF WorkerTypes, Writes
    <3> HIDE DEF m
    <3>4. asked'[c].kind = kind /\ asked'[c].pages = P
      BY <2>3
    <3> QED
      BY <1>3, <2>4, <3>1, <3>2, <3>3, <3>4 DEF WroteFits
  <2> QED
    BY <1>1, <2>2, <2>3, <2>6, <2>7, <2>8, <2>10, <2>11, WindowStep
<1>4. CASE AskBegin(c) \/ AskRead(c)
  <2>1. /\ phase[c] = "ready" /\ phase' = phase /\ owned[c] = None /\ works[c] < MaxWorks
        /\ works' = [works EXCEPT ![c] = @ + 1] /\ wrote' = wrote
        /\ Post(c, "begin", {}) \/ Post(c, "read", {})
    BY <1>4 DEF AskBegin, AskRead
  <2>2. CASE Post(c, "begin", {})
    BY <1>3, <2>1, <2>2
  <2>3. CASE Post(c, "read", {})
    BY <1>3, <2>1, <2>3
  <2> QED
    BY <2>1, <2>2, <2>3
<1>5. ASSUME NEW P \in Changes, AskSingle(c, P)
      PROVE  WindowsInv'
  <2>1. P # {}
    BY WorksAssumption
  <2>2. /\ phase[c] = "ready" /\ phase' = phase /\ owned[c] = None /\ works[c] < MaxWorks
        /\ works' = [works EXCEPT ![c] = @ + 1]
        /\ Writes(<<c, works[c] + 1>>, P)
        /\ Post(c, "write", P)
    BY <1>5 DEF AskSingle, Writes
  <2> QED
    BY <1>3, <2>1, <2>2
<1>6. ASSUME NEW kind, NEW P, kind \in {"write"} \cup Ends, Post(c, kind, P), owned[c] # None,
             phase[c] = "ready" \/ (phase[c] = "failing" /\ kind = "rollback"),
             UNCHANGED <<phase, works>>,
             kind = "write" => P # {} /\ P \subseteq Pages /\ wrote' = [wrote EXCEPT ![<<c, works[c]>>] = @ \cup P],
             kind \in Ends => wrote' = wrote
      PROVE  WindowsInv'
  <2>1. /\ stage[c] = "idle" /\ asked[c].kind = "none"
        /\ asked'[c] = [kind |-> kind, id |-> owned[c], pages |-> P]
        /\ stage'[c] = "posted" /\ owned'[c] = owned[c] /\ OnlyRow(c)
        /\ UNCHANGED <<connections, inTransaction, working, committed>>
    BY <1>6, PostRow
  <2>2. Own(c)' = Own(c) /\ Own(c) \in Works /\ Own(c) = <<c, works[c]>> /\ works[c] \in 1..MaxWorks
    BY <1>6, BegunIs DEF Own
  <2>3. \A n \in Works : n # Own(c) => wrote'[n] = wrote[n]
    BY <1>1, <1>6, <2>2 DEF WorkerTypes, Ends
  <2>4. kind = "write" => wrote'[Own(c)] = wrote[Own(c)] \cup P
    BY <1>1, <1>6, <2>2 DEF WorkerTypes
  <2>5. kind \in Ends => wrote'[Own(c)] = wrote[Own(c)]
    BY <1>6
  <2>6. asked'[c].kind = kind /\ asked'[c].pages = P
    BY <2>1
  <2>7. OnlyWrote(c) /\ works'[c] >= works[c]
    BY <1>1, <1>6, <2>2, <2>3 DEF OnlyWrote, Works
  <2>8. Logged(c)'
    <3>1. Unfinished(c)
      BY <1>6, <2>1 DEF Unfinished
    <3> QED
      BY <1>1, <2>2, <3>1 DEF Logged
  <2>9. Needs(c)' => connections' # 0
    BY <1>1, <1>6, <2>1 DEF Needs
  <2>10. WroteFits(c)'
    <3>1. ASSUME NEW k \in 1..MaxWorks, k > works'[c]
          PROVE  wrote'[<<c, k>>] = {}
      <4>1. <<c, k>> \in Works /\ <<c, k>> # Own(c) /\ k > works[c]
        BY <1>1, <1>6, <2>2, <3>1 DEF Works
      <4> QED
        BY <1>1, <2>3, <4>1 DEF WroteFits
    <3>2. kind # "begin" /\ owned'[c] # None
      BY <1>6, <2>1 DEF Ends
    <3> QED
      BY <1>6, <2>6, <3>1, <3>2 DEF WroteFits
  <2>11. WorkFits(c)'
    <3> SUFFICES ASSUME Committable(c)', NEW p \in Pages
                 PROVE  working[p] \cup Mark(c, p \in Coming(c)')
                          = committed[p] \cup Mark(c, p \in wrote'[Own(c)])
      BY <2>1, <2>2 DEF WorkFits, Mark
    <3>1. kind # "rollback" /\ phase[c] = "ready" /\ inTransaction
      BY <1>6, <2>1, <2>6 DEF Committable
    <3>2. InGate(c)
      BY <1>6, <2>1 DEF InGate
    <3>3. Committable(c) /\ Coming(c) = {}
      BY <2>1, <3>1, <3>2 DEF Committable, Coming
    <3>4. working[p] \cup Mark(c, p \in {}) = committed[p] \cup Mark(c, p \in wrote[Own(c)])
      BY <1>1, <3>3 DEF WorkFits
    <3>5. working[p] = committed[p] \cup Mark(c, p \in wrote[Own(c)])
      BY <3>4 DEF Mark
    <3>6. CASE kind = "write"
      <4>1. Coming(c)' = P
        BY <2>1, <2>6, <3>6 DEF Coming, Waits
      <4> QED
        BY <2>4, <3>5, <3>6, <4>1 DEF Mark
    <3>7. CASE kind \in Ends
      <4>1. Coming(c)' = {}
        BY <2>6, <3>7 DEF Coming, Ends
      <4> QED
        BY <2>5, <3>5, <3>7, <4>1 DEF Mark
    <3> QED
      BY <1>6, <3>6, <3>7
  <2> QED
    BY <2>1, <2>7, <2>8, <2>9, <2>10, <2>11, WindowStep
<1>7. ASSUME NEW P \in Changes, AskWrite(c, P)
      PROVE  WindowsInv'
  <2>1. P # {} /\ P \subseteq Pages
    BY WorksAssumption
  <2> QED
    BY <1>6, <1>7, <2>1 DEF AskWrite, Ends
<1>8. ASSUME NEW kind \in Ends, AskEnd(c, kind)
      PROVE  WindowsInv'
  BY <1>6, <1>8 DEF AskEnd, Ends
<1> QED
  BY <1>2, <1>4, <1>5, <1>7, <1>8

(* A window takes its answer. *)
LEMMA ReceiveWindows ==
  ASSUME WorkerInv, WorkerInv', WindowsInv, NEW c \in Clients, log' = log, Receive(c)
  PROVE  WindowsInv'
<1> DEFINE r == asked[c]
           over == r.kind \in Ends \/ outcome[c] = "closed"
<1>1. /\ WorkerTypes /\ RequestInv(c) /\ works[c] \in Nat
      /\ Needs(c) => connections # 0
      /\ Logged(c) /\ WroteFits(c) /\ WorkFits(c)
  BY WorksAssumption DEF WorkerInv, WorkerTypes, WindowsInv
<1>2. /\ stage[c] = "answered" /\ stage' = [stage EXCEPT ![c] = "idle"]
      /\ phase' = [phase EXCEPT ![c] =
           IF r.kind = "open" THEN IF outcome[c] = "ok" THEN "ready" ELSE "failed"
           ELSE IF owned[c] # None /\ outcome[c] = "failed" THEN "failing" ELSE "ready"]
      /\ owned' = [owned EXCEPT ![c] =
           IF over THEN None ELSE IF r.kind = "begin" /\ outcome[c] = "ok" THEN r.id ELSE @]
      /\ asked' = [asked EXCEPT ![c] = NoRequest]
      /\ outcome' = [outcome EXCEPT ![c] = "ok"]
      /\ UNCHANGED <<works, wrote, connections, inTransaction, working, committed>>
  BY DEF Receive, Move, openVars, databaseVars
<1>3. /\ stage'[c] = "idle" /\ asked'[c] = NoRequest
      /\ owned'[c] = (IF over THEN None ELSE IF r.kind = "begin" /\ outcome[c] = "ok" THEN r.id ELSE owned[c])
      /\ phase'[c] = (IF r.kind = "open" THEN IF outcome[c] = "ok" THEN "ready" ELSE "failed"
                      ELSE IF owned[c] # None /\ outcome[c] = "failed" THEN "failing" ELSE "ready")
      /\ OnlyRow(c)
  BY <1>1, <1>2 DEF WorkerTypes, OnlyRow, SameRow
<1>4. asked'[c].kind = "none"
  BY <1>3 DEF NoRequest
<1>5. Own(c)' = Own(c) /\ OnlyWrote(c) /\ works'[c] >= works[c]
  BY <1>1, <1>2 DEF Own, OnlyWrote
<1>6. Needs(c)' => connections' # 0
  <2>1. r.kind # "none"
    BY <1>1, <1>2 DEF RequestInv
  <2>2. r.kind = "open" => connections # 0 \/ phase'[c] = "failed"
    BY <1>1, <1>2, <1>3 DEF Needs
  <2>3. r.kind # "open" => connections # 0
    BY <1>1, <2>1 DEF Needs
  <2> QED
    BY <1>2, <1>4, <2>2, <2>3 DEF Needs
(* Its transaction goes on. *)
<1>7. ASSUME owned'[c] # None
      PROVE  /\ Unfinished(c) /\ InGate(c)
             /\ r.kind = "begin" \/ r.kind = "write"
             /\ r.kind = "write" => owned[c] # None
  <2>1. ~over
    BY <1>3, <1>7
  <2>2. CASE r.kind = "begin"
    BY <1>1, <1>2, <2>1, <2>2 DEF RequestInv, Unfinished, InGate
  <2>3. CASE r.kind # "begin"
    <3>1. owned[c] # None /\ r.kind = "write"
      BY <1>1, <1>2, <1>3, <1>7, <2>1, <2>3 DEF RequestInv, WorkerTypes, Kinds, Ends
    <3> QED
      BY <1>2, <2>1, <3>1 DEF Unfinished, InGate
  <2> QED
    BY <2>2, <2>3
<1>8. Logged(c)'
  BY <1>1, <1>2, <1>4, <1>5, <1>7 DEF Logged, Unfinished
<1>9. WroteFits(c)'
  BY <1>1, <1>2, <1>4, <1>5 DEF WroteFits
<1>10. WorkFits(c)'
  <2> SUFFICES ASSUME Committable(c)' PROVE WorkFits(c)'
    BY DEF WorkFits
  <2>1. owned'[c] # None /\ inTransaction /\ phase'[c] = "ready"
    BY <1>2, <1>3, <1>4 DEF Committable, InGate
  <2>2. r.kind = "write" => outcome[c] = "ok"
    BY <1>1, <1>3, <1>7, <2>1 DEF WorkerTypes
  <2>3. Committable(c)
    BY <1>2, <1>7, <2>1, <2>2 DEF Committable
  <2>4. Coming(c) = {} /\ Coming(c)' = {}
    BY <1>2, <1>4 DEF Coming, Waits
  <2> QED
    BY <1>1, <1>2, <1>5, <2>3, <2>4 DEF WorkFits, Mark
<1> QED
  BY <1>2, <1>3, <1>5, <1>6, <1>8, <1>9, <1>10, WindowStep

(* A request goes on, and the database stays as it is. *)
LEMMA GoesOn ==
  ASSUME WorkerInv, WorkerInv', WindowsInv, NEW c \in Clients, OnlyRow(c),
         UNCHANGED <<works, owned, wrote, log, inTransaction, working, committed>>,
         connections # 0 => connections' # 0,
         asked'[c].kind = asked[c].kind, asked'[c].pages = asked[c].pages,
         Needs(c)' => Needs(c) \/ connections' # 0,
         Unfinished(c)' => Unfinished(c),
         Committable(c)' => Committable(c) /\ Coming(c)' = Coming(c)
  PROVE  WindowsInv'
<1>1. /\ works[c] \in Nat
      /\ Needs(c) => connections # 0
      /\ Logged(c) /\ WroteFits(c) /\ WorkFits(c)
  BY WorksAssumption DEF WorkerInv, WorkerTypes, WindowsInv
<1>2. Own(c)' = Own(c) /\ OnlyWrote(c) /\ works'[c] >= works[c]
  BY <1>1 DEF Own, OnlyWrote
<1>3. Logged(c)' /\ WroteFits(c)' /\ (Needs(c)' => connections' # 0)
  BY <1>1, <1>2 DEF Logged, WroteFits
<1>4. WorkFits(c)'
  BY <1>1, <1>2 DEF WorkFits, Mark
<1> QED
  BY <1>2, <1>3, <1>4, WindowStep

(* A window goes. *)
LEMMA LeaveWindows ==
  ASSUME WorkerInv, WorkerInv', WindowsInv, NEW c \in Clients, log' = log, Leave(c)
  PROVE  WindowsInv'
<1>1. /\ phase' = [phase EXCEPT ![c] = "gone"]
      /\ UNCHANGED <<works, owned, wrote, asked, stage, outcome, connections,
                     inTransaction, working, committed>>
  BY DEF Leave, openVars, databaseVars
<1>2. phase'[c] = "gone" /\ OnlyRow(c)
  BY <1>1 DEF OnlyRow, SameRow, WorkerInv, WorkerTypes
<1>3. Needs(c)' => Needs(c)
  BY <1>1, <1>2 DEF Needs
<1>4. Unfinished(c)' => Unfinished(c)
  BY <1>1 DEF Unfinished
<1>5. Committable(c)' => Committable(c) /\ Coming(c)' = Coming(c)
  BY <1>1, <1>2 DEF Committable, Coming, InGate
<1> QED
  BY <1>1, <1>2, <1>3, <1>4, <1>5, GoesOn

(* A request moves on to the gate or to the lock. *)
LEMMA PassWindows ==
  ASSUME WorkerInv, WorkerInv', WindowsInv, NEW c \in Clients, log' = log,
         stage[c] \in {"posted", "queued"}, asked[c].kind # "open",
         NEW s \in {"queued", "locked"}, Move(c, s),
         UNCHANGED <<clientVars, asked, outcome, connections, databaseVars>>
  PROVE  WindowsInv'
<1>1. /\ stage' = [stage EXCEPT ![c] = s]
      /\ UNCHANGED <<phase, works, owned, wrote, asked, outcome, connections,
                     inTransaction, working, committed>>
  BY DEF Move, clientVars, databaseVars
<1>2. stage'[c] = s /\ OnlyRow(c) /\ RequestInv(c) /\ RequestInv(c)'
  BY <1>1 DEF OnlyRow, SameRow, WorkerInv, WorkerTypes
<1>3. Needs(c)' => Needs(c)
  BY <1>1 DEF Needs
<1>4. Unfinished(c)' => Unfinished(c)
  BY <1>1, <1>2 DEF Unfinished, Waits, Done
<1>5. Committable(c)' => Committable(c) /\ Coming(c)' = Coming(c)
  <2> SUFFICES ASSUME Committable(c)' PROVE Committable(c) /\ Coming(c)' = Coming(c)
    OBVIOUS
  <2>1. owned[c] # None
    <3>1. SUFFICES ASSUME asked[c].kind = "begin", s = "locked" PROVE FALSE
      BY <1>1, <1>2 DEF Committable, InGate
    <3>2. ~inTransaction'
      BY <1>1, <1>2, <3>1 DEF WorkerInv, TransactionInv, Committable
    <3> QED
      BY <3>2 DEF Committable
  <2>2. InGate(c)
    BY <2>1 DEF InGate
  <2> QED
    BY <1>1, <1>2, <2>2 DEF Committable, Coming, Waits, Done
<1> QED
  BY <1>1, <1>2, <1>3, <1>4, <1>5, GoesOn

(* Opening the database is nothing to any transaction. *)
LEMMA OpenWindows ==
  ASSUME WorkerInv, WorkerInv', WindowsInv, NEW c \in Clients, log' = log,
         asked[c].kind = "open", OnlyRow(c), UNCHANGED <<clientVars, asked, databaseVars>>,
         connections # 0 => connections' # 0,
         stage'[c] \in {"opened", "answered"} /\ outcome'[c] = "ok" => Needs(c) \/ connections' # 0
  PROVE  WindowsInv'
<1>1. UNCHANGED <<phase, works, owned, wrote, asked, inTransaction, working, committed>>
  BY DEF clientVars, databaseVars
<1>2. owned[c] = None
  BY DEF WorkerInv, RequestInv
<1>3. Needs(c)' => Needs(c) \/ connections' # 0
  BY <1>1 DEF Needs
<1>4. ~Unfinished(c)' /\ ~Committable(c)'
  BY <1>1, <1>2 DEF Unfinished, Committable, InGate
<1> QED
  BY <1>1, <1>3, <1>4, GoesOn

(* A message is delivered. *)
LEMMA DeliverWindows ==
  ASSUME WorkerInv, WorkerInv', WindowsInv, NEW c \in Clients, log' = log, Deliver(c)
  PROVE  WindowsInv'
<1>1. stage[c] = "posted" /\ UNCHANGED <<clientVars, asked, outcome, databaseVars>>
  BY DEF Deliver
<1>2. CASE asked[c].kind # "open" /\ Gate(c) /\ UNCHANGED openVars
  <2>1. Move(c, "locked") \/ Move(c, "queued")
    BY <1>2 DEF Gate, Pass, Queue
  <2>2. connections' = connections
    BY <1>2 DEF openVars
  <2> QED
    BY <1>1, <1>2, <2>1, <2>2, PassWindows
<1>3. ASSUME asked[c].kind = "open", NEW s \in {"opening", "starting"}, Move(c, s),
             UNCHANGED connections
      PROVE  WindowsInv'
  <2>1. stage' = [stage EXCEPT ![c] = s]
    BY <1>3 DEF Move
  <2>2. stage'[c] = s /\ OnlyRow(c)
    BY <1>1, <2>1 DEF OnlyRow, SameRow, WorkerInv, WorkerTypes, clientVars
  <2> QED
    BY <1>1, <1>3, <2>2, OpenWindows
<1>4. CASE asked[c].kind = "open" /\ ready /\ EnterOpening(c) /\ UNCHANGED connections
  BY <1>3, <1>4 DEF EnterOpening
<1>5. CASE asked[c].kind = "open" /\ ~ready /\ Move(c, "starting") /\ UNCHANGED connections
  BY <1>3, <1>5
<1> QED
  BY <1>2, <1>4, <1>5 DEF Deliver, openVars

Turns(c, o) == outcome' = [outcome EXCEPT ![c] = o]

(* The steps of opening the connection. *)
LEMMA OpeningWindows ==
  ASSUME WorkerInv, WorkerInv', WindowsInv, NEW c \in Clients, log' = log,
         Initialise(c) \/ Lookup(c) \/ Create(c) \/ Opened(c)
  PROVE  WindowsInv'
<1>1. /\ stage[c] \in {"starting", "opening", "creating", "opened"}
      /\ UNCHANGED <<clientVars, asked, databaseVars>>
  BY DEF Initialise, Lookup, Create, Opened
<1>2. /\ asked[c].kind = "open" /\ WorkerTypes /\ (Needs(c) => connections # 0)
      /\ connections \in Nat
  BY <1>1 DEF WorkerInv, WorkerTypes, RequestInv, WindowsInv
<1>3. ASSUME NEW s, Move(c, s), NEW o, Turns(c, o),
             connections # 0 => connections' # 0,
             s \in {"opened", "answered"} /\ o = "ok" => Needs(c) \/ connections' # 0
      PROVE  WindowsInv'
  <2>1. stage' = [stage EXCEPT ![c] = s]
    BY <1>3 DEF Move
  <2>2. stage'[c] = s /\ outcome'[c] = o /\ OnlyRow(c)
    BY <1>1, <1>2, <1>3, <2>1 DEF Turns, OnlyRow, SameRow, WorkerTypes, clientVars
  <2> QED
    BY <1>1, <1>2, <1>3, <2>2, OpenWindows
<1>4. UNCHANGED outcome => Turns(c, outcome[c])
  BY <1>2 DEF WorkerTypes, Turns
<1>5. CASE Initialise(c)
  <2>1. CASE Loaded(c)
    BY <1>3, <1>4, <2>1 DEF Loaded, EnterOpening
  <2>2. CASE LoadFails(c)
    <3>1. Move(c, "answered") /\ Turns(c, "failed") /\ UNCHANGED connections
      BY <2>2 DEF LoadFails, openVars, Turns
    <3> QED
      BY <1>3, <3>1
  <2> QED
    BY <1>5, <2>1, <2>2 DEF Initialise
<1>6. CASE Lookup(c)
  <2>1. CASE connections > 0
    <3>1. Move(c, "opened") /\ Turns(c, "ok") /\ UNCHANGED connections /\ connections # 0
      BY <1>2, <1>6, <2>1 DEF Lookup, openVars, Turns
    <3> QED
      BY <1>3, <3>1
  <2>2. CASE ~(connections > 0)
    <3>1. Move(c, "creating") /\ Turns(c, outcome[c]) /\ UNCHANGED connections
      BY <1>4, <1>6, <2>2 DEF Lookup, openVars
    <3> QED
      BY <1>3, <3>1
  <2> QED
    BY <2>1, <2>2
<1>7. CASE Create(c)
  <2>1. CASE connections' = connections + 1 /\ outcome' = [outcome EXCEPT ![c] = "ok"]
    <3>1. Move(c, "opened") /\ Turns(c, "ok") /\ connections' # 0
      BY <1>2, <1>7, <2>1 DEF Create, Turns
    <3> QED
      BY <1>3, <3>1
  <2>2. CASE UNCHANGED connections /\ outcome' = [outcome EXCEPT ![c] = "failed"]
    <3>1. Move(c, "opened") /\ Turns(c, "failed") /\ UNCHANGED connections
      BY <1>7, <2>2 DEF Create, Turns
    <3> QED
      BY <1>3, <3>1
  <2> QED
    BY <1>7, <2>1, <2>2 DEF Create
<1>8. CASE Opened(c)
  <2>1. UNCHANGED <<connections, outcome>> /\ Move(c, "answered") /\ stage[c] = "opened"
    BY <1>8 DEF Opened
  <2>2. outcome[c] = "ok" => Needs(c)
    BY <1>2, <2>1 DEF Needs
  <2> QED
    BY <1>3, <1>4, <2>1, <2>2
<1> QED
  BY <1>5, <1>6, <1>7, <1>8

(* A turn of the event loop. *)
LEMMA TurnWindows ==
  ASSUME WorkerInv, WorkerInv', WindowsInv, log' = log, TurnStep
  PROVE  WindowsInv'
<1>1. WorkerTypes /\ \A c \in Clients : RequestInv(c)
  BY DEF WorkerInv
<1>2. CASE RunHead
  <2> DEFINE c == Head(queue)
  <2>1. /\ c \in Clients /\ stage[c] = "queued" /\ Move(c, "locked")
        /\ UNCHANGED <<clientVars, asked, outcome, openVars, databaseVars>>
    BY <1>1, <1>2 DEF RunHead, Pass, WorkerTypes
  <2>2. asked[c].kind # "open" /\ connections' = connections
    BY <1>1, <2>1 DEF RequestInv, openVars
  <2> HIDE DEF c
  <2> QED
    BY <2>1, <2>2, PassWindows
<1>3. CASE Rest
  <2>1. UNCHANGED <<phase, works, owned, wrote, asked, stage, outcome, connections,
                    inTransaction, working, committed>>
    BY <1>3 DEF Rest, clientVars, openVars, databaseVars
  <2>2. ASSUME NEW c \in Clients
        PROVE  /\ Needs(c)' => connections' # 0
               /\ Logged(c)' /\ WroteFits(c)' /\ WorkFits(c)'
    <3>1. Own(c)' = Own(c) /\ (Committable(c)' <=> Committable(c)) /\ Coming(c)' = Coming(c)
      BY <2>1 DEF Own, Committable, InGate, Coming
    <3>2. (Needs(c) => connections # 0) /\ Logged(c) /\ WroteFits(c) /\ WorkFits(c)
      BY DEF WindowsInv
    <3> QED
      BY <2>1, <3>1, <3>2 DEF Needs, Logged, Unfinished, WroteFits, WorkFits, Mark
  <2> QED
    BY <2>1, <2>2 DEF WindowsInv, LogInv
<1>4. ASSUME NEW c \in Clients, Opened(c)
      PROVE  WindowsInv'
  BY <1>4, OpeningWindows
<1>5. ASSUME NEW c \in Clients, Unlock(c)
      PROVE  WindowsInv'
  <2>1. /\ stage[c] = "executed" /\ stage' = [stage EXCEPT ![c] = "settling"]
        /\ UNCHANGED <<phase, works, owned, wrote, asked, outcome, connections,
                       inTransaction, working, committed>>
    BY <1>5 DEF Unlock, Move, clientVars, openVars, databaseVars
  <2>2. stage'[c] = "settling" /\ OnlyRow(c)
    BY <1>1, <2>1 DEF OnlyRow, SameRow, WorkerTypes
  <2>3. Needs(c)' => Needs(c)
    BY <2>1, <2>2 DEF Needs
  <2>4. Unfinished(c)' => Unfinished(c)
    BY <2>1, <2>2 DEF Unfinished, Waits, Done
  <2>5. Committable(c)' => Committable(c) /\ Coming(c)' = Coming(c)
    BY <2>1, <2>2 DEF Committable, Coming, InGate, Waits, Done
  <2> QED
    BY <2>1, <2>2, <2>3, <2>4, <2>5, GoesOn
<1>6. ASSUME NEW c \in Clients, Settle(c)
      PROVE  WindowsInv'
  <2>1. /\ stage[c] = "settling" /\ stage' = [stage EXCEPT ![c] = "answered"]
        /\ \E n : asked' = [asked EXCEPT ![c].id = n]
        /\ outcome' = [outcome EXCEPT ![c] = Told(c)]
        /\ UNCHANGED <<phase, works, owned, wrote, connections, inTransaction, working, committed>>
    BY <1>6 DEF Settle, Move, clientVars, openVars, databaseVars
  <2>2. PICK n : asked' = [asked EXCEPT ![c].id = n]
    BY <2>1
  <2>3. /\ stage'[c] = "answered" /\ outcome'[c] = Told(c)
        /\ asked'[c].kind = asked[c].kind /\ asked'[c].pages = asked[c].pages
        /\ OnlyRow(c)
    BY <1>1, <2>1, <2>2 DEF OnlyRow, SameRow, WorkerTypes
  <2>4. outcome'[c] = "ok" <=> outcome[c] = "ok"
    BY <2>3 DEF Told
  <2>5. Needs(c)' => Needs(c)
    <3>1. asked[c].kind # "none" /\ asked[c].kind # "open"
      BY <1>1, <2>1 DEF RequestInv
    <3> QED
      BY <3>1 DEF Needs
  <2>6. Unfinished(c)' => Unfinished(c)
    BY <2>1, <2>3, <2>4 DEF Unfinished, Waits, Done
  <2>7. InGate(c)' => InGate(c)
    BY <2>1, <2>3 DEF InGate
  <2>8. Committable(c)' => Committable(c) /\ Coming(c)' = Coming(c)
    BY <2>1, <2>3, <2>4, <2>7 DEF Committable, Coming, Waits, Done
  <2> QED
    BY <2>1, <2>3, <2>5, <2>6, <2>8, GoesOn
<1> QED
  BY <1>2, <1>3, <1>4, <1>5, <1>6 DEF TurnStep

-----------------------------------------------------------------------------
(* Statements *)

(* A statement is executed. *)
LEMMA ExecutedRow ==
  ASSUME WorkerInv, WindowsInv, NEW c \in Clients, Executable(c), NEW o, Executed(c, o),
         asked[c].kind \notin {"none", "open"}
  PROVE  /\ stage[c] = "locked" /\ stage'[c] = "executed" /\ outcome'[c] = o
         /\ OnlyRow(c) /\ OnlyWrote(c) /\ Own(c)' = Own(c) /\ Own(c) \in Works
         /\ connections # 0
         /\ UNCHANGED <<phase, works, owned, wrote, asked, connections>>
<1>1. /\ stage[c] = "locked" /\ stage' = [stage EXCEPT ![c] = "executed"]
      /\ outcome' = [outcome EXCEPT ![c] = o]
      /\ UNCHANGED <<phase, works, owned, wrote, asked, connections>>
  BY DEF Executable, Executed, Move, clientVars, openVars
<1>2. DOMAIN stage = Clients /\ DOMAIN outcome = Clients
  BY DEF WorkerInv, WorkerTypes
<1>3. stage'[c] = "executed" /\ outcome'[c] = o /\ OnlyRow(c)
  BY <1>1, <1>2 DEF OnlyRow, SameRow
<1>4. OnlyWrote(c) /\ Own(c)' = Own(c)
  BY <1>1 DEF OnlyWrote, Own
<1>5. Own(c) \in Works
  BY BegunIs
<1>6. connections # 0
  BY DEF WindowsInv, Needs
<1> QED
  BY <1>1, <1>3, <1>4, <1>5, <1>6

(* A statement of the window that is let in, or of one that leaves the     *)
(* connection outside a transaction.                                       *)
LEMMA StatementWindows ==
  ASSUME WorkerInv, WorkerInv', WindowsInv, NEW c \in Clients, Executable(c),
         NEW o, Executed(c, o), asked[c].kind \notin {"none", "open"},
         log' = log \/ (log' = Append(log, Own(c)) /\ ~Unfinished(c)'),
         \/ UNCHANGED <<inTransaction, working, committed>>
         \/ ~inTransaction' \/ InGate(c)',
         WorkFits(c)'
  PROVE  WindowsInv'
<1>1. /\ stage[c] = "locked" /\ stage'[c] = "executed" /\ outcome'[c] = o
      /\ OnlyRow(c) /\ OnlyWrote(c) /\ Own(c)' = Own(c) /\ Own(c) \in Works
      /\ connections # 0
      /\ UNCHANGED <<phase, works, owned, wrote, asked, connections>>
  BY ExecutedRow
<1>2. Logged(c) /\ WroteFits(c) /\ LogInv
  BY DEF WindowsInv
<1>3. Logged(c)'
  <2>1. Unfinished(c)' => Unfinished(c)
    BY <1>1 DEF Unfinished, Waits, Done
  <2> QED
    BY <1>1, <1>2, <2>1 DEF Logged
<1>4. WroteFits(c)'
  BY <1>1, <1>2 DEF WroteFits
<1>5. ASSUME NEW d \in Clients, d # c
      PROVE  /\ Needs(d)' => connections' # 0
             /\ Logged(d)' /\ WroteFits(d)' /\ WorkFits(d)'
  <2>1. /\ Needs(d)' => connections' # 0
        /\ Logged(d)' /\ WroteFits(d)'
        /\ UNCHANGED <<inTransaction, working, committed>> => WorkFits(d)'
        /\ Committable(d)' => InGate(d)' /\ inTransaction'
    BY <1>1, <1>5, OtherWindows
  <2>2. InGate(c)' => ~InGate(d)'
    <3>1. InGate(c)' => current' = Own(c)'
      BY DEF WorkerInv, GateInv
    <3>2. InGate(d)' => current' = Own(d)'
      BY DEF WorkerInv, GateInv
    <3>3. Own(c)' # Own(d)'
      BY <1>5 DEF Own
    <3> QED
      BY <3>1, <3>2, <3>3
  <2> QED
    BY <2>1, <2>2 DEF WorkFits
<1>6. LogInv'
  <2>1. CASE log' = log
    BY <1>1, <1>2, <2>1 DEF LogInv
  <2>2. CASE log' = Append(log, Own(c))
    <3>1. log' \in Seq(Works) /\ ToSet(Append(log, Own(c))) = ToSet(log) \cup {Own(c)}
      BY <1>1, <1>2, <2>2, AppendedIs DEF LogInv
    <3>2. ToSet(log') = ToSet(log) \cup {Own(c)}
      BY <2>2, <3>1 DEF ToSet
    <3>3. Own(c)[1] = c /\ Own(c)[2] = works[c] /\ works[c] \in Nat
      BY WorksAssumption DEF Own, WorkerInv, WorkerTypes
    <3> QED
      BY <1>1, <1>2, <3>1, <3>2, <3>3 DEF LogInv
  <2> QED
    BY <2>1, <2>2
<1>7. (inTransaction' => connections' # 0) /\ (Needs(c)' => connections' # 0)
  BY <1>1
<1> QED
  BY <1>3, <1>4, <1>5, <1>6, <1>7 DEF WindowsInv

(* BEGIN, and statements that change nothing. *)
LEMMA IdleStatementWindows ==
  ASSUME WorkerInv, WorkerInv', WindowsInv, NEW c \in Clients, log' = log,
         ExecuteBegin(c) \/ ExecuteRead(c) \/ ExecuteFails(c)
  PROVE  WindowsInv'
<1>1. RequestInv(c) /\ WroteFits(c)
  BY DEF WorkerInv, WindowsInv
<1>2. CASE ExecuteBegin(c)
  <2>1. Executable(c) /\ asked[c].kind = "begin"
    BY <1>2 DEF ExecuteBegin
  <2>2. ~inTransaction
    BY <2>1, InsideIfOpen
  <2>3. Executed(c, "ok") /\ UNCHANGED <<working, committed>>
    BY <1>2, <2>2 DEF ExecuteBegin
  <2>4. working = committed
    BY <2>2 DEF WorkerInv, OneWriter
  <2>5. stage'[c] = "executed" /\ UNCHANGED <<asked, wrote>> /\ Own(c)' = Own(c)
    BY <2>1, <2>3, ExecutedRow
  <2>6. InGate(c)'
    BY <2>1, <2>5 DEF InGate
  <2>7. Coming(c)' = {} /\ wrote'[Own(c)] = {}
    BY <1>1, <2>1, <2>5 DEF Coming, WroteFits
  <2>8. WorkFits(c)'
    BY <2>3, <2>4, <2>5, <2>7 DEF WorkFits, Mark
  <2> QED
    BY <2>1, <2>3, <2>6, <2>8, StatementWindows
<1>3. CASE ExecuteRead(c) \/ ExecuteFails(c)
  <2>1. PICK o \in {"ok", "failed"} :
          /\ Executable(c) /\ Executed(c, o) /\ asked[c].kind \in {"read", "write"}
          /\ asked[c].kind = "write" => o = "failed"
    BY <1>3 DEF ExecuteRead, ExecuteFails
  <2>2. UNCHANGED <<inTransaction, working, committed>>
    BY <1>3 DEF ExecuteRead, ExecuteFails, databaseVars
  <2>3. stage'[c] = "executed" /\ outcome'[c] = o /\ UNCHANGED <<asked, owned>>
    BY <2>1, ExecutedRow
  <2>4. ~Committable(c)'
    BY <1>1, <2>1, <2>3 DEF Committable, InGate, RequestInv, Done
  <2>5. WorkFits(c)'
    BY <2>4 DEF WorkFits
  <2> QED
    BY <2>1, <2>2, <2>5, StatementWindows
<1> QED
  BY <1>2, <1>3

(* A write is executed. *)
LEMMA WriteWindows ==
  ASSUME WorkerInv, WorkerInv', WindowsInv, NEW c \in Clients, ExecuteWrite(c),
         inTransaction => log' = log, ~inTransaction => log' = Append(log, Own(c))
  PROVE  WindowsInv'
<1>1. /\ Executable(c) /\ asked[c].kind = "write" /\ Executed(c, "ok")
      /\ working' = Marked(c) /\ inTransaction' = inTransaction
      /\ committed' = IF inTransaction THEN committed ELSE working'
      /\ RequestInv(c) /\ WorkFits(c)
  BY DEF ExecuteWrite, WorkerInv, WindowsInv
<1>2. /\ stage[c] = "locked" /\ stage'[c] = "executed"
      /\ UNCHANGED <<phase, works, owned, wrote, asked>> /\ Own(c)' = Own(c)
  BY <1>1, ExecutedRow
<1>3. CASE inTransaction
  <2>1. InGate(c)
    BY <1>1, <1>3, InsideIfOpen
  <2>2. InGate(c)' /\ Committable(c)
    BY <1>1, <1>2, <1>3, <2>1 DEF InGate, Committable, Done
  <2>3. Coming(c) = asked[c].pages /\ Coming(c)' = {}
    BY <1>1, <1>2 DEF Coming, Waits
  <2>4. ASSUME NEW p \in Pages
        PROVE  working'[p] \cup Mark(c, p \in {}) = committed'[p] \cup Mark(c, p \in wrote'[Own(c)])
    <3>1. working[p] \cup Mark(c, p \in Coming(c)) = committed[p] \cup Mark(c, p \in wrote[Own(c)])
      BY <1>1, <2>2 DEF WorkFits
    <3>2. working'[p] = working[p] \cup Mark(c, p \in asked[c].pages)
      BY <1>1 DEF Marked, Mark, Own
    <3> QED
      BY <1>1, <1>2, <1>3, <2>3, <3>1, <3>2 DEF Mark
  <2>5. WorkFits(c)'
    BY <1>2, <2>3, <2>4 DEF WorkFits, Mark
  <2> QED
    BY <1>1, <1>3, <2>2, <2>5, StatementWindows
<1>4. CASE ~inTransaction
  <2>1. owned[c] = None
    BY <1>2, <1>4 DEF WorkerInv, TransactionInv, InGate
  <2>2. ~Unfinished(c)'
    BY <1>1, <1>2, <2>1 DEF Unfinished, Waits
  <2>3. WorkFits(c)'
    BY <1>1, <1>4 DEF WorkFits, Committable
  <2> QED
    BY <1>1, <1>4, <2>2, <2>3, StatementWindows
<1> QED
  BY <1>3, <1>4

(* A transaction is committed, rolled back or aborted. *)
LEMMA EndWindows ==
  ASSUME WorkerInv, WorkerInv', WindowsInv, NEW c \in Clients,
         \/ ExecuteCommit(c) /\ log' \in {log, Append(log, Own(c))}
         \/ (ExecuteRollback(c) \/ ExecuteAborts(c)) /\ log' = log
  PROVE  WindowsInv'
<1>1. PICK o \in {"ok", "failed"} :
        /\ Executable(c) /\ Executed(c, o) /\ asked[c].kind \in {"commit", "rollback", "write"}
        /\ ExecuteCommit(c) => o = "ok" /\ asked[c].kind = "commit"
  BY DEF ExecuteCommit, ExecuteRollback, ExecuteAborts
<1>2. ~inTransaction' /\ RequestInv(c)
  BY DEF ExecuteCommit, ExecuteRollback, ExecuteAborts, WorkerInv
<1>3. stage'[c] = "executed" /\ outcome'[c] = o /\ UNCHANGED <<asked, owned>>
  BY <1>1, ExecutedRow
<1>4. WorkFits(c)'
  BY <1>2 DEF WorkFits, Committable
<1>5. ExecuteCommit(c) => ~Unfinished(c)'
  BY <1>1, <1>2, <1>3 DEF Unfinished, RequestInv, Ends, Done
<1> QED
  BY <1>1, <1>2, <1>4, <1>5, StatementWindows

-----------------------------------------------------------------------------
(* The worker ends *)

(* How much the files hold is what Kept says. *)
LEMMA KeptIs ==
  ASSUME HistoryInv, wrote \in [Works -> SUBSET Pages], log \in Seq(Works),
         NEW fs, NEW n, Sound(fs, n)
  PROVE  Kept(fs) = n
<1> DEFINE S == {k \in 0..Len(log) : Content(SubSeq(log, 1, k)) = Recovered(fs)}
           T == {Len(log) + 1} \cup S
<1>1. Recovered(fs) = Restored(fs) /\ Len(log) \in Nat
  BY RecoveredIs DEF Sound
<1>2. n \in S /\ n \in 0..Len(log)
  BY <1>1 DEF Sound
<1>3. \A k \in S : k = n
  <2>1. ASSUME NEW k \in S, k # n
        PROVE  FALSE
    <3>1. k \in 0..Len(log) /\ Content(SubSeq(log, 1, k)) = Content(SubSeq(log, 1, n))
      BY <1>2
    <3>2. k < n \/ n < k
      BY <1>2, <2>1, <3>1
    <3> QED
      BY <1>2, <3>1, <3>2, ContentGrows
  <2> QED
    BY <2>1
<1>4. Kept(fs) = Min(T)
  BY DEF Kept
<1>5. n \in T /\ \A k \in T : k \in Nat /\ n <= k
  BY <1>1, <1>2, <1>3
<1>6. Min(T) \in T /\ \A k \in T : Min(T) <= k
  <2> HIDE DEF T
  <2> QED
    BY <1>5 DEF Min
<1>7. Min(T) = n
  <2> HIDE DEF T
  <2> QED
    BY <1>5, <1>6
<1> QED
  BY <1>4, <1>7

(* The worker ends: what it starts with again is a prefix of the log that  *)
(* is not shorter than what IndexedDB was known to hold.                   *)
LEMMA StopDatabase ==
  ASSUME DatabaseInv, WorkerInv, WorkerInv', Stop
  PROVE  DatabaseInv' /\ kept' \in kept..Len(log)
<1>1. /\ log \in Seq(Works) /\ Len(log) \in Nat /\ HistoryInv /\ wrote \in [Works -> SUBSET Pages]
      /\ \A m \in ToSet(log) : m[2] <= works[m[1]]
      /\ \A c \in Clients : WroteFits(c)
  BY DEF DatabaseInv, FilesInv, WindowsInv, LogInv, WorkerInv, WorkerTypes
<1>2. PICK mid, k : Faithful(Names, Values, mid) /\ Sound(disk, kept) /\ Sound(mid, k) /\ kept <= k
  BY DEF DatabaseInv, FilesInv, DiskInv, DiskHolds, Stop
<1>3. /\ StopFiles /\ intact' = TRUE
      /\ kept' = Kept(disk') /\ log' = SubSeq(log, 1, kept')
      /\ phase' = [c \in Clients |-> "away"] /\ owned' = [c \in Clients |-> None]
      /\ asked' = [c \in Clients |-> NoRequest] /\ stage' = [c \in Clients |-> "idle"]
      /\ outcome' = [c \in Clients |-> "ok"]
      /\ connections' = 0 /\ inTransaction' = FALSE
      /\ committed' = Recovered(disk') /\ working' = committed'
      /\ works' = works /\ wrote' = wrote
  BY DEF Stop, StopFiles
<1>4. /\ disk' \in {disk, mid} /\ files' = disk'
      /\ \E m : m = disk' /\ Faithful(Names, Values, m)'
  BY <1>2, <1>3, StopFilesStep
<1>5. PICK fs : fs = disk'
  OBVIOUS
<1>6. PICK n : Sound(fs, n) /\ kept <= n /\ files' = fs /\ kept \in 0..Len(log)
  BY <1>2, <1>4, <1>5 DEF Sound
<1>7. /\ FilesOK(fs) /\ kept' = n /\ kept' \in 0..Len(log) /\ kept' \in kept..Len(log)
      /\ Content(SubSeq(log, 1, kept')) = Restored(fs)
  <2>1. kept' = n
    BY <1>1, <1>3, <1>5, <1>6, KeptIs
  <2> QED
    BY <1>1, <1>6, <2>1 DEF Sound
<1>8. log' \in Seq(Works) /\ ToSet(log') \subseteq ToSet(log) /\ SubSeq(log', 1, Len(log')) = log'
  <2>1. log' \in Seq(Works) /\ ToSet(SubSeq(log, 1, kept')) \subseteq ToSet(log)
    BY <1>1, <1>3, <1>7, PrefixIs
  <2> QED
    BY <1>3, <2>1
<1>9. Content(log)' = Restored(fs)
  BY <1>3, <1>7 DEF Content
<1>10. committed' = Restored(fs) /\ Restored(fs) \in [Pages -> SUBSET Works]
  BY <1>3, <1>5, <1>7, RecoveredIs, RestoredIs
<1>11. MemoryInv'
  <2>1. Restored(files)' = Restored(fs) /\ FilesOK(files)'
    BY <1>6, <1>7 DEF FilesOK, Restored, HasHeader, Block
  <2> QED
    BY <1>3, <1>9, <1>10, <2>1 DEF MemoryInv
<1>12. DiskInv'
  <2>1. PICK l : l = kept'
    OBVIOUS
  <2>2. Len(log') = l /\ SubSeq(log', 1, l) = log' /\ l \in 0..Len(log')
    BY <1>1, <1>3, <1>7, <1>8, <2>1
  <2>3. Content(SubSeq(log, 1, l))' = Restored(fs)
    BY <1>9, <2>2 DEF Content
  <2>4. Sound(fs, l)'
    BY <1>7, <2>2, <2>3 DEF Sound
  <2>5. Sound(disk, kept)'
    BY <1>5, <2>1, <2>4 DEF Sound
  <2>6. Faithful(Names, Values, fs)'
    BY <1>4, <1>5
  <2> QED
    BY <1>1, <1>3, <1>7, <2>1, <2>2, <2>4, <2>5, <2>6 DEF DiskInv, DiskHolds
<1>13. JournalInv'
  BY <1>3 DEF JournalInv
<1>14. ASSUME NEW c \in Clients
       PROVE  ~Needs(c)' /\ Logged(c)' /\ WroteFits(c)' /\ WorkFits(c)'
  <2>1. /\ asked'[c].kind = "none" /\ phase'[c] = "away" /\ owned'[c] = None
        /\ Own(c)' = Own(c)
    BY <1>3 DEF NoRequest, Own
  <2>2. ~Needs(c)' /\ ~Unfinished(c)' /\ ~Committable(c)'
    BY <1>3, <2>1 DEF Needs, Unfinished, Committable
  <2> QED
    BY <1>1, <1>3, <2>1, <2>2 DEF Logged, WroteFits, WorkFits
<1>15. LogInv'
  BY <1>1, <1>3, <1>8 DEF LogInv
<1>16. HistoryInv'
  <2>1. Len(log') <= Len(log) /\ Len(log') \in Nat /\ \A i \in 1..Len(log') : log'[i] = log[i]
    BY <1>1, <1>3, <1>7
  <2>2. \A i, j \in 1..Len(log') : log'[i] = log'[j] => i = j
    BY <1>1, <2>1 DEF HistoryInv
  <2> QED
    BY <1>1, <1>3, <1>8, <2>2 DEF HistoryInv
<1> QED
  BY <1>3, <1>7, <1>11, <1>12, <1>13, <1>14, <1>15, <1>16 DEF DatabaseInv, FilesInv, WindowsInv

-----------------------------------------------------------------------------
(* Steps that leave the files alone *)

(* A step of IndexedDB alone. *)
LEMMA BesideDisk ==
  ASSUME DatabaseInv, WorkerInv, UNCHANGED <<workerVars, log, files>>, DiskInv'
  PROVE  DatabaseInv'
<1>1. UNCHANGED <<phase, works, owned, wrote, asked, stage, outcome, connections,
                  inTransaction, working, committed, log, files>>
  BY DEF workerVars, clientVars, openVars, databaseVars
<1>2. MemoryInv /\ JournalInv /\ HistoryInv /\ WindowsInv /\ LogInv /\ log \in Seq(Works)
  BY DEF DatabaseInv, FilesInv, WindowsInv, LogInv
<1>3. MemoryInv'
  BY <1>1, <1>2 DEF MemoryInv, Restored, HasHeader, Block, Content, FilesOK
<1>4. JournalInv'
  BY <1>1, <1>2 DEF JournalInv, HasHeader
<1>5. ASSUME NEW c \in Clients
      PROVE  /\ Needs(c)' => connections' # 0
             /\ Logged(c)' /\ WroteFits(c)' /\ WorkFits(c)'
  <2>1. Own(c)' = Own(c) /\ (Committable(c)' <=> Committable(c)) /\ Coming(c)' = Coming(c)
    BY <1>1 DEF Own, Committable, InGate, Coming
  <2>2. (Needs(c) => connections # 0) /\ Logged(c) /\ WroteFits(c) /\ WorkFits(c)
    BY <1>2 DEF WindowsInv
  <2> QED
    BY <1>1, <2>1, <2>2 DEF Needs, Logged, Unfinished, WroteFits, WorkFits, Mark
<1>6. WindowsInv'
  BY <1>1, <1>2, <1>5 DEF WindowsInv, LogInv
<1>7. HistoryInv'
  BY <1>1, <1>2, HistoryKept
<1> QED
  BY <1>3, <1>4, <1>6, <1>7 DEF DatabaseInv, FilesInv

(* A batch is written, and IndexedDB holds more of the log; after one has  *)
(* been refused nothing is said of it.                                     *)
LEMMA BatchDatabase ==
  ASSUME DatabaseInv, WorkerInv, WebBatchDone
  PROVE  /\ DatabaseInv' /\ kept' \in kept..Len(log)
         /\ intact' = intact /\ (~intact => kept' = kept)
<1>1. BatchDone /\ UNCHANGED <<workerVars, log, files>> /\ kept' = IF intact' THEN Kept(disk') ELSE kept
  BY DEF WebBatchDone, BatchDone
<1>2. /\ MemoryInv /\ HistoryInv /\ log \in Seq(Works)
      /\ Len(log) \in Nat /\ wrote \in [Works -> SUBSET Pages] /\ wrote' = wrote
      /\ intact \in BOOLEAN /\ kept \in 0..Len(log)
  BY <1>1 DEF DatabaseInv, FilesInv, DiskInv, WindowsInv, LogInv, WorkerInv, WorkerTypes,
              workerVars, clientVars
<1>3. CASE ~intact
  <2>1. intact' = FALSE /\ kept' = kept
    BY <1>1, <1>3 DEF BatchDone
  <2>2. DiskInv'
    BY <1>1, <1>2, <2>1 DEF DiskInv
  <2>3. DatabaseInv'
    BY <1>1, <2>2, BesideDisk
  <2>4. intact' = intact
    <3>1. intact = FALSE
      BY <1>2, <1>3
    <3> QED
      BY <2>1, <3>1
  <2>5. kept' \in kept..Len(log)
    <3>1. kept \in 0..Len(log) /\ Len(log) \in Nat /\ kept' = kept
      BY <1>2, <2>1
    <3> QED
      BY <3>1
  <2> QED
    BY <2>1, <2>3, <2>4, <2>5, Zenon
<1>4. CASE intact
  <2>1. PICK mid, k : Faithful(Names, Values, mid) /\ Sound(disk, kept) /\ Sound(mid, k) /\ kept <= k
    BY <1>4 DEF DatabaseInv, FilesInv, DiskInv, DiskHolds
  <2>2. intact' /\ disk' = mid /\ \E m : m = files /\ Faithful(Names, Values, m)'
    BY <1>1, <1>4, <2>1, BatchStep
  <2>3. PICK m : m = files /\ Faithful(Names, Values, m)'
    BY <2>2
  <2>4. PICK l : l = Len(log)
    OBVIOUS
  <2>5. Sound(m, l)
    BY <1>2, <2>3, <2>4, FilesAreSound DEF MemoryInv
  <2>6. Sound(m, l)' /\ Sound(mid, k)' /\ k <= l
    <3>1. Sound(m, l)' /\ Sound(mid, k)'
      BY <1>1, <1>2, <2>1, <2>5, SoundKept
    <3> QED
      BY <1>2, <2>1, <2>4, <3>1 DEF Sound
  <2>7. kept' = k
    <3>1. Kept(mid) = k
      BY <1>2, <2>1, KeptIs
    <3> QED
      BY <1>1, <2>2, <3>1
  <2>8. Sound(disk, kept)'
    BY <2>2, <2>6, <2>7 DEF Sound
  <2>9. kept' \in kept..Len(log) /\ kept' \in 0..Len(log')
    BY <1>1, <1>2, <2>1, <2>7 DEF Sound
  <2>10. DiskHolds'
    BY <2>3, <2>6, <2>7, <2>8 DEF DiskHolds
  <2>11. intact' = TRUE /\ intact = TRUE
    BY <1>1, <1>2, <1>4, <2>2 DEF BatchDone
  <2>12. DiskInv'
    BY <2>9, <2>10, <2>11 DEF DiskInv
  <2>13. DatabaseInv'
    BY <1>1, <2>12, BesideDisk
  <2>14. intact' = intact /\ (~intact => kept' = kept)
    BY <1>4, <2>11, Zenon
  <2> QED
    BY <2>9, <2>13, <2>14, Zenon
<1> QED
  BY <1>3, <1>4

(* The browser refuses a batch. *)
LEMMA RefusedDatabase ==
  ASSUME DatabaseInv, WorkerInv, WebBatchFails
  PROVE  DatabaseInv'
<1>1. UNCHANGED <<workerVars, log, kept, files>> /\ intact' = FALSE
  BY DEF WebBatchFails, BatchFails
<1>2. DiskInv'
  BY <1>1 DEF DatabaseInv, FilesInv, DiskInv
<1> QED
  BY <1>1, <1>2, BesideDisk

(* What is in the log has been written. *)
LEMMA LogIsWritten ==
  ASSUME WorkerInv, WindowsInv, NEW c \in Clients,
         ClientStep(c) \/ Leave(c) \/ Serve(c)
  PROVE  \A m \in ToSet(log) : wrote'[m] = wrote[m]
<1>1. WorkerTypes /\ Logged(c) /\ log \in Seq(Works) /\ \A m \in ToSet(log) : m \in Works
  BY DEF WorkerInv, WindowsInv, LogInv, ToSet
<1>2. ASSUME NEW P, AskSingle(c, P)
      PROVE  \A m \in ToSet(log) : wrote'[m] = wrote[m]
  <2>1. works[c] < MaxWorks /\ wrote' = [wrote EXCEPT ![<<c, works[c] + 1>>] = P]
    BY <1>2 DEF AskSingle
  <2>2. <<c, works[c] + 1>> \notin ToSet(log)
    BY <2>1, NewWork
  <2> QED
    BY <1>1, <2>1, <2>2 DEF WorkerTypes
<1>3. ASSUME NEW P, AskWrite(c, P)
      PROVE  \A m \in ToSet(log) : wrote'[m] = wrote[m]
  <2>1. /\ owned[c] # None /\ stage[c] = "idle"
        /\ wrote' = [wrote EXCEPT ![<<c, works[c]>>] = wrote[<<c, works[c]>>] \cup P]
    BY <1>3 DEF AskWrite, Post
  <2>2. Unfinished(c)
    BY <2>1 DEF Unfinished, Done
  <2>3. <<c, works[c]>> \notin ToSet(log)
    BY <1>1, <2>2 DEF Logged, Own
  <2> QED
    BY <1>1, <2>1, <2>3 DEF WorkerTypes
<1>4. CASE Load(c) \/ AskBegin(c) \/ AskRead(c) \/ Receive(c) \/ \E kind \in Ends : AskEnd(c, kind)
  BY <1>4 DEF Load, AskBegin, AskRead, Receive, AskEnd
<1>5. CASE Leave(c)
  BY <1>5 DEF Leave
<1>6. CASE Serve(c)
  <2>1. UNCHANGED clientVars
    BY <1>6 DEF Serve, Deliver, Initialise, Lookup, Create, ExecuteBegin, ExecuteRead, ExecuteWrite,
                ExecuteCommit, ExecuteRollback, ExecuteFails, ExecuteAborts, Executed
  <2> QED
    BY <2>1 DEF clientVars
<1> QED
  BY <1>2, <1>3, <1>4, <1>5, <1>6 DEF ClientStep

(* A step that leaves the files, the pages and the log as they are. *)
LEMMA IdleFiles ==
  ASSUME FilesInv, log \in Seq(Works), UNCHANGED <<filesVars, log, kept>>,
         \A m \in ToSet(log) : wrote'[m] = wrote[m],
         UNCHANGED <<connections, working, committed>>,
         working # committed => inTransaction' = inTransaction
  PROVE  FilesInv'
<1>1. DiskInv /\ MemoryInv /\ JournalInv /\ HistoryInv /\ files' = files
  BY DEF FilesInv, filesVars
<1>2. DiskInv'
  BY <1>1, DiskKept
<1>3. Content(log)' = Content(log)
  <2>1. PICK s : s = log
    OBVIOUS
  <2>2. Content(s)' = Content(s)
    BY <2>1, ContentKept
  <2> QED
    BY <2>1, <2>2 DEF Content
<1>4. MemoryInv'
  BY <1>1, <1>3 DEF MemoryInv, Restored, HasHeader, Block, FilesOK
<1>5. JournalInv'
  BY <1>1 DEF JournalInv, HasHeader
<1>6. HistoryInv'
  BY <1>1, HistoryKept
<1> QED
  BY <1>2, <1>4, <1>5, <1>6 DEF FilesInv

-----------------------------------------------------------------------------
(* Steps that change the files *)

(* A change of the files whose first item is harmless, so that a batch     *)
(* that starts with it holds what the log holds.                           *)
LEMMA FilesStep ==
  ASSUME DiskInv, MemoryInv, log \in Seq(Works), UNCHANGED <<wrote, kept>>,
         log' = log \/ \E m \in Works : log' = Append(log, m),
         NEW items \in Seq(Items(Names, Values)), NEW gs, Reaches(items, files, gs),
         items # <<>> => Harmless(items[1], files),
         Change(items),
         FilesOK(gs), Restored(gs) = committed', committed' = Content(log)',
         working' \in [Pages -> SUBSET Works]
  PROVE  files' = gs /\ DiskInv' /\ MemoryInv'
<1>1. files' = gs /\ DiskInv'
  BY DiskStep
<1>2. Restored(files)' = Restored(gs)
  BY <1>1 DEF Restored, HasHeader, Block
<1>3. FilesOK(files)'
  BY <1>1 DEF FilesOK
<1> QED
  BY <1>1, <1>2, <1>3 DEF MemoryInv

(* There is no journal, and nothing that it would be needed for. *)
LEMMA NoJournal ==
  ASSUME NEW fs, files' = fs, ~HasHeader(fs), Database \in DOMAIN fs,
         ~(inTransaction' /\ working' # committed')
  PROVE  JournalInv'
<1>1. ~HasHeader(files)' /\ Database \in DOMAIN files'
  BY DEF HasHeader
<1> QED
  BY <1>1 DEF JournalInv

(* The first connection creates the database. *)
LEMMA CreateDatabase ==
  ASSUME FilesOK(files), Database \notin DOMAIN files
  PROVE  LET i == CreateItem(Database)
         IN  /\ ~HasHeader(files)
             /\ <<i>> \in Seq(Items(Names, Values)) /\ Applicable(i, files)
             /\ Harmless(i, files) /\ ~HasHeader(Applied(i, files))
             /\ Database \in DOMAIN Applied(i, files)
<1> DEFINE i  == CreateItem(Database)
           gs == Applied(i, files)
<1>1. i.op = "create" /\ i.file = Database
  BY DEF CreateItem
<1>2. i \in Items(Names, Values)
  BY DEF CreateItem, Items, Names
<1>3. Applicable(i, files)
  BY <1>1 DEF Applicable
<1>4. <<i>> \in Seq(Items(Names, Values))
  BY <1>2
<1> HIDE DEF i
<1>5. /\ IsFiles(gs) /\ DOMAIN gs = DOMAIN files \cup {Database} /\ gs[Database] = Empty
      /\ \A f \in DOMAIN files : gs[f] = files[f]
  <2>1. Effect(i, files, gs)
    BY <1>2, <1>3, AppliedIs
  <2>2. Database \notin DOMAIN files
    OBVIOUS
  <2> HIDE DEF gs
  <2> QED
    BY <1>1, <2>1, <2>2 DEF Effect
<1> HIDE DEF gs
<1>6. /\ Journal \in DOMAIN files => files[Journal] = Empty
      /\ DOMAIN files \subseteq Names /\ Database # Journal /\ DOMAIN Empty = {}
  BY FilesAssumption DEF FilesOK, Empty
<1>7. ~HasHeader(files) /\ ~HasHeader(gs)
  BY <1>5, <1>6 DEF HasHeader
<1>8. DatabaseOK(Empty)
  BY DEF DatabaseOK, Empty
<1>9. FilesOK(gs)
  BY <1>5, <1>6, <1>8 DEF FilesOK, Names
<1>10. \A p : Block(gs, Database, p) = {} /\ Block(files, Database, p) = {}
  BY <1>5, <1>6 DEF Block
<1>11. Restored(gs) = Restored(files)
  BY <1>7, <1>10 DEF Restored
<1> QED
  BY <1>3, <1>4, <1>5, <1>7, <1>9, <1>11 DEF Harmless, i, gs

(* The database is opened: what a worker before this one has left behind   *)
(* is rolled back.                                                         *)
LEMMA CreateFiles ==
  ASSUME DatabaseInv, WorkerInv, NEW c \in Clients, WebCreate(c)
  PROVE  FilesInv'
<1> DEFINE a == IF Database \in DOMAIN files THEN <<>> ELSE <<CreateItem(Database)>>
           items == IF outcome'[c] = "failed" THEN <<>> ELSE a \o RestoreItems(files)
<1>1. /\ DiskInv /\ MemoryInv /\ HistoryInv /\ WindowsInv /\ log \in Seq(Works) /\ FilesOK(files)
      /\ Restored(files) = committed /\ committed = Content(log)
      /\ working \in [Pages -> SUBSET Works]
  BY DEF DatabaseInv, FilesInv, MemoryInv, WindowsInv, LogInv
<1>2. connections = 0 /\ ~inTransaction /\ working = committed
  <2>1. connections = 0
    BY DEF WebCreate, Create, WorkerInv, OpeningInv
  <2> QED
    BY <1>1, <2>1 DEF WindowsInv, WorkerInv, OneWriter
<1>3. /\ UNCHANGED <<wrote, inTransaction, working, committed, log, kept>>
      /\ outcome'[c] = "failed" => connections' = 0
      /\ Change(items)
  BY <1>2 DEF WebCreate, Create, clientVars, databaseVars, WorkerInv, WorkerTypes
<1>4. Content(log)' = committed'
  BY <1>1, <1>3 DEF Content
<1>5. ASSUME NEW gs, NEW its, its = items, its \in Seq(Items(Names, Values)), Reaches(its, files, gs),
             its # <<>> => Harmless(its[1], files),
             FilesOK(gs), Restored(gs) = committed,
             connections' # 0 => ~HasHeader(gs) /\ Database \in DOMAIN gs
      PROVE  FilesInv'
  <2>1. files' = gs /\ DiskInv' /\ MemoryInv'
    <3>1. Change(its) /\ Restored(gs) = committed' /\ working' \in [Pages -> SUBSET Works]
      BY <1>1, <1>3, <1>5
    <3> HIDE DEF items
    <3> QED
      BY <1>1, <1>3, <1>4, <1>5, <3>1, FilesStep
  <2>2. connections' # 0 => JournalInv'
    BY <1>2, <1>3, <1>5, <2>1, NoJournal
  <2>3. JournalInv'
    BY <2>2 DEF JournalInv
  <2>4. HistoryInv'
    BY <1>1, <1>3, HistoryKept
  <2> QED
    BY <2>1, <2>3, <2>4 DEF FilesInv
<1>6. CASE outcome'[c] = "failed"
  <2>1. items = <<>> /\ <<>> \in Seq(Items(Names, Values))
    BY <1>6
  <2>2. Reaches(<<>>, files, files)
    BY ReachesNone
  <2> HIDE DEF items
  <2> QED
    BY <1>1, <1>3, <1>5, <1>6, <2>1, <2>2
<1>7. CASE outcome'[c] # "failed" /\ Database \notin DOMAIN files
  <2> DEFINE i == CreateItem(Database)
  <2>1. /\ ~HasHeader(files) /\ <<i>> \in Seq(Items(Names, Values)) /\ Applicable(i, files)
        /\ Harmless(i, files) /\ ~HasHeader(Applied(i, files))
        /\ Database \in DOMAIN Applied(i, files)
    BY <1>1, <1>7, CreateDatabase
  <2>2. RestoreItems(files) = <<>>
    BY <1>1, <2>1, RestoreReaches
  <2>3. items = <<i>>
    BY <1>7, <2>2
  <2>4. Reaches(<<i>>, files, Applied(i, files))
    BY <2>1, ReachesOne
  <2>5. <<i>>[1] = i
    OBVIOUS
  <2>6. PICK gs : gs = Applied(i, files)
    OBVIOUS
  <2>7. FilesOK(gs) /\ Restored(gs) = committed
    BY <1>1, <2>1, <2>6 DEF Harmless
  <2>8. ~HasHeader(gs) /\ Database \in DOMAIN gs /\ Reaches(<<i>>, files, gs)
    BY <2>1, <2>4, <2>6
  <2> HIDE DEF items, i
  <2> QED
    BY <1>5, <2>1, <2>3, <2>5, <2>7, <2>8
<1>8. CASE outcome'[c] # "failed" /\ Database \in DOMAIN files
  <2>1. RestoreItems(files) \in Seq(Items(Names, Values))
    BY <1>1, RestoreReaches
  <2>2. items = RestoreItems(files)
    BY <1>8, <2>1
  <2> HIDE DEF items
  <2>3. CASE ~HasHeader(files)
    <3>1. items = <<>> /\ Reaches(<<>>, files, files)
      BY <1>1, <2>2, <2>3, RestoreReaches, ReachesNone
    <3> QED
      BY <1>1, <1>5, <1>8, <2>1, <2>2, <2>3, <3>1
  <2>4. CASE HasHeader(files)
    <3>1. RestoreItems(files) # <<>> /\ Harmless(RestoreItems(files)[1], files)
      BY <1>1, <2>4, RestoreReaches
    <3>2. PICK d2 : /\ DatabaseOK(d2) /\ Shown(d2) = Restored(files)
                    /\ Reaches(RestoreItems(files), files, Only(d2))
      BY <1>1, <2>4, RestoreReaches
    <3>3. FilesOK(Only(d2)) /\ Restored(Only(d2)) = committed
          /\ ~HasHeader(Only(d2)) /\ Database \in DOMAIN Only(d2)
      BY <1>1, <3>2, OnlyIs
    <3> QED
      BY <1>5, <2>1, <2>2, <3>1, <3>2, <3>3
  <2> QED
    BY <2>3, <2>4
<1> QED
  BY <1>6, <1>7, <1>8

(* The transaction is rolled back. *)
LEMMA RollbackFiles ==
  ASSUME DatabaseInv, WorkerInv, NEW c \in Clients, WebRollback(c)
  PROVE  FilesInv'
<1>1. /\ DiskInv /\ MemoryInv /\ JournalInv /\ HistoryInv /\ WindowsInv /\ log \in Seq(Works) /\ FilesOK(files)
      /\ Restored(files) = committed /\ committed = Content(log)
      /\ working \in [Pages -> SUBSET Works]
  BY DEF DatabaseInv, FilesInv, MemoryInv, WindowsInv, LogInv
<1>2. /\ inTransaction /\ ~inTransaction' /\ working' = committed /\ committed' = committed
      /\ UNCHANGED <<wrote, log, kept>> /\ Change(RestoreItems(files))
  BY DEF WebRollback, ExecuteRollback, ExecuteAborts, Executed, clientVars
<1>3. connections # 0 /\ Database \in DOMAIN files
  BY <1>1, <1>2 DEF WindowsInv, JournalInv
<1>4. Content(log)' = committed' /\ working' \in [Pages -> SUBSET Works]
  <2>1. committed \in [Pages -> SUBSET Works]
    BY <1>1, RestoredIs
  <2> QED
    BY <1>1, <1>2, <2>1 DEF Content
<1>5. RestoreItems(files) \in Seq(Items(Names, Values))
  BY <1>1, RestoreReaches
<1>6. ASSUME NEW gs, Reaches(RestoreItems(files), files, gs),
             RestoreItems(files) # <<>> => Harmless(RestoreItems(files)[1], files),
             FilesOK(gs), Restored(gs) = committed, ~HasHeader(gs), Database \in DOMAIN gs
      PROVE  FilesInv'
  <2>1. files' = gs /\ DiskInv' /\ MemoryInv'
    BY <1>1, <1>2, <1>4, <1>5, <1>6, FilesStep
  <2>2. JournalInv'
    BY <1>2, <1>6, <2>1, NoJournal
  <2>3. HistoryInv'
    BY <1>1, <1>2, HistoryKept
  <2> QED
    BY <2>1, <2>2, <2>3 DEF FilesInv
<1>7. CASE ~HasHeader(files)
  <2>1. RestoreItems(files) = <<>> /\ Reaches(<<>>, files, files)
    BY <1>1, <1>7, RestoreReaches, ReachesNone
  <2> QED
    BY <1>1, <1>3, <1>6, <1>7, <2>1
<1>8. CASE HasHeader(files)
  <2>1. RestoreItems(files) # <<>> /\ Harmless(RestoreItems(files)[1], files)
    BY <1>1, <1>8, RestoreReaches
  <2>2. PICK d2 : /\ DatabaseOK(d2) /\ Shown(d2) = Restored(files)
                  /\ Reaches(RestoreItems(files), files, Only(d2))
    BY <1>1, <1>8, RestoreReaches
  <2>3. FilesOK(Only(d2)) /\ Restored(Only(d2)) = committed
        /\ ~HasHeader(Only(d2)) /\ Database \in DOMAIN Only(d2)
    BY <1>1, <2>2, OnlyIs
  <2> QED
    BY <1>6, <2>1, <2>2, <2>3
<1> QED
  BY <1>7, <1>8

(* A work that is added to the log adds its marks to the pages. *)
LEMMA ContentAppended ==
  ASSUME log \in Seq(Works), NEW c \in Clients, Own(c) \in Works, wrote' = wrote,
         log' = Append(log, Own(c)), NEW content, content \in [Pages -> SUBSET Works],
         \A p \in Pages : content[p] = Content(log)[p] \cup Mark(c, p \in wrote[Own(c)])
  PROVE  Content(log)' = content
<1>1. ToSet(Append(log, Own(c))) = ToSet(log) \cup {Own(c)}
  BY AppendedIs
<1>2. ToSet(log') = ToSet(log) \cup {Own(c)}
  BY <1>1 DEF ToSet
<1>3. Content(log)' = [p \in Pages |-> {m \in ToSet(log) \cup {Own(c)} : p \in wrote[m]}]
  BY <1>2 DEF Content
<1>4. ASSUME NEW p \in Pages
      PROVE  {m \in ToSet(log) \cup {Own(c)} : p \in wrote[m]} = content[p]
  <2>1. Content(log)[p] = {m \in ToSet(log) : p \in wrote[m]}
    BY DEF Content
  <2>2. content[p] = {m \in ToSet(log) : p \in wrote[m]} \cup Mark(c, p \in wrote[Own(c)])
    BY <2>1
  <2> QED
    BY <2>2 DEF Mark
<1>5. content = [p \in Pages |-> content[p]]
  OBVIOUS
<1> QED
  BY <1>3, <1>4, <1>5

(* The journal with the pages saved that P changes: it holds what is       *)
(* committed, and what it does not hold has not changed.                   *)
Holds(P) ==
  /\ \A p \in Saved \cup ToSave(P) : p \in Pages /\ JournalSaved(P)[p] = committed[p]
  /\ \A p \in Pages \ (Saved \cup ToSave(P)) :
       /\ p > SizeBefore => committed[p] = {}
       /\ ~(p > SizeBefore) => p \notin P /\ working[p] = committed[p]

(* The journal has what was committed of every page that it has. *)
LEMMA SavedHolds ==
  ASSUME MemoryInv, JournalInv, OneWriter, connections # 0, NEW P \in SUBSET Pages
  PROVE  Holds(P)
<1> DEFINE d == files[Database]
           j == JournalSaved(P)
<1>1. /\ FilesOK(files) /\ Database \in DOMAIN files /\ Restored(files) = committed
      /\ HasHeader(files) <=> (inTransaction /\ working # committed)
  BY DEF MemoryInv, JournalInv
<1>2. ~HasHeader(files) => working = committed
  BY <1>1 DEF OneWriter
<1>3. /\ SizeBefore \in Nat /\ JournalOK(JournalOpen) /\ JournalOpen[0].size = SizeBefore
      /\ DOMAIN JournalOpen = {0} \cup Saved /\ Saved \subseteq Pages
      /\ ToSave(P) \in SUBSET (Pages \ DOMAIN JournalOpen)
      /\ \A p \in ToSave(P) : p <= SizeBefore
  BY <1>1, BeforeIs
<1>4. /\ j[0] = JournalOpen[0] /\ Back(d, j) = committed
      /\ \A p \in ToSave(P) : j[p] = At(d, p)
      /\ \A p \in Saved : j[p] = JournalOpen[p]
  BY <1>1, SavedIs
<1>5. j[0].records \subseteq Saved /\ j[0].size = SizeBefore
  BY <1>3, <1>4, PagesAre DEF JournalOK
<1>6. \A p \in Saved : JournalOpen[p] = committed[p]
  <2>1. CASE HasHeader(files)
    <3>1. JournalOpen = files[Journal] /\ Saved = DOMAIN files[Journal] \ {0}
      BY <2>1 DEF JournalOpen, Saved
    <3> QED
      BY <2>1, <3>1 DEF JournalInv
  <2>2. CASE ~HasHeader(files)
    BY <2>2 DEF Saved
  <2> QED
    BY <2>1, <2>2
<1> HIDE DEF d, j
<1>7. \A p \in Pages : committed[p] = IF p \in j[0].records THEN j[p]
                                      ELSE IF p > SizeBefore THEN {} ELSE At(d, p)
  BY <1>4, <1>5 DEF Back
<1>8. \A p \in ToSave(P) : p \in Pages /\ j[p] = committed[p]
  <2> TAKE p \in ToSave(P)
  <2>1. p \in Pages /\ p \notin Saved /\ p <= SizeBefore /\ p \in Nat
    BY <1>3, PagesAre
  <2>2. p \notin j[0].records /\ ~(p > SizeBefore)
    BY <1>3, <1>5, <2>1
  <2> QED
    BY <1>4, <1>7, <2>1, <2>2
<1>9. \A p \in Saved : p \in Pages /\ j[p] = committed[p]
  BY <1>3, <1>4, <1>6
<1>10. ASSUME NEW p \in Pages, p \notin Saved, p \notin ToSave(P)
       PROVE  /\ p > SizeBefore => committed[p] = {}
              /\ ~(p > SizeBefore) => p \notin P /\ working[p] = committed[p]
  <2>1. p > SizeBefore => committed[p] = {}
    BY <1>5, <1>7, <1>10
  <2>2. p \in Nat
    BY PagesAre
  <2>3. ~(p > SizeBefore) => p \notin P
    BY <1>3, <1>10, <2>2 DEF ToSave
  <2>4. ~(p > SizeBefore) => working[p] = committed[p]
    <3>1. HasHeader(files) => SizeBefore = files[Journal][0].size /\ Saved = DOMAIN files[Journal] \ {0}
      BY DEF SizeBefore, Saved
    <3>2. p # 0
      BY PagesAre
    <3> QED
      BY <1>2, <1>10, <3>1, <3>2 DEF JournalInv
  <2> QED
    BY <2>1, <2>3, <2>4
<1> QED
  BY <1>8, <1>9, <1>10 DEF Holds, j

(* Only the pages P have changed. *)
OnlyIn(P, content) == \A p \in Pages \ P : content[p] = working[p]

(* After the pages are written the journal still restores what was         *)
(* committed.                                                              *)
LEMMA StoredBack ==
  ASSUME NEW P, NEW content, NEW d2, NEW j2, Holds(P),
         StoredAs(P, content, JournalSaved(P), d2, j2),
         DOMAIN JournalSaved(P) = {0} \cup Saved \cup ToSave(P),
         OnlyIn(P, content), committed \in [Pages -> SUBSET Works]
  PROVE  /\ Back(d2, j2) = committed
         /\ \A p \in DOMAIN j2 \ {0} : j2[p] = committed[p]
<1> DEFINE R == Saved \cup ToSave(P)
<1>1. /\ j2[0].records = R /\ j2[0].size = SizeBefore /\ DOMAIN j2 = {0} \cup R
      /\ \A p \in DOMAIN j2 \ {0} : j2[p] = JournalSaved(P)[p]
      /\ Shown(d2) = content
  BY DEF StoredAs
<1>2. \A p \in R : p \in Pages /\ p # 0 /\ JournalSaved(P)[p] = committed[p]
  BY PagesAre DEF Holds
<1>3. \A p \in Pages \ R : /\ p > SizeBefore => committed[p] = {}
                           /\ ~(p > SizeBefore) => p \notin P /\ working[p] = committed[p]
  BY DEF Holds
<1> HIDE DEF R
<1>4. \A p \in R : j2[p] = committed[p]
  BY <1>1, <1>2
<1>5. \A p \in Pages : At(d2, p) = content[p]
  BY <1>1 DEF Shown
<1>6. \A p \in Pages : Back(d2, j2)[p] = committed[p]
  BY <1>1, <1>3, <1>4, <1>5 DEF Back, OnlyIn
<1>7. Back(d2, j2) = [p \in Pages |-> Back(d2, j2)[p]]
  BY DEF Back
<1> QED
  BY <1>1, <1>4, <1>6, <1>7

(* The journal is there while pages have changed. *)
LEMMA JournalThere ==
  ASSUME NEW P, NEW d2, NEW j2, Holds(P), files' = Both(d2, j2),
         DOMAIN j2 = {0} \cup Saved \cup ToSave(P), j2[0].size = SizeBefore,
         \A p \in DOMAIN j2 \ {0} : j2[p] = committed[p],
         \A p \in Pages \ P : working'[p] = working[p],
         committed' = committed, inTransaction', working' # committed
  PROVE  JournalInv'
<1>1. HasHeader(files)' /\ Database \in DOMAIN files' /\ files'[Journal] = j2
  <2>1. 0 \in DOMAIN j2
    OBVIOUS
  <2>2. HasHeader(Both(d2, j2)) /\ DOMAIN Both(d2, j2) = Names /\ Both(d2, j2)[Journal] = j2
    BY <2>1, BothIs
  <2> QED
    BY <2>2 DEF HasHeader, Names
<1>2. ASSUME NEW p \in Pages, working'[p] # committed'[p]
      PROVE  p \in DOMAIN j2 \/ p > j2[0].size
  BY <1>2 DEF Holds
<1> QED
  BY <1>1, <1>2 DEF JournalInv

(* A statement writes, inside a transaction or outside. *)
LEMMA WriteFiles ==
  ASSUME DatabaseInv, WorkerInv, NEW c \in Clients, WebWrite(c)
  PROVE  FilesInv'
<1> DEFINE d == files[Database]
           I == Items(Names, Values)
<1>1. /\ DiskInv /\ MemoryInv /\ JournalInv /\ HistoryInv /\ WindowsInv /\ log \in Seq(Works) /\ FilesOK(files)
      /\ Restored(files) = committed /\ committed = Content(log)
      /\ working \in [Pages -> SUBSET Works] /\ committed \in [Pages -> SUBSET Works]
  BY RestoredIs DEF DatabaseInv, FilesInv, MemoryInv, WindowsInv, LogInv
<1>2. ExecuteWrite(c) /\ Executable(c) /\ Executed(c, "ok") /\ asked[c].kind = "write"
  BY DEF WebWrite, ExecuteWrite
<1>3. /\ Own(c) \in Works /\ connections # 0 /\ stage[c] = "locked"
      /\ UNCHANGED <<phase, works, owned, wrote, asked, connections>>
      /\ kept' = kept
  BY <1>1, <1>2, ExecutedRow DEF WebWrite
<1>4. PICK P : P = asked[c].pages
  OBVIOUS
<1>5. PICK content : content = working'
  OBVIOUS
<1>6. /\ P \in SUBSET Pages /\ P # {}
      /\ Logged(c) /\ WroteFits(c) /\ RequestInv(c)
  BY <1>1, <1>2, <1>4 DEF WindowsInv, WroteFits, WorkerInv, WorkerTypes
<1>7. /\ inTransaction' = inTransaction
      /\ committed' = IF inTransaction THEN committed ELSE content
      /\ content = [p \in Pages |-> IF p \in P THEN working[p] \cup {Own(c)} ELSE working[p]]
  BY <1>2, <1>4, <1>5 DEF ExecuteWrite, Marked, Own
<1>8. content \in [Pages -> SUBSET Works]
  BY <1>1, <1>3, <1>7
<1>9. Database \in DOMAIN files /\ OneWriter
  BY <1>1, <1>3 DEF JournalInv, WorkerInv
<1>10. PICK j : j = JournalSaved(P)
  OBVIOUS
<1>11. /\ SaveItems(P) \in Seq(I) /\ Reaches(SaveItems(P), files, Both(d, j))
       /\ SaveItems(P) # <<>> => Harmless(SaveItems(P)[1], files)
       /\ SaveItems(P) = <<>> => HasHeader(files) /\ ToSave(P) = {}
  BY <1>1, <1>6, <1>9, <1>10, SaveReaches
<1>12. /\ JournalOK(j) /\ j[0].size = SizeBefore /\ DOMAIN j = {0} \cup Saved \cup ToSave(P)
       /\ Back(d, j) = committed /\ DatabaseOK(d)
  BY <1>1, <1>6, <1>9, <1>10, SavedIs, BeforeIs
<1>13. Holds(P)
  BY <1>1, <1>3, <1>6, <1>9, SavedHolds
<1>14. /\ StoreItems(P, content) \in Seq(I) /\ StoreItems(P, content) # <<>>
       /\ StoreItems(P, content)[1] = Header(Saved \cup ToSave(P))
       /\ \E d2, j2 : /\ StoredAs(P, content, j, d2, j2)
                      /\ Reaches(StoreItems(P, content), Both(d, j), Both(d2, j2))
  BY <1>1, <1>6, <1>8, <1>9, <1>12, StoreReaches
<1>15. PICK d2, j2 : /\ StoredAs(P, content, j, d2, j2)
                     /\ Reaches(StoreItems(P, content), Both(d, j), Both(d2, j2))
  BY <1>14
<1>16. OnlyIn(P, content)
  BY <1>7 DEF OnlyIn
<1>17. Back(d2, j2) = committed /\ \A p \in DOMAIN j2 \ {0} : j2[p] = committed[p]
  <2>1. StoredAs(P, content, JournalSaved(P), d2, j2)
    BY <1>10, <1>15
  <2>2. DOMAIN JournalSaved(P) = {0} \cup Saved \cup ToSave(P)
    BY <1>10, <1>12
  <2> QED
    BY <1>1, <1>13, <1>16, <2>1, <2>2, StoredBack
<1>18. \A p \in DOMAIN j \ {0} : j[p] = committed[p]
  BY <1>10, <1>12, <1>13 DEF Holds
<1>19. /\ DatabaseOK(d2) /\ Shown(d2) = content /\ JournalOK(j2)
       /\ DOMAIN j2 = DOMAIN j /\ j2[0].size = SizeBefore
  BY <1>15 DEF StoredAs
(* The work is new to the pages. *)
<1>20. Own(c) \notin ToSet(log)
  <2>1. Unfinished(c)
    BY <1>2, <1>3 DEF Unfinished, Waits, Done
  <2> QED
    BY <1>6, <2>1 DEF Logged
<1>21. content # committed
  <2>1. PICK p \in P : p \in Pages
    BY <1>6
  <2>2. Own(c) \in content[p]
    BY <1>7, <2>1
  <2>3. Own(c) \notin committed[p]
    BY <1>1, <1>20, <2>1 DEF Content
  <2> QED
    BY <2>2, <2>3
<1> HIDE DEF d, I
<1>22. PICK save : save = SaveItems(P)
  OBVIOUS
<1>23. PICK store : store = StoreItems(P, content)
  OBVIOUS
<1>24. \E spill \in {<<>>, store} : inTransaction => Change(save \o spill) /\ log' = log
  <2>1. StoreItems(P, working') = store
    BY <1>5, <1>23
  <2> QED
    BY <1>4, <1>22, <2>1 DEF WebWrite
<1>25. ~inTransaction => Change((save \o store) \o <<DeleteItem(Journal)>>) /\ log' = Append(log, Own(c))
  <2>1. StoreItems(P, working') = store
    BY <1>5, <1>23
  <2> QED
    BY <1>4, <1>22, <2>1 DEF WebWrite, Own
<1>26. /\ save \in Seq(I) /\ store \in Seq(I) /\ store # <<>>
       /\ Reaches(save, files, Both(d, j)) /\ Reaches(store, Both(d, j), Both(d2, j2))
       /\ save # <<>> => Harmless(save[1], files)
  BY <1>11, <1>14, <1>15, <1>22, <1>23 DEF d, I
<1>27. save = <<>> => Harmless(store[1], files)
  <2> SUFFICES ASSUME save = <<>> PROVE Harmless(store[1], files)
    OBVIOUS
  <2>1. HasHeader(files) /\ store[1] = Header(Saved)
    BY <1>11, <1>14, <1>22, <1>23
  <2>2. \A p \in Saved : files[Journal][p] = Restored(files)[p]
    BY <1>1, <1>3, <2>1 DEF JournalInv, Saved
  <2> QED
    BY <1>1, <2>1, <2>2, CountingIsHarmless
<1>28. /\ (save \o store) \in Seq(I) /\ (save \o store) # <<>>
       /\ Harmless((save \o store)[1], files)
       /\ Reaches(save \o store, files, Both(d2, j2))
  <2>1. Reaches(save \o store, files, Both(d2, j2))
    BY <1>26, ReachesConcat
  <2>2. CASE save = <<>>
    <3>1. save \o store = store
      BY <1>26, <2>2
    <3> QED
      BY <1>26, <1>27, <2>1, <2>2, <3>1
  <2>3. CASE save # <<>>
    BY <1>26, <2>1, <2>3, FirstOfBoth
  <2> QED
    BY <2>2, <2>3
<1>29. FilesOK(Both(d, j)) /\ Restored(Both(d, j)) = committed
  BY <1>12, BothIs
<1>30. FilesOK(Both(d2, j2)) /\ Restored(Both(d2, j2)) = committed
  BY <1>12, <1>17, <1>19, BothIs
<1>31. CASE inTransaction
  <2>1. /\ committed' = committed /\ UNCHANGED <<wrote, kept>> /\ inTransaction'
        /\ working' \in [Pages -> SUBSET Works] /\ working' # committed
        /\ \A p \in Pages \ P : working'[p] = working[p]
    BY <1>3, <1>5, <1>7, <1>8, <1>16, <1>21, <1>31 DEF OnlyIn
  <2>2. CASE Change(save \o <<>>) /\ log' = log
    <3>1. save \o <<>> = save
      BY <1>26
    <3>2. Content(log)' = committed'
      BY <1>1, <2>1, <2>2 DEF Content
    <3>3. files' = Both(d, j) /\ DiskInv' /\ MemoryInv'
      BY <1>1, <1>26, <1>29, <2>1, <2>2, <3>1, <3>2, FilesStep DEF I
    <3>4. JournalInv'
      BY <1>12, <1>13, <1>18, <2>1, <3>3, JournalThere
    <3>5. HistoryInv'
      BY <1>1, <2>1, <2>2, HistoryKept
    <3> QED
      BY <3>3, <3>4, <3>5 DEF FilesInv
  <2>3. CASE Change(save \o store) /\ log' = log
    <3>1. Content(log)' = committed'
      BY <1>1, <2>1, <2>3 DEF Content
    <3>2. files' = Both(d2, j2) /\ DiskInv' /\ MemoryInv'
      BY <1>1, <1>28, <1>30, <2>1, <2>3, <3>1, FilesStep DEF I
    <3>3. JournalInv'
      BY <1>12, <1>13, <1>17, <1>19, <2>1, <3>2, JournalThere
    <3>4. HistoryInv'
      BY <1>1, <2>1, <2>3, HistoryKept
    <3> QED
      BY <3>2, <3>3, <3>4 DEF FilesInv
  <2> QED
    BY <1>24, <1>31, <2>2, <2>3
<1>32. CASE ~inTransaction
  <2> DEFINE items == (save \o store) \o <<DeleteItem(Journal)>>
  <2>1. /\ DeleteItem(Journal) \in I /\ Applicable(DeleteItem(Journal), Both(d2, j2))
        /\ Applied(DeleteItem(Journal), Both(d2, j2)) = Only(d2)
    BY DeleteJournal DEF I
  <2>2. <<DeleteItem(Journal)>> \in Seq(I) /\ Reaches(<<DeleteItem(Journal)>>, Both(d2, j2), Only(d2))
    BY <2>1, ReachesOne
  <2>3. items \in Seq(I) /\ items # <<>> /\ items[1] = (save \o store)[1]
    BY <1>28, <2>2, FirstOfBoth
  <2>4. Reaches(items, files, Only(d2))
    BY <1>28, <2>2, ReachesConcat
  <2>5. Change(items) /\ log' = Append(log, Own(c))
    BY <1>25, <1>32
  <2>6. committed' = content /\ working' = content /\ ~inTransaction' /\ UNCHANGED <<wrote, kept>>
    BY <1>3, <1>5, <1>7, <1>32
  <2>7. Content(log)' = content /\ wrote[Own(c)] = P
    <3>1. owned[c] = None
      BY <1>3, <1>32 DEF WorkerInv, TransactionInv, InGate
    <3>2. wrote[Own(c)] = P
      BY <1>2, <1>4, <1>6, <3>1 DEF WroteFits
    <3>3. working = committed
      BY <1>9, <1>32 DEF OneWriter
    <3>4. \A p \in Pages : content[p] = Content(log)[p] \cup Mark(c, p \in wrote[Own(c)])
      BY <1>1, <1>7, <3>2, <3>3 DEF Mark
    <3> QED
      BY <1>1, <1>3, <1>8, <2>5, <2>6, <3>2, <3>4, ContentAppended
  <2>8. /\ FilesOK(Only(d2)) /\ Restored(Only(d2)) = content /\ ~HasHeader(Only(d2))
        /\ Database \in DOMAIN Only(d2)
    BY <1>19, OnlyIs
  <2> HIDE DEF items
  <2>9. files' = Only(d2) /\ DiskInv' /\ MemoryInv'
    BY <1>1, <1>3, <1>8, <1>28, <2>3, <2>4, <2>5, <2>6, <2>7, <2>8, FilesStep DEF I
  <2>10. JournalInv'
    BY <2>6, <2>8, <2>9, NoJournal
  <2>11. HistoryInv'
    BY <1>1, <1>3, <1>6, <1>20, <2>5, <2>6, <2>7, HistoryAppended
  <2> QED
    BY <2>9, <2>10, <2>11 DEF FilesInv
<1> QED
  BY <1>31, <1>32

(* The transaction is committed. *)
LEMMA CommitFiles ==
  ASSUME DatabaseInv, WorkerInv, NEW c \in Clients, WebCommit(c)
  PROVE  FilesInv'
<1> DEFINE d == files[Database]
           j == files[Journal]
           I == Items(Names, Values)
           P == {}
<1>1. /\ DiskInv /\ MemoryInv /\ JournalInv /\ HistoryInv /\ WindowsInv /\ log \in Seq(Works) /\ FilesOK(files)
      /\ Restored(files) = committed /\ committed = Content(log)
      /\ working \in [Pages -> SUBSET Works] /\ committed \in [Pages -> SUBSET Works]
  BY RestoredIs DEF DatabaseInv, FilesInv, MemoryInv, WindowsInv, LogInv
<1>2. /\ Executable(c) /\ Executed(c, "ok") /\ asked[c].kind = "commit" /\ inTransaction
      /\ committed' = working /\ working' = working /\ ~inTransaction'
  BY DEF WebCommit, ExecuteCommit
<1>3. /\ Own(c) \in Works /\ connections # 0 /\ stage[c] = "locked" /\ UNCHANGED <<wrote, kept>>
  BY <1>1, <1>2, ExecutedRow DEF WebCommit
<1>4. CASE working = committed
  <2>1. Change(<<>>) /\ log' = log
    BY <1>4 DEF WebCommit
  <2>2. <<>> \in Seq(I) /\ Reaches(<<>>, files, files)
    BY ReachesNone
  <2>3. Content(log)' = committed'
    BY <1>1, <1>2, <1>3, <1>4, <2>1 DEF Content
  <2>4. files' = files /\ DiskInv' /\ MemoryInv'
    BY <1>1, <1>2, <1>3, <1>4, <2>1, <2>2, <2>3, FilesStep
  <2>5. ~HasHeader(files) /\ Database \in DOMAIN files
    BY <1>1, <1>3, <1>4 DEF JournalInv
  <2>6. JournalInv'
    BY <1>2, <2>4, <2>5, NoJournal
  <2>7. HistoryInv'
    BY <1>1, <1>3, <2>1, HistoryKept
  <2> QED
    BY <2>4, <2>6, <2>7 DEF FilesInv
<1>5. CASE working # committed
  <2>1. HasHeader(files) /\ \A p \in Saved : j[p] = Restored(files)[p]
    BY <1>1, <1>2, <1>3, <1>5 DEF JournalInv, Saved
  <2>2. /\ DatabaseOK(d) /\ JournalOK(j) /\ files = Both(d, j) /\ Database \in DOMAIN files
    BY <1>1, <2>1, FilesAre
  <2>3. j[0].size = SizeBefore /\ Saved = DOMAIN j \ {0} /\ ToSave(P) = {} /\ 0 \in DOMAIN j
    BY <2>1 DEF SizeBefore, Saved, ToSave, HasHeader
  <2>4. DOMAIN j = {0} \cup Saved \cup ToSave(P) /\ Saved \cup ToSave(P) = Saved
    BY <2>3
  <2>5. PICK store : store = StoreItems(P, working)
    OBVIOUS
  <2>6. P \in SUBSET Pages
    OBVIOUS
  <2> HIDE DEF P, d, j
  <2>7. /\ store \in Seq(I) /\ store # <<>> /\ store[1] = Header(Saved)
        /\ \E d2, j2 : /\ StoredAs(P, working, j, d2, j2)
                       /\ Reaches(store, files, Both(d2, j2))
    <3>1. /\ StoreItems(P, working) \in Seq(I) /\ StoreItems(P, working) # <<>>
          /\ StoreItems(P, working)[1] = Header(Saved \cup ToSave(P))
          /\ \E d2, j2 : /\ StoredAs(P, working, j, d2, j2)
                         /\ Reaches(StoreItems(P, working), Both(files[Database], j), Both(d2, j2))
      BY <1>1, <2>2, <2>3, <2>4, <2>6, StoreReaches
    <3> QED
      BY <2>2, <2>4, <2>5, <3>1 DEF d
  <2>8. PICK d2, j2 : StoredAs(P, working, j, d2, j2) /\ Reaches(store, files, Both(d2, j2))
    BY <2>7
  <2>9. DatabaseOK(d2) /\ Shown(d2) = working
    BY <2>8 DEF StoredAs
  <2>10. Harmless(store[1], files)
    BY <1>1, <2>1, <2>7, CountingIsHarmless DEF j
  <2> DEFINE items == store \o <<DeleteItem(Journal)>>
  <2>11. Change(items) /\ log' = Append(log, Own(c))
    BY <1>5, <2>5 DEF WebCommit, Own, P
  <2>12. /\ DeleteItem(Journal) \in I /\ Applicable(DeleteItem(Journal), Both(d2, j2))
         /\ Applied(DeleteItem(Journal), Both(d2, j2)) = Only(d2)
    BY DeleteJournal
  <2> HIDE DEF I
  <2>13. <<DeleteItem(Journal)>> \in Seq(I) /\ Reaches(<<DeleteItem(Journal)>>, Both(d2, j2), Only(d2))
    BY <2>12, ReachesOne
  <2>14. items \in Seq(I) /\ items # <<>> /\ items[1] = store[1]
    BY <2>7, <2>13, FirstOfBoth
  <2>15. Reaches(items, files, Only(d2))
    BY <2>7, <2>8, <2>13, ReachesConcat
  <2>16. Content(log)' = working /\ wrote[Own(c)] # {} /\ Own(c) \notin ToSet(log)
    <3>1. InGate(c) /\ WorkFits(c)
      BY <1>1, <1>2, InsideIfOpen DEF WindowsInv
    <3>2. Committable(c) /\ Coming(c) = {}
      BY <1>2, <1>3, <3>1 DEF Committable, Coming
    <3>3. \A p \in Pages : working[p] = Content(log)[p] \cup Mark(c, p \in wrote[Own(c)])
      <4>1. \A p \in Pages : working[p] \cup Mark(c, p \in {}) = committed[p] \cup Mark(c, p \in wrote[Own(c)])
        BY <3>1, <3>2 DEF WorkFits
      <4> QED
        BY <1>1, <4>1 DEF Mark
    <3>4. wrote[Own(c)] # {}
      <4>1. SUFFICES ASSUME wrote[Own(c)] = {} PROVE FALSE
        OBVIOUS
      <4>2. \A p \in Pages : working[p] = committed[p]
        BY <1>1, <3>3, <4>1 DEF Mark
      <4> QED
        BY <1>1, <1>5, <4>2
    <3>5. Own(c) \notin ToSet(log)
      <4>1. Unfinished(c) /\ Logged(c)
        BY <1>1, <1>2, <1>3, InsideIfOpen DEF Unfinished, Done, WindowsInv
      <4> QED
        BY <4>1 DEF Logged
    <3> QED
      BY <1>1, <1>3, <2>11, <3>3, <3>4, <3>5, ContentAppended
  <2>17. /\ FilesOK(Only(d2)) /\ Restored(Only(d2)) = working /\ ~HasHeader(Only(d2))
         /\ Database \in DOMAIN Only(d2)
    BY <2>9, OnlyIs
  <2> HIDE DEF items
  <2>18. files' = Only(d2) /\ DiskInv' /\ MemoryInv'
    BY <1>1, <1>2, <1>3, <2>10, <2>11, <2>14, <2>15, <2>16, <2>17, FilesStep DEF I
  <2>19. JournalInv'
    BY <1>2, <2>17, <2>18, NoJournal
  <2>20. HistoryInv'
    BY <1>1, <1>3, <2>11, <2>16, HistoryAppended
  <2> QED
    BY <2>18, <2>19, <2>20 DEF FilesInv
<1> QED
  BY <1>4, <1>5

-----------------------------------------------------------------------------
(* All steps *)

(* The invariant at the start. *)
LEMMA InitDatabase == WebInit => DatabaseInv
<1> SUFFICES ASSUME WebInit PROVE DatabaseInv
  OBVIOUS
<1>1. /\ files = NoFiles /\ disk = NoFiles /\ pending = <<>> /\ inflight = <<>> /\ log = <<>>
      /\ connections = 0 /\ inTransaction = FALSE
      /\ working = [p \in Pages |-> {}] /\ committed = [p \in Pages |-> {}]
      /\ wrote = [m \in Works |-> {}]
  BY DEF WebInit, FilesInit, WorkerInit
<1>2. IsFiles(NoFiles) /\ DOMAIN NoFiles = {}
  BY DEF NoFiles, IsFiles
<1>3. FilesOK(NoFiles) /\ Restored(NoFiles) = [p \in Pages |-> {}]
  <2>1. ~HasHeader(NoFiles) /\ \A p : Block(NoFiles, Database, p) = {}
    BY <1>2 DEF HasHeader, Block
  <2> QED
    BY <1>2, <2>1 DEF FilesOK, Restored
<1>4. log \in Seq(Works) /\ ToSet(log) = {} /\ SubSeq(log, 1, 0) = log /\ Len(log) = 0
  BY <1>1 DEF ToSet
<1>5. Content(log) = [p \in Pages |-> {}]
  BY <1>4 DEF Content
<1>6. MemoryInv
  BY <1>1, <1>3, <1>5 DEF MemoryInv
<1>7. JournalInv
  BY <1>1 DEF JournalInv
<1>8. Sound(NoFiles, 0)
  <2>1. Content(SubSeq(log, 1, 0)) = Content(log)
    BY <1>4
  <2>2. Restored(NoFiles) = Content(SubSeq(log, 1, 0)) /\ 0 \in 0..Len(log)
    BY <1>3, <1>4, <1>5, <2>1
  <2> QED
    BY <1>3, <2>2 DEF Sound
<1>9. Faithful(Names, Values, NoFiles)
  <2>1. Reaches(<<>>, NoFiles, NoFiles)
    BY ReachesNone
  <2> QED
    BY <1>1, <1>2, <2>1 DEF Faithful
<1>10. DiskInv
  <2>1. kept = 0 /\ intact = TRUE /\ kept \in 0..Len(log)
    BY <1>4 DEF WebInit, FilesInit
  <2> QED
    BY <1>1, <1>8, <1>9, <2>1 DEF DiskInv, DiskHolds
<1>11. ASSUME NEW c \in Clients
       PROVE  ~Needs(c) /\ Logged(c) /\ WroteFits(c) /\ WorkFits(c)
  <2>1. /\ asked[c].kind = "none" /\ phase[c] = "away" /\ owned[c] = None
    BY <1>11 DEF WebInit, WorkerInit, NoRequest
  <2>2. ~Needs(c) /\ ~Unfinished(c) /\ ~Committable(c)
    BY <1>1, <2>1 DEF Needs, Unfinished, Committable
  <2>3. \A k \in 1..MaxWorks : wrote[<<c, k>>] = {}
    BY <1>1 DEF Works
  <2> QED
    BY <2>1, <2>2, <2>3 DEF Logged, WroteFits, WorkFits
<1>12. WindowsInv
  BY <1>1, <1>4, <1>11 DEF WindowsInv, LogInv
<1>13. HistoryInv
  BY <1>4 DEF HistoryInv
<1> QED
  BY <1>6, <1>7, <1>10, <1>12, <1>13 DEF DatabaseInv, FilesInv

(* A step of a window, of the worker or of its event loop that does not    *)
(* touch the files.                                                        *)
LEMMA IdleDatabase ==
  ASSUME DatabaseInv, WorkerInv, WorkerInv', Idle, WindowsInv',
         \A m \in ToSet(log) : wrote'[m] = wrote[m],
         UNCHANGED <<connections, working, committed>>,
         working # committed => inTransaction' = inTransaction
  PROVE  DatabaseInv'
<1>1. FilesInv /\ log \in Seq(Works) /\ UNCHANGED <<filesVars, log, kept>>
  BY DEF DatabaseInv, WindowsInv, LogInv, Idle
<1>2. FilesInv'
  BY <1>1, IdleFiles
<1> QED
  BY <1>2 DEF DatabaseInv

(* A step of a window. *)
LEMMA ClientDatabase ==
  ASSUME DatabaseInv, WorkerInv, WorkerInv', NEW c \in Clients, WebClient(c)
  PROVE  DatabaseInv'
<1>1. Idle /\ (ClientStep(c) \/ Leave(c)) /\ WindowsInv /\ log' = log
  BY DEF WebClient, Idle, DatabaseInv
<1>2. \A m \in ToSet(log) : wrote'[m] = wrote[m]
  BY <1>1, LogIsWritten
<1>3. UNCHANGED <<connections, inTransaction, working, committed>>
  BY <1>1 DEF ClientStep, Load, AskBegin, AskRead, AskSingle, AskWrite, AskEnd, Post, Receive,
              Leave, openVars, databaseVars
<1>4. WindowsInv'
  <2>1. CASE Receive(c)
    BY <1>1, <2>1, ReceiveWindows
  <2>2. CASE Leave(c)
    BY <1>1, <2>2, LeaveWindows
  <2>3. CASE ~Receive(c) /\ ClientStep(c)
    BY <1>1, <2>3, AskWindows DEF ClientStep
  <2> QED
    BY <1>1, <2>1, <2>2, <2>3
<1> QED
  BY <1>1, <1>2, <1>3, <1>4, IdleDatabase

(* A step of the worker for a window. *)
LEMMA ServeDatabase ==
  ASSUME DatabaseInv, WorkerInv, WorkerInv', NEW c \in Clients, WebServe(c)
  PROVE  DatabaseInv'
<1>1. WindowsInv
  BY DEF DatabaseInv
<1>2. CASE WebCreate(c)
  <2>1. Create(c) /\ log' = log
    BY <1>2 DEF WebCreate
  <2>2. WindowsInv'
    BY <1>1, <2>1, OpeningWindows
  <2> QED
    BY <1>2, <2>2, CreateFiles DEF DatabaseInv
<1>3. CASE WebWrite(c)
  <2>1. /\ ExecuteWrite(c)
        /\ inTransaction => log' = log
        /\ ~inTransaction => log' = Append(log, Own(c))
    BY <1>3 DEF WebWrite, Own
  <2>2. WindowsInv'
    BY <1>1, <2>1, WriteWindows
  <2> QED
    BY <1>3, <2>2, WriteFiles DEF DatabaseInv
<1>4. CASE WebCommit(c)
  <2>1. ExecuteCommit(c) /\ log' \in {log, Append(log, Own(c))}
    BY <1>4 DEF WebCommit, Own
  <2>2. WindowsInv'
    BY <1>1, <2>1, EndWindows
  <2> QED
    BY <1>4, <2>2, CommitFiles DEF DatabaseInv
<1>5. CASE WebRollback(c)
  <2>1. (ExecuteRollback(c) \/ ExecuteAborts(c)) /\ log' = log
    BY <1>5 DEF WebRollback
  <2>2. WindowsInv'
    BY <1>1, <2>1, EndWindows
  <2> QED
    BY <1>5, <2>2, RollbackFiles DEF DatabaseInv
<1>6. ASSUME Idle,
             \/ Deliver(c) \/ Initialise(c) \/ Lookup(c)
             \/ ExecuteBegin(c) \/ ExecuteRead(c) \/ ExecuteFails(c)
      PROVE  DatabaseInv'
  <2>1. log' = log /\ Serve(c)
    BY <1>6 DEF Idle, Serve
  <2>2. \A m \in ToSet(log) : wrote'[m] = wrote[m]
    BY <1>1, <2>1, LogIsWritten
  <2>3. CASE Deliver(c) \/ Initialise(c) \/ Lookup(c)
    <3>1. UNCHANGED <<connections, inTransaction, working, committed>>
      BY <2>3 DEF Deliver, EnterOpening, Initialise, Loaded, LoadFails, Lookup, openVars, databaseVars
    <3>2. WindowsInv'
      BY <1>1, <2>1, <2>3, DeliverWindows, OpeningWindows
    <3> QED
      BY <1>6, <2>2, <3>1, <3>2, IdleDatabase
  <2>4. CASE ExecuteBegin(c) \/ ExecuteRead(c) \/ ExecuteFails(c)
    <3>1. UNCHANGED <<connections, working, committed>>
      BY <2>4 DEF ExecuteBegin, ExecuteRead, ExecuteFails, Executed, openVars, databaseVars
    <3>2. working # committed => inTransaction' = inTransaction
      BY <2>4 DEF ExecuteBegin, ExecuteRead, ExecuteFails, databaseVars, WorkerInv, WorkerTypes,
                  OneWriter
    <3>3. WindowsInv'
      BY <1>1, <2>1, <2>4, IdleStatementWindows
    <3> QED
      BY <1>6, <2>2, <3>1, <3>2, <3>3, IdleDatabase
  <2> QED
    BY <1>6, <2>3, <2>4
<1> QED
  BY <1>2, <1>3, <1>4, <1>5, <1>6 DEF WebServe

(* A turn of the event loop. *)
LEMMA TurnDatabase ==
  ASSUME DatabaseInv, WorkerInv, WorkerInv', TurnStep, Idle
  PROVE  DatabaseInv'
<1>1. WindowsInv /\ log' = log
  BY DEF DatabaseInv, Idle
<1>2. UNCHANGED <<wrote, connections, inTransaction, working, committed>>
  BY DEF TurnStep, RunHead, Rest, Opened, Unlock, Settle, clientVars, openVars, databaseVars
<1>3. WindowsInv'
  BY <1>1, TurnWindows
<1> QED
  BY <1>2, <1>3, IdleDatabase

(* A step of something else. *)
LEMMA UnchangedDatabase ==
  ASSUME DatabaseInv, WorkerInv, WorkerInv', UNCHANGED webVars
  PROVE  DatabaseInv'
<1>1. /\ UNCHANGED <<phase, works, owned, wrote, asked, stage, outcome, connections,
                     inTransaction, working, committed, log>>
      /\ Idle
  BY DEF webVars, workerVars, clientVars, openVars, databaseVars, ghostVars, Idle
<1>2. WindowsInv /\ LogInv
  BY DEF DatabaseInv, WindowsInv
<1>3. ASSUME NEW c \in Clients
      PROVE  /\ Needs(c)' => connections' # 0
             /\ Logged(c)' /\ WroteFits(c)' /\ WorkFits(c)'
  <2>1. Own(c)' = Own(c) /\ (Committable(c)' <=> Committable(c)) /\ Coming(c)' = Coming(c)
    BY <1>1 DEF Own, Committable, InGate, Coming
  <2>2. (Needs(c) => connections # 0) /\ Logged(c) /\ WroteFits(c) /\ WorkFits(c)
    BY <1>2 DEF WindowsInv
  <2> QED
    BY <1>1, <2>1, <2>2 DEF Needs, Logged, Unfinished, WroteFits, WorkFits, Mark
<1>4. WindowsInv'
  BY <1>1, <1>2, <1>3 DEF WindowsInv, LogInv
<1> QED
  BY <1>1, <1>4, IdleDatabase

(* Every step keeps the invariant. *)
LEMMA DatabaseStep ==
  ASSUME DatabaseInv, WorkerInv, [WebNext]_webVars
  PROVE  DatabaseInv'
<1>1. WorkerInv'
  BY WebStep
<1>2. CASE UNCHANGED webVars
  BY <1>1, <1>2, UnchangedDatabase
<1>3. CASE TurnStep /\ Idle
  BY <1>1, <1>3, TurnDatabase
<1>4. ASSUME NEW c \in Clients, WebClient(c) \/ WebServe(c)
      PROVE  DatabaseInv'
  BY <1>1, <1>4, ClientDatabase, ServeDatabase
<1>5. CASE WebBatchDone
  BY <1>5, BatchDatabase
<1>6. CASE WebBatchFails
  BY <1>6, RefusedDatabase
<1>7. CASE Stop
  BY <1>1, <1>7, StopDatabase
<1> QED
  BY <1>2, <1>3, <1>4, <1>5, <1>6, <1>7 DEF WebNext

(* The invariant says what the runs check. *)
LEMMA InvHolds ==
  ASSUME DatabaseInv, WorkerInv
  PROVE  FilesHoldTheLog /\ WorkerTypeOK
<1>1. MemoryInv /\ DiskInv
  BY DEF DatabaseInv, FilesInv
<1>2. intact => QueueIsFaithful
  BY <1>1, FaithfulQueue DEF DiskInv, DiskHolds
<1>3. Recovered(files) = committed /\ committed = Content(log)
  BY <1>1, RecoveredIs DEF MemoryInv
<1>4. committed \in [Pages -> SUBSET Works]
  BY <1>1, RestoredIs DEF MemoryInv
<1>5. WorkerTypeOK
  BY <1>1, <1>4 DEF WorkerInv, WorkerTypes, MemoryInv, WorkerTypeOK
<1> QED
  BY <1>2, <1>3, <1>5 DEF FilesHoldTheLog

(* The invariant holds of every state. *)
LEMMA WebInvariant == WebSpec => [](DatabaseInv /\ WorkerInv)
<1>1. WebInit => DatabaseInv /\ WorkerInv
  BY InitDatabase, InitWorkerInv DEF WebInit
<1>2. DatabaseInv /\ WorkerInv /\ [WebNext]_webVars => DatabaseInv' /\ WorkerInv'
  BY DatabaseStep, WebStep
<1> QED
  BY <1>1, <1>2, PTL DEF WebSpec

(* The worker's variables have their types, the pages that the connection  *)
(* reads included.                                                         *)
THEOREM WorkerTypesHold == WebSpec => []WorkerTypeOK
<1>1. DatabaseInv /\ WorkerInv => WorkerTypeOK
  BY InvHolds
<1> QED
  BY <1>1, WebInvariant, PTL

(* What SQLite would recover from the files in memory (class cf in         *)
(* web/sqflite_sw.js) is what is committed: the works of the log, each     *)
(* whole, and nothing else, refused batches or not.  As long as none is    *)
(* refused, the items queued for IndexedDB and IndexedDB itself agree with *)
(* them.  So it is for any number of windows, pages and works, whenever    *)
(* the cache spills, windows go, statements fail and the worker ends.      *)
THEOREM FilesKeepTheLog == WebSpec => []FilesHoldTheLog
<1>1. DatabaseInv /\ WorkerInv => FilesHoldTheLog
  BY InvHolds
<1> QED
  BY <1>1, WebInvariant, PTL

(* Files that hold a prefix of the log hold every work of it whole, and    *)
(* nothing of any other.                                                   *)
LEMMA PrefixIsWhole ==
  ASSUME NEW fs, NEW k, Sound(fs, k), ~HasHeader(fs), log \in Seq(Works),
         wrote \in [Works -> SUBSET Pages], NEW m \in Works
  PROVE  {p \in wrote[m] : m \in Block(fs, Database, p)} \in {{}, wrote[m]}
<1> DEFINE s == SubSeq(log, 1, k)
<1>1. \A p \in Pages : Block(fs, Database, p) = {n \in ToSet(s) : p \in wrote[n]}
  <2>1. Restored(fs) = [p \in Pages |-> Block(fs, Database, p)]
    BY DEF Sound, Restored
  <2>2. Restored(fs) = [p \in Pages |-> {n \in ToSet(s) : p \in wrote[n]}]
    BY DEF Sound, Content
  <2> HIDE DEF s
  <2> QED
    BY <2>1, <2>2
<1>2. wrote[m] \subseteq Pages
  OBVIOUS
<1> HIDE DEF s
<1>3. \A p \in wrote[m] : m \in Block(fs, Database, p) <=> m \in ToSet(s)
  BY <1>1, <1>2
<1>4. CASE m \in ToSet(s)
  BY <1>3, <1>4
<1>5. CASE m \notin ToSet(s)
  BY <1>3, <1>5
<1> QED
  BY <1>4, <1>5

(* As long as the browser refuses no batch, IndexedDB holds a transaction  *)
(* whole or not at all, or the journal to make it so (web/sqflite_sw.js):  *)
(* a refused batch is the only thing that can part what a user has edited  *)
(* from its entry in the outbox.                                           *)
THEOREM WholeUntilRefused == WebSpec => [](intact => TransactionsStayWhole)
<1>1. DatabaseInv /\ WorkerInv => (intact => TransactionsStayWhole)
  <2> SUFFICES ASSUME DatabaseInv, WorkerInv, intact, ~HasHeader(disk), NEW m \in Works
               PROVE  {p \in wrote[m] : m \in Block(disk, Database, p)} \in {{}, wrote[m]}
    BY DEF TransactionsStayWhole
  <2>1. Sound(disk, kept)
    BY DEF DatabaseInv, FilesInv, DiskInv, DiskHolds
  <2>2. log \in Seq(Works) /\ wrote \in [Works -> SUBSET Pages]
    BY DEF DatabaseInv, WindowsInv, LogInv, WorkerInv, WorkerTypes
  <2> QED
    BY <2>1, <2>2, PrefixIsWhole
<1> QED
  BY <1>1, WebInvariant, PTL

-----------------------------------------------------------------------------
(* The database of LocalDatabase *)

(* A statement outside a transaction, or a commit of changes, adds to the  *)
(* log what was not in it; any other request leaves the log as it is.      *)
LEMMA ServePromise ==
  ASSUME DatabaseInv, WorkerInv, NEW c \in Clients, WebServe(c)
  PROVE  UNCHANGED <<log, kept, intact>> \/ \E m \in Works : Promise!Commit(m)
<1>1. /\ WindowsInv /\ Logged(c)
  BY DEF DatabaseInv, WindowsInv
<1>2. CASE WebWrite(c)
  <2>1. /\ Executable(c) /\ Executed(c, "ok") /\ asked[c].kind = "write"
        /\ UNCHANGED <<kept, intact>>
    BY <1>2 DEF WebWrite, ExecuteWrite, Change
  <2>2. Own(c) \in Works /\ stage[c] = "locked"
    BY <1>1, <2>1, ExecutedRow
  <2>3. Own(c) \notin ToSet(log)
    BY <1>1, <2>1, <2>2 DEF Logged, Unfinished, Waits
  <2>4. CASE inTransaction
    BY <1>2, <2>1, <2>4 DEF WebWrite
  <2>5. CASE ~inTransaction
    <3>1. log' = Append(log, Own(c))
      BY <1>2, <2>5 DEF WebWrite, Own
    <3> QED
      BY <2>1, <2>2, <2>3, <3>1 DEF Promise!Commit, Promise!ToSet, ToSet
  <2> QED
    BY <2>4, <2>5
<1>3. CASE WebCommit(c)
  <2>1. /\ Executable(c) /\ Executed(c, "ok") /\ asked[c].kind = "commit" /\ inTransaction
        /\ UNCHANGED <<kept, intact>>
    BY <1>3 DEF WebCommit, ExecuteCommit, Change
  <2>2. Own(c) \in Works /\ stage[c] = "locked"
    BY <1>1, <2>1, ExecutedRow
  <2>3. Own(c) \notin ToSet(log)
    BY <1>1, <2>1, <2>2, InsideIfOpen DEF Logged, Unfinished, Done
  <2>4. log' = log \/ log' = Append(log, Own(c))
    BY <1>3 DEF WebCommit, Own
  <2> QED
    BY <2>1, <2>2, <2>3, <2>4 DEF Promise!Commit, Promise!ToSet, ToSet
<1>4. CASE WebCreate(c) \/ WebRollback(c)
  BY <1>4 DEF WebCreate, WebRollback, Change
<1>5. CASE Idle
  BY <1>5 DEF Idle, filesVars
<1> QED
  BY <1>2, <1>3, <1>4, <1>5 DEF WebServe

(* Every step is one of LocalDatabase, or none. *)
LEMMA PromiseStep ==
  ASSUME DatabaseInv, WorkerInv, [WebNext]_webVars
  PROVE  [Promise!Next]_(Promise!vars)
<1>1. WorkerInv' /\ kept \in Nat
  <2>1. WorkerInv'
    BY WebStep
  <2>2. kept \in 0..Len(log) /\ Len(log) \in Nat
    BY DEF DatabaseInv, FilesInv, DiskInv, WindowsInv, LogInv
  <2> QED
    BY <2>1, <2>2
<1>2. CASE UNCHANGED webVars \/ Idle
  BY <1>2 DEF webVars, ghostVars, filesVars, Idle, Promise!vars
<1>3. ASSUME NEW c \in Clients, WebServe(c)
      PROVE  [Promise!Next]_(Promise!vars)
  BY <1>3, ServePromise DEF Promise!Next, Promise!vars
<1>4. CASE WebBatchDone
  <2>1. /\ kept' \in kept..Len(log) /\ log' = log /\ Len(log) \in Nat
        /\ intact' = intact /\ (~intact => kept' = kept)
    BY <1>4, BatchDatabase DEF WebBatchDone, DatabaseInv, WindowsInv, LogInv
  <2>2. kept' = kept \/ (intact /\ kept' \in (kept + 1)..Len(log))
    BY <1>1, <2>1
  <2> QED
    BY <2>1, <2>2 DEF Promise!Next, Promise!Keep, Promise!vars
<1>5. CASE WebBatchFails
  BY <1>5 DEF WebBatchFails, BatchFails, Promise!Next, Promise!Refuse
<1>6. CASE Stop
  <2>1. kept' \in kept..Len(log) /\ log' = SubSeq(log, 1, kept') /\ intact
    BY <1>1, <1>6, StopDatabase DEF Stop
  <2>2. intact' = intact
    BY <1>6, <2>1 DEF Stop, StopFiles, DatabaseInv, FilesInv, DiskInv
  <2> QED
    BY <2>1, <2>2 DEF Promise!Next, Promise!Restart
<1> QED
  BY <1>2, <1>3, <1>4, <1>5, <1>6 DEF WebNext, WebClient

(* To the application the browser's database is the one of LocalDatabase:  *)
(* every work is committed once and whole; as long as the browser refuses  *)
(* no batch, what IndexedDB holds is a prefix of what was committed and    *)
(* never shrinks, and a worker that starts again finds that prefix, all    *)
(* that was persistent and perhaps more; after a refusal only the log is   *)
(* promised, for as long as the worker lives (web/sqflite_sw.js).  That    *)
(* what is committed becomes persistent in the end is fairness, and        *)
(* Implements says it too.                                                 *)
THEOREM PromiseIsKept == WebSpec => Promise!Init /\ [][Promise!Next]_(Promise!vars)
<1>1. WebInit => Promise!Init
  BY DEF WebInit, FilesInit, Promise!Init
<1>2. DatabaseInv /\ WorkerInv /\ [WebNext]_webVars => [Promise!Next]_(Promise!vars)
  BY PromiseStep
<1> QED
  BY <1>1, <1>2, WebInvariant, PTL DEF WebSpec
=============================================================================
