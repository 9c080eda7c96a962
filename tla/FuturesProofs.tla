---------------------------- MODULE FuturesProofs ----------------------------
(* For any number of futures: Futures implements Promises.  A listener     *)
(* that has not been told waits in one place, a list, the stack or a task, *)
(* behind all that were registered before it on the same future.           *)
EXTENDS Futures, SequenceTheorems, NaturalsInduction, WellFoundedInduction, TLAPS

Outcomes  == [how : Completed, by : Ids]
Kinds     == Completed \cup {"call", "follow", "report"}
Promising == Completed \cup {"follow"}
Frames    == [at : {"call", "in"}, of : Ids]
Microtasks == [kind : Kinds, of : Nat, arg : Nat]

-----------------------------------------------------------------------------
(* The state that the invariant speaks of: st, r, ls, src, hd, s and q are *)
(* the statuses, the ends of the chains, the lists, the sources, what has  *)
(* been heard, the stack and the tasks.                                    *)

IsOpen(st, f) == st[f] \in {"incomplete", "pending"}

Unheard(src, hd, l) == src[l] # 0 /\ hd[l] = None

Among(q, e) == \E i \in 1..Len(q) : q[i] = e

Shapes(st, r, ls, src, hd, s, q) ==
  /\ st \in [Ids -> Statuses]
  /\ r \in [Ids -> Ids]
  /\ ls \in [Ids -> Seq(Ids)]
  /\ src \in [Ids -> 0..MaxFutures]
  /\ hd \in [Ids -> Outcomes \cup {None}]
  /\ s \in Seq(Frames)
  /\ q \in Seq(Microtasks)

Rooted(st, r) ==
  \A g \in Ids : st[r[g]] # "chained" /\ (st[g] # "chained" => r[g] = g)

(* Who has not been told has no result. *)
Unsettled(st, src, hd) ==
  \A l \in Ids : Unheard(src, hd, l) => st[l] = "incomplete"

(* What is listed waits for an outcome; what is on the stack or a task can *)
(* be told one.                                                            *)
ListsHold(st, r, ls, src, hd) ==
  \A f \in Ids : \A i \in 1..Len(ls[f]) :
    IsOpen(st, f) /\ Unheard(src, hd, ls[f][i]) /\ r[src[ls[f][i]]] = f

StackHolds(st, r, src, hd, s) ==
  \A i \in 1..Len(s) :
    /\ s[i].at = "call" =>
         Unheard(src, hd, s[i].of) /\ st[r[src[s[i].of]]] \in Completed
    /\ s[i].at = "in" =>
         src[s[i].of] # 0 /\ hd[s[i].of] # None /\ st[s[i].of] = "incomplete"

TasksHold(st, r, src, hd, q) ==
  \A i \in 1..Len(q) :
    /\ q[i].kind = "call" =>
         /\ q[i].of \in Ids
         /\ Unheard(src, hd, q[i].of) /\ st[r[src[q[i].of]]] \in Completed
    /\ q[i].kind \in Promising =>
         q[i].of \in Ids /\ q[i].arg \in Ids /\ st[q[i].of] = "pending"

(* Of the listeners of one future the first registered is the last of a    *)
(* list, and the first on the stack and of the tasks.  A listener returns  *)
(* once, and a future is promised an outcome by one task.                  *)
ListOrder(ls, src) ==
  \A f \in Ids : \A i, j \in 1..Len(ls[f]) :
    i < j /\ src[ls[f][i]] = src[ls[f][j]] => ls[f][j] < ls[f][i]

StackOrder(src, s) ==
  \A i, j \in 1..Len(s) : i < j =>
    /\ s[i].at = "call" /\ s[j].at = "call" /\ src[s[i].of] = src[s[j].of] => s[i].of < s[j].of
    /\ s[i].at = "in" /\ s[j].at = "in" => s[i].of # s[j].of

TaskOrder(src, q) ==
  \A i, j \in 1..Len(q) : i < j =>
    /\ q[i].kind = "call" /\ q[j].kind = "call" /\ src[q[i].of] = src[q[j].of] => q[i].of < q[j].of
    /\ q[i].kind \in Promising /\ q[j].kind \in Promising => q[i].of # q[j].of

StackFirst(src, s, q) ==
  \A i \in 1..Len(s), j \in 1..Len(q) :
    s[i].at = "call" /\ q[j].kind = "call" /\ src[s[i].of] = src[q[j].of] => s[i].of < q[j].of

AllWait(st, r, ls, src, hd, s, q) ==
  \A l \in Ids : Unheard(src, hd, l) =>
    IF IsOpen(st, r[src[l]]) THEN Among(ls[r[src[l]]], l)
    ELSE Among(s, Call(l)) \/ Among(q, Task("call", l, 0))

Waiting(st, r, ls, src, hd, s, q) ==
  /\ Shapes(st, r, ls, src, hd, s, q)
  /\ Rooted(st, r)
  /\ Unsettled(st, src, hd)
  /\ ListsHold(st, r, ls, src, hd)
  /\ StackHolds(st, r, src, hd, s)
  /\ TasksHold(st, r, src, hd, q)
  /\ ListOrder(ls, src)
  /\ StackOrder(src, s)
  /\ TaskOrder(src, q)
  /\ StackFirst(src, s, q)
  /\ AllWait(st, r, ls, src, hd, s, q)

-----------------------------------------------------------------------------
(* The invariant *)

(* A chain has an end: each future of it is further from it than the next. *)
IsRoots(st, ct, r) ==
  r \in [Ids -> Ids] /\ \A g \in Ids : r[g] = IF st[g] = "chained" THEN r[ct[g]] ELSE g

Ranked(st, ct, k) ==
  /\ k \in [Ids -> Nat]
  /\ \A g \in Ids : st[g] = "chained" => ct[g] \in Ids /\ k[ct[g]] < k[g]

Chains(st, ct) ==
  /\ \E r \in [Ids -> Ids] : IsRoots(st, ct, r)
  /\ \E k \in [Ids -> Nat] : Ranked(st, ct, k)

Roots == [f \in Ids |-> Root(f)]

(* Futures are numbered as they are made, and only listeners have sources. *)
Numbered(hd) ==
  /\ made \in 0..MaxFutures
  /\ \A l \in Ids : source[l] < l /\ gathers[l] <= made
  /\ \A l \in Ids : source[l] = 0 <=> form[l] = "none"
  /\ \A l \in Ids : l > made => /\ source[l] = 0 /\ hd[l] = None
                                /\ status[l] = "incomplete" /\ gathers[l] = 0

(* A future that waits for several is no listener, and is settled when all *)
(* have been told.                                                         *)
Gathering(hd) ==
  \A k \in Ids : gathers[k] # 0 =>
    /\ source[k] # 0 /\ source[gathers[k]] = 0
    /\ hd[k] = None => status[gathers[k]] = "incomplete"

Shaped(q, u) ==
  /\ content \in [Ids -> 0..MaxFutures]
  /\ \A f \in Ids : status[f] \in Completed => content[f] \in Ids
  /\ form \in [Ids -> Forms \cup {"none"}]
  /\ gathers \in [Ids -> 0..MaxFutures]
  /\ u \in 0..Len(q)
  /\ loop \in {"idle", "scheduled", "running"}

(* The invariant, of what has been heard, the stack, the tasks and how     *)
(* many are urgent when a step has taken from them.                        *)
InvWith(hd, s, q, u) ==
  /\ Shaped(q, u)
  /\ Chains(status, content)
  /\ Numbered(hd)
  /\ Gathering(hd)
  /\ Waiting(status, Roots, listeners, source, hd, s, q)

FuturesInv == InvWith(heard, stack, tasks, urgent)

-----------------------------------------------------------------------------
(* The ends of chains *)

(* Every set of numbers that is not empty has a least one. *)
LEMMA LeastNumber ==
  ASSUME NEW S \in SUBSET Nat, S # {}
  PROVE  \E n \in S : \A m \in S : n <= m
<1> DEFINE R == {p \in Nat \X Nat : p[1] < p[2]}
<1>1. IsWellFoundedOn(R, Nat)
  BY NatLessThanWellFounded DEF OpToRel
<1> HIDE DEF R
<1>2. PICK n \in S : \A m \in S : ~(<<m, n>> \in R)
  BY <1>1, WFMin
<1>3. \A m \in S : ~(m < n)
  BY <1>2 DEF R
<1> QED
  BY <1>3

RootsOf(st, ct) ==
  [f \in Ids |-> LET root[g \in Ids] == IF st[g] = "chained" THEN root[ct[g]] ELSE g
                 IN  root[f]]

(* Root, which is recursive, is the end of the chain when there is one,    *)
(* and the end follows nothing.                                            *)
LEMMA RootsOfIs ==
  ASSUME NEW st, NEW ct, NEW r, IsRoots(st, ct, r), NEW k, Ranked(st, ct, k)
  PROVE  RootsOf(st, ct) = r /\ Rooted(st, r)
<1> DEFINE Solves(p) == p = [g \in Ids |-> IF st[g] = "chained" THEN p[ct[g]] ELSE g]
           p == CHOOSE p : Solves(p)
           Bad == {g \in Ids : p[g] # r[g] \/ st[r[g]] = "chained"}
           S == {k[g] : g \in Bad}
<1>1. RootsOf(st, ct) = [f \in Ids |-> p[f]]
  BY DEF RootsOf
<1>2. Solves(r)
  BY DEF IsRoots
<1>3. Solves(p)
  <2> HIDE DEF Solves
  <2> QED
    BY <1>2
<1> HIDE DEF p
<1>4. Bad = {}
  <2> SUFFICES ASSUME Bad # {} PROVE FALSE
    OBVIOUS
  <2>1. S \in SUBSET Nat /\ S # {}
    BY DEF Ranked
  <2> HIDE DEF S
  <2>2. PICK n \in S : \A m \in S : n <= m
    BY <2>1, LeastNumber
  <2>3. PICK g \in Bad : k[g] = n
    BY <2>2 DEF S
  <2>4. CASE st[g] = "chained"
    <3>1. ct[g] \in Ids /\ k[ct[g]] < k[g] /\ k[ct[g]] \in Nat /\ k[g] \in Nat
      BY <2>4, <2>3 DEF Ranked
    <3>2. ct[g] \notin Bad
      <4> SUFFICES ASSUME ct[g] \in Bad PROVE FALSE
        OBVIOUS
      <4>1. k[ct[g]] \in S
        BY DEF S
      <4> QED
        BY <4>1, <3>1, <2>2, <2>3
    <3>3. p[g] = p[ct[g]] /\ r[g] = r[ct[g]]
      BY <2>3, <2>4, <1>2, <1>3
    <3> QED
      BY <3>1, <3>2, <3>3, <2>3
  <2>5. CASE st[g] # "chained"
    BY <2>3, <2>5, <1>2, <1>3
  <2> QED
    BY <2>4, <2>5
<1>5. RootsOf(st, ct) = r
  BY <1>1, <1>2, <1>4
<1>6. Rooted(st, r)
  BY <1>4 DEF Rooted, IsRoots
<1> QED
  BY <1>5, <1>6

(* Chains and their ends depend on nothing but who follows whom. *)
LEMMA SameChains ==
  ASSUME NEW st, NEW ct, NEW st2, NEW ct2, Chains(st, ct),
         \A g \in Ids : st2[g] = "chained" <=> st[g] = "chained",
         \A g \in Ids : st[g] = "chained" => ct2[g] = ct[g]
  PROVE  Chains(st2, ct2) /\ RootsOf(st2, ct2) = RootsOf(st, ct)
<1>1. PICK r \in [Ids -> Ids] : IsRoots(st, ct, r)
  BY DEF Chains
<1>2. PICK k \in [Ids -> Nat] : Ranked(st, ct, k)
  BY DEF Chains
<1>3. IsRoots(st2, ct2, r)
  BY <1>1 DEF IsRoots
<1>4. Ranked(st2, ct2, k)
  BY <1>2 DEF Ranked
<1>5. RootsOf(st2, ct2) = r /\ RootsOf(st, ct) = r
  BY <1>1, <1>2, <1>3, <1>4, RootsOfIs
<1> QED
  BY <1>3, <1>4, <1>5 DEF Chains

Redirected(r, b, n) == [g \in Ids |-> IF r[g] = b THEN n ELSE r[g]]

(* When b follows n, what ended with b ends with n. *)
LEMMA LongerChain ==
  ASSUME NEW st \in [Ids -> Statuses], NEW ct \in [Ids -> 0..MaxFutures], Chains(st, ct),
         NEW b \in Ids, NEW n \in Ids, b # n, st[b] # "chained", st[n] # "chained"
  PROVE  LET st2 == [st EXCEPT ![b] = "chained"]
             ct2 == [ct EXCEPT ![b] = n]
         IN  /\ Chains(st2, ct2)
             /\ RootsOf(st2, ct2) = Redirected(RootsOf(st, ct), b, n)
<1> DEFINE st2 == [st EXCEPT ![b] = "chained"]
           ct2 == [ct EXCEPT ![b] = n]
<1>1. PICK r \in [Ids -> Ids] : IsRoots(st, ct, r)
  BY DEF Chains
<1>2. PICK k \in [Ids -> Nat] : Ranked(st, ct, k)
  BY DEF Chains
<1> DEFINE r2 == Redirected(r, b, n)
           k2 == [g \in Ids |-> IF r[g] = b THEN k[g] + k[n] + 1 ELSE k[g]]
<1>3. r[b] = b /\ r[n] = n
  BY <1>1 DEF IsRoots
<1>4. IsRoots(st2, ct2, r2)
  <2>1. r2 \in [Ids -> Ids]
    BY DEF Redirected
  <2>2. ASSUME NEW g \in Ids
        PROVE  r2[g] = IF st2[g] = "chained" THEN r2[ct2[g]] ELSE g
    <3>1. CASE g = b
      BY <3>1, <1>3 DEF Redirected
    <3>2. CASE g # b /\ st[g] = "chained"
      <4>1. r[g] = r[ct[g]] /\ ct[g] \in Ids
        BY <3>2, <1>1, <1>2 DEF IsRoots, Ranked
      <4> QED
        BY <4>1, <3>2 DEF Redirected
    <3>3. CASE g # b /\ st[g] # "chained"
      BY <3>3, <1>1 DEF IsRoots, Redirected
    <3> QED
      BY <3>1, <3>2, <3>3
  <2> HIDE DEF r2, st2, ct2
  <2> QED
    BY <2>1, <2>2 DEF IsRoots
<1>5. Ranked(st2, ct2, k2) /\ k2 \in [Ids -> Nat]
  <2>1. k2 \in [Ids -> Nat]
    BY <1>2
  <2>2. ASSUME NEW g \in Ids, st2[g] = "chained"
        PROVE  ct2[g] \in Ids /\ k2[ct2[g]] < k2[g]
    <3>1. CASE g = b
      <4>1. ct2[g] = n /\ k2[n] = k[n] /\ k2[g] = k[g] + k[n] + 1 /\ k[g] \in Nat /\ k[n] \in Nat
        BY <3>1, <1>3, <1>2
      <4> QED
        BY <4>1
    <3>2. CASE g # b
      <4>1. r[g] = r[ct[g]] /\ ct[g] \in Ids /\ ct2[g] = ct[g] /\ k[ct[g]] < k[g]
        BY <3>2, <2>2, <1>1, <1>2 DEF IsRoots, Ranked
      <4>2. k[g] \in Nat /\ k[n] \in Nat /\ k[ct[g]] \in Nat
        BY <4>1, <1>2
      <4> QED
        BY <4>1, <4>2
    <3> QED
      BY <3>1, <3>2
  <2> HIDE DEF k2, st2, ct2
  <2> QED
    BY <2>1, <2>2 DEF Ranked
<1>6. RootsOf(st, ct) = r
  BY <1>1, <1>2, RootsOfIs
<1>7. RootsOf(st2, ct2) = r2
  <2> HIDE DEF k2, st2, ct2, r2
  <2> QED
    BY <1>4, <1>5, RootsOfIs
<1>8. Chains(st2, ct2)
  <2>1. r2 \in [Ids -> Ids]
    BY DEF Redirected
  <2> HIDE DEF k2, st2, ct2, r2
  <2> QED
    BY <2>1, <1>4, <1>5 DEF Chains
<1> QED
  BY <1>6, <1>7, <1>8

-----------------------------------------------------------------------------
(* What keeps the waiting in order *)

(* The first of a pair of numbers is one more than in the rest. *)
LEMMA TailIs ==
  ASSUME NEW T, NEW s \in Seq(T), s # <<>>
  PROVE  /\ Tail(s) \in Seq(T) /\ Len(Tail(s)) = Len(s) - 1 /\ 1 \in 1..Len(s) /\ Len(s) \in Nat
         /\ \A i \in 1..Len(Tail(s)) : i + 1 \in 1..Len(s) /\ Tail(s)[i] = s[i + 1]
         /\ \A i \in 1..Len(s) : i # 1 => i - 1 \in 1..Len(Tail(s)) /\ Tail(s)[i - 1] = s[i]
         /\ \A e : Among(s, e) => e = s[1] \/ Among(Tail(s), e)
<1>1. Tail(s) \in Seq(T) /\ Len(Tail(s)) = Len(s) - 1 /\ Len(s) \in Nat \ {0}
  OBVIOUS
<1>2. \A i \in 1..Len(Tail(s)) : i + 1 \in 1..Len(s) /\ Tail(s)[i] = s[i + 1]
  BY <1>1
<1>3. \A i \in 1..Len(s) : i # 1 => i - 1 \in 1..Len(Tail(s)) /\ Tail(s)[i - 1] = s[i]
  BY <1>1
<1>4. ASSUME NEW e, Among(s, e)
      PROVE  e = s[1] \/ Among(Tail(s), e)
  BY <1>3, <1>4 DEF Among
<1> QED
  BY <1>1, <1>2, <1>3, <1>4

(* A listener that is told leaves the stack: all that were registered on   *)
(* the same future before have been told, and it is not told again.        *)
LEMMA Told ==
  ASSUME NEW st, NEW r, NEW ls, NEW src, NEW hd, NEW s, NEW q,
         Waiting(st, r, ls, src, hd, s, q), s # <<>>, s[1].at = "call",
         NEW l, l = s[1].of, NEW h \in [Ids -> Outcomes \cup {None}], h[l] \in Outcomes,
         \A k \in Ids : k # l => h[k] = hd[k]
  PROVE  /\ l \in Ids /\ src[l] \in Ids /\ hd[l] = None /\ h[l] # None
         /\ st[l] = "incomplete" /\ st[r[src[l]]] \in Completed
         /\ \A k \in Ids : k < l /\ src[k] = src[l] => hd[k] # None
         /\ Waiting(st, r, ls, src, h, Tail(s), q)
         /\ \A i \in 1..Len(Tail(s)) : Tail(s)[i].at = "in" => Tail(s)[i].of # l
<1>0. Shapes(st, r, ls, src, hd, s, q)
  BY DEF Waiting
<1>t. /\ Tail(s) \in Seq(Frames) /\ 1 \in 1..Len(s) /\ Len(s) \in Nat
      /\ Len(Tail(s)) = Len(s) - 1
      /\ \A i \in 1..Len(Tail(s)) : i + 1 \in 1..Len(s) /\ Tail(s)[i] = s[i + 1]
      /\ \A e : Among(s, e) => e = s[1] \/ Among(Tail(s), e)
  BY <1>0, TailIs DEF Shapes
<1>1. \A i \in 1..Len(s) : s[i] \in Frames /\ s[i].of \in Ids
  <2>1. s \in Seq(Frames)
    BY <1>0 DEF Shapes
  <2>2. \A i \in 1..Len(s) : s[i] \in Frames
    BY <2>1
  <2> QED
    BY <2>2 DEF Frames
<1>2. l \in Ids /\ Unheard(src, hd, l) /\ st[r[src[l]]] \in Completed
  BY <1>1, <1>t DEF Waiting, StackHolds
<1>3. src[l] \in Ids
  BY <1>0, <1>2 DEF Shapes, Unheard, Ids
<1>4. st[l] = "incomplete" /\ hd[l] = None
  BY <1>2 DEF Waiting, Unsettled, Unheard
<1>6. h[l] # None
  BY NoneAssumption DEF Outcomes
<1>7. \A k \in Ids : Unheard(src, h, k) <=> Unheard(src, hd, k) /\ k # l
  BY <1>2, <1>6 DEF Unheard
<1>8. ASSUME NEW i \in 1..Len(Tail(s)), Tail(s)[i].at = "call"
      PROVE  Tail(s)[i].of # l
  <2>1. Tail(s)[i] = s[i + 1] /\ i + 1 \in 1..Len(s) /\ 1 < i + 1
    BY <1>t
  <2>2. s[i + 1].of \in Ids /\ s[i + 1].of \in Nat
    BY <1>1, <2>1 DEF Ids
  <2> QED
    BY <2>1, <2>2, <1>8, <1>t DEF Waiting, StackOrder, Ids
<1>9. ASSUME NEW j \in 1..Len(q), q[j].kind = "call"
      PROVE  q[j].of # l
  <2>1. q[j].of \in Ids
    BY <1>9 DEF Waiting, TasksHold
  <2> QED
    BY <2>1, <1>9, <1>t DEF Waiting, StackFirst, Ids
<1>10. ASSUME NEW f \in Ids, NEW i \in 1..Len(ls[f])
       PROVE  ls[f][i] # l /\ ls[f][i] \in Ids
  <2>1. ls[f] \in Seq(Ids)
    BY <1>0 DEF Shapes
  <2>2. IsOpen(st, f) /\ r[src[ls[f][i]]] = f
    BY DEF Waiting, ListsHold
  <2> QED
    BY <2>1, <2>2, <1>2 DEF IsOpen, Completed
<1>11. \A k \in Ids : k < l /\ src[k] = src[l] => hd[k] # None
  <2> SUFFICES ASSUME NEW k \in Ids, k < l, src[k] = src[l], hd[k] = None
               PROVE  FALSE
    OBVIOUS
  <2>1. Unheard(src, hd, k)
    BY <1>2 DEF Unheard
  <2>2. ~IsOpen(st, r[src[k]])
    BY <1>2 DEF IsOpen, Completed
  <2>3. Among(s, Call(k)) \/ Among(q, Task("call", k, 0))
    BY <2>1, <2>2 DEF Waiting, AllWait
  <2>4. CASE Among(s, Call(k))
    <3>1. PICK i \in 1..Len(s) : s[i] = Call(k)
      BY <2>4 DEF Among
    <3>2. s[i].at = "call" /\ s[i].of = k
      BY <3>1 DEF Call
    <3>3. i # 1
      BY <3>2, <1>2 DEF Ids
    <3>4. 1 < i
      BY <3>3
    <3>5. s[1].of < s[i].of
      BY <3>4, <3>2, <1>t DEF Waiting, StackOrder
    <3> QED
      BY <3>5, <3>2, <1>2 DEF Ids
  <2>5. CASE Among(q, Task("call", k, 0))
    <3>1. PICK j \in 1..Len(q) : q[j] = Task("call", k, 0)
      BY <2>5 DEF Among
    <3>2. q[j].kind = "call" /\ q[j].of = k
      BY <3>1 DEF Task
    <3>3. s[1].of < q[j].of
      BY <3>2, <1>t DEF Waiting, StackFirst
    <3> QED
      BY <3>3, <3>2, <1>2 DEF Ids
  <2> QED
    BY <2>3, <2>4, <2>5
<1>12. \A i \in 1..Len(Tail(s)) : Tail(s)[i].at = "in" => Tail(s)[i].of # l
  BY <1>t, <1>4 DEF Waiting, StackHolds
<1>13. Waiting(st, r, ls, src, h, Tail(s), q)
  <2>1. Shapes(st, r, ls, src, h, Tail(s), q)
    BY <1>0, <1>t DEF Shapes
  <2>2. Unsettled(st, src, h)
    BY <1>7 DEF Waiting, Unsettled
  <2>3. ListsHold(st, r, ls, src, h)
    BY <1>7, <1>10 DEF Waiting, ListsHold
  <2>4. StackHolds(st, r, src, h, Tail(s))
    <3> SUFFICES ASSUME NEW i \in 1..Len(Tail(s))
                 PROVE  /\ Tail(s)[i].at = "call" => Unheard(src, h, Tail(s)[i].of)
                                                     /\ st[r[src[Tail(s)[i].of]]] \in Completed
                        /\ Tail(s)[i].at = "in" => /\ src[Tail(s)[i].of] # 0
                                                   /\ h[Tail(s)[i].of] # None
                                                   /\ st[Tail(s)[i].of] = "incomplete"
      BY DEF StackHolds
    <3>1. Tail(s)[i] = s[i + 1] /\ i + 1 \in 1..Len(s) /\ Tail(s)[i].of \in Ids
      BY <1>t, <1>1
    <3> QED
      BY <3>1, <1>7, <1>8, <1>12 DEF Waiting, StackHolds
  <2>5. TasksHold(st, r, src, h, q)
    BY <1>7, <1>9 DEF Waiting, TasksHold
  <2>6. StackOrder(src, Tail(s))
    <3> SUFFICES ASSUME NEW i \in 1..Len(Tail(s)), NEW j \in 1..Len(Tail(s)), i < j
                 PROVE  /\ Tail(s)[i].at = "call" /\ Tail(s)[j].at = "call"
                           /\ src[Tail(s)[i].of] = src[Tail(s)[j].of] => Tail(s)[i].of < Tail(s)[j].of
                        /\ Tail(s)[i].at = "in" /\ Tail(s)[j].at = "in" => Tail(s)[i].of # Tail(s)[j].of
      BY DEF StackOrder
    <3>1. i + 1 \in 1..Len(s) /\ j + 1 \in 1..Len(s) /\ i + 1 < j + 1
      BY <1>t
    <3> QED
      BY <3>1, <1>t DEF Waiting, StackOrder
  <2>7. StackFirst(src, Tail(s), q)
    BY <1>t DEF Waiting, StackFirst
  <2>8. AllWait(st, r, ls, src, h, Tail(s), q)
    <3> SUFFICES ASSUME NEW k \in Ids, Unheard(src, h, k)
                 PROVE  IF IsOpen(st, r[src[k]]) THEN Among(ls[r[src[k]]], k)
                        ELSE Among(Tail(s), Call(k)) \/ Among(q, Task("call", k, 0))
      BY DEF AllWait
    <3>1. Unheard(src, hd, k) /\ k # l
      BY <1>7
    <3>2. Call(k) # s[1]
      BY <3>1 DEF Call
    <3> QED
      BY <3>1, <3>2, <1>t DEF Waiting, AllWait
  <2> QED
    BY <2>1, <2>2, <2>3, <2>4, <2>5, <2>6, <2>7, <2>8 DEF Waiting
<1> QED
  BY <1>2, <1>3, <1>4, <1>6, <1>11, <1>12, <1>13

(* What stands before and after the join of two sequences. *)
LEMMA JoinIs ==
  ASSUME NEW T, NEW a \in Seq(T), NEW b \in Seq(T)
  PROVE  /\ a \o b \in Seq(T) /\ Len(a) \in Nat /\ Len(b) \in Nat /\ Len(a \o b) = Len(a) + Len(b)
         /\ \A i \in 1..Len(a \o b) :
              \/ i \in 1..Len(a) /\ (a \o b)[i] = a[i]
              \/ i - Len(a) \in 1..Len(b) /\ i > Len(a) /\ (a \o b)[i] = b[i - Len(a)]
         /\ \A e : Among(a, e) \/ Among(b, e) => Among(a \o b, e)
<1>1. a \o b \in Seq(T) /\ Len(a) \in Nat /\ Len(b) \in Nat /\ Len(a \o b) = Len(a) + Len(b)
  OBVIOUS
<1>2. \A i \in 1..Len(a) : (a \o b)[i] = a[i] /\ i \in 1..Len(a \o b)
  BY <1>1
<1>3. \A i \in 1..Len(b) : (a \o b)[Len(a) + i] = b[i] /\ Len(a) + i \in 1..Len(a \o b)
  BY <1>1
<1>4. ASSUME NEW i \in 1..Len(a \o b)
      PROVE  \/ i \in 1..Len(a) /\ (a \o b)[i] = a[i]
             \/ i - Len(a) \in 1..Len(b) /\ i > Len(a) /\ (a \o b)[i] = b[i - Len(a)]
  BY <1>1
<1> HIDE DEF Among
<1>5. \A e : Among(a, e) \/ Among(b, e) => Among(a \o b, e)
  BY <1>2, <1>3 DEF Among
<1> QED
  BY <1>1, <1>4, <1>5

(* c is a and then b, in JoinIs's words.                                   *)
Joins(T, a, b, c) ==
  /\ c \in Seq(T) /\ Len(a) \in Nat /\ Len(b) \in Nat /\ Len(c) = Len(a) + Len(b)
  /\ \A i \in 1..Len(c) :
       \/ i \in 1..Len(a) /\ c[i] = a[i]
       \/ i - Len(a) \in 1..Len(b) /\ i > Len(a) /\ c[i] = b[i - Len(a)]
  /\ \A e : Among(a, e) \/ Among(b, e) => Among(c, e)

LEMMA JoinsIs ==
  ASSUME NEW T, NEW a \in Seq(T), NEW b \in Seq(T)
  PROVE  Joins(T, a, b, a \o b)
<1> DEFINE c == a \o b
<1>1. c \in Seq(T) /\ Len(a) \in Nat /\ Len(b) \in Nat /\ Len(c) = Len(a) + Len(b)
  BY JoinIs
<1>2. \A i \in 1..Len(c) :
        \/ i \in 1..Len(a) /\ c[i] = a[i]
        \/ i - Len(a) \in 1..Len(b) /\ i > Len(a) /\ c[i] = b[i - Len(a)]
  BY JoinIs
<1>3. \A e : Among(a, e) \/ Among(b, e) => Among(c, e)
  BY JoinIs
<1> HIDE DEF c
<1>4. Joins(T, a, b, c)
  BY <1>1, <1>2, <1>3, Zenon DEF Joins
<1> QED
  BY <1>4 DEF c

(* The calls of a list are those of its listeners, the last one first. *)
LEMMA CallsOfIs ==
  ASSUME NEW ls \in Seq(Ids)
  PROVE  /\ CallsOf(ls) \in Seq(Frames) /\ Len(CallsOf(ls)) = Len(ls) /\ Len(ls) \in Nat
         /\ \A i \in 1..Len(ls) : /\ Len(ls) + 1 - i \in 1..Len(ls)
                                  /\ CallsOf(ls)[i].at = "call"
                                  /\ CallsOf(ls)[i].of = ls[Len(ls) + 1 - i]
         /\ \A l : Among(ls, l) => Among(CallsOf(ls), Call(l))
<1> DEFINE n == Len(ls)
           c == CallsOf(ls)
<1>1. n \in Nat /\ \A i \in 1..n : ls[i] \in Ids
  OBVIOUS
<1>2. \A i \in 1..n : n + 1 - i \in 1..n /\ n + 1 - (n + 1 - i) = i
  BY <1>1
<1>3. c = [i \in 1..n |-> Call(ls[n + 1 - i])]
  BY DEF CallsOf
<1> HIDE DEF c, n
<1>4. \A i \in 1..n : c[i] = Call(ls[n + 1 - i]) /\ c[i] \in Frames
  BY <1>1, <1>2, <1>3 DEF Call, Frames
<1>5. c \in [1..n -> Frames]
  BY <1>3, <1>4
<1>6. c \in Seq(Frames) /\ Len(c) = n
  <2> HIDE DEF Frames
  <2> QED
    BY <1>1, <1>5
<1>7. ASSUME NEW i \in 1..n
      PROVE  c[i].at = "call" /\ c[i].of = ls[n + 1 - i]
  <2>1. c[i] = Call(ls[n + 1 - i])
    BY <1>4
  <2> QED
    BY <2>1 DEF Call
<1>8. ASSUME NEW l, NEW i \in 1..n, ls[i] = l
      PROVE  Among(c, Call(l))
  <2>1. n + 1 - i \in 1..Len(c) /\ c[n + 1 - i] = Call(l)
    BY <1>2, <1>4, <1>6, <1>8
  <2> QED
    BY <2>1 DEF Among
<1>9. \A l : Among(ls, l) => Among(c, Call(l))
  BY <1>8 DEF Among, n
<1> QED
  BY <1>1, <1>2, <1>6, <1>7, <1>9 DEF n, c

(* Nobody else is still to settle f.                                       *)
Settleable(st, src, hd, s, q, f) ==
  /\ f \in Ids /\ IsOpen(st, f)
  /\ src[f] # 0 => hd[f] # None
  /\ \A i \in 1..Len(s) : s[i].at = "in" => s[i].of # f
  /\ \A j \in 1..Len(q) : q[j].kind \in Promising => q[j].of # f

(* A listener's source is a future.                                        *)
LEMMA SourceIs ==
  ASSUME NEW st, NEW r, NEW ls, NEW src, NEW hd, NEW s, NEW q,
         Shapes(st, r, ls, src, hd, s, q),
         NEW k \in Ids, src[k] # 0
  PROVE  src[k] \in Ids
<1>1. src \in [Ids -> 0..MaxFutures]
  BY Zenon DEF Shapes
<1>2. src[k] \in 0..MaxFutures
  BY <1>1
<1> QED
  BY <1>2 DEF Ids

(* A future that is settled keeps the order: its listeners go from the     *)
(* list to the stack.                                                      *)
LEMMA SettledInOrder ==
  ASSUME NEW st, NEW r, NEW ls, NEW src, NEW hd, NEW s, NEW q,
         Waiting(st, r, ls, src, hd, s, q),
         NEW f, Settleable(st, src, hd, s, q, f), NEW how \in Completed
  PROVE  Waiting([st EXCEPT ![f] = how], r, [ls EXCEPT ![f] = <<>>], src, hd,
                 CallsOf(ls[f]) \o s, q)
<1> DEFINE st2 == [st EXCEPT ![f] = how]
           ls2 == [ls EXCEPT ![f] = <<>>]
           n == Len(ls[f])
           c == CallsOf(ls[f])
           s2 == c \o s
<1>0. Shapes(st, r, ls, src, hd, s, q) /\ f \in Ids
  BY DEF Waiting, Settleable
<1>1. ls[f] \in Seq(Ids) /\ s \in Seq(Frames)
  BY <1>0 DEF Shapes
<1>2. /\ c \in Seq(Frames) /\ Len(c) = n /\ n \in Nat
      /\ \A i \in 1..n : /\ n + 1 - i \in 1..n
                         /\ c[i].at = "call"
                         /\ c[i].of = ls[f][n + 1 - i]
      /\ \A l : Among(ls[f], l) => Among(c, Call(l))
  BY <1>1, CallsOfIs
<1> HIDE DEF c, n
<1>3. /\ s2 \in Seq(Frames) /\ Len(s) \in Nat /\ Len(s2) = n + Len(s)
      /\ \A i \in 1..Len(s2) :
           \/ i \in 1..n /\ s2[i] = c[i]
           \/ i - n \in 1..Len(s) /\ i > n /\ s2[i] = s[i - n]
      /\ \A e : Among(c, e) \/ Among(s, e) => Among(s2, e)
  <2>1. Joins(Frames, c, s, s2)
    BY <1>1, <1>2, JoinsIs
  <2> HIDE DEF s2
  <2>2. Joins(Frames, c, s, s2) /\ Len(c) = n
    BY <2>1, <1>2
  <2> QED
    BY <2>2, Zenon DEF Joins
<1> HIDE DEF s2
<1>4. /\ st2 \in [Ids -> Statuses] /\ st2[f] = how /\ how \in Completed /\ how # "chained"
      /\ \A g \in Ids : g # f => st2[g] = st[g]
      /\ st[f] \in {"incomplete", "pending"}
  BY <1>0 DEF Shapes, Statuses, Completed, Settleable, IsOpen
<1>5. /\ ls2 \in [Ids -> Seq(Ids)] /\ ls2[f] = <<>> /\ Len(ls2[f]) = 0
      /\ \A g \in Ids : g # f => ls2[g] = ls[g]
  BY <1>0 DEF Shapes
<1> HIDE DEF st2, ls2
<1>6. \A k \in Ids : Unheard(src, hd, k) => k # f /\ src[k] \in Ids
  <2> SUFFICES ASSUME NEW k \in Ids, Unheard(src, hd, k)
               PROVE  k # f /\ src[k] \in Ids
    OBVIOUS
  <2>1. k # f
    BY DEF Settleable, Unheard
  <2>2. src[k] # 0
    BY DEF Unheard
  <2>3. src[k] \in Ids
    BY <1>0, <2>2, SourceIs
  <2> QED
    BY <2>1, <2>3
<1>7. \A g \in Ids : r[g] \in Ids
  BY <1>0 DEF Shapes
<1>8. \A g \in Ids : st[g] \in Completed => st2[g] \in Completed
  BY <1>4
<1>9. \A i \in 1..n : /\ ls[f][i] \in Ids /\ Unheard(src, hd, ls[f][i])
                      /\ r[src[ls[f][i]]] = f
  BY <1>0, <1>1 DEF Waiting, ListsHold, n
<1>10. ASSUME NEW i \in 1..n
       PROVE  c[i].of \in Ids /\ Unheard(src, hd, c[i].of) /\ r[src[c[i].of]] = f
  <2>1. n + 1 - i \in 1..n /\ c[i].of = ls[f][n + 1 - i]
    BY <1>2
  <2> QED
    BY <2>1, <1>9
<1>11. \A i \in 1..Len(s) : s[i].of \in Ids /\ (s[i].at = "call" => r[src[s[i].of]] # f)
  <2>1. \A i \in 1..Len(s) : s[i].of \in Ids
    <3>1. \A i \in 1..Len(s) : s[i] \in Frames
      BY <1>1
    <3> QED
      BY <3>1 DEF Frames
  <2>2. \A i \in 1..Len(s) : s[i].at = "call" => st[r[src[s[i].of]]] \in Completed
    BY DEF Waiting, StackHolds
  <2> QED
    BY <2>1, <2>2, <1>4 DEF Completed
<1>12. \A j \in 1..Len(q) : q[j].kind = "call" => q[j].of \in Ids /\ r[src[q[j].of]] # f
  <2>1. \A j \in 1..Len(q) : q[j].kind = "call" =>
           q[j].of \in Ids /\ st[r[src[q[j].of]]] \in Completed
    BY DEF Waiting, TasksHold
  <2> QED
    BY <2>1, <1>4 DEF Completed
<1>13. Shapes(st2, r, ls2, src, hd, s2, q)
  BY <1>0, <1>3, <1>4, <1>5 DEF Shapes
<1>14. Rooted(st2, r)
  <2>1. \A g \in Ids : st2[g] = "chained" <=> st[g] = "chained"
    BY <1>4
  <2> QED
    BY <2>1, <1>7 DEF Waiting, Rooted
<1>15. Unsettled(st2, src, hd)
  BY <1>4, <1>6 DEF Waiting, Unsettled
<1>16. ListsHold(st2, r, ls2, src, hd)
  <2> SUFFICES ASSUME NEW g \in Ids, NEW i \in 1..Len(ls2[g])
               PROVE  /\ IsOpen(st2, g) /\ Unheard(src, hd, ls2[g][i])
                      /\ r[src[ls2[g][i]]] = g
    BY DEF ListsHold
  <2>1. g # f
    BY <1>5
  <2>2. ls2[g] = ls[g] /\ st2[g] = st[g]
    BY <2>1, <1>4, <1>5
  <2> QED
    BY <2>2 DEF Waiting, ListsHold, IsOpen
<1>17. StackHolds(st2, r, src, hd, s2)
  <2> SUFFICES ASSUME NEW i \in 1..Len(s2)
               PROVE  /\ s2[i].at = "call" => /\ Unheard(src, hd, s2[i].of)
                                              /\ st2[r[src[s2[i].of]]] \in Completed
                      /\ s2[i].at = "in" => /\ src[s2[i].of] # 0 /\ hd[s2[i].of] # None
                                            /\ st2[s2[i].of] = "incomplete"
    BY DEF StackHolds
  <2>1. CASE i \in 1..n /\ s2[i] = c[i]
    BY <2>1, <1>2, <1>10, <1>4
  <2>2. CASE i - n \in 1..Len(s) /\ s2[i] = s[i - n]
    <3>1. s[i - n].of \in Ids /\ (s[i - n].at = "in" => s[i - n].of # f)
      BY <2>2, <1>11 DEF Settleable
    <3>2. CASE s[i - n].at = "call"
      <4>1. Unheard(src, hd, s[i - n].of) /\ st[r[src[s[i - n].of]]] \in Completed
        BY <3>2, <2>2 DEF Waiting, StackHolds
      <4>2. st2[r[src[s[i - n].of]]] \in Completed
        BY <4>1, <3>1, <1>6, <1>7, <1>8
      <4> QED
        BY <4>1, <4>2, <3>2, <2>2
    <3>3. CASE s[i - n].at # "call"
      BY <3>1, <3>3, <2>2, <1>4 DEF Waiting, StackHolds
    <3> QED
      BY <3>2, <3>3
  <2> QED
    BY <2>1, <2>2, <1>3
<1>18. TasksHold(st2, r, src, hd, q)
  <2> SUFFICES ASSUME NEW j \in 1..Len(q)
               PROVE  /\ q[j].kind = "call" =>
                           /\ q[j].of \in Ids /\ Unheard(src, hd, q[j].of)
                           /\ st2[r[src[q[j].of]]] \in Completed
                      /\ q[j].kind \in Promising =>
                           q[j].of \in Ids /\ q[j].arg \in Ids /\ st2[q[j].of] = "pending"
    BY DEF TasksHold
  <2>1. ASSUME q[j].kind = "call"
        PROVE  /\ q[j].of \in Ids /\ Unheard(src, hd, q[j].of)
               /\ st2[r[src[q[j].of]]] \in Completed
    <3>1. /\ q[j].of \in Ids /\ Unheard(src, hd, q[j].of)
          /\ st[r[src[q[j].of]]] \in Completed
      BY <2>1 DEF Waiting, TasksHold
    <3> QED
      BY <3>1, <1>6, <1>7, <1>8
  <2>2. ASSUME q[j].kind \in Promising
        PROVE  q[j].of \in Ids /\ q[j].arg \in Ids /\ st2[q[j].of] = "pending"
    <3>1. q[j].of \in Ids /\ q[j].arg \in Ids /\ st[q[j].of] = "pending" /\ q[j].of # f
      BY <2>2 DEF Waiting, TasksHold, Settleable
    <3> QED
      BY <3>1, <1>4
  <2> QED
    BY <2>1, <2>2
<1>19. ListOrder(ls2, src)
  <2>1. \A g \in Ids : ls2[g] = ls[g] \/ Len(ls2[g]) = 0
    BY <1>5
  <2> QED
    BY <2>1 DEF Waiting, ListOrder
<1>20. StackOrder(src, s2)
  <2> SUFFICES ASSUME NEW i \in 1..Len(s2), NEW j \in 1..Len(s2), i < j
               PROVE  /\ s2[i].at = "call" /\ s2[j].at = "call" /\ src[s2[i].of] = src[s2[j].of]
                           => s2[i].of < s2[j].of
                      /\ s2[i].at = "in" /\ s2[j].at = "in" => s2[i].of # s2[j].of
    BY DEF StackOrder
  <2>1. CASE i \in 1..n /\ s2[i] = c[i] /\ j \in 1..n /\ s2[j] = c[j]
    <3>1. /\ n + 1 - i \in 1..n /\ n + 1 - j \in 1..n /\ n + 1 - j < n + 1 - i
          /\ c[i].of = ls[f][n + 1 - i] /\ c[j].of = ls[f][n + 1 - j]
          /\ c[i].at = "call" /\ c[j].at = "call"
      <4>1. n + 1 - j < n + 1 - i
        BY <1>2
      <4> QED
        BY <4>1, <2>1, <1>2
    <3>2. src[c[i].of] = src[c[j].of] => c[i].of < c[j].of
      BY <3>1, <1>0 DEF Waiting, ListOrder, n
    <3> QED
      BY <3>1, <3>2, <2>1
  <2>2. CASE i \in 1..n /\ s2[i] = c[i] /\ j - n \in 1..Len(s) /\ s2[j] = s[j - n]
    <3>1. s2[i].at = "call" /\ s2[i].of = c[i].of /\ r[src[s2[i].of]] = f
      BY <2>2, <1>2, <1>10
    <3>2. s2[j].at = "call" => r[src[s2[j].of]] # f
      BY <2>2, <1>11
    <3>3. ~(s2[j].at = "call" /\ src[s2[i].of] = src[s2[j].of])
      BY <3>1, <3>2, Zenon
    <3>4. s2[i].at # "in"
      BY <3>1
    <3> QED
      BY <3>3, <3>4
  <2>3. CASE i - n \in 1..Len(s) /\ s2[i] = s[i - n] /\ j - n \in 1..Len(s) /\ s2[j] = s[j - n]
    <3>1. i - n < j - n
      BY <1>2, <1>3
    <3> QED
      BY <3>1, <2>3 DEF Waiting, StackOrder
  <2>4. ~(i - n \in 1..Len(s) /\ i > n /\ j \in 1..n)
    BY <1>2, <1>3
  <2> QED
    BY <2>1, <2>2, <2>3, <2>4, <1>3
<1>21. TaskOrder(src, q)
  BY DEF Waiting
<1>22. StackFirst(src, s2, q)
  <2> SUFFICES ASSUME NEW i \in 1..Len(s2), NEW j \in 1..Len(q), s2[i].at = "call",
                      q[j].kind = "call", src[s2[i].of] = src[q[j].of]
               PROVE  s2[i].of < q[j].of
    BY DEF StackFirst
  <2>1. CASE i \in 1..n /\ s2[i] = c[i]
    BY <2>1, <1>10, <1>12
  <2>2. CASE i - n \in 1..Len(s) /\ s2[i] = s[i - n]
    BY <2>2 DEF Waiting, StackFirst
  <2> QED
    BY <2>1, <2>2, <1>3
<1>23. AllWait(st2, r, ls2, src, hd, s2, q)
  <2> SUFFICES ASSUME NEW k \in Ids, Unheard(src, hd, k)
               PROVE  IF IsOpen(st2, r[src[k]]) THEN Among(ls2[r[src[k]]], k)
                      ELSE Among(s2, Call(k)) \/ Among(q, Task("call", k, 0))
    BY DEF AllWait
  <2>1. /\ IsOpen(st, r[src[k]]) => Among(ls[r[src[k]]], k)
        /\ ~IsOpen(st, r[src[k]]) => Among(s, Call(k)) \/ Among(q, Task("call", k, 0))
        /\ r[src[k]] \in Ids
    BY <1>6, <1>7 DEF Waiting, AllWait
  <2>2. CASE r[src[k]] = f
    <3>1. IsOpen(st, f) /\ ~IsOpen(st2, f)
      BY <1>4 DEF IsOpen, Completed
    <3> QED
      BY <3>1, <2>1, <2>2, <1>2, <1>3
  <2>3. CASE r[src[k]] # f
    <3>1. IsOpen(st2, r[src[k]]) <=> IsOpen(st, r[src[k]])
      BY <2>1, <2>3, <1>4 DEF IsOpen
    <3> QED
      BY <3>1, <2>1, <2>3, <1>3, <1>5
  <2> QED
    BY <2>2, <2>3
<1> QED
  BY <1>13, <1>14, <1>15, <1>16, <1>17, <1>18, <1>19, <1>20, <1>21, <1>22, <1>23
     DEF Waiting, st2, ls2, s2, c

In(l) == [at |-> "in", of |-> l]

(* A callback that runs is on the stack until it returns. *)
LEMMA Entered ==
  ASSUME NEW st, NEW r, NEW ls, NEW src, NEW hd, NEW s, NEW q,
         Waiting(st, r, ls, src, hd, s, q),
         NEW l \in Ids, src[l] # 0, hd[l] # None, st[l] = "incomplete",
         \A i \in 1..Len(s) : s[i].at = "in" => s[i].of # l
  PROVE  Waiting(st, r, ls, src, hd, <<In(l)>> \o s, q)
<1> DEFINE s2 == <<In(l)>> \o s
<1>0. Shapes(st, r, ls, src, hd, s, q)
  BY DEF Waiting
<1>1. s \in Seq(Frames) /\ <<In(l)>> \in Seq(Frames)
  <2>1. In(l) \in Frames
    BY DEF In, Frames
  <2> QED
    BY <2>1, <1>0 DEF Shapes
<1>2. Len(<<In(l)>>) = 1 /\ <<In(l)>>[1] = In(l)
  OBVIOUS
<1>3. /\ s2 \in Seq(Frames) /\ Len(s) \in Nat /\ Len(s2) = Len(s) + 1
      /\ \A i \in 1..Len(s2) :
           \/ i = 1 /\ s2[i] = In(l)
           \/ i - 1 \in 1..Len(s) /\ i > 1 /\ s2[i] = s[i - 1]
      /\ \A e : Among(s, e) => Among(s2, e)
  <2> DEFINE o == <<In(l)>>
  <2>1. Joins(Frames, o, s, s2)
    BY <1>1, JoinsIs
  <2>2. Len(o) = 1 /\ o[1] = In(l)
    BY <1>2
  <2> HIDE DEF s2, o
  <2>3. /\ s2 \in Seq(Frames) /\ Len(s) \in Nat /\ Len(s2) = Len(o) + Len(s)
        /\ \A i \in 1..Len(s2) :
             \/ i \in 1..Len(o) /\ s2[i] = o[i]
             \/ i - Len(o) \in 1..Len(s) /\ i > Len(o) /\ s2[i] = s[i - Len(o)]
        /\ \A e : Among(s, e) => Among(s2, e)
    BY <2>1, Zenon DEF Joins
  <2> QED
    BY <2>2, <2>3
<1> HIDE DEF s2
<1>4. In(l).at = "in" /\ In(l).of = l
  BY DEF In
<1>5. Shapes(st, r, ls, src, hd, s2, q)
  BY <1>0, <1>3 DEF Shapes
<1>6. StackHolds(st, r, src, hd, s2)
  <2> SUFFICES ASSUME NEW i \in 1..Len(s2)
               PROVE  /\ s2[i].at = "call" => /\ Unheard(src, hd, s2[i].of)
                                              /\ st[r[src[s2[i].of]]] \in Completed
                      /\ s2[i].at = "in" => /\ src[s2[i].of] # 0 /\ hd[s2[i].of] # None
                                            /\ st[s2[i].of] = "incomplete"
    BY DEF StackHolds
  <2>1. CASE s2[i] = In(l)
    BY <2>1, <1>4
  <2>2. CASE i - 1 \in 1..Len(s) /\ s2[i] = s[i - 1]
    BY <2>2 DEF Waiting, StackHolds
  <2> QED
    BY <2>1, <2>2, <1>3
<1>7. StackOrder(src, s2)
  <2> SUFFICES ASSUME NEW i \in 1..Len(s2), NEW j \in 1..Len(s2), i < j
               PROVE  /\ s2[i].at = "call" /\ s2[j].at = "call" /\ src[s2[i].of] = src[s2[j].of]
                           => s2[i].of < s2[j].of
                      /\ s2[i].at = "in" /\ s2[j].at = "in" => s2[i].of # s2[j].of
    BY DEF StackOrder
  <2>1. j - 1 \in 1..Len(s) /\ s2[j] = s[j - 1]
    BY <1>3
  <2>2. CASE s2[i] = In(l)
    BY <2>1, <2>2, <1>4
  <2>3. CASE i - 1 \in 1..Len(s) /\ s2[i] = s[i - 1]
    <3>1. i - 1 < j - 1
      BY <1>3
    <3> QED
      BY <3>1, <2>1, <2>3 DEF Waiting, StackOrder
  <2> QED
    BY <2>2, <2>3, <1>3
<1>8. StackFirst(src, s2, q)
  <2> SUFFICES ASSUME NEW i \in 1..Len(s2), NEW j \in 1..Len(q), s2[i].at = "call",
                      q[j].kind = "call", src[s2[i].of] = src[q[j].of]
               PROVE  s2[i].of < q[j].of
    BY DEF StackFirst
  <2>1. i - 1 \in 1..Len(s) /\ s2[i] = s[i - 1]
    BY <1>3, <1>4
  <2> QED
    BY <2>1 DEF Waiting, StackFirst
<1>9. AllWait(st, r, ls, src, hd, s2, q)
  BY <1>3 DEF Waiting, AllWait
<1> QED
  BY <1>5, <1>6, <1>7, <1>8, <1>9 DEF Waiting, s2

(* Who returns has a result to be settled, once. *)
LEMMA Left ==
  ASSUME NEW st, NEW r, NEW ls, NEW src, NEW hd, NEW s, NEW q,
         Waiting(st, r, ls, src, hd, s, q), s # <<>>, s[1].at = "in"
  PROVE  /\ Waiting(st, r, ls, src, hd, Tail(s), q)
         /\ Settleable(st, src, hd, Tail(s), q, s[1].of)
         /\ src[s[1].of] # 0 /\ hd[s[1].of] \in Outcomes
<1>0. Shapes(st, r, ls, src, hd, s, q)
  BY DEF Waiting
<1>1. /\ Tail(s) \in Seq(Frames) /\ 1 \in 1..Len(s) /\ Len(s) \in Nat
      /\ Len(Tail(s)) = Len(s) - 1
      /\ \A i \in 1..Len(Tail(s)) : i + 1 \in 1..Len(s) /\ Tail(s)[i] = s[i + 1]
      /\ \A e : Among(s, e) => e = s[1] \/ Among(Tail(s), e)
  BY <1>0, TailIs DEF Shapes
<1>2. s[1].of \in Ids
  <2>1. s \in Seq(Frames)
    BY <1>0 DEF Shapes
  <2>2. s[1] \in Frames
    BY <2>1, <1>1
  <2> QED
    BY <2>2 DEF Frames
<1>3. src[s[1].of] # 0 /\ hd[s[1].of] # None /\ st[s[1].of] = "incomplete"
  BY <1>1 DEF Waiting, StackHolds
<1>4. Shapes(st, r, ls, src, hd, Tail(s), q)
  BY <1>0, <1>1 DEF Shapes
<1>5. StackHolds(st, r, src, hd, Tail(s))
  <2>1. \A i \in 1..Len(Tail(s)) : i + 1 \in 1..Len(s) /\ Tail(s)[i] = s[i + 1]
    BY <1>1
  <2> QED
    BY <2>1 DEF Waiting, StackHolds
<1>6. StackOrder(src, Tail(s))
  <2> SUFFICES ASSUME NEW i \in 1..Len(Tail(s)), NEW j \in 1..Len(Tail(s)), i < j
               PROVE  /\ Tail(s)[i].at = "call" /\ Tail(s)[j].at = "call"
                         /\ src[Tail(s)[i].of] = src[Tail(s)[j].of] => Tail(s)[i].of < Tail(s)[j].of
                      /\ Tail(s)[i].at = "in" /\ Tail(s)[j].at = "in" => Tail(s)[i].of # Tail(s)[j].of
    BY DEF StackOrder
  <2>1. i + 1 \in 1..Len(s) /\ j + 1 \in 1..Len(s) /\ i + 1 < j + 1
    BY <1>1
  <2> QED
    BY <2>1, <1>1 DEF Waiting, StackOrder
<1>7. StackFirst(src, Tail(s), q)
  BY <1>1 DEF Waiting, StackFirst
<1>8. AllWait(st, r, ls, src, hd, Tail(s), q)
  <2>1. \A k : Call(k) # s[1]
    BY DEF Call
  <2> QED
    BY <2>1, <1>1 DEF Waiting, AllWait
<1>9. \A i \in 1..Len(Tail(s)) : Tail(s)[i].at = "in" => Tail(s)[i].of # s[1].of
  <2> SUFFICES ASSUME NEW i \in 1..Len(Tail(s)), Tail(s)[i].at = "in"
               PROVE  Tail(s)[i].of # s[1].of
    OBVIOUS
  <2>1. i + 1 \in 1..Len(s) /\ Tail(s)[i] = s[i + 1] /\ 1 < i + 1
    BY <1>1
  <2> QED
    BY <2>1, <1>1 DEF Waiting, StackOrder
<1>10. \A j \in 1..Len(q) : q[j].kind \in Promising => q[j].of # s[1].of
  BY <1>3 DEF Waiting, TasksHold
<1>11. Settleable(st, src, hd, Tail(s), q, s[1].of)
  BY <1>2, <1>3, <1>9, <1>10 DEF Settleable, IsOpen
<1>12. hd[s[1].of] \in Outcomes
  BY <1>0, <1>2, <1>3 DEF Shapes
<1> QED
  BY <1>3, <1>4, <1>5, <1>6, <1>7, <1>8, <1>11, <1>12 DEF Waiting

(* A report among the tasks keeps their order. *)
LEMMA Reported ==
  ASSUME NEW st, NEW r, NEW ls, NEW src, NEW hd, NEW s, NEW q,
         Waiting(st, r, ls, src, hd, s, q), NEW u \in 0..Len(q)
  PROVE  LET q2 == SubSeq(q, 1, u) \o <<Task("report", 1, 0)>> \o SubSeq(q, u + 1, Len(q))
         IN  /\ Waiting(st, r, ls, src, hd, s, q2)
             /\ Len(q2) = Len(q) + 1 /\ Len(q) \in Nat
<1> DEFINE t == Task("report", 1, 0)
           q2 == SubSeq(q, 1, u) \o <<t>> \o SubSeq(q, u + 1, Len(q))
<1>0. Shapes(st, r, ls, src, hd, s, q)
  BY DEF Waiting
<1>1. q \in Seq(Microtasks) /\ t \in Microtasks /\ t.kind = "report"
  BY <1>0 DEF Shapes, Task, Microtasks, Kinds
<1> HIDE DEF t
<1>2. Len(q) \in Nat
  BY <1>1
<1> DEFINE a == SubSeq(q, 1, u)
           b == SubSeq(q, u + 1, Len(q))
<1>3. /\ a \in Seq(Microtasks) /\ Len(a) = u /\ \A i \in 1..u : a[i] = q[i]
  BY <1>1, <1>2, SubSeqProperties
<1>4. /\ b \in Seq(Microtasks) /\ Len(b) = Len(q) - u /\ \A i \in 1..Len(b) : b[i] = q[u + i]
  BY <1>1, <1>2, SubSeqProperties
<1> HIDE DEF a, b
<1>5. /\ a \o <<t>> \in Seq(Microtasks) /\ Len(a \o <<t>>) = u + 1
      /\ (a \o <<t>>)[u + 1] = t
      /\ \A i \in 1..u : (a \o <<t>>)[i] = q[i]
  BY <1>1, <1>2, <1>3
<1> DEFINE at == a \o <<t>>
<1> HIDE DEF at
<1>6. q2 = at \o b
  BY DEF at, a, b
<1> HIDE DEF q2
<1>7. /\ q2 \in Seq(Microtasks) /\ Len(q2) = Len(q) + 1
      /\ \A i \in 1..Len(q2) :
           \/ i \in 1..(u + 1) /\ q2[i] = at[i]
           \/ i - (u + 1) \in 1..Len(b) /\ i > u + 1 /\ q2[i] = b[i - (u + 1)]
      /\ \A e : Among(at, e) \/ Among(b, e) => Among(q2, e)
  <2>1. at \in Seq(Microtasks) /\ Len(at) = u + 1
    BY <1>5 DEF at
  <2>2. Joins(Microtasks, at, b, q2)
    BY <2>1, <1>4, <1>6, JoinsIs
  <2>3. /\ q2 \in Seq(Microtasks) /\ Len(q2) = Len(at) + Len(b)
        /\ \A i \in 1..Len(q2) :
             \/ i \in 1..Len(at) /\ q2[i] = at[i]
             \/ i - Len(at) \in 1..Len(b) /\ i > Len(at) /\ q2[i] = b[i - Len(at)]
        /\ \A e : Among(at, e) \/ Among(b, e) => Among(q2, e)
    BY <2>2, Zenon DEF Joins
  <2>4. Len(q2) = Len(q) + 1
    <3>1. Len(at) = u + 1 /\ Len(b) = Len(q) - u /\ u \in Int /\ Len(q) \in Int
      BY <2>1, <1>1, <1>2, <1>4
    <3>2. Len(q2) = Len(at) + Len(b)
      BY <2>3
    <3> QED
      BY <3>1, <3>2
  <2> QED
    BY <2>1, <2>3, <2>4, Zenon
<1> DEFINE m(i) == IF i <= u THEN i ELSE i - 1
<1>8. ASSUME NEW i \in 1..Len(q2), q2[i].kind # "report"
      PROVE  i # u + 1 /\ m(i) \in 1..Len(q) /\ q2[i] = q[m(i)]
  <2>1. CASE i \in 1..(u + 1) /\ q2[i] = at[i]
    <3>1. i # u + 1
      BY <2>1, <1>1, <1>5, <1>8 DEF at
    <3>2. i \in 1..u
      BY <3>1, <2>1
    <3> QED
      BY <3>1, <3>2, <2>1, <1>5, <1>2 DEF at
  <2>2. CASE i - (u + 1) \in 1..Len(b) /\ i > u + 1 /\ q2[i] = b[i - (u + 1)]
    <3>1. b[i - (u + 1)] = q[u + (i - (u + 1))]
      BY <2>2, <1>4
    <3>2. u + (i - (u + 1)) = i - 1 /\ i - 1 \in 1..Len(q) /\ ~(i <= u)
      BY <2>2, <1>2, <1>4
    <3> QED
      BY <3>1, <3>2, <2>2
  <2> QED
    BY <2>1, <2>2, <1>7
<1>9. ASSUME NEW i \in 1..Len(q2), NEW j \in 1..Len(q2), i < j, i # u + 1, j # u + 1
      PROVE  m(i) < m(j)
  BY <1>2, <1>7, <1>9
<1>10. \A e : Among(q, e) => Among(q2, e)
  <2> SUFFICES ASSUME NEW i \in 1..Len(q) PROVE Among(q2, q[i])
    BY DEF Among
  <2>1. CASE i \in 1..u
    <3>1. at[i] = q[i] /\ i \in 1..Len(at)
      BY <2>1, <1>5 DEF at
    <3>2. Among(at, q[i])
      BY <3>1 DEF Among
    <3> QED
      BY <3>2, <1>7
  <2>2. CASE i \notin 1..u
    <3>1. i - u \in 1..Len(b) /\ u + (i - u) = i
      BY <2>2, <1>2, <1>4
    <3>2. b[i - u] = q[u + (i - u)]
      BY <3>1, <1>4
    <3>3. Among(b, q[i])
      BY <3>1, <3>2 DEF Among
    <3> QED
      BY <3>3, <1>7
  <2> QED
    BY <2>1, <2>2
<1> HIDE DEF m
<1>p. "report" \notin Promising /\ "report" # "call"
  BY DEF Promising, Completed
<1>11. Shapes(st, r, ls, src, hd, s, q2)
  BY <1>0, <1>7 DEF Shapes
<1>12. TasksHold(st, r, src, hd, q2)
  BY <1>8, <1>p DEF Waiting, TasksHold
<1>13. TaskOrder(src, q2)
  <2> SUFFICES ASSUME NEW i \in 1..Len(q2), NEW j \in 1..Len(q2), i < j,
                      q2[i].kind # "report", q2[j].kind # "report"
               PROVE  /\ q2[i].kind = "call" /\ q2[j].kind = "call"
                         /\ src[q2[i].of] = src[q2[j].of] => q2[i].of < q2[j].of
                      /\ q2[i].kind \in Promising /\ q2[j].kind \in Promising
                         => q2[i].of # q2[j].of
    BY <1>p DEF TaskOrder
  <2>1. m(i) \in 1..Len(q) /\ m(j) \in 1..Len(q) /\ m(i) < m(j) /\ q2[i] = q[m(i)] /\ q2[j] = q[m(j)]
    BY <1>8, <1>9
  <2> QED
    BY <2>1 DEF Waiting, TaskOrder
<1>14. StackFirst(src, s, q2)
  <2> SUFFICES ASSUME NEW i \in 1..Len(s), NEW j \in 1..Len(q2), s[i].at = "call",
                      q2[j].kind = "call", src[s[i].of] = src[q2[j].of]
               PROVE  s[i].of < q2[j].of
    BY DEF StackFirst
  <2>1. m(j) \in 1..Len(q) /\ q2[j] = q[m(j)]
    BY <1>8, <1>p
  <2> QED
    BY <2>1 DEF Waiting, StackFirst
<1>15. AllWait(st, r, ls, src, hd, s, q2)
  BY <1>10 DEF Waiting, AllWait
<1> QED
  BY <1>2, <1>7, <1>11, <1>12, <1>13, <1>14, <1>15 DEF Waiting, q2, t

(* A future that follows another hands its listeners over.                 *)
LEMMA ChainedInOrder ==
  ASSUME NEW st, NEW r, NEW ls, NEW src, NEW hd, NEW s, NEW q,
         Waiting(st, r, ls, src, hd, s, q),
         NEW b, Settleable(st, src, hd, s, q, b), NEW n \in Ids, n # b, IsOpen(st, n)
  PROVE  Waiting([st EXCEPT ![b] = "chained"], Redirected(r, b, n),
                 [ls EXCEPT ![n] = ls[b] \o @, ![b] = <<>>], src, hd, s, q)
<1> DEFINE st2 == [st EXCEPT ![b] = "chained"]
           r2 == Redirected(r, b, n)
           ls2 == [ls EXCEPT ![n] = ls[b] \o @, ![b] = <<>>]
           m == Len(ls[b])
<1>0. Shapes(st, r, ls, src, hd, s, q) /\ b \in Ids
  BY DEF Waiting, Settleable
<1>1. ls[b] \in Seq(Ids) /\ ls[n] \in Seq(Ids)
  BY <1>0 DEF Shapes
<1>2. /\ ls[b] \o ls[n] \in Seq(Ids) /\ m \in Nat /\ Len(ls[n]) \in Nat
      /\ \A i \in 1..Len(ls[b] \o ls[n]) :
           \/ i \in 1..m /\ (ls[b] \o ls[n])[i] = ls[b][i]
           \/ i - m \in 1..Len(ls[n]) /\ i > m /\ (ls[b] \o ls[n])[i] = ls[n][i - m]
      /\ \A e : Among(ls[b], e) \/ Among(ls[n], e) => Among(ls[b] \o ls[n], e)
  <2> DEFINE x == ls[b]
             y == ls[n]
  <2>0. x \in Seq(Ids) /\ y \in Seq(Ids) /\ m = Len(x)
    BY <1>1
  <2> HIDE DEF x, y, m
  <2> DEFINE z == x \o y
  <2>1. Joins(Ids, x, y, z)
    BY <2>0, JoinsIs
  <2> HIDE DEF z
  <2>2. /\ z \in Seq(Ids) /\ m \in Nat /\ Len(y) \in Nat
        /\ \A i \in 1..Len(z) :
             \/ i \in 1..m /\ z[i] = x[i]
             \/ i - m \in 1..Len(y) /\ i > m /\ z[i] = y[i - m]
        /\ \A e : Among(x, e) \/ Among(y, e) => Among(z, e)
    BY <2>0, <2>1, Zenon DEF Joins
  <2> QED
    BY <2>2 DEF x, y, z
<1>3. /\ ls2 \in [Ids -> Seq(Ids)] /\ ls2[b] = <<>> /\ ls2[n] = ls[b] \o ls[n]
      /\ \A g \in Ids : g # b /\ g # n => ls2[g] = ls[g]
      /\ Len(ls2[b]) = 0
  <2>1. ls \in [Ids -> Seq(Ids)] /\ <<>> \in Seq(Ids)
    BY <1>0 DEF Shapes
  <2>2. ls2 = [g \in Ids |-> IF g = b THEN <<>> ELSE IF g = n THEN ls[b] \o ls[n] ELSE ls[g]]
    BY <2>1, <1>0
  <2> HIDE DEF ls2
  <2>3. ls2 \in [Ids -> Seq(Ids)]
    BY <2>1, <2>2, <1>2
  <2> QED
    BY <2>2, <2>3, <1>0
<1>4. /\ st2 \in [Ids -> Statuses] /\ st2[b] = "chained"
      /\ \A g \in Ids : g # b => st2[g] = st[g]
  BY <1>0 DEF Shapes, Statuses
<1>5. /\ r2 \in [Ids -> Ids] /\ r \in [Ids -> Ids]
      /\ \A g \in Ids : r[g] \in Ids /\ r2[g] = IF r[g] = b THEN n ELSE r[g]
  BY <1>0 DEF Redirected, Shapes
<1> HIDE DEF st2, r2, ls2, m
<1>6. \A g \in Ids : IsOpen(st2, g) <=> IsOpen(st, g) /\ g # b
  BY <1>0, <1>4 DEF IsOpen
<1>7. \A g \in Ids : st[r[g]] \in Completed => r2[g] = r[g] /\ st2[r2[g]] \in Completed
  BY <1>0, <1>4, <1>5 DEF Settleable, IsOpen, Completed
<1>8. \A k \in Ids : Unheard(src, hd, k) => k # b /\ src[k] \in Ids
  BY <1>0 DEF Settleable, Unheard, Shapes, Ids
<1>9. Shapes(st2, r2, ls2, src, hd, s, q)
  BY <1>0, <1>3, <1>4, <1>5 DEF Shapes
<1>10. Rooted(st2, r2)
  <2> SUFFICES ASSUME NEW g \in Ids
               PROVE  st2[r2[g]] # "chained" /\ (st2[g] # "chained" => r2[g] = g)
    BY DEF Rooted
  <2>1. st[r[g]] # "chained" /\ (st[g] # "chained" => r[g] = g)
    BY DEF Waiting, Rooted
  <2>2. st[n] # "chained"
    BY DEF IsOpen
  <2> QED
    BY <2>1, <2>2, <1>4, <1>5
<1>11. Unsettled(st2, src, hd)
  BY <1>4, <1>8 DEF Waiting, Unsettled
<1>12. \A g \in Ids : \A i \in 1..Len(ls[g]) :
         ls[g][i] \in Ids /\ Unheard(src, hd, ls[g][i]) /\ r[src[ls[g][i]]] = g /\ IsOpen(st, g)
  <2>1. \A g \in Ids : ls[g] \in Seq(Ids)
    BY <1>0 DEF Shapes
  <2>2. \A g \in Ids : \A i \in 1..Len(ls[g]) : ls[g][i] \in Ids
    BY <2>1
  <2> QED
    BY <2>2 DEF Waiting, ListsHold
<1>13. ListsHold(st2, r2, ls2, src, hd)
  <2> SUFFICES ASSUME NEW g \in Ids, NEW i \in 1..Len(ls2[g])
               PROVE  /\ IsOpen(st2, g) /\ Unheard(src, hd, ls2[g][i])
                      /\ r2[src[ls2[g][i]]] = g
    BY DEF ListsHold
  <2>0. g # b
    BY <1>3
  <2>1. CASE g = n /\ i \in 1..m /\ ls2[g][i] = ls[b][i]
    <3>1. ls[b][i] \in Ids /\ Unheard(src, hd, ls[b][i]) /\ r[src[ls[b][i]]] = b
      BY <2>1, <1>0, <1>12 DEF m
    <3> QED
      BY <3>1, <2>1, <1>5, <1>6, <1>8
  <2>2. CASE g = n /\ i - m \in 1..Len(ls[n]) /\ ls2[g][i] = ls[n][i - m]
    <3>1. ls[n][i - m] \in Ids /\ Unheard(src, hd, ls[n][i - m]) /\ r[src[ls[n][i - m]]] = n
      BY <2>2, <1>12
    <3> QED
      BY <3>1, <2>2, <1>5, <1>6, <1>8
  <2>3. CASE g # n
    <3>1. ls2[g] = ls[g]
      BY <2>0, <2>3, <1>3
    <3>2. ls[g][i] \in Ids /\ Unheard(src, hd, ls[g][i]) /\ r[src[ls[g][i]]] = g /\ IsOpen(st, g)
      BY <3>1, <1>12
    <3> QED
      BY <3>1, <3>2, <2>0, <1>5, <1>6, <1>8
  <2> QED
    BY <2>1, <2>2, <2>3, <1>2, <1>3
<1>14. StackHolds(st2, r2, src, hd, s)
  <2> SUFFICES ASSUME NEW i \in 1..Len(s)
               PROVE  /\ s[i].at = "call" => /\ Unheard(src, hd, s[i].of)
                                             /\ st2[r2[src[s[i].of]]] \in Completed
                      /\ s[i].at = "in" => /\ src[s[i].of] # 0 /\ hd[s[i].of] # None
                                           /\ st2[s[i].of] = "incomplete"
    BY DEF StackHolds
  <2>1. s[i].of \in Ids
    <3>1. s \in Seq(Frames)
      BY <1>0 DEF Shapes
    <3>2. s[i] \in Frames
      BY <3>1
    <3> QED
      BY <3>2 DEF Frames
  <2>2. ASSUME s[i].at = "call"
        PROVE  Unheard(src, hd, s[i].of) /\ st2[r2[src[s[i].of]]] \in Completed
    <3>1. Unheard(src, hd, s[i].of) /\ st[r[src[s[i].of]]] \in Completed
      BY <2>2 DEF Waiting, StackHolds
    <3> QED
      BY <3>1, <2>1, <1>7, <1>8
  <2>3. ASSUME s[i].at = "in"
        PROVE  src[s[i].of] # 0 /\ hd[s[i].of] # None /\ st2[s[i].of] = "incomplete"
    <3>1. src[s[i].of] # 0 /\ hd[s[i].of] # None /\ st[s[i].of] = "incomplete"
      BY <2>3 DEF Waiting, StackHolds
    <3>2. s[i].of # b
      BY <2>3 DEF Settleable
    <3> QED
      BY <3>1, <3>2, <2>1, <1>4
  <2> QED
    BY <2>2, <2>3
<1>15. TasksHold(st2, r2, src, hd, q)
  <2> SUFFICES ASSUME NEW j \in 1..Len(q)
               PROVE  /\ q[j].kind = "call" =>
                           /\ q[j].of \in Ids /\ Unheard(src, hd, q[j].of)
                           /\ st2[r2[src[q[j].of]]] \in Completed
                      /\ q[j].kind \in Promising =>
                           q[j].of \in Ids /\ q[j].arg \in Ids /\ st2[q[j].of] = "pending"
    BY DEF TasksHold
  <2>1. ASSUME q[j].kind = "call"
        PROVE  /\ q[j].of \in Ids /\ Unheard(src, hd, q[j].of)
               /\ st2[r2[src[q[j].of]]] \in Completed
    <3>1. /\ q[j].of \in Ids /\ Unheard(src, hd, q[j].of)
          /\ st[r[src[q[j].of]]] \in Completed
      BY <2>1 DEF Waiting, TasksHold
    <3> QED
      BY <3>1, <1>7, <1>8
  <2>2. ASSUME q[j].kind \in Promising
        PROVE  q[j].of \in Ids /\ q[j].arg \in Ids /\ st2[q[j].of] = "pending"
    <3>1. q[j].of \in Ids /\ q[j].arg \in Ids /\ st[q[j].of] = "pending" /\ q[j].of # b
      BY <2>2 DEF Waiting, TasksHold, Settleable
    <3> QED
      BY <3>1, <1>4
  <2> QED
    BY <2>1, <2>2
<1>16. ListOrder(ls2, src)
  <2> SUFFICES ASSUME NEW g \in Ids, NEW i \in 1..Len(ls2[g]), NEW j \in 1..Len(ls2[g]),
                      i < j, src[ls2[g][i]] = src[ls2[g][j]]
               PROVE  ls2[g][j] < ls2[g][i]
    BY DEF ListOrder
  <2>0. g # b
    BY <1>3
  <2>1. CASE g # n
    BY <2>0, <2>1, <1>3 DEF Waiting, ListOrder
  <2>2. CASE g = n
    <3>1. \/ i \in 1..m /\ ls2[g][i] = ls[b][i]
          \/ i - m \in 1..Len(ls[n]) /\ i > m /\ ls2[g][i] = ls[n][i - m]
      BY <2>2, <1>2, <1>3
    <3>2. \/ j \in 1..m /\ ls2[g][j] = ls[b][j]
          \/ j - m \in 1..Len(ls[n]) /\ j > m /\ ls2[g][j] = ls[n][j - m]
      BY <2>2, <1>2, <1>3
    <3>3. CASE i \in 1..m /\ ls2[g][i] = ls[b][i] /\ j \in 1..m /\ ls2[g][j] = ls[b][j]
      BY <3>3, <1>0 DEF Waiting, ListOrder, m
    <3>4. CASE i \in 1..m /\ ls2[g][i] = ls[b][i] /\ j - m \in 1..Len(ls[n]) /\ ls2[g][j] = ls[n][j - m]
      <4>1. r[src[ls[b][i]]] = b
        BY <3>4, <1>0, <1>12 DEF m
      <4>2. r[src[ls[n][j - m]]] = n
        BY <3>4, <1>12
      <4> QED
        BY <4>1, <4>2, <3>4
    <3>5. CASE i - m \in 1..Len(ls[n]) /\ ls2[g][i] = ls[n][i - m]
               /\ j - m \in 1..Len(ls[n]) /\ ls2[g][j] = ls[n][j - m]
      <4>1. i - m < j - m
        BY <1>2
      <4> QED
        BY <4>1, <3>5 DEF Waiting, ListOrder
    <3>6. ~(i > m /\ j \in 1..m)
      BY <1>2
    <3> QED
      BY <3>1, <3>2, <3>3, <3>4, <3>5, <3>6
  <2> QED
    BY <2>1, <2>2
<1>17. AllWait(st2, r2, ls2, src, hd, s, q)
  <2> SUFFICES ASSUME NEW k \in Ids, Unheard(src, hd, k)
               PROVE  IF IsOpen(st2, r2[src[k]]) THEN Among(ls2[r2[src[k]]], k)
                      ELSE Among(s, Call(k)) \/ Among(q, Task("call", k, 0))
    BY DEF AllWait
  <2>1. /\ IsOpen(st, r[src[k]]) => Among(ls[r[src[k]]], k)
        /\ ~IsOpen(st, r[src[k]]) => Among(s, Call(k)) \/ Among(q, Task("call", k, 0))
        /\ r[src[k]] \in Ids
        /\ r2[src[k]] = IF r[src[k]] = b THEN n ELSE r[src[k]]
    BY <1>5, <1>8 DEF Waiting, AllWait
  <2>2. CASE r[src[k]] = b
    <3>1. IsOpen(st2, n) /\ IsOpen(st, b)
      BY <1>6 DEF Settleable
    <3> QED
      BY <3>1, <2>1, <2>2, <1>2, <1>3
  <2>3. CASE r[src[k]] = n
    <3>1. IsOpen(st2, n)
      BY <1>6
    <3> QED
      BY <3>1, <2>1, <2>3, <1>2, <1>3
  <2>4. CASE r[src[k]] # b /\ r[src[k]] # n
    BY <2>1, <2>4, <1>3, <1>6
  <2> QED
    BY <2>2, <2>3, <2>4
<1>18. StackOrder(src, s) /\ TaskOrder(src, q) /\ StackFirst(src, s, q)
  BY DEF Waiting
<1> QED
  BY <1>9, <1>10, <1>11, <1>13, <1>14, <1>15, <1>16, <1>17, <1>18 DEF Waiting, st2, r2, ls2

(* A future that a task will settle is left open until then. *)
LEMMA LeftForLater ==
  ASSUME NEW st, NEW r, NEW ls, NEW src, NEW hd, NEW s, NEW q,
         Waiting(st, r, ls, src, hd, s, q),
         NEW b, Settleable(st, src, hd, s, q, b),
         NEW t \in Microtasks, t.kind \in Promising, t.of = b, t.arg \in Ids
  PROVE  Waiting([st EXCEPT ![b] = "pending"], r, ls, src, hd, s, Append(q, t))
<1> DEFINE st2 == [st EXCEPT ![b] = "pending"]
           q2 == Append(q, t)
<1>0. Shapes(st, r, ls, src, hd, s, q) /\ b \in Ids
  BY DEF Waiting, Settleable
<1>1. q \in Seq(Microtasks)
  BY <1>0 DEF Shapes
<1>2. /\ q2 \in Seq(Microtasks) /\ Len(q) \in Nat /\ Len(q2) = Len(q) + 1
      /\ q2[Len(q) + 1] = t /\ \A i \in 1..Len(q) : i \in 1..Len(q2) /\ q2[i] = q[i]
  BY <1>1
<1>3. /\ st2 \in [Ids -> Statuses] /\ st2[b] = "pending"
      /\ \A g \in Ids : g # b => st2[g] = st[g]
      /\ st[b] \in {"incomplete", "pending"}
  BY <1>0 DEF Shapes, Statuses, Settleable, IsOpen
<1> HIDE DEF st2, q2
<1>4. \A i \in 1..Len(q2) : \/ i \in 1..Len(q) /\ q2[i] = q[i]
                            \/ i = Len(q) + 1 /\ q2[i] = t
  BY <1>2
<1>5. \A g \in Ids : /\ IsOpen(st2, g) <=> IsOpen(st, g)
                     /\ st2[g] = "chained" <=> st[g] = "chained"
                     /\ st2[g] \in Completed <=> st[g] \in Completed
  BY <1>3 DEF IsOpen, Completed
<1>6. \A g \in Ids : r[g] \in Ids
  BY <1>0 DEF Shapes
<1>7. \A k \in Ids : Unheard(src, hd, k) => k # b /\ src[k] \in Ids
  <2> SUFFICES ASSUME NEW k \in Ids, Unheard(src, hd, k)
               PROVE  k # b /\ src[k] \in Ids
    OBVIOUS
  <2>1. k # b
    BY DEF Settleable, Unheard
  <2>2. src[k] # 0
    BY DEF Unheard
  <2>3. src[k] \in Ids
    BY <1>0, <2>2, SourceIs
  <2> QED
    BY <2>1, <2>3
<1>8. t.kind # "call"
  BY DEF Promising, Completed
<1>9. Shapes(st2, r, ls, src, hd, s, q2)
  BY <1>0, <1>2, <1>3 DEF Shapes
<1>10. Rooted(st2, r)
  BY <1>5, <1>6 DEF Waiting, Rooted
<1>11. Unsettled(st2, src, hd)
  BY <1>3, <1>7 DEF Waiting, Unsettled
<1>12. ListsHold(st2, r, ls, src, hd)
  BY <1>5 DEF Waiting, ListsHold
<1>13. StackHolds(st2, r, src, hd, s)
  <2> SUFFICES ASSUME NEW i \in 1..Len(s)
               PROVE  /\ s[i].at = "call" => /\ Unheard(src, hd, s[i].of)
                                             /\ st2[r[src[s[i].of]]] \in Completed
                      /\ s[i].at = "in" => /\ src[s[i].of] # 0 /\ hd[s[i].of] # None
                                           /\ st2[s[i].of] = "incomplete"
    BY DEF StackHolds
  <2>1. s[i].of \in Ids
    <3>1. s \in Seq(Frames)
      BY <1>0 DEF Shapes
    <3>2. s[i] \in Frames
      BY <3>1
    <3> QED
      BY <3>2 DEF Frames
  <2>2. ASSUME s[i].at = "call"
        PROVE  Unheard(src, hd, s[i].of) /\ st2[r[src[s[i].of]]] \in Completed
    <3>1. Unheard(src, hd, s[i].of) /\ st[r[src[s[i].of]]] \in Completed
      BY <2>2 DEF Waiting, StackHolds
    <3> QED
      BY <3>1, <2>1, <1>5, <1>6, <1>7
  <2>3. ASSUME s[i].at = "in"
        PROVE  src[s[i].of] # 0 /\ hd[s[i].of] # None /\ st2[s[i].of] = "incomplete"
    <3>1. src[s[i].of] # 0 /\ hd[s[i].of] # None /\ st[s[i].of] = "incomplete"
      BY <2>3 DEF Waiting, StackHolds
    <3>2. s[i].of # b
      BY <2>3 DEF Settleable
    <3> QED
      BY <3>1, <3>2, <2>1, <1>3
  <2> QED
    BY <2>2, <2>3
<1>14. TasksHold(st2, r, src, hd, q2)
  <2> SUFFICES ASSUME NEW j \in 1..Len(q2)
               PROVE  /\ q2[j].kind = "call" =>
                           /\ q2[j].of \in Ids /\ Unheard(src, hd, q2[j].of)
                           /\ st2[r[src[q2[j].of]]] \in Completed
                      /\ q2[j].kind \in Promising =>
                           q2[j].of \in Ids /\ q2[j].arg \in Ids /\ st2[q2[j].of] = "pending"
    BY DEF TasksHold
  <2>1. CASE q2[j] = t
    BY <2>1, <1>0, <1>3, <1>8
  <2>2. CASE j \in 1..Len(q) /\ q2[j] = q[j]
    <3>1. ASSUME q[j].kind = "call"
          PROVE  /\ q[j].of \in Ids /\ Unheard(src, hd, q[j].of)
                 /\ st2[r[src[q[j].of]]] \in Completed
      <4>1. /\ q[j].of \in Ids /\ Unheard(src, hd, q[j].of)
            /\ st[r[src[q[j].of]]] \in Completed
        BY <2>2, <3>1 DEF Waiting, TasksHold
      <4> QED
        BY <4>1, <1>5, <1>6, <1>7
    <3>2. ASSUME q[j].kind \in Promising
          PROVE  q[j].of \in Ids /\ q[j].arg \in Ids /\ st2[q[j].of] = "pending"
      <4>1. q[j].of \in Ids /\ q[j].arg \in Ids /\ st[q[j].of] = "pending" /\ q[j].of # b
        BY <2>2, <3>2 DEF Waiting, TasksHold, Settleable
      <4> QED
        BY <4>1, <1>3
    <3> QED
      BY <3>1, <3>2, <2>2
  <2> QED
    BY <2>1, <2>2, <1>4
<1>15. TaskOrder(src, q2)
  <2> SUFFICES ASSUME NEW i \in 1..Len(q2), NEW j \in 1..Len(q2), i < j
               PROVE  /\ q2[i].kind = "call" /\ q2[j].kind = "call"
                         /\ src[q2[i].of] = src[q2[j].of] => q2[i].of < q2[j].of
                      /\ q2[i].kind \in Promising /\ q2[j].kind \in Promising
                         => q2[i].of # q2[j].of
    BY DEF TaskOrder
  <2>1. i \in 1..Len(q) /\ q2[i] = q[i]
    BY <1>2, <1>4
  <2>2. CASE j \in 1..Len(q) /\ q2[j] = q[j]
    BY <2>1, <2>2 DEF Waiting, TaskOrder
  <2>3. CASE q2[j] = t
    <3>1. q[i].kind \in Promising => q[i].of # b
      BY <2>1 DEF Settleable
    <3> QED
      BY <3>1, <2>1, <2>3, <1>8
  <2> QED
    BY <2>2, <2>3, <1>4
<1>16. StackFirst(src, s, q2)
  <2> SUFFICES ASSUME NEW i \in 1..Len(s), NEW j \in 1..Len(q2), s[i].at = "call",
                      q2[j].kind = "call", src[s[i].of] = src[q2[j].of]
               PROVE  s[i].of < q2[j].of
    BY DEF StackFirst
  <2>1. j \in 1..Len(q) /\ q2[j] = q[j]
    BY <1>4, <1>8
  <2> QED
    BY <2>1 DEF Waiting, StackFirst
<1>17. AllWait(st2, r, ls, src, hd, s, q2)
  <2>1. \A e : Among(q, e) => Among(q2, e)
    BY <1>2 DEF Among
  <2> QED
    BY <2>1, <1>5, <1>6, <1>7 DEF Waiting, AllWait
<1>18. ListOrder(ls, src) /\ StackOrder(src, s)
  BY DEF Waiting
<1> QED
  BY <1>9, <1>10, <1>11, <1>12, <1>13, <1>14, <1>15, <1>16, <1>17, <1>18 DEF Waiting, st2, q2

(* What stands in a sequence with one more in front. *)
LEMMA ConsIs ==
  ASSUME NEW T, NEW x \in T, NEW b \in Seq(T)
  PROVE  /\ <<x>> \o b \in Seq(T) /\ Len(b) \in Nat /\ Len(<<x>> \o b) = Len(b) + 1
         /\ \A i \in 1..Len(<<x>> \o b) :
              \/ i = 1 /\ (<<x>> \o b)[i] = x
              \/ i - 1 \in 1..Len(b) /\ i > 1 /\ (<<x>> \o b)[i] = b[i - 1]
         /\ \A e : e = x \/ Among(b, e) => Among(<<x>> \o b, e)
<1> DEFINE a == <<x>>
<1>1. a \in Seq(T) /\ Len(a) = 1 /\ a[1] = x
  OBVIOUS
<1> HIDE DEF a
<1>2. /\ a \o b \in Seq(T) /\ Len(b) \in Nat /\ Len(a \o b) = Len(a) + Len(b)
      /\ \A i \in 1..Len(a \o b) :
           \/ i \in 1..Len(a) /\ (a \o b)[i] = a[i]
           \/ i - Len(a) \in 1..Len(b) /\ i > Len(a) /\ (a \o b)[i] = b[i - Len(a)]
      /\ \A e : Among(a, e) \/ Among(b, e) => Among(a \o b, e)
  <2> DEFINE c == a \o b
  <2>1. Joins(T, a, b, c)
    BY <1>1, JoinsIs
  <2> HIDE DEF c
  <2>2. /\ c \in Seq(T) /\ Len(b) \in Nat /\ Len(c) = Len(a) + Len(b)
        /\ \A i \in 1..Len(c) :
             \/ i \in 1..Len(a) /\ c[i] = a[i]
             \/ i - Len(a) \in 1..Len(b) /\ i > Len(a) /\ c[i] = b[i - Len(a)]
        /\ \A e : Among(a, e) \/ Among(b, e) => Among(c, e)
    BY <2>1, Zenon DEF Joins
  <2> QED
    BY <2>2 DEF c
<1>3. Among(a, x)
  BY <1>1 DEF Among
<1>4. Len(a \o b) = Len(b) + 1
  BY <1>1, <1>2
<1>5. ASSUME NEW i \in 1..Len(a \o b)
      PROVE  \/ i = 1 /\ (a \o b)[i] = x
             \/ i - 1 \in 1..Len(b) /\ i > 1 /\ (a \o b)[i] = b[i - 1]
  BY <1>1, <1>2
<1> QED
  BY <1>2, <1>3, <1>4, <1>5 DEF a

(* What is added to a list or to the tasks when l listens to f.            *)
NowListed(st, r, ls, l, f) ==
  IF st[r[f]] \in Completed THEN ls ELSE [ls EXCEPT ![r[f]] = <<l>> \o @]

NowCalled(st, r, l, f) ==
  IF st[r[f]] \in Completed THEN <<Task("call", l, 0)>> ELSE <<>>

(* The latest listener waits behind all others.                            *)
LEMMA ListenedInOrder ==
  ASSUME NEW st, NEW r, NEW ls, NEW src, NEW hd, NEW s, NEW q,
         Waiting(st, r, ls, src, hd, s, q),
         NEW l \in Ids, src[l] = 0, hd[l] = None, st[l] = "incomplete",
         \A k \in Ids : src[k] # 0 => k < l,
         NEW f \in Ids
  PROVE  Waiting(st, r, NowListed(st, r, ls, l, f), [src EXCEPT ![l] = f], hd, s,
                 q \o NowCalled(st, r, l, f))
<1> DEFINE n == r[f]
           src2 == [src EXCEPT ![l] = f]
           ls2 == NowListed(st, r, ls, l, f)
           q2 == q \o NowCalled(st, r, l, f)
<1>0. Shapes(st, r, ls, src, hd, s, q) /\ n \in Ids
  BY DEF Waiting, Shapes
<1>1. /\ src2 \in [Ids -> 0..MaxFutures] /\ src2[l] = f /\ f # 0 /\ l # 0
      /\ \A k \in Ids : k # l => src2[k] = src[k]
  BY <1>0 DEF Shapes, Ids
<1> HIDE DEF src2
<1>2. /\ \A k \in Ids : Unheard(src2, hd, k) <=> Unheard(src, hd, k) \/ k = l
      /\ ~Unheard(src, hd, l)
      /\ \A k \in Ids : src[k] # 0 => k # l /\ src2[k] = src[k] /\ src[k] \in Ids /\ k < l
  <2>1. Unheard(src2, hd, l) /\ ~Unheard(src, hd, l)
    BY <1>1 DEF Unheard
  <2>2. \A k \in Ids : k # l => (Unheard(src2, hd, k) <=> Unheard(src, hd, k))
    BY <1>1 DEF Unheard
  <2>3. \A k \in Ids : src[k] # 0 => k # l /\ src2[k] = src[k] /\ src[k] \in Ids /\ k < l
    <3> SUFFICES ASSUME NEW k \in Ids, src[k] # 0
                 PROVE  k # l /\ src2[k] = src[k] /\ src[k] \in Ids /\ k < l
      OBVIOUS
    <3>1. k < l /\ k # l
      BY DEF Ids
    <3>2. src2[k] = src[k]
      BY <1>1, <3>1
    <3>3. src[k] \in Ids
      BY <1>0, SourceIs
    <3> QED
      BY <3>1, <3>2, <3>3
  <2> QED
    BY <2>1, <2>2, <2>3
<1>3. st[n] \in Completed \/ IsOpen(st, n)
  BY <1>0 DEF Waiting, Rooted, Shapes, Statuses, IsOpen, Completed
<1>4. \A k \in Ids : r[k] \in Ids
  BY <1>0 DEF Shapes
<1>5. \A g \in Ids : \A i \in 1..Len(ls[g]) :
         ls[g][i] \in Ids /\ Unheard(src, hd, ls[g][i]) /\ r[src[ls[g][i]]] = g /\ IsOpen(st, g)
  <2>1. \A g \in Ids : ls[g] \in Seq(Ids)
    BY <1>0 DEF Shapes
  <2>2. \A g \in Ids : \A i \in 1..Len(ls[g]) : ls[g][i] \in Ids
    BY <2>1
  <2> QED
    BY <2>2 DEF Waiting, ListsHold
<1>6. \A i \in 1..Len(s) : /\ s[i].of \in Ids
                           /\ s[i].at \in {"call", "in"} /\ src[s[i].of] # 0
  <2>1. s \in Seq(Frames)
    BY <1>0 DEF Shapes
  <2>2. \A i \in 1..Len(s) : s[i] \in Frames
    BY <2>1
  <2> QED
    BY <2>2 DEF Frames, Waiting, StackHolds, Unheard
<1>7. \A j \in 1..Len(q) : q[j].kind = "call" => q[j].of \in Ids /\ src[q[j].of] # 0
  BY DEF Waiting, TasksHold, Unheard
<1>8. Unsettled(st, src2, hd)
  BY <1>2 DEF Waiting, Unsettled
<1>9. StackHolds(st, r, src2, hd, s)
  BY <1>2, <1>6 DEF Waiting, StackHolds
<1>10. StackOrder(src2, s)
  BY <1>2, <1>6 DEF Waiting, StackOrder
<1>11. Rooted(st, r)
  BY DEF Waiting
<1>l. ListsHold(st, r, ls, src2, hd)
  BY <1>2, <1>5 DEF ListsHold, Unheard
<1>o. ListOrder(ls, src2)
  <2> SUFFICES ASSUME NEW g \in Ids, NEW i \in 1..Len(ls[g]), NEW j \in 1..Len(ls[g]),
                      i < j, src2[ls[g][i]] = src2[ls[g][j]]
               PROVE  ls[g][j] < ls[g][i]
    BY DEF ListOrder
  <2>1. src2[ls[g][i]] = src[ls[g][i]] /\ src2[ls[g][j]] = src[ls[g][j]]
    BY <1>2, <1>5 DEF Unheard
  <2> QED
    BY <2>1 DEF Waiting, ListOrder
<1>t. TasksHold(st, r, src2, hd, q)
  BY <1>2, <1>7 DEF Waiting, TasksHold
<1>12. CASE st[n] \in Completed
  <2> DEFINE t == Task("call", l, 0)
  <2>1. ls2 = ls /\ q2 = q \o <<t>>
    BY <1>12 DEF NowListed, NowCalled
  <2>2. q \in Seq(Microtasks) /\ t \in Microtasks /\ t.kind = "call" /\ t.of = l
    BY <1>0 DEF Shapes, Task, Microtasks, Kinds, Ids
  <2> HIDE DEF t
  <2>3. /\ q2 \in Seq(Microtasks) /\ Len(q) \in Nat /\ Len(q2) = Len(q) + 1
        /\ q2[Len(q) + 1] = t /\ \A i \in 1..Len(q) : i \in 1..Len(q2) /\ q2[i] = q[i]
    <3>1. q2 = q \o <<t>>
      BY <2>1
    <3> HIDE DEF q2
    <3> QED
      BY <3>1, <2>2
  <2> HIDE DEF q2, ls2
  <2>4. \A i \in 1..Len(q2) : \/ i \in 1..Len(q) /\ q2[i] = q[i]
                              \/ i = Len(q) + 1 /\ q2[i] = t
    BY <2>3
  <2>5. t.kind \notin Promising
    BY <2>2 DEF Promising, Completed
  <2>6. Shapes(st, r, ls2, src2, hd, s, q2)
    BY <1>0, <1>1, <2>1, <2>3 DEF Shapes
  <2>7. TasksHold(st, r, src2, hd, q2)
    <3> SUFFICES ASSUME NEW j \in 1..Len(q2)
                 PROVE  /\ q2[j].kind = "call" =>
                             /\ q2[j].of \in Ids /\ Unheard(src2, hd, q2[j].of)
                             /\ st[r[src2[q2[j].of]]] \in Completed
                        /\ q2[j].kind \in Promising =>
                             q2[j].of \in Ids /\ q2[j].arg \in Ids /\ st[q2[j].of] = "pending"
      BY DEF TasksHold
    <3>1. CASE q2[j] = t
      BY <3>1, <2>2, <2>5, <1>1, <1>2, <1>12
    <3>2. CASE j \in 1..Len(q) /\ q2[j] = q[j]
      BY <3>2, <1>t DEF TasksHold
    <3> QED
      BY <3>1, <3>2, <2>4
  <2>8. TaskOrder(src2, q2)
    <3> SUFFICES ASSUME NEW i \in 1..Len(q2), NEW j \in 1..Len(q2), i < j
                 PROVE  /\ q2[i].kind = "call" /\ q2[j].kind = "call"
                           /\ src2[q2[i].of] = src2[q2[j].of] => q2[i].of < q2[j].of
                        /\ q2[i].kind \in Promising /\ q2[j].kind \in Promising
                           => q2[i].of # q2[j].of
      BY DEF TaskOrder
    <3>1. i \in 1..Len(q) /\ q2[i] = q[i]
      BY <2>3, <2>4
    <3>2. CASE j \in 1..Len(q) /\ q2[j] = q[j]
      BY <3>1, <3>2, <1>2, <1>7 DEF Waiting, TaskOrder
    <3>3. CASE q2[j] = t
      BY <3>1, <3>3, <2>2, <2>5, <1>2, <1>7
    <3> QED
      BY <3>2, <3>3, <2>4
  <2>9. StackFirst(src2, s, q2)
    <3> SUFFICES ASSUME NEW i \in 1..Len(s), NEW j \in 1..Len(q2), s[i].at = "call",
                        q2[j].kind = "call", src2[s[i].of] = src2[q2[j].of]
                 PROVE  s[i].of < q2[j].of
      BY DEF StackFirst
    <3>1. CASE j \in 1..Len(q) /\ q2[j] = q[j]
      BY <3>1, <1>2, <1>6, <1>7 DEF Waiting, StackFirst
    <3>2. CASE q2[j] = t
      BY <3>2, <2>2, <1>2, <1>6
    <3> QED
      BY <3>1, <3>2, <2>4
  <2>10. AllWait(st, r, ls2, src2, hd, s, q2)
    <3> SUFFICES ASSUME NEW k \in Ids, Unheard(src2, hd, k)
                 PROVE  IF IsOpen(st, r[src2[k]]) THEN Among(ls2[r[src2[k]]], k)
                        ELSE Among(s, Call(k)) \/ Among(q2, Task("call", k, 0))
      BY DEF AllWait
    <3>1. CASE k = l
      <4>1. ~IsOpen(st, r[src2[k]])
        BY <3>1, <1>1, <1>12 DEF IsOpen, Completed
      <4>2. Len(q) + 1 \in 1..Len(q2) /\ q2[Len(q) + 1] = Task("call", k, 0)
        BY <3>1, <2>3 DEF t
      <4> QED
        BY <4>1, <4>2 DEF Among
    <3>2. CASE k # l
      <4>1. Unheard(src, hd, k) /\ src2[k] = src[k]
        BY <3>2, <1>1, <1>2
      <4>2. \A e : Among(q, e) => Among(q2, e)
        BY <2>3 DEF Among
      <4> QED
        BY <4>1, <4>2, <2>1 DEF Waiting, AllWait
    <3> QED
      BY <3>1, <3>2
  <2>11. ListsHold(st, r, ls2, src2, hd) /\ ListOrder(ls2, src2)
    BY <2>1, <1>l, <1>o
  <2> QED
    BY <2>6, <2>7, <2>8, <2>9, <2>10, <2>11, <1>8, <1>9, <1>10, <1>11
       DEF Waiting, ls2, src2, q2
<1>13. CASE IsOpen(st, n)
  <2>0. st[n] \notin Completed
    BY <1>13 DEF IsOpen, Completed
  <2>1. q \in Seq(Microtasks) /\ ls[n] \in Seq(Ids) /\ <<l>> \in Seq(Ids)
    BY <1>0 DEF Shapes
  <2>2. q2 = q /\ ls2 = [ls EXCEPT ![n] = <<l>> \o ls[n]]
    BY <2>0, <2>1 DEF NowListed, NowCalled
  <2>3. /\ <<l>> \o ls[n] \in Seq(Ids) /\ Len(ls[n]) \in Nat
        /\ Len(<<l>> \o ls[n]) = Len(ls[n]) + 1
        /\ \A i \in 1..Len(<<l>> \o ls[n]) :
             \/ i = 1 /\ (<<l>> \o ls[n])[i] = l
             \/ i - 1 \in 1..Len(ls[n]) /\ i > 1 /\ (<<l>> \o ls[n])[i] = ls[n][i - 1]
        /\ \A e : e = l \/ Among(ls[n], e) => Among(<<l>> \o ls[n], e)
    BY <2>1, ConsIs
  <2>5. /\ ls2 \in [Ids -> Seq(Ids)] /\ ls2[n] = <<l>> \o ls[n]
        /\ \A g \in Ids : g # n => ls2[g] = ls[g]
    <3>1. ls \in [Ids -> Seq(Ids)]
      BY <1>0 DEF Shapes
    <3> HIDE DEF ls2
    <3> QED
      BY <3>1, <2>2, <2>3, <1>0
  <2> HIDE DEF q2, ls2
  <2>6. Shapes(st, r, ls2, src2, hd, s, q2)
    BY <1>0, <1>1, <2>2, <2>5 DEF Shapes
  <2>7. ListsHold(st, r, ls2, src2, hd)
    <3> SUFFICES ASSUME NEW g \in Ids, NEW i \in 1..Len(ls2[g])
                 PROVE  /\ IsOpen(st, g) /\ Unheard(src2, hd, ls2[g][i])
                        /\ r[src2[ls2[g][i]]] = g
      BY DEF ListsHold
    <3>1. CASE g # n
      BY <3>1, <2>5, <1>l DEF ListsHold
    <3>2. CASE g = n /\ ls2[g][i] = l
      BY <3>2, <1>1, <1>2, <1>13
    <3>3. CASE g = n /\ i - 1 \in 1..Len(ls[n]) /\ ls2[g][i] = ls[n][i - 1]
      BY <3>3, <1>l DEF ListsHold
    <3>4. g = n => \/ ls2[g][i] = l
                   \/ i - 1 \in 1..Len(ls[n]) /\ ls2[g][i] = ls[n][i - 1]
      BY <2>3, <2>5
    <3> QED
      BY <3>1, <3>2, <3>3, <3>4
  <2>8. ListOrder(ls2, src2)
    <3> SUFFICES ASSUME NEW g \in Ids, NEW i \in 1..Len(ls2[g]), NEW j \in 1..Len(ls2[g]),
                        i < j, src2[ls2[g][i]] = src2[ls2[g][j]]
                 PROVE  ls2[g][j] < ls2[g][i]
      BY DEF ListOrder
    <3>1. CASE g # n
      BY <3>1, <2>5, <1>o DEF ListOrder
    <3>2. CASE g = n
      <4>0. ls2[g] = <<l>> \o ls[n] /\ j # 1
        BY <3>2, <2>5
      <4>1. j - 1 \in 1..Len(ls[n]) /\ ls2[g][j] = ls[n][j - 1]
        BY <4>0, <2>3
      <4>2. CASE ls2[g][i] = l
        <5>1. ls[n][j - 1] \in Ids /\ src[ls[n][j - 1]] # 0
          BY <4>1, <1>0, <1>5 DEF Unheard
        <5> QED
          BY <5>1, <4>1, <4>2, <1>2
      <4>3. CASE i - 1 \in 1..Len(ls[n]) /\ ls2[g][i] = ls[n][i - 1]
        <5>1. i - 1 < j - 1
          BY <2>3
        <5> QED
          BY <5>1, <4>1, <4>3, <1>0, <1>o DEF ListOrder
      <4> QED
        BY <3>2, <4>2, <4>3, <2>3, <2>5
    <3> QED
      BY <3>1, <3>2
  <2>9. TaskOrder(src2, q2) /\ TasksHold(st, r, src2, hd, q2)
    <3>1. TaskOrder(src2, q)
      BY <1>2, <1>7 DEF Waiting, TaskOrder
    <3> QED
      BY <3>1, <1>t, <2>2
  <2>10. StackFirst(src2, s, q2)
    <3>1. StackFirst(src2, s, q)
      BY <1>2, <1>6, <1>7 DEF Waiting, StackFirst
    <3> QED
      BY <3>1, <2>2
  <2>11. AllWait(st, r, ls2, src2, hd, s, q2)
    <3> SUFFICES ASSUME NEW k \in Ids, Unheard(src2, hd, k)
                 PROVE  IF IsOpen(st, r[src2[k]]) THEN Among(ls2[r[src2[k]]], k)
                        ELSE Among(s, Call(k)) \/ Among(q2, Task("call", k, 0))
      BY DEF AllWait
    <3>1. CASE k = l
      BY <3>1, <1>1, <1>13, <2>3, <2>5
    <3>2. CASE k # l
      <4>1. Unheard(src, hd, k) /\ src2[k] = src[k] /\ r[src[k]] \in Ids
        BY <3>2, <1>1, <1>2, <1>4 DEF Unheard
      <4>2. \A g \in Ids : Among(ls[g], k) => Among(ls2[g], k)
        BY <2>3, <2>5
      <4> QED
        BY <4>1, <4>2, <2>2 DEF Waiting, AllWait
    <3> QED
      BY <3>1, <3>2
  <2> QED
    BY <2>6, <2>7, <2>8, <2>9, <2>10, <2>11, <1>8, <1>9, <1>10, <1>11
       DEF Waiting, ls2, src2, q2
<1> QED
  BY <1>3, <1>12, <1>13

(* A task that runs is a call of a listener, or settles what it promised,  *)
(* or reports an error; the others keep their order.                       *)
LEMMA TaskTaken ==
  ASSUME NEW st, NEW r, NEW ls, NEW src, NEW hd, NEW q,
         Waiting(st, r, ls, src, hd, <<>>, q), q # <<>>
  PROVE  /\ q[1].kind = "call" => Waiting(st, r, ls, src, hd, <<Call(q[1].of)>>, Tail(q))
         /\ q[1].kind # "call" => Waiting(st, r, ls, src, hd, <<>>, Tail(q))
         /\ q[1].kind \in Promising =>
              Settleable(st, src, hd, <<>>, Tail(q), q[1].of) /\ q[1].arg \in Ids
<1> DEFINE t == Tail(q)
<1>0. Shapes(st, r, ls, src, hd, <<>>, q)
  BY DEF Waiting
<1>1. /\ t \in Seq(Microtasks) /\ 1 \in 1..Len(q) /\ Len(q) \in Nat /\ Len(t) = Len(q) - 1
      /\ \A i \in 1..Len(t) : i + 1 \in 1..Len(q) /\ t[i] = q[i + 1]
      /\ \A e : Among(q, e) => e = q[1] \/ Among(t, e)
  BY <1>0, TailIs DEF Shapes
<1> HIDE DEF t
<1>2. TasksHold(st, r, src, hd, t)
  <2> SUFFICES ASSUME NEW j \in 1..Len(t)
               PROVE  /\ t[j].kind = "call" =>
                           /\ t[j].of \in Ids /\ Unheard(src, hd, t[j].of)
                           /\ st[r[src[t[j].of]]] \in Completed
                      /\ t[j].kind \in Promising =>
                           t[j].of \in Ids /\ t[j].arg \in Ids /\ st[t[j].of] = "pending"
    BY DEF TasksHold
  <2>1. j + 1 \in 1..Len(q) /\ t[j] = q[j + 1]
    BY <1>1
  <2> QED
    BY <2>1 DEF Waiting, TasksHold
<1>3. TaskOrder(src, t)
  <2> SUFFICES ASSUME NEW i \in 1..Len(t), NEW j \in 1..Len(t), i < j
               PROVE  /\ t[i].kind = "call" /\ t[j].kind = "call"
                         /\ src[t[i].of] = src[t[j].of] => t[i].of < t[j].of
                      /\ t[i].kind \in Promising /\ t[j].kind \in Promising
                         => t[i].of # t[j].of
    BY DEF TaskOrder
  <2>1. /\ i + 1 \in 1..Len(q) /\ j + 1 \in 1..Len(q) /\ i + 1 < j + 1
        /\ t[i] = q[i + 1] /\ t[j] = q[j + 1]
    BY <1>1
  <2> QED
    BY <2>1 DEF Waiting, TaskOrder
<1>4. \A e : ~Among(<<>>, e)
  BY DEF Among
<1>5. ASSUME q[1].kind = "call"
      PROVE  Waiting(st, r, ls, src, hd, <<Call(q[1].of)>>, t)
  <2> DEFINE c == Call(q[1].of)
             s == <<c>>
  <2>1. /\ q[1].of \in Ids /\ Unheard(src, hd, q[1].of)
        /\ st[r[src[q[1].of]]] \in Completed
    BY <1>1, <1>5 DEF Waiting, TasksHold
  <2>2. c \in Frames /\ c.at = "call" /\ c.of = q[1].of
    BY <2>1 DEF Call, Frames
  <2> HIDE DEF c
  <2>3. s \in Seq(Frames) /\ Len(s) = 1 /\ s[1] = c
    BY <2>2
  <2> HIDE DEF s
  <2>4. Shapes(st, r, ls, src, hd, s, t)
    BY <1>0, <1>1, <2>3 DEF Shapes
  <2>5. StackHolds(st, r, src, hd, s)
    BY <2>1, <2>2, <2>3 DEF StackHolds
  <2>6. StackOrder(src, s)
    BY <2>3 DEF StackOrder
  <2>7. StackFirst(src, s, t)
    <3> SUFFICES ASSUME NEW j \in 1..Len(t), t[j].kind = "call", src[q[1].of] = src[t[j].of]
                 PROVE  q[1].of < t[j].of
      BY <2>2, <2>3 DEF StackFirst
    <3>1. j + 1 \in 1..Len(q) /\ t[j] = q[j + 1] /\ 1 < j + 1
      BY <1>1
    <3> QED
      BY <3>1, <1>1, <1>5 DEF Waiting, TaskOrder
  <2>8. AllWait(st, r, ls, src, hd, s, t)
    <3> SUFFICES ASSUME NEW k \in Ids, Unheard(src, hd, k)
                 PROVE  IF IsOpen(st, r[src[k]]) THEN Among(ls[r[src[k]]], k)
                        ELSE Among(s, Call(k)) \/ Among(t, Task("call", k, 0))
      BY DEF AllWait
    <3>1. CASE IsOpen(st, r[src[k]])
      BY <3>1 DEF Waiting, AllWait
    <3>2. CASE ~IsOpen(st, r[src[k]])
      <4>1. Among(q, Task("call", k, 0))
        BY <3>2, <1>4 DEF Waiting, AllWait
      <4>2. CASE Among(t, Task("call", k, 0))
        BY <4>2, <3>2
      <4>3. CASE Task("call", k, 0) = q[1]
        <5>1. q[1].of = k
          BY <4>3 DEF Task
        <5>2. Among(s, Call(k))
          BY <5>1, <2>3 DEF Among, c
        <5> QED
          BY <5>2, <3>2
      <4> QED
        BY <4>1, <4>2, <4>3, <1>1
    <3> QED
      BY <3>1, <3>2
  <2> QED
    BY <1>2, <1>3, <2>4, <2>5, <2>6, <2>7, <2>8 DEF Waiting, s, c
<1>6. ASSUME q[1].kind # "call"
      PROVE  Waiting(st, r, ls, src, hd, <<>>, t)
  <2>1. Shapes(st, r, ls, src, hd, <<>>, t)
    BY <1>0, <1>1 DEF Shapes
  <2>2. StackFirst(src, <<>>, t)
    BY DEF StackFirst
  <2>3. \A k : Task("call", k, 0) # q[1]
    BY <1>6 DEF Task
  <2>4. AllWait(st, r, ls, src, hd, <<>>, t)
    BY <1>1, <2>3 DEF Waiting, AllWait
  <2> QED
    BY <1>2, <1>3, <2>1, <2>2, <2>4 DEF Waiting
<1>7. ASSUME q[1].kind \in Promising
      PROVE  Settleable(st, src, hd, <<>>, t, q[1].of) /\ q[1].arg \in Ids
  <2>1. q[1].of \in Ids /\ q[1].arg \in Ids /\ st[q[1].of] = "pending"
    BY <1>1, <1>7 DEF Waiting, TasksHold
  <2>2. ~Unheard(src, hd, q[1].of)
    BY <2>1 DEF Waiting, Unsettled
  <2>3. \A j \in 1..Len(t) : t[j].kind \in Promising => t[j].of # q[1].of
    <3> SUFFICES ASSUME NEW j \in 1..Len(t), t[j].kind \in Promising
                 PROVE  t[j].of # q[1].of
      OBVIOUS
    <3>1. j + 1 \in 1..Len(q) /\ t[j] = q[j + 1] /\ 1 < j + 1
      BY <1>1
    <3> QED
      BY <3>1, <1>1, <1>7 DEF Waiting, TaskOrder
  <2> QED
    BY <2>1, <2>2, <2>3 DEF Settleable, IsOpen, Unheard
<1> QED
  BY <1>5, <1>6, <1>7 DEF t

(* A future that is nobody's result, and that nothing has been done with,  *)
(* may be settled.                                                         *)
LEMMA FreeIsSettleable ==
  ASSUME NEW st, NEW r, NEW ls, NEW src, NEW hd, NEW s, NEW q,
         Waiting(st, r, ls, src, hd, s, q),
         NEW f \in Ids, src[f] = 0, st[f] = "incomplete"
  PROVE  Settleable(st, src, hd, s, q, f)
<1>1. \A i \in 1..Len(s) : s[i].at = "in" => s[i].of # f
  BY DEF Waiting, StackHolds
<1>2. \A j \in 1..Len(q) : q[j].kind \in Promising => q[j].of # f
  BY DEF Waiting, TasksHold
<1> QED
  BY <1>1, <1>2 DEF Settleable, IsOpen

-----------------------------------------------------------------------------
(* What the parts of the actions do to the invariant and to the outcomes *)

OutcomeAt(st, ct, r, g) ==
  IF st[r[g]] \in Completed THEN [how |-> st[r[g]], by |-> ct[r[g]]] ELSE None

(* The operators of Futures in terms of the ends of the chains. *)
LEMMA OperatorsAre ==
  /\ Roots = RootsOf(status, content) /\ Roots' = RootsOf(status', content')
  /\ \A f \in Ids : Root(f) = Roots[f]
  /\ \A f \in Ids : Outcome(f) = OutcomeAt(status, content, Roots, f)
  /\ \A f \in Ids : Outcome(f)' = OutcomeAt(status', content', Roots', f)
<1>1. Roots = RootsOf(status, content)
  BY DEF Roots, RootsOf, Root
<1>2. Roots' = RootsOf(status', content')
  BY DEF Roots, RootsOf, Root
<1>3. \A f \in Ids : Root(f) = Roots[f]
  BY DEF Roots
<1>4. \A f \in Ids : Outcome(f) = OutcomeAt(status, content, Roots, f)
  BY <1>3 DEF Outcome, OutcomeAt
<1>5. \A f \in Ids : Root(f)' = Roots'[f]
  BY DEF Roots
<1>6. \A f \in Ids : Outcome(f)' = OutcomeAt(status', content', Roots', f)
  BY <1>5 DEF Outcome, OutcomeAt
<1> QED
  BY <1>1, <1>2, <1>3, <1>4, <1>6

(* Who waits for several, and all who are waited for, has been told. *)
Ripe(hd, f) ==
  f <= made /\ \A k \in Ids : gathers[k] = f => hd[k] # None

Sames == UNCHANGED <<made, form, gathers, source>>

(* Some of the futures are settled with one outcome, those that result     *)
(* from a call after it.                                                   *)
Settles == \E F \in SUBSET Ids, o \in Outcomes : P!Settling(F, o)

(* A step that changes no outcome settles the empty set of futures.        *)
LEMMA NoneSettled ==
  ASSUME \A f \in Ids : Outcome(f)' = Outcome(f), Ids # {}
  PROVE  Settles
<1>1. PICK x \in Ids : TRUE
  OBVIOUS
<1>2. [how |-> "value", by |-> x] \in Outcomes
  BY DEF Outcomes, Completed
<1>3. P!Settling({}, [how |-> "value", by |-> x])
  BY DEF P!Settling, P!Ids, Ids
<1> QED
  BY <1>2, <1>3 DEF Settles

(* To settle a future keeps the order, and settles all that follow it. *)
LEMMA SettledKeeps ==
  ASSUME NEW rest, NEW q, NEW u, InvWith(heard', rest, q, u),
         NEW f, Settleable(status, source, heard', rest, q, f), Ripe(heard', f),
         NEW o \in Outcomes, Settled(f, o, rest, q, u), Sames
  PROVE  FuturesInv' /\ Settles
<1>0. /\ f \in Ids /\ IsOpen(status, f) /\ o.how \in Completed /\ o.by \in Ids
      /\ o = [how |-> o.how, by |-> o.by]
      /\ Shapes(status, Roots, listeners, source, heard', rest, q)
  BY DEF Settleable, Outcomes, InvWith, Waiting
<1>1. /\ status' = [status EXCEPT ![f] = o.how] /\ content' = [content EXCEPT ![f] = o.by]
      /\ listeners' = [listeners EXCEPT ![f] = <<>>]
      /\ stack' = CallsOf(listeners[f]) \o rest
      /\ \/ Report(q, u)
         \/ tasks' = q /\ urgent' = u /\ loop' = loop
  BY DEF Settled
<1>2. /\ status \in [Ids -> Statuses] /\ content \in [Ids -> 0..MaxFutures]
      /\ Roots \in [Ids -> Ids]
  BY <1>0 DEF InvWith, Shaped, Shapes
<1>3. /\ status'[f] = o.how /\ content'[f] = o.by
      /\ \A g \in Ids : g # f => status'[g] = status[g] /\ content'[g] = content[g]
      /\ status[f] \notin Completed \cup {"chained"} /\ o.how # "chained"
  BY <1>0, <1>1, <1>2 DEF IsOpen, Completed
<1>4. Chains(status', content') /\ Roots' = Roots
  <2>1. \A g \in Ids : status'[g] = "chained" <=> status[g] = "chained"
    BY <1>3
  <2>2. \A g \in Ids : status[g] = "chained" => content'[g] = content[g]
    BY <1>3
  <2>3. Chains(status, content)
    BY DEF InvWith
  <2> QED
    BY <2>1, <2>2, <2>3, SameChains, OperatorsAre
<1>5. Waiting(status', Roots', listeners', source', heard', stack', q)
  BY <1>0, <1>1, <1>4, SettledInOrder DEF InvWith, Sames
<1>6. /\ Waiting(status', Roots', listeners', source', heard', stack', tasks')
      /\ urgent' \in 0..Len(tasks') /\ loop' \in {"idle", "scheduled", "running"}
  <2>1. u \in 0..Len(q) /\ loop \in {"idle", "scheduled", "running"}
    BY DEF InvWith, Shaped
  <2>2. CASE tasks' = q /\ urgent' = u /\ loop' = loop
    BY <2>1, <2>2, <1>5
  <2>3. CASE Report(q, u)
    <3>1. tasks' = SubSeq(q, 1, u) \o <<Task("report", 1, 0)>> \o SubSeq(q, u + 1, Len(q))
      BY <2>3 DEF Report
    <3>2. /\ Waiting(status', Roots', listeners', source', heard', stack', tasks')
          /\ Len(tasks') = Len(q) + 1 /\ Len(q) \in Nat
      <4> DEFINE q2 == SubSeq(q, 1, u) \o <<Task("report", 1, 0)>> \o SubSeq(q, u + 1, Len(q))
      <4>1. \A st, r, ls, src, hd, s : Waiting(st, r, ls, src, hd, s, q) =>
              /\ Waiting(st, r, ls, src, hd, s, q2)
              /\ Len(q2) = Len(q) + 1 /\ Len(q) \in Nat
        BY <2>1, Reported
      <4>2. tasks' = q2
        BY <3>1
      <4> HIDE DEF q2
      <4> QED
        BY <4>1, <4>2, <1>5
    <3>3. urgent' \in {1, u + 1} /\ loop' \in {loop, "scheduled"}
      BY <2>3 DEF Report
    <3> QED
      BY <3>2, <3>3, <2>1
  <2> QED
    BY <2>2, <2>3, <1>1
<1>7. Numbered(heard)'
  BY <1>2, <1>3 DEF InvWith, Numbered, Ripe, Sames, Ids
<1>8. Gathering(heard)'
  <2> SUFFICES ASSUME NEW k \in Ids, gathers[k] # 0
               PROVE  /\ source[k] # 0 /\ source[gathers[k]] = 0
                      /\ heard'[k] = None => status'[gathers[k]] = "incomplete"
    BY DEF Gathering, Sames
  <2>1. gathers[k] \in Ids
    BY DEF InvWith, Shaped, Ids
  <2>2. /\ source[k] # 0 /\ source[gathers[k]] = 0
        /\ heard'[k] = None => status[gathers[k]] = "incomplete"
    BY DEF InvWith, Gathering
  <2> QED
    BY <2>1, <2>2, <1>3 DEF Ripe
<1>9. Shaped(tasks, urgent)'
  <2>1. content' \in [Ids -> 0..MaxFutures]
    BY <1>0, <1>1, <1>2 DEF Ids
  <2>2. \A g \in Ids : status'[g] \in Completed => content'[g] \in Ids
    BY <1>0, <1>3 DEF InvWith, Shaped
  <2> QED
    BY <2>1, <2>2, <1>6 DEF InvWith, Shaped, Sames
<1>10. FuturesInv'
  BY <1>4, <1>6, <1>7, <1>8, <1>9 DEF FuturesInv, InvWith
<1>11. Settles
  <2> DEFINE F == {g \in Ids : Roots[g] = f}
  <2>1. ASSUME NEW g \in F
        PROVE  Outcome(g) = None /\ (source[g] # 0 => heard'[g] # None)
    <3>1. Outcome(g) = None
      BY <1>3, OperatorsAre DEF OutcomeAt
    <3>2. ASSUME source[g] # 0, heard'[g] = None
          PROVE  FALSE
      <4>1. status[g] = "incomplete"
        BY <3>2 DEF InvWith, Waiting, Unsettled, Unheard
      <4>2. Roots[g] = g
        BY <4>1 DEF InvWith, Waiting, Rooted
      <4> QED
        BY <4>2, <3>2 DEF Settleable
    <3> QED
      BY <3>1, <3>2
  <2>2. ASSUME NEW g \in Ids
        PROVE  Outcome(g)' = IF g \in F THEN o ELSE Outcome(g)
    <3>1. Outcome(g)' = OutcomeAt(status', content', Roots, g)
      BY <1>4, OperatorsAre
    <3>2. CASE g \in F
      BY <3>1, <3>2, <1>0, <1>3 DEF OutcomeAt
    <3>3. CASE g \notin F
      <4>1. Roots[g] \in Ids /\ Roots[g] # f
        BY <3>3, <1>2
      <4>2. status'[Roots[g]] = status[Roots[g]] /\ content'[Roots[g]] = content[Roots[g]]
        BY <4>1, <1>3
      <4> QED
        BY <3>1, <3>3, <4>2, OperatorsAre DEF OutcomeAt
    <3> QED
      BY <3>2, <3>3
  <2>3. F \in SUBSET Ids
    OBVIOUS
  <2> HIDE DEF F
  <2>4. P!Settling(F, o)
    <3>1. [g \in Ids |-> Outcome(g)]' = [g \in Ids |-> IF g \in F THEN o ELSE Outcome(g)]
      BY <2>2
    <3>2. [g \in Ids |-> Outcome(g)]' = [g \in Ids |-> IF g \in F THEN o ELSE [x \in Ids |-> Outcome(x)][g]]
      BY <3>1
    <3> QED
      BY <2>1, <2>3, <3>2 DEF P!Settling, P!Ids, Ids
  <2> QED
    BY <2>3, <2>4 DEF Settles
<1> QED
  BY <1>10, <1>11

(* To follow an open future keeps the order, and settles nothing. *)
LEMMA ChainedKeeps ==
  ASSUME NEW rest, NEW q, NEW u, InvWith(heard', rest, q, u),
         NEW b, Settleable(status, source, heard', rest, q, b), Ripe(heard', b),
         NEW n \in Ids, n # b, IsOpen(status, n),
         Chained(b, n, rest), tasks' = q, urgent' = u, loop' = loop, Sames
  PROVE  FuturesInv' /\ Settles
<1>0. /\ b \in Ids /\ IsOpen(status, b)
      /\ Shapes(status, Roots, listeners, source, heard', rest, q)
  BY DEF Settleable, InvWith, Waiting
<1>1. /\ status' = [status EXCEPT ![b] = "chained"] /\ content' = [content EXCEPT ![b] = n]
      /\ listeners' = [listeners EXCEPT ![n] = listeners[b] \o @, ![b] = <<>>]
      /\ stack' = rest
  BY DEF Chained
<1>2. /\ status \in [Ids -> Statuses] /\ content \in [Ids -> 0..MaxFutures]
      /\ Roots \in [Ids -> Ids]
  BY <1>0 DEF InvWith, Shaped, Shapes
<1>3. /\ status'[b] = "chained" /\ content'[b] = n
      /\ \A g \in Ids : g # b => status'[g] = status[g] /\ content'[g] = content[g]
      /\ status[b] \notin Completed \cup {"chained"} /\ status[n] \notin Completed \cup {"chained"}
      /\ status'[n] \notin Completed /\ "chained" \notin Completed
  BY <1>0, <1>1, <1>2 DEF IsOpen, Completed
<1>4. Chains(status', content') /\ Roots' = Redirected(Roots, b, n)
  <2>1. Chains(status, content)
    BY DEF InvWith
  <2>2. LET st2 == [status EXCEPT ![b] = "chained"]
            ct2 == [content EXCEPT ![b] = n]
        IN  /\ Chains(st2, ct2)
            /\ RootsOf(st2, ct2) = Redirected(RootsOf(status, content), b, n)
    <3>1. n # b /\ status[b] # "chained" /\ status[n] # "chained"
      BY <1>3
    <3> QED
      BY <2>1, <3>1, <1>0, <1>2, LongerChain
  <2> QED
    BY <2>2, <1>1, OperatorsAre
<1>5. Waiting(status', Roots', listeners', source', heard', stack', tasks')
  BY <1>0, <1>1, <1>4, ChainedInOrder DEF InvWith, Sames
<1>7. Numbered(heard)'
  BY <1>2, <1>3 DEF InvWith, Numbered, Ripe, Sames, Ids
<1>8. Gathering(heard)'
  <2> SUFFICES ASSUME NEW k \in Ids, gathers[k] # 0
               PROVE  /\ source[k] # 0 /\ source[gathers[k]] = 0
                      /\ heard'[k] = None => status'[gathers[k]] = "incomplete"
    BY DEF Gathering, Sames
  <2>1. gathers[k] \in Ids
    BY DEF InvWith, Shaped, Ids
  <2>2. /\ source[k] # 0 /\ source[gathers[k]] = 0
        /\ heard'[k] = None => status[gathers[k]] = "incomplete"
    BY DEF InvWith, Gathering
  <2> QED
    BY <2>1, <2>2, <1>3 DEF Ripe
<1>9. Shaped(tasks, urgent)'
  <2>1. content' \in [Ids -> 0..MaxFutures]
    BY <1>0, <1>1, <1>2 DEF Ids
  <2>2. \A g \in Ids : status'[g] \in Completed => content'[g] \in Ids
    BY <1>0, <1>3 DEF InvWith, Shaped
  <2> QED
    BY <2>1, <2>2 DEF InvWith, Shaped, Sames
<1>10. FuturesInv'
  BY <1>4, <1>5, <1>7, <1>8, <1>9 DEF FuturesInv, InvWith
<1>11. ASSUME NEW g \in Ids
       PROVE  Outcome(g)' = Outcome(g)
  <2>1. Roots[g] \in Ids /\ Roots'[g] = IF Roots[g] = b THEN n ELSE Roots[g]
    BY <1>2, <1>4 DEF Redirected
  <2> QED
    BY <2>1, <1>3, OperatorsAre DEF OutcomeAt
<1>12. Settles
  BY <1>0, <1>11, NoneSettled
<1> QED
  BY <1>10, <1>12

(* What is left for a task keeps the order, and settles nothing. *)
LEMMA LaterKeeps ==
  ASSUME NEW rest, NEW q, NEW u, InvWith(heard', rest, q, u),
         NEW b, Settleable(status, source, heard', rest, q, b), Ripe(heard', b),
         NEW kind \in Promising, NEW arg \in Ids,
         Later(b, Task(kind, b, arg), rest, q), urgent' = u, Sames
  PROVE  FuturesInv' /\ Settles
<1> DEFINE t == Task(kind, b, arg)
<1>0. /\ b \in Ids /\ IsOpen(status, b)
      /\ Shapes(status, Roots, listeners, source, heard', rest, q)
  BY DEF Settleable, InvWith, Waiting
<1>t. t \in Microtasks /\ t.kind \in Promising /\ t.of = b /\ t.arg \in Ids
  BY <1>0 DEF Task, Microtasks, Promising, Kinds, Ids
<1>1. /\ status' = [status EXCEPT ![b] = "pending"]
      /\ tasks' = Append(q, t)
      /\ content' = content /\ listeners' = listeners /\ stack' = rest
      /\ loop' \in {loop, "scheduled"}
  BY DEF Later
<1> HIDE DEF t
<1>2. /\ status \in [Ids -> Statuses] /\ Roots \in [Ids -> Ids] /\ q \in Seq(Microtasks)
  BY <1>0 DEF Shapes
<1>3. /\ status'[b] = "pending" /\ \A g \in Ids : g # b => status'[g] = status[g]
      /\ status[b] \notin Completed \cup {"chained"} /\ status'[b] \notin Completed \cup {"chained"}
  BY <1>0, <1>1, <1>2 DEF IsOpen, Completed
<1>4. Chains(status', content') /\ Roots' = Roots
  <2>1. \A g \in Ids : status'[g] = "chained" <=> status[g] = "chained"
    BY <1>3
  <2>2. Chains(status, content)
    BY DEF InvWith
  <2>3. \A g \in Ids : status[g] = "chained" => content'[g] = content[g]
    BY <1>1
  <2> QED
    BY <2>1, <2>2, <2>3, SameChains, OperatorsAre
<1>5. Waiting(status', Roots', listeners', source', heard', stack', tasks')
  BY <1>1, <1>4, <1>t, LeftForLater DEF InvWith, Sames
<1>7. Numbered(heard)'
  BY <1>2, <1>3 DEF InvWith, Numbered, Ripe, Sames, Ids
<1>8. Gathering(heard)'
  <2> SUFFICES ASSUME NEW k \in Ids, gathers[k] # 0
               PROVE  /\ source[k] # 0 /\ source[gathers[k]] = 0
                      /\ heard'[k] = None => status'[gathers[k]] = "incomplete"
    BY DEF Gathering, Sames
  <2>1. gathers[k] \in Ids
    BY DEF InvWith, Shaped, Ids
  <2>2. /\ source[k] # 0 /\ source[gathers[k]] = 0
        /\ heard'[k] = None => status[gathers[k]] = "incomplete"
    BY DEF InvWith, Gathering
  <2> QED
    BY <2>1, <2>2, <1>3 DEF Ripe
<1>9. Shaped(tasks, urgent)'
  <2>1. \A g \in Ids : status'[g] \in Completed => content'[g] \in Ids
    BY <1>1, <1>3 DEF InvWith, Shaped
  <2>2. Len(q) \in Nat /\ Len(tasks') = Len(q) + 1
    BY <1>1, <1>2, <1>t
  <2>3. urgent' \in 0..Len(tasks')
    BY <2>2 DEF InvWith, Shaped
  <2> QED
    BY <2>1, <2>3, <1>1 DEF InvWith, Shaped, Sames
<1>10. FuturesInv'
  BY <1>4, <1>5, <1>7, <1>8, <1>9 DEF FuturesInv, InvWith
<1>11. ASSUME NEW g \in Ids
       PROVE  Outcome(g)' = Outcome(g)
  <2>1. Roots[g] \in Ids
    BY <1>2
  <2>2. /\ Outcome(g) = OutcomeAt(status, content, Roots, g)
        /\ Outcome(g)' = OutcomeAt(status', content', Roots', g)
    BY OperatorsAre
  <2>3. CASE Roots[g] = b
    BY <2>2, <2>3, <1>3, <1>4 DEF OutcomeAt
  <2>4. CASE Roots[g] # b
    <3>1. status'[Roots[g]] = status[Roots[g]] /\ content' = content
      BY <2>1, <2>4, <1>1, <1>3
    <3> QED
      BY <2>2, <3>1, <1>4 DEF OutcomeAt
  <2> QED
    BY <2>3, <2>4
<1>12. Settles
  BY <1>0, <1>11, NoneSettled
<1> QED
  BY <1>10, <1>12

(* The outcome of a future that has one. *)
LEMMA OutcomeIs ==
  ASSUME NEW hd, NEW s, NEW q, NEW u, InvWith(hd, s, q, u), NEW f \in Ids
  PROVE  /\ Root(f) \in Ids /\ Root(f) = Roots[f] /\ status[Root(f)] # "chained"
         /\ status[Root(f)] \in Completed =>
              Outcome(f) \in Outcomes /\ Outcome(f) = [how |-> status[Root(f)], by |-> content[Root(f)]]
         /\ status[Root(f)] \notin Completed => Outcome(f) = None /\ IsOpen(status, Root(f))
<1>1. Root(f) = Roots[f] /\ Outcome(f) = OutcomeAt(status, content, Roots, f)
  BY OperatorsAre
<1>2. Roots[f] \in Ids /\ status[Roots[f]] # "chained" /\ status[Roots[f]] \in Statuses
  BY DEF InvWith, Waiting, Rooted, Shapes
<1>3. status[Roots[f]] \in Completed => content[Roots[f]] \in Ids
  BY <1>2 DEF InvWith, Shaped
<1> QED
  BY <1>1, <1>2, <1>3 DEF OutcomeAt, Outcomes, IsOpen, Statuses, Completed

(* To follow any future keeps the order, and settles at most what follows  *)
(* the one that does.                                                      *)
LEMMA FollowKeeps ==
  ASSUME NEW rest, NEW q, NEW u, InvWith(heard', rest, q, u),
         NEW b, Settleable(status, source, heard', rest, q, b), Ripe(heard', b),
         NEW a \in Ids, Follow(b, a, rest, q, u), Sames
  PROVE  FuturesInv' /\ Settles
<1> DEFINE n == Root(a)
<1>1. n \in Ids /\ status[n] # "chained" /\ (status[n] \notin Completed => IsOpen(status, n))
  BY OutcomeIs
<1>2. CASE Later(b, Task("error", b, b), rest, q) /\ urgent' = u
  <2>1. "error" \in Promising /\ b \in Ids
    BY DEF Promising, Completed, Settleable
  <2> QED
    BY <1>2, <2>1, LaterKeeps
<1>3. CASE /\ n # b /\ status[n] \notin Completed
           /\ Chained(b, n, rest)
           /\ tasks' = q /\ urgent' = u /\ UNCHANGED loop
  BY <1>1, <1>3, ChainedKeeps
<1>4. CASE n # b /\ status[n] \in Completed /\ Settled(b, Outcome(n), rest, q, u)
  <2>1. Root(n) = n
    BY <1>1, OutcomeIs DEF InvWith, Waiting, Rooted
  <2>2. Outcome(n) \in Outcomes
    BY <1>1, <1>4, <2>1, OutcomeIs
  <2> QED
    BY <1>4, <2>2, SettledKeeps
<1> QED
  BY <1>2, <1>3, <1>4 DEF Follow

-----------------------------------------------------------------------------
(* The initial states *)

(* Nothing is made, so that nothing waits.                                 *)
LEMMA InitHolds ==
  ASSUME FuturesInit
  PROVE  FuturesInv /\ P!PromisesInit
<1> DEFINE r == [g \in Ids |-> g]
           k == [g \in Ids |-> 0]
<1>1. /\ made = 0 /\ status = [f \in Ids |-> "incomplete"] /\ content = [f \in Ids |-> 0]
      /\ listeners = [f \in Ids |-> <<>>] /\ form = [f \in Ids |-> "none"]
      /\ gathers = [f \in Ids |-> 0] /\ source = [f \in Ids |-> 0]
      /\ heard = [f \in Ids |-> None]
      /\ tasks = <<>> /\ urgent = 0 /\ loop = "idle" /\ stack = <<>>
      /\ MaxFutures \in Nat
  BY BoundsAssumption DEF FuturesInit
<1>2. r \in [Ids -> Ids] /\ IsRoots(status, content, r)
  BY <1>1 DEF IsRoots
<1>3. k \in [Ids -> Nat] /\ Ranked(status, content, k)
  BY <1>1 DEF Ranked
<1> HIDE DEF r, k
<1>4. Chains(status, content) /\ Roots = r
  BY <1>2, <1>3, RootsOfIs, OperatorsAre DEF Chains
<1>5. Shapes(status, Roots, listeners, source, heard, stack, tasks)
  BY <1>1, <1>2, <1>4 DEF Shapes, Statuses
<1>6. Rooted(status, Roots)
  BY <1>2, <1>3, <1>4, RootsOfIs
<1>7. Len(stack) = 0 /\ Len(tasks) = 0 /\ \A f \in Ids : Len(listeners[f]) = 0
  BY <1>1
<1>8. /\ Unsettled(status, source, heard)
      /\ ListsHold(status, Roots, listeners, source, heard)
      /\ ListOrder(listeners, source)
  BY <1>1, <1>7 DEF Unsettled, ListsHold, ListOrder
<1>9. /\ StackHolds(status, Roots, source, heard, stack)
      /\ TasksHold(status, Roots, source, heard, tasks)
      /\ StackOrder(source, stack) /\ TaskOrder(source, tasks)
      /\ StackFirst(source, stack, tasks)
  BY <1>7 DEF StackHolds, TasksHold, StackOrder, TaskOrder, StackFirst
<1>10. AllWait(status, Roots, listeners, source, heard, stack, tasks)
  BY <1>1 DEF AllWait, Unheard
<1>11. Waiting(status, Roots, listeners, source, heard, stack, tasks)
  BY <1>5, <1>6, <1>8, <1>9, <1>10 DEF Waiting
<1>12. Numbered(heard) /\ Gathering(heard)
  BY <1>1 DEF Numbered, Gathering, Ids
<1>13. Shaped(tasks, urgent)
  BY <1>1, <1>7 DEF Shaped, Completed
<1>14. FuturesInv
  BY <1>4, <1>11, <1>12, <1>13 DEF FuturesInv, InvWith
<1>15. ASSUME NEW f \in Ids
       PROVE  Outcome(f) = None
  <2>1. Root(f) \in Ids /\ (status[Root(f)] \notin Completed => Outcome(f) = None)
    BY <1>14, OutcomeIs DEF FuturesInv
  <2> QED
    BY <2>1, <1>1 DEF Completed
<1>16. [f \in Ids |-> Outcome(f)] = [f \in Ids |-> None]
  BY <1>15
<1>17. P!PromisesInit
  BY <1>1, <1>16 DEF P!PromisesInit, P!Ids, Ids
<1> QED
  BY <1>14, <1>17

-----------------------------------------------------------------------------
(* The steps *)

Stutters == UNCHANGED <<[f \in Ids |-> Outcome(f)], source, heard>>

(* The state is as it was, but for the stack, the tasks and what was heard. *)
LEMMA SameKeeps ==
  ASSUME InvWith(heard', stack', tasks', urgent'),
         UNCHANGED <<status, content, listeners>>, Sames,
         loop' \in {"idle", "scheduled", "running"}
  PROVE  FuturesInv' /\ \A f \in Ids : Outcome(f)' = Outcome(f)
<1>1. Roots' = Roots
  BY OperatorsAre
<1>2. Waiting(status', Roots', listeners', source', heard', stack', tasks')
  BY <1>1 DEF InvWith, Sames
<1>3. /\ Shaped(tasks, urgent)' /\ Numbered(heard)' /\ Gathering(heard)'
      /\ Chains(status', content')
  BY DEF InvWith, Shaped, Numbered, Gathering, Sames
<1>4. FuturesInv'
  BY <1>2, <1>3 DEF FuturesInv, InvWith
<1>5. \A f \in Ids : Outcome(f)' = Outcome(f)
  BY <1>1, OperatorsAre DEF OutcomeAt
<1> QED
  BY <1>4, <1>5

(* A future that is not settled, whose own call is over, may be. *)
LEMMA ToldIsSettleable ==
  ASSUME NEW st, NEW r, NEW ls, NEW src, NEW hd, NEW s, NEW q,
         Waiting(st, r, ls, src, hd, s, q),
         NEW f \in Ids, hd[f] # None, st[f] = "incomplete",
         \A i \in 1..Len(s) : s[i].at = "in" => s[i].of # f
  PROVE  Settleable(st, src, hd, s, q, f)
<1>1. \A j \in 1..Len(q) : q[j].kind \in Promising => q[j].of # f
  BY DEF Waiting, TasksHold
<1> QED
  BY <1>1 DEF Settleable, IsOpen

(* What is called next is told the outcome of its future, for the first    *)
(* time and after all that were registered before it.                      *)
LEMMA Hears ==
  ASSUME FuturesInv, Top("call"),
         heard' = [heard EXCEPT ![stack[1].of] = Outcome(source[stack[1].of])]
  PROVE  LET l == stack[1].of
         IN  /\ l \in Ids /\ source[l] \in Ids /\ status[l] = "incomplete" /\ l <= made
             /\ Outcome(source[l]) \in Outcomes
             /\ heard[l] = None /\ heard'[l] # None
             /\ \A k \in Ids : k # l => heard'[k] = heard[k]
             /\ InvWith(heard', Tail(stack), tasks, urgent)
             /\ P!Hear(l)
             /\ \A i \in 1..Len(Tail(stack)) :
                  Tail(stack)[i].at = "in" => Tail(stack)[i].of # l
<1> DEFINE l == stack[1].of
           o == Outcome(source[l])
<1>1. /\ Waiting(status, Roots, listeners, source, heard, stack, tasks)
      /\ stack # <<>> /\ stack[1].at = "call"
  BY DEF FuturesInv, InvWith, Top
<1>2. /\ stack \in Seq(Frames) /\ heard \in [Ids -> Outcomes \cup {None}]
      /\ source \in [Ids -> 0..MaxFutures]
  BY <1>1 DEF Waiting, Shapes
<1>3. l \in Ids
  <2>1. stack[1] \in Frames
    BY <1>1, <1>2
  <2> QED
    BY <2>1 DEF Frames
<1>4. /\ Unheard(source, heard, l) /\ status[Roots[source[l]]] \in Completed
  <2>1. 1 \in 1..Len(stack)
    BY <1>1, <1>2
  <2> QED
    BY <2>1, <1>1 DEF Waiting, StackHolds
<1>5. source[l] \in Ids /\ l <= made
  <2>1. source[l] # 0
    BY <1>4 DEF Unheard
  <2>2. l > made => source[l] = 0
    BY <1>3 DEF FuturesInv, InvWith, Numbered
  <2> QED
    BY <2>1, <2>2, <1>2, <1>3 DEF Ids, FuturesInv, InvWith, Numbered
<1>6. o \in Outcomes
  BY <1>4, <1>5, OutcomeIs DEF FuturesInv
<1> HIDE DEF o
<1>7. /\ heard[l] = None /\ heard' = [heard EXCEPT ![l] = o]
      /\ heard'[l] # None /\ status[l] = "incomplete"
      /\ \A k \in Ids : k < l /\ source[k] = source[l] => heard[k] # None
      /\ Waiting(status, Roots, listeners, source, heard', Tail(stack), tasks)
      /\ \A i \in 1..Len(Tail(stack)) : Tail(stack)[i].at = "in" => Tail(stack)[i].of # l
  <2>1. heard' = [heard EXCEPT ![l] = o]
    BY DEF o
  <2>2. /\ heard' \in [Ids -> Outcomes \cup {None}] /\ heard'[l] = o
        /\ \A k \in Ids : k # l => heard'[k] = heard[k]
    BY <2>1, <1>2, <1>3, <1>6
  <2>3. l = stack[1].of /\ heard'[l] \in Outcomes
    BY <2>2, <1>6
  <2> HIDE DEF l
  <2>4. \A h : /\ h \in [Ids -> Outcomes \cup {None}] /\ h[l] \in Outcomes
              /\ (\A k \in Ids : k # l => h[k] = heard[k])
              => /\ heard[l] = None /\ h[l] # None /\ status[l] = "incomplete"
                 /\ \A k \in Ids : k < l /\ source[k] = source[l] => heard[k] # None
                 /\ Waiting(status, Roots, listeners, source, h, Tail(stack), tasks)
                 /\ \A i \in 1..Len(Tail(stack)) : Tail(stack)[i].at = "in" => Tail(stack)[i].of # l
    BY <2>3, <1>1, Told
  <2> QED
    BY <2>1, <2>2, <2>3, <2>4
<1>8. \A k \in Ids : k # l => heard'[k] = heard[k]
  BY <1>2, <1>7
<1>9. InvWith(heard', Tail(stack), tasks, urgent)
  <2>1. Numbered(heard')
    BY <1>8, <1>5 DEF FuturesInv, InvWith, Numbered, Ids
  <2>2. Gathering(heard')
    BY <1>7, <1>8 DEF FuturesInv, InvWith, Gathering
  <2> QED
    BY <2>1, <2>2, <1>7 DEF FuturesInv, InvWith
<1>10. P!Hear(l)
  <2>1. [f \in Ids |-> Outcome(f)][source[l]] = o
    BY <1>5 DEF o
  <2>2. o # None
    BY <1>6, NoneAssumption DEF Outcomes
  <2>3. source[l] # 0
    BY <1>5 DEF Ids
  <2>4. \A k \in P!Ids : k < l /\ source[k] = source[l] => heard[k] # None
    BY <1>7 DEF P!Ids, Ids
  <2> QED
    BY <2>1, <2>2, <2>3, <2>4, <1>7 DEF P!Hear
<1> QED
  BY <1>3, <1>5, <1>6, <1>7, <1>8, <1>9, <1>10 DEF o

(* A listener is not what waits for several. *)
LEMMA ListenersAreRipe ==
  ASSUME NEW hd, NEW s, NEW q, NEW u, InvWith(hd, s, q, u),
         NEW l \in Ids, source[l] # 0
  PROVE  Ripe(hd, l)
<1>1. l <= made
  BY DEF InvWith, Numbered, Ids
<1>2. \A k \in Ids : gathers[k] # l
  <2> SUFFICES ASSUME NEW k \in Ids, gathers[k] = l PROVE FALSE
    OBVIOUS
  <2>1. gathers[k] # 0
    BY DEF Ids
  <2> QED
    BY <2>1 DEF InvWith, Gathering
<1> QED
  BY <1>1, <1>2 DEF Ripe

(* What settles futures, and tells at most one listener, is a step of what *)
(* Promises says.                                                          *)
LEMMA SettlesIs ==
  ASSUME Settles, Sames, heard' = heard \/ \E l \in Ids : P!Hear(l)
  PROVE  P!PromisesNext
<1>1. PICK F \in SUBSET Ids, o \in Outcomes : P!Settling(F, o)
  BY DEF Settles
<1>2. F \in SUBSET P!Ids /\ o \in P!Outcomes
  BY DEF P!Ids, Ids, P!Outcomes, Outcomes, Completed
<1>3. UNCHANGED heard \/ \E l \in P!Ids : P!Hear(l)
  BY DEF P!Ids, Ids
<1> QED
  BY <1>1, <1>2, <1>3 DEF P!PromisesNext, Sames

(* A new future is free, and is waited for by nobody.                      *)
LEMMA NewIsFree ==
  ASSUME FuturesInv, NEW l \in Ids, made < l
  PROVE  /\ source[l] = 0 /\ heard[l] = None /\ status[l] = "incomplete"
         /\ gathers[l] = 0 /\ \A k \in Ids : gathers[k] # l
         /\ \A k \in Ids : source[k] # 0 => k <= made
         /\ made \in 0..MaxFutures
<1>1. Numbered(heard) /\ gathers \in [Ids -> 0..MaxFutures]
  BY DEF FuturesInv, InvWith, Shaped
<1>2. l > made /\ made \in 0..MaxFutures
  BY <1>1 DEF Numbered, Ids
<1>3. \A k \in Ids : k > made => source[k] = 0
  BY <1>1 DEF Numbered
<1>4. \A k \in Ids : source[k] # 0 => k <= made
  BY <1>2, <1>3 DEF Ids
<1>5. \A k \in Ids : gathers[k] # l
  BY <1>1, <1>2 DEF Numbered, Ids
<1> QED
  BY <1>1, <1>2, <1>4, <1>5 DEF Numbered

(* Chains and outcomes are as they were when no future is settled.         *)
LEMMA SameOutcomes ==
  ASSUME UNCHANGED <<status, content>>
  PROVE  /\ Roots' = Roots
         /\ [f \in Ids |-> Outcome(f)]' = [f \in Ids |-> Outcome(f)]
<1>1. Roots' = Roots
  BY OperatorsAre
<1>2. \A f \in Ids : Outcome(f)' = Outcome(f)
  BY <1>1, OperatorsAre DEF OutcomeAt
<1> QED
  BY <1>1, <1>2

(* A new future changes nothing that Promises has.                         *)
LEMMA NewKeeps ==
  ASSUME FuturesInv, New
  PROVE  FuturesInv' /\ Stutters
<1>1. /\ made < MaxFutures /\ made' = made + 1 /\ made \in 0..MaxFutures
      /\ UNCHANGED <<status, content, listeners, form, gathers, source, heard, loopVars, stack>>
  BY BoundsAssumption DEF New, FuturesInv, InvWith, Numbered
<1>2. Numbered(heard)'
  <2>1. Numbered(heard) /\ gathers \in [Ids -> 0..MaxFutures]
    BY DEF FuturesInv, InvWith, Shaped
  <2>2. made' \in 0..MaxFutures
    BY <1>1, BoundsAssumption
  <2>3. \A l \in Ids : source[l] < l /\ gathers[l] <= made'
    BY <2>1, <1>1 DEF Numbered, Ids
  <2>4. \A l \in Ids : l > made' => l > made
    BY <1>1 DEF Ids
  <2> QED
    BY <2>1, <2>2, <2>3, <2>4, <1>1 DEF Numbered
<1>3. Shaped(tasks, urgent)' /\ Gathering(heard)' /\ Chains(status', content')
  BY <1>1 DEF FuturesInv, InvWith, Shaped, Gathering, loopVars
<1>4. Roots' = Roots /\ [f \in Ids |-> Outcome(f)]' = [f \in Ids |-> Outcome(f)]
  BY <1>1, SameOutcomes
<1>5. Waiting(status', Roots', listeners', source', heard', stack', tasks')
  BY <1>1, <1>4 DEF FuturesInv, InvWith, loopVars
<1> QED
  BY <1>1, <1>2, <1>3, <1>4, <1>5 DEF FuturesInv, InvWith, Stutters

(* What is added to the list and the tasks. *)
LEMMA ListeningIs ==
  ASSUME FuturesInv, NEW ls, NEW l, NEW f \in Ids
  PROVE  /\ Listening(ls, l, f) = NowListed(status, Roots, ls, l, f)
         /\ LateCall(l, f) = NowCalled(status, Roots, l, f)
  BY OperatorsAre DEF Listening, LateCall, NowListed, NowCalled

(* Nothing is lost from the tasks when some are added. *)
LEMMA EnqueueIs ==
  ASSUME FuturesInv, NEW new \in Seq(Microtasks), Enqueue(new)
  PROVE  /\ tasks' = tasks \o new
         /\ urgent' \in 0..Len(tasks') /\ loop' \in {"idle", "scheduled", "running"}
<1>1. tasks \in Seq(Microtasks) /\ urgent \in 0..Len(tasks)
  BY DEF FuturesInv, InvWith, Shaped, Waiting, Shapes
<1>2. tasks' = tasks \o new /\ urgent' = urgent /\ loop' \in {loop, "scheduled"}
  BY DEF Enqueue
<1>3. Len(tasks') = Len(tasks) + Len(new) /\ Len(new) \in Nat /\ Len(tasks) \in Nat
  <2> HIDE DEF Microtasks
  <2> QED
    BY <1>1, <1>2
<1> QED
  BY <1>1, <1>2, <1>3 DEF FuturesInv, InvWith, Shaped

(* To listen to one future is to register one listener.                    *)
LEMMA ThenKeeps ==
  ASSUME FuturesInv, NEW f \in 1..made, NEW how \in Forms, Then(f, how)
  PROVE  FuturesInv' /\ P!PromisesNext
<1> DEFINE l == made + 1
<1>0. made < MaxFutures /\ made \in 0..MaxFutures /\ MaxFutures \in Nat
  BY BoundsAssumption DEF FuturesInv, InvWith, Numbered, Then
<1>1. l \in Ids /\ made < l /\ f \in Ids /\ f < l
  BY <1>0 DEF Ids
<1>2. /\ made' = l /\ form' = [form EXCEPT ![l] = how]
      /\ source' = [source EXCEPT ![l] = f]
      /\ listeners' = Listening(listeners, l, f) /\ Enqueue(LateCall(l, f))
      /\ UNCHANGED <<status, content, gathers, heard, stack>>
  BY DEF Then
<1> HIDE DEF l
<1>3. /\ source[l] = 0 /\ heard[l] = None /\ status[l] = "incomplete"
      /\ gathers[l] = 0 /\ \A k \in Ids : gathers[k] # l
      /\ \A k \in Ids : source[k] # 0 => k <= made
  BY <1>1, NewIsFree
<1>4. Roots' = Roots /\ [g \in Ids |-> Outcome(g)]' = [g \in Ids |-> Outcome(g)]
  BY <1>2, SameOutcomes
<1>5. LateCall(l, f) \in Seq(Microtasks)
  <2>1. Task("call", l, 0) \in Microtasks
    BY <1>1 DEF Task, Microtasks, Kinds, Ids
  <2> QED
    BY <2>1 DEF LateCall
<1>6. /\ tasks' = tasks \o LateCall(l, f)
      /\ urgent' \in 0..Len(tasks') /\ loop' \in {"idle", "scheduled", "running"}
  BY <1>2, <1>5, EnqueueIs
<1>7. Waiting(status', Roots', listeners', source', heard', stack', tasks')
  <2>1. \A k \in Ids : source[k] # 0 => k < l
    BY <1>0, <1>3 DEF l, Ids
  <2>2. Waiting(status, Roots, NowListed(status, Roots, listeners, l, f),
                [source EXCEPT ![l] = f], heard, stack, tasks \o NowCalled(status, Roots, l, f))
    BY <2>1, <1>1, <1>3, ListenedInOrder DEF FuturesInv, InvWith
  <2> QED
    BY <2>2, <1>1, <1>2, <1>4, <1>6, ListeningIs
<1>8. /\ source \in [Ids -> 0..MaxFutures] /\ form \in [Ids -> Forms \cup {"none"}]
      /\ gathers \in [Ids -> 0..MaxFutures]
  BY DEF FuturesInv, InvWith, Shaped, Waiting, Shapes
<1>9. /\ source'[l] = f /\ form'[l] = how /\ how # "none"
      /\ \A k \in Ids : k # l => source'[k] = source[k] /\ form'[k] = form[k]
  BY <1>1, <1>2, <1>8 DEF Forms
<1>10. Numbered(heard)'
  <2>1. Numbered(heard)
    BY DEF FuturesInv, InvWith
  <2>2. made' \in 0..MaxFutures
    BY <1>0, <1>2 DEF l
  <2>3. f # 0
    BY <1>1 DEF Ids
  <2> QED
    BY <2>1, <2>2, <2>3, <1>0, <1>1, <1>2, <1>8, <1>9 DEF Numbered, Ids, l
<1>11. Gathering(heard)'
  <2> SUFFICES ASSUME NEW k \in Ids, gathers[k] # 0
               PROVE  /\ source'[k] # 0 /\ source'[gathers[k]] = 0
                      /\ heard[k] = None => status[gathers[k]] = "incomplete"
    BY <1>2 DEF Gathering
  <2>1. gathers[k] \in Ids /\ gathers[k] # l /\ k # l
    BY <1>3, <1>8 DEF Ids
  <2> QED
    BY <2>1, <1>9 DEF FuturesInv, InvWith, Gathering
<1>12. Shaped(tasks, urgent)'
  <2>1. form' \in [Ids -> Forms \cup {"none"}]
    BY <1>1, <1>2, <1>8
  <2> QED
    BY <2>1, <1>2, <1>6 DEF FuturesInv, InvWith, Shaped
<1>13. FuturesInv'
  BY <1>2, <1>7, <1>10, <1>11, <1>12 DEF FuturesInv, InvWith
<1>14. P!Register(l, f)
  <2>1. \A k \in P!Ids : k > l => source[k] = 0
    BY <1>0, <1>3 DEF P!Ids, Ids, l
  <2> QED
    BY <2>1, <1>1, <1>2, <1>3, <1>4 DEF P!Register
<1> QED
  BY <1>1, <1>13, <1>14 DEF P!PromisesNext, P!Ids, Ids

(* The two that one future waits for are registered one after the other.   *)
LEMMA WaitAllKeeps ==
  ASSUME FuturesInv, NEW f \in 1..made, NEW g \in 1..made, WaitAll(f, g)
  PROVE  FuturesInv' /\ P!PromisesNext
<1> DEFINE w == made + 1
           k == w + 1
           l == w + 2
           src1 == [source EXCEPT ![k] = f]
           ls1 == Listening(listeners, k, f)
<1>0. made + 3 <= MaxFutures /\ made \in 0..MaxFutures /\ MaxFutures \in Nat
  BY BoundsAssumption DEF FuturesInv, InvWith, Numbered, WaitAll
<1>1. /\ w \in Ids /\ k \in Ids /\ l \in Ids /\ f \in Ids /\ g \in Ids
      /\ made < w /\ w < k /\ k < l /\ l = k + 1 /\ f < k /\ g < k /\ k < MaxFutures
  BY <1>0 DEF Ids
<1>2. /\ made' = l /\ form' = [form EXCEPT ![k] = "both", ![l] = "both"]
      /\ gathers' = [gathers EXCEPT ![k] = w, ![l] = w]
      /\ source' = [source EXCEPT ![k] = f, ![l] = g]
      /\ listeners' = Listening(ls1, l, g) /\ Enqueue(LateCall(k, f) \o LateCall(l, g))
      /\ UNCHANGED <<status, content, heard, stack>>
  BY DEF WaitAll
<1>3. \A m \in {w, k, l} :
        /\ source[m] = 0 /\ heard[m] = None /\ status[m] = "incomplete"
        /\ gathers[m] = 0 /\ \A j \in Ids : gathers[j] # m
  <2> SUFFICES ASSUME NEW m \in {w, k, l}
               PROVE  /\ source[m] = 0 /\ heard[m] = None /\ status[m] = "incomplete"
                      /\ gathers[m] = 0 /\ \A j \in Ids : gathers[j] # m
    OBVIOUS
  <2>1. m \in Ids /\ made < m
    BY <1>0, <1>1
  <2> HIDE DEF w, k, l
  <2> QED
    BY <2>1, NewIsFree
<1>4. \A j \in Ids : source[j] # 0 => j < k
  <2>1. \A j \in Ids : source[j] # 0 => j <= made
    BY <1>1, NewIsFree
  <2> QED
    BY <2>1, <1>0, <1>1 DEF Ids
<1>5. made' \in 0..MaxFutures /\ \A j \in Ids : j > made' => j > made /\ j # k /\ j # l
  BY <1>0, <1>2 DEF Ids
<1>6. w # k /\ w # l /\ k # l /\ w <= made' /\ made <= made' /\ w # 0
  BY <1>0, <1>2 DEF Ids
<1>7. 0 < k /\ f # 0 /\ g # 0 /\ f < k /\ g < l
  BY <1>0 DEF Ids
<1> HIDE DEF w, k, l
<1>8. Roots' = Roots /\ [x \in Ids |-> Outcome(x)]' = [x \in Ids |-> Outcome(x)]
  BY <1>2, SameOutcomes
<1>9. /\ source \in [Ids -> 0..MaxFutures] /\ form \in [Ids -> Forms \cup {"none"}]
      /\ gathers \in [Ids -> 0..MaxFutures] /\ tasks \in Seq(Microtasks)
  BY DEF FuturesInv, InvWith, Shaped, Waiting, Shapes
<1>10. /\ source' = [src1 EXCEPT ![l] = g]
       /\ src1[k] = f /\ src1[l] = source[l] /\ \A j \in Ids : j # k => src1[j] = source[j]
       /\ source'[k] = f /\ source'[l] = g
       /\ \A j \in Ids : j # k /\ j # l => source'[j] = source[j]
  BY <1>1, <1>2, <1>6, <1>9
<1>11. /\ gathers' \in [Ids -> 0..MaxFutures] /\ gathers'[k] = w /\ gathers'[l] = w
       /\ \A j \in Ids : j # k /\ j # l => gathers'[j] = gathers[j]
  <2>1. gathers' = [gathers EXCEPT ![k] = w, ![l] = w]
    BY <1>2
  <2>2. w \in 0..MaxFutures /\ k \in Ids /\ l \in Ids
    BY <1>1 DEF Ids
  <2> QED
    BY <2>1, <2>2, <1>6, <1>9
<1>12. /\ form' \in [Ids -> Forms \cup {"none"}] /\ form'[k] = "both" /\ form'[l] = "both"
       /\ \A j \in Ids : j # k /\ j # l => form'[j] = form[j]
  BY <1>1, <1>2, <1>6, <1>9 DEF Forms
<1>13. /\ LateCall(k, f) \in Seq(Microtasks) /\ LateCall(l, g) \in Seq(Microtasks)
       /\ LateCall(k, f) \o LateCall(l, g) \in Seq(Microtasks)
       /\ (tasks \o LateCall(k, f)) \o LateCall(l, g) = tasks \o (LateCall(k, f) \o LateCall(l, g))
  <2>1. Task("call", k, 0) \in Microtasks /\ Task("call", l, 0) \in Microtasks
    BY <1>1 DEF Task, Microtasks, Kinds, Ids
  <2>2. LateCall(k, f) \in Seq(Microtasks) /\ LateCall(l, g) \in Seq(Microtasks)
    BY <2>1 DEF LateCall
  <2> HIDE DEF Microtasks
  <2> QED
    BY <2>2, <1>9, ConcatAssociative
<1>14. /\ tasks' = (tasks \o LateCall(k, f)) \o LateCall(l, g)
       /\ urgent' \in 0..Len(tasks') /\ loop' \in {"idle", "scheduled", "running"}
  BY <1>2, <1>13, EnqueueIs
<1>15. Waiting(status, Roots, ls1, src1, heard, stack, tasks \o LateCall(k, f))
  <2>1. Waiting(status, Roots, NowListed(status, Roots, listeners, k, f), src1, heard, stack,
                tasks \o NowCalled(status, Roots, k, f))
    BY <1>1, <1>3, <1>4, ListenedInOrder DEF FuturesInv, InvWith
  <2> HIDE DEF src1
  <2> QED
    BY <2>1, <1>1, ListeningIs
<1>16. Waiting(status', Roots', listeners', source', heard', stack', tasks')
  <2>1. \A j \in Ids : src1[j] # 0 => j < l
    BY <1>1, <1>4, <1>10 DEF Ids
  <2>2. src1[l] = 0 /\ heard[l] = None /\ status[l] = "incomplete"
    BY <1>3, <1>10
  <2> HIDE DEF src1, ls1
  <2>3. Waiting(status, Roots, NowListed(status, Roots, ls1, l, g), [src1 EXCEPT ![l] = g],
                heard, stack, (tasks \o LateCall(k, f)) \o NowCalled(status, Roots, l, g))
    BY <2>1, <2>2, <1>1, <1>15, ListenedInOrder
  <2>4. /\ Listening(ls1, l, g) = NowListed(status, Roots, ls1, l, g)
        /\ LateCall(l, g) = NowCalled(status, Roots, l, g)
    BY <1>1, ListeningIs
  <2>5. /\ listeners' = NowListed(status, Roots, ls1, l, g)
        /\ tasks' = (tasks \o LateCall(k, f)) \o NowCalled(status, Roots, l, g)
        /\ source' = [src1 EXCEPT ![l] = g]
        /\ status' = status /\ Roots' = Roots /\ heard' = heard /\ stack' = stack
    BY <2>4, <1>2, <1>8, <1>10, <1>14
  <2> QED
    BY <2>3, <2>5
<1> HIDE DEF src1, ls1
<1>17. Numbered(heard)'
  <2>1. Numbered(heard)
    BY DEF FuturesInv, InvWith
  <2>2. \A j \in Ids : source'[j] < j
    BY <2>1, <1>7, <1>10 DEF Numbered
  <2>3. \A j \in Ids : gathers'[j] <= made'
    <3>1. \A j \in Ids : gathers[j] <= made /\ gathers[j] \in Nat
      BY <2>1, <1>9 DEF Numbered
    <3> QED
      BY <3>1, <1>0, <1>5, <1>6, <1>11
  <2>4. \A j \in Ids : source'[j] = 0 <=> form'[j] = "none"
    BY <2>1, <1>7, <1>10, <1>12 DEF Numbered
  <2> QED
    BY <2>1, <2>2, <2>3, <2>4, <1>2, <1>5, <1>10, <1>11, ZenonT(60) DEF Numbered
<1>18. Gathering(heard)'
  <2> SUFFICES ASSUME NEW j \in Ids, gathers'[j] # 0
               PROVE  /\ source'[j] # 0 /\ source'[gathers'[j]] = 0
                      /\ heard[j] = None => status[gathers'[j]] = "incomplete"
    BY <1>2 DEF Gathering
  <2>1. CASE j \in {k, l}
    BY <2>1, <1>1, <1>3, <1>6, <1>7, <1>10, <1>11
  <2>2. CASE j \notin {k, l}
    <3>1. gathers'[j] = gathers[j] /\ gathers[j] \in Ids
      BY <2>2, <1>9, <1>11 DEF Ids
    <3>2. gathers[j] # k /\ gathers[j] # l
      BY <1>3
    <3> QED
      BY <2>2, <3>1, <3>2, <1>10 DEF FuturesInv, InvWith, Gathering
  <2> QED
    BY <2>1, <2>2
<1>19. Shaped(tasks, urgent)'
  BY <1>2, <1>11, <1>12, <1>14 DEF FuturesInv, InvWith, Shaped
<1>20. FuturesInv'
  BY <1>2, <1>16, <1>17, <1>18, <1>19 DEF FuturesInv, InvWith
<1>21. P!RegisterBoth(k, f, g)
  <2>1. \A j \in P!Ids : j > k => source[j] = 0
    BY <1>1, <1>4 DEF P!Ids, Ids
  <2>2. source' = [source EXCEPT ![k] = f, ![k + 1] = g]
    BY <1>1, <1>2
  <2> QED
    BY <2>1, <2>2, <1>1, <1>2, <1>3, <1>8 DEF P!RegisterBoth
<1> QED
  BY <1>1, <1>20, <1>21 DEF P!PromisesNext, P!Ids, Ids

(* A future with a completer that was not used is free to be settled.      *)
LEMMA Completes ==
  ASSUME FuturesInv, NEW f \in 1..made, Completable(f), heard' = heard
  PROVE  /\ f \in Ids /\ InvWith(heard', stack, tasks, urgent)
         /\ Settleable(status, source, heard', stack, tasks, f) /\ Ripe(heard', f)
<1>1. made \in 0..MaxFutures /\ MaxFutures \in Nat
  BY BoundsAssumption DEF FuturesInv, InvWith, Numbered
<1>2. f \in Ids /\ f <= made
  BY <1>1 DEF Ids
<1>3. source[f] = 0 /\ status[f] = "incomplete"
  BY <1>2 DEF Completable, FuturesInv, InvWith, Numbered
<1>4. InvWith(heard', stack, tasks, urgent)
  BY DEF FuturesInv
<1>5. Settleable(status, source, heard', stack, tasks, f)
  BY <1>2, <1>3, <1>4, FreeIsSettleable DEF InvWith
<1>6. Ripe(heard', f)
  BY <1>2 DEF Completable, Ripe
<1> QED
  BY <1>2, <1>4, <1>5, <1>6

(* A completer settles its future, now, later or with another.             *)
LEMMA CompletionKeeps ==
  ASSUME FuturesInv, NEW f \in 1..made,
         \/ \E how \in Completed : Complete(f, how) \/ CompleteLater(f, how)
         \/ \E g \in 1..made : CompleteWith(f, g) \/ CompleteWithLater(f, g)
  PROVE  FuturesInv' /\ P!PromisesNext
<1>1. Completable(f) /\ heard' = heard /\ Sames
  BY DEF Complete, CompleteLater, CompleteWith, CompleteWithLater, Sames
<1>2. /\ f \in Ids /\ InvWith(heard', stack, tasks, urgent)
      /\ Settleable(status, source, heard', stack, tasks, f) /\ Ripe(heard', f)
  BY <1>1, Completes
<1>3. \A g \in 1..made : g \in Ids
  BY BoundsAssumption DEF FuturesInv, InvWith, Numbered, Ids
<1>4. FuturesInv' /\ Settles
  <2>1. CASE \E how \in Completed : Complete(f, how)
    <3>1. PICK how \in Completed : Complete(f, how)
      BY <2>1
    <3>2. [how |-> how, by |-> f] \in Outcomes
      BY <1>2 DEF Outcomes
    <3>3. Settled(f, [how |-> how, by |-> f], stack, tasks, urgent)
      BY <3>1 DEF Complete
    <3> QED
      BY <3>2, <3>3, <1>1, <1>2, SettledKeeps
  <2>2. CASE \E how \in Completed : CompleteLater(f, how)
    <3>1. PICK how \in Completed : CompleteLater(f, how)
      BY <2>2
    <3>2. how \in Promising /\ Later(f, Task(how, f, f), stack, tasks) /\ urgent' = urgent
      BY <3>1 DEF CompleteLater, Promising
    <3> QED
      BY <3>2, <1>1, <1>2, LaterKeeps
  <2>3. CASE \E g \in 1..made : CompleteWith(f, g)
    <3>1. PICK g \in 1..made : CompleteWith(f, g)
      BY <2>3
    <3>2. Follow(f, g, stack, tasks, urgent) /\ g \in Ids
      BY <3>1, <1>3 DEF CompleteWith
    <3> QED
      BY <3>2, <1>1, <1>2, FollowKeeps
  <2>4. CASE \E g \in 1..made : CompleteWithLater(f, g)
    <3>1. PICK g \in 1..made : CompleteWithLater(f, g)
      BY <2>4
    <3>2. g \in Ids
      BY <1>3
    <3>3. CASE Follow(f, g, stack, tasks, urgent)
      BY <3>2, <3>3, <1>1, <1>2, FollowKeeps
    <3>4. CASE Later(f, Task("follow", f, Root(g)), stack, tasks) /\ UNCHANGED urgent
      <4>1. "follow" \in Promising /\ Root(g) \in Ids
        BY <3>2, OutcomeIs DEF Promising, FuturesInv
      <4> QED
        BY <3>4, <4>1, <1>1, <1>2, LaterKeeps
    <3> QED
      BY <3>1, <3>3, <3>4 DEF CompleteWithLater
  <2> QED
    BY <2>1, <2>2, <2>3, <2>4
<1> QED
  BY <1>1, <1>4, SettlesIs

(* An error that is passed on is heard, and settles the result.            *)
LEMMA PassOnKeeps ==
  ASSUME FuturesInv, PassOn
  PROVE  FuturesInv' /\ P!PromisesNext
<1> DEFINE l == stack[1].of
           o == Outcome(source[l])
<1>1. /\ Top("call") /\ heard' = [heard EXCEPT ![stack[1].of] = Outcome(source[stack[1].of])]
      /\ Settled(l, o, Tail(stack), tasks, urgent) /\ Sames
  BY DEF PassOn, Sames
<1>2. /\ l \in Ids /\ source[l] \in Ids /\ status[l] = "incomplete"
      /\ o \in Outcomes /\ heard'[l] # None
      /\ InvWith(heard', Tail(stack), tasks, urgent)
      /\ P!Hear(l)
      /\ \A i \in 1..Len(Tail(stack)) : Tail(stack)[i].at = "in" => Tail(stack)[i].of # l
  BY <1>1, Hears
<1> HIDE DEF l, o
<1>3. Settleable(status, source, heard', Tail(stack), tasks, l)
  BY <1>2, ToldIsSettleable DEF InvWith
<1>4. Ripe(heard', l)
  BY <1>2, ListenersAreRipe DEF Ids
<1>5. FuturesInv' /\ Settles
  BY <1>1, <1>2, <1>3, <1>4, SettledKeeps
<1> QED
  BY <1>1, <1>2, <1>5, SettlesIs

(* A listener that was told is under way. *)
LEMMA EnteredKeeps ==
  ASSUME FuturesInv, Top("call"),
         heard' = [heard EXCEPT ![stack[1].of] = Outcome(source[stack[1].of])]
  PROVE  InvWith(heard', <<In(stack[1].of)>> \o Tail(stack), tasks, urgent)
<1> DEFINE l == stack[1].of
<1>1. /\ l \in Ids /\ source[l] \in Ids /\ status[l] = "incomplete" /\ heard'[l] # None
      /\ InvWith(heard', Tail(stack), tasks, urgent)
      /\ \A i \in 1..Len(Tail(stack)) : Tail(stack)[i].at = "in" => Tail(stack)[i].of # l
  BY Hears
<1> HIDE DEF l
<1>2. Waiting(status, Roots, listeners, source, heard', <<In(l)>> \o Tail(stack), tasks)
  <2>1. Waiting(status, Roots, listeners, source, heard', Tail(stack), tasks) /\ source[l] # 0
    BY <1>1 DEF InvWith, Ids
  <2> QED
    BY <2>1, <1>1, Entered
<1>3. InvWith(heard', <<In(l)>> \o Tail(stack), tasks, urgent)
  BY <1>1, <1>2 DEF InvWith
<1> QED
  BY <1>3 DEF l

(* A callback that is called has heard the outcome.                        *)
LEMMA CallbackKeeps ==
  ASSUME FuturesInv, Callback
  PROVE  FuturesInv' /\ P!PromisesNext
<1>1. /\ Top("call") /\ heard' = [heard EXCEPT ![stack[1].of] = Outcome(source[stack[1].of])]
      /\ stack' = <<In(stack[1].of)>> \o Tail(stack)
      /\ UNCHANGED <<status, content, listeners, tasks, urgent, loop>> /\ Sames
  BY DEF Callback, Enter, In, Sames, loopVars
<1>2. stack[1].of \in Ids /\ P!Hear(stack[1].of)
  BY <1>1, Hears
<1>3. InvWith(heard', stack', tasks', urgent')
  BY <1>1, EnteredKeeps
<1>4. loop' \in {"idle", "scheduled", "running"}
  BY <1>1 DEF FuturesInv, InvWith, Shaped
<1>5. FuturesInv' /\ \A f \in Ids : Outcome(f)' = Outcome(f)
  BY <1>1, <1>3, <1>4, SameKeeps
<1>6. Settles
  BY <1>2, <1>5, NoneSettled
<1> QED
  BY <1>1, <1>2, <1>5, <1>6, SettlesIs

(* The last that is told settles the one that waits for all.               *)
LEMMA GatherKeeps ==
  ASSUME FuturesInv, Gather
  PROVE  FuturesInv' /\ P!PromisesNext
<1> DEFINE l    == stack[1].of
           w    == gathers[l]
           ours == {k \in Ids : gathers[k] = w}
           all  == [k \in ours |-> IF k = l THEN Outcome(source[l]) ELSE heard[k]]
           how  == IF \E k \in ours : all[k].how = "error" THEN "error" ELSE "value"
           back == <<In(l)>> \o Tail(stack)
<1>1. /\ Top("call") /\ heard' = [heard EXCEPT ![stack[1].of] = Outcome(source[stack[1].of])]
      /\ w # 0 /\ Sames
      /\ \/ /\ \A k \in ours : all[k] # None
            /\ Settled(w, [how |-> how, by |-> w], back, tasks, urgent)
         \/ stack' = back /\ UNCHANGED <<status, content, listeners, loopVars>>
  BY DEF Gather, In, Sames
<1>2. /\ l \in Ids /\ P!Hear(l) /\ heard[l] = None /\ heard'[l] # None
      /\ \A k \in Ids : k # l => heard'[k] = heard[k]
  BY <1>1, Hears
<1>3. InvWith(heard', back, tasks, urgent)
  BY <1>1, EnteredKeeps
<1>4. how \in Completed
  BY DEF Completed
<1>5. (\A k \in ours : all[k] # None) => \A k \in ours : k # l => heard[k] # None
  OBVIOUS
<1> HIDE DEF how, back, all
<1>6. w \in Ids /\ source[w] = 0 /\ status[w] = "incomplete" /\ w <= made
  <2>1. w \in Ids /\ w <= made
    BY <1>1, <1>2 DEF FuturesInv, InvWith, Shaped, Numbered, Ids
  <2> QED
    BY <2>1, <1>1, <1>2 DEF FuturesInv, InvWith, Gathering
<1>7. FuturesInv' /\ Settles
  <2>1. CASE /\ \A k \in ours : all[k] # None
             /\ Settled(w, [how |-> how, by |-> w], back, tasks, urgent)
    <3>1. Settleable(status, source, heard', back, tasks, w)
      BY <1>3, <1>6, FreeIsSettleable DEF InvWith
    <3>2. Ripe(heard', w)
      BY <2>1, <1>2, <1>5, <1>6 DEF Ripe
    <3>3. [how |-> how, by |-> w] \in Outcomes
      BY <1>4, <1>6 DEF Outcomes
    <3> HIDE DEF w
    <3> QED
      BY <2>1, <3>1, <3>2, <3>3, <1>1, <1>3, SettledKeeps
  <2>2. CASE stack' = back /\ UNCHANGED <<status, content, listeners, loopVars>>
    <3>1. tasks' = tasks /\ urgent' = urgent /\ loop' = loop
      BY <2>2 DEF loopVars
    <3>2. loop' \in {"idle", "scheduled", "running"}
      BY <3>1 DEF FuturesInv, InvWith, Shaped
    <3>3. FuturesInv' /\ \A f \in Ids : Outcome(f)' = Outcome(f)
      BY <2>2, <3>1, <3>2, <1>1, <1>3, SameKeeps
    <3> QED
      BY <3>3, <1>2, NoneSettled
  <2> QED
    BY <1>1, <2>1, <2>2
<1> QED
  BY <1>1, <1>2, <1>7, SettlesIs

(* What is under way may return, and settles its result. *)
LEMMA Returns ==
  ASSUME FuturesInv, Top("in"), heard' = heard
  PROVE  LET l == stack[1].of
         IN  /\ l \in Ids /\ heard[l] \in Outcomes
             /\ InvWith(heard', Tail(stack), tasks, urgent)
             /\ Settleable(status, source, heard', Tail(stack), tasks, l) /\ Ripe(heard', l)
<1> DEFINE l == stack[1].of
<1>1. /\ Waiting(status, Roots, listeners, source, heard, stack, tasks)
      /\ stack # <<>> /\ stack[1].at = "in"
  BY DEF FuturesInv, InvWith, Top
<1>2. /\ Waiting(status, Roots, listeners, source, heard, Tail(stack), tasks)
      /\ Settleable(status, source, heard, Tail(stack), tasks, stack[1].of)
      /\ source[stack[1].of] # 0 /\ heard[stack[1].of] \in Outcomes
  BY <1>1, Left
<1>3. l \in Ids
  BY <1>2 DEF Settleable
<1>4. InvWith(heard', Tail(stack), tasks, urgent)
  BY <1>2 DEF FuturesInv, InvWith
<1>5. Ripe(heard', l)
  BY <1>2, <1>3, <1>4, ListenersAreRipe
<1> QED
  BY <1>2, <1>3, <1>4, <1>5

(* A callback that returns or throws settles its result.                   *)
LEMMA ReturnKeeps ==
  ASSUME FuturesInv, NEW how \in Completed, Return(how)
  PROVE  FuturesInv' /\ P!PromisesNext
<1> DEFINE l == stack[1].of
           o == IF form[l] = "always" /\ how = "value" THEN heard[l] ELSE [how |-> how, by |-> l]
<1>1. Top("in") /\ Settled(l, o, Tail(stack), tasks, urgent) /\ heard' = heard /\ Sames
  BY DEF Return, Sames
<1>2. /\ l \in Ids /\ heard[l] \in Outcomes
      /\ InvWith(heard', Tail(stack), tasks, urgent)
      /\ Settleable(status, source, heard', Tail(stack), tasks, l) /\ Ripe(heard', l)
  BY <1>1, Returns
<1>3. o \in Outcomes
  BY <1>2 DEF Outcomes
<1> HIDE DEF l, o
<1>4. FuturesInv' /\ Settles
  BY <1>1, <1>2, <1>3, SettledKeeps
<1> QED
  BY <1>1, <1>4, SettlesIs

(* A callback may return a future, which its result follows.               *)
LEMMA ReturnFutureKeeps ==
  ASSUME FuturesInv, NEW g \in 1..made, ReturnFuture(g)
  PROVE  FuturesInv' /\ P!PromisesNext
<1> DEFINE l == stack[1].of
<1>1. Top("in") /\ Follow(l, g, Tail(stack), tasks, urgent) /\ heard' = heard /\ Sames
  BY DEF ReturnFuture, Sames
<1>2. /\ InvWith(heard', Tail(stack), tasks, urgent)
      /\ Settleable(status, source, heard', Tail(stack), tasks, l) /\ Ripe(heard', l)
  BY <1>1, Returns
<1>3. g \in Ids
  BY BoundsAssumption DEF FuturesInv, InvWith, Numbered, Ids
<1> HIDE DEF l
<1>4. FuturesInv' /\ Settles
  BY <1>1, <1>2, <1>3, FollowKeeps
<1> QED
  BY <1>1, <1>4, SettlesIs

(* The first task is taken. *)
LEMMA Takes ==
  ASSUME FuturesInv, stack = <<>>, tasks # <<>>, heard' = heard
  PROVE  /\ tasks[1].kind = "call" => InvWith(heard', <<Call(tasks[1].of)>>, Tail(tasks), 0)
         /\ tasks[1].kind # "call" => InvWith(heard', <<>>, Tail(tasks), 0)
         /\ tasks[1].kind \in Promising =>
              /\ Settleable(status, source, heard', <<>>, Tail(tasks), tasks[1].of)
              /\ tasks[1].arg \in Ids /\ Ripe(heard', tasks[1].of)
<1> DEFINE t == tasks[1]
           q == Tail(tasks)
<1>1. /\ Waiting(status, Roots, listeners, source, heard, <<>>, tasks)
      /\ tasks \in Seq(Microtasks)
  BY DEF FuturesInv, InvWith, Waiting, Shapes
<1>2. /\ t.kind = "call" => Waiting(status, Roots, listeners, source, heard, <<Call(t.of)>>, q)
      /\ t.kind # "call" => Waiting(status, Roots, listeners, source, heard, <<>>, q)
      /\ t.kind \in Promising =>
           Settleable(status, source, heard, <<>>, q, t.of) /\ t.arg \in Ids
  BY <1>1, TaskTaken
<1>3. Shaped(q, 0)
  <2>1. Len(q) \in Nat
    BY <1>1
  <2> HIDE DEF q
  <2> QED
    BY <2>1 DEF FuturesInv, InvWith, Shaped
<1>4. ASSUME t.kind \in Promising
      PROVE  Ripe(heard', t.of)
  <2>1. 1 \in 1..Len(tasks)
    BY <1>1
  <2>2. t.of \in Ids /\ status[t.of] = "pending"
    BY <2>1, <1>1, <1>4 DEF Waiting, TasksHold
  <2>3. t.of <= made
    BY <2>2 DEF FuturesInv, InvWith, Numbered, Ids
  <2>4. ASSUME NEW k \in Ids, gathers[k] = t.of
        PROVE  heard[k] # None
    <3>1. gathers[k] # 0
      BY <2>2, <2>4 DEF Ids
    <3> QED
      BY <3>1, <2>2, <2>4 DEF FuturesInv, InvWith, Gathering
  <2> QED
    BY <2>3, <2>4 DEF Ripe
<1> HIDE DEF q
<1>5. t.kind = "call" => InvWith(heard', <<Call(t.of)>>, q, 0)
  BY <1>2, <1>3 DEF FuturesInv, InvWith
<1>6. t.kind # "call" => InvWith(heard', <<>>, q, 0)
  BY <1>2, <1>3 DEF FuturesInv, InvWith
<1> QED
  BY <1>2, <1>4, <1>5, <1>6 DEF q

(* A turn starts, ends, calls or reports: nothing is settled.              *)
LEMMA TurnKeeps ==
  ASSUME FuturesInv, StartLoop \/ EndLoop \/ RunCall \/ Throw
  PROVE  FuturesInv' /\ Stutters
<1>1. /\ UNCHANGED <<status, content, listeners, heard>> /\ Sames
      /\ loop' \in {"idle", "scheduled", "running"}
  BY DEF StartLoop, EndLoop, RunCall, Throw, futureVars, Sames, FuturesInv, InvWith, Shaped
<1>2. InvWith(heard', stack', tasks', urgent')
  <2>1. CASE StartLoop \/ EndLoop
    <3>1. UNCHANGED <<tasks, stack, heard>> /\ urgent' \in {urgent, 0}
      BY <2>1 DEF StartLoop, EndLoop, futureVars
    <3>2. urgent' \in 0..Len(tasks)
      BY <3>1 DEF FuturesInv, InvWith, Shaped
    <3> QED
      BY <3>1, <3>2 DEF FuturesInv, InvWith, Shaped
  <2>2. CASE RunCall
    <3>1. /\ stack = <<>> /\ tasks # <<>> /\ tasks[1].kind = "call"
          /\ stack' = <<Call(tasks[1].of)>> /\ tasks' = Tail(tasks) /\ urgent' = 0
      BY <2>2 DEF RunCall, Due
    <3> QED
      BY <3>1, <1>1, Takes
  <2>3. CASE Throw
    <3>1. /\ stack = <<>> /\ tasks # <<>> /\ tasks[1].kind # "call"
          /\ stack' = <<>> /\ tasks' = Tail(tasks) /\ urgent' = 0
      BY <2>3 DEF Throw, Due
    <3> QED
      BY <3>1, <1>1, Takes
  <2> QED
    BY <2>1, <2>2, <2>3
<1>3. FuturesInv'
  BY <1>1, <1>2, SameKeeps
<1>4. [f \in Ids |-> Outcome(f)]' = [f \in Ids |-> Outcome(f)]
  BY <1>1, SameOutcomes
<1> QED
  BY <1>1, <1>3, <1>4 DEF Stutters, Sames

(* A task settles the future that was left to it.                          *)
LEMMA RunCompleteKeeps ==
  ASSUME FuturesInv, RunComplete
  PROVE  FuturesInv' /\ P!PromisesNext
<1> DEFINE t == tasks[1]
           o == [how |-> t.kind, by |-> t.arg]
<1>1. /\ stack = <<>> /\ tasks # <<>> /\ t.kind \in Completed
      /\ Settled(t.of, o, <<>>, Tail(tasks), 0) /\ heard' = heard /\ Sames
  BY DEF RunComplete, Due, Sames
<1>2. t.kind \in Promising /\ t.kind # "call"
  BY <1>1 DEF Promising, Completed
<1>3. /\ InvWith(heard', <<>>, Tail(tasks), 0)
      /\ Settleable(status, source, heard', <<>>, Tail(tasks), t.of)
      /\ t.arg \in Ids /\ Ripe(heard', t.of)
  BY <1>1, <1>2, Takes
<1>4. o \in Outcomes
  BY <1>1, <1>3 DEF Outcomes
<1> HIDE DEF t, o
<1>5. FuturesInv' /\ Settles
  BY <1>1, <1>3, <1>4, SettledKeeps
<1> QED
  BY <1>1, <1>5, SettlesIs

(* A task lets its future follow another.                                  *)
LEMMA RunFollowKeeps ==
  ASSUME FuturesInv, RunFollow
  PROVE  FuturesInv' /\ P!PromisesNext
<1> DEFINE t == tasks[1]
<1>1. /\ stack = <<>> /\ tasks # <<>> /\ t.kind = "follow"
      /\ Follow(t.of, t.arg, <<>>, Tail(tasks), 0) /\ heard' = heard /\ Sames
  BY DEF RunFollow, Due, Sames
<1>2. t.kind \in Promising /\ t.kind # "call"
  BY <1>1 DEF Promising
<1>3. /\ InvWith(heard', <<>>, Tail(tasks), 0)
      /\ Settleable(status, source, heard', <<>>, Tail(tasks), t.of)
      /\ t.arg \in Ids /\ Ripe(heard', t.of)
  BY <1>1, <1>2, Takes
<1> HIDE DEF t
<1>4. FuturesInv' /\ Settles
  BY <1>1, <1>3, FollowKeeps
<1> QED
  BY <1>1, <1>4, SettlesIs

-----------------------------------------------------------------------------
(* The theorems *)

Refines == P!PromisesNext \/ Stutters

(* Every step keeps the invariant, and is a step of Promises or changes    *)
(* nothing of it.                                                          *)
LEMMA NextKeeps ==
  ASSUME FuturesInv, Next
  PROVE  FuturesInv' /\ Refines
<1>1. CASE New
  BY <1>1, NewKeeps DEF Refines
<1>2. CASE \E f \in 1..made, how \in Forms : Then(f, how)
  BY <1>2, ThenKeeps DEF Refines
<1>3. CASE \E f, g \in 1..made : WaitAll(f, g)
  BY <1>3, WaitAllKeeps DEF Refines
<1>4. CASE \E f \in 1..made :
             \/ \E how \in Completed : Complete(f, how) \/ CompleteLater(f, how)
             \/ \E g \in 1..made : CompleteWith(f, g) \/ CompleteWithLater(f, g)
  BY <1>4, CompletionKeeps DEF Refines
<1>5. CASE PassOn
  BY <1>5, PassOnKeeps DEF Refines
<1>6. CASE Callback
  BY <1>6, CallbackKeeps DEF Refines
<1>7. CASE Gather
  BY <1>7, GatherKeeps DEF Refines
<1>8. CASE \E how \in Completed : Return(how)
  BY <1>8, ReturnKeeps DEF Refines
<1>9. CASE \E g \in 1..made : ReturnFuture(g)
  BY <1>9, ReturnFutureKeeps DEF Refines
<1>10. CASE StartLoop \/ EndLoop \/ RunCall \/ Throw
  BY <1>10, TurnKeeps DEF Refines
<1>11. CASE RunComplete
  BY <1>11, RunCompleteKeeps DEF Refines
<1>12. CASE RunFollow
  BY <1>12, RunFollowKeeps DEF Refines
<1>13. UserStep => \/ New
                   \/ \E f \in 1..made, how \in Forms : Then(f, how)
                   \/ \E f, g \in 1..made : WaitAll(f, g)
                   \/ \E f \in 1..made :
                        \/ \E how \in Completed : Complete(f, how) \/ CompleteLater(f, how)
                        \/ \E g \in 1..made : CompleteWith(f, g) \/ CompleteWithLater(f, g)
  BY DEF UserStep
<1> QED
  BY <1>1, <1>2, <1>3, <1>4, <1>5, <1>6, <1>7, <1>8, <1>9, <1>10, <1>11, <1>12, <1>13
  DEF Next, CallStep, LoopStep

(* So does a step that changes nothing.                                    *)
LEMMA StutterKeeps ==
  ASSUME FuturesInv, UNCHANGED vars
  PROVE  FuturesInv' /\ Refines
<1>1. /\ UNCHANGED <<status, content, listeners, heard, stack, tasks, urgent, loop>> /\ Sames
  BY DEF vars, futureVars, loopVars, Sames
<1>2. InvWith(heard', stack', tasks', urgent') /\ loop' \in {"idle", "scheduled", "running"}
  BY <1>1 DEF FuturesInv, InvWith, Shaped
<1>3. FuturesInv'
  BY <1>1, <1>2, SameKeeps
<1>4. [f \in Ids |-> Outcome(f)]' = [f \in Ids |-> Outcome(f)]
  BY <1>1, SameOutcomes
<1> QED
  BY <1>1, <1>3, <1>4 DEF Refines, Stutters, Sames

(* Whatever the callbacks do and however the calls, tasks and turns of the *)
(* loop interleave: a listener that has not been told waits in one place,  *)
(* behind those registered before it on the same future, and no future is  *)
(* promised its outcome by two.                                            *)
THEOREM FuturesInvariant == Spec => []FuturesInv
<1>1. FuturesInit => FuturesInv
  BY InitHolds
<1>2. FuturesInv /\ [Next]_vars => FuturesInv'
  BY NextKeeps, StutterKeeps
<1> QED
  BY <1>1, <1>2, PTL DEF Spec

(* The futures of the worker's runtime (_Future, _Future__propagate-       *)
(* ToListeners) keep what Promises says: they are settled once, and what   *)
(* is registered hears its future's outcome once, in the order of          *)
(* registration and before its own result is settled.                      *)
THEOREM FuturesKeepPromises == Spec => Implements
<1>1. FuturesInit => P!PromisesInit
  BY InitHolds
<1>2. FuturesInv /\ [Next]_vars => [P!PromisesNext]_(P!promiseVars)
  <2>1. Stutters => UNCHANGED P!promiseVars
    BY DEF Stutters, P!promiseVars
  <2> QED
    BY <2>1, NextKeeps, StutterKeeps DEF Refines
<1> QED
  BY <1>1, <1>2, FuturesInvariant, PTL DEF Spec, Implements, P!PromisesSpec
=============================================================================
