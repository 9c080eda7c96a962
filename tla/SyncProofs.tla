----------------------------- MODULE SyncProofs -----------------------------
(* Theorems about Sync for every number of devices, windows and operations *)
(* and every value of the limits.                                          *)
EXTENDS SyncImplements, FiniteSetTheorems, TLAPS

-----------------------------------------------------------------------------
(* Ranks: the numbers Insert and Append give to new rows *)

(* The rows of S up to x are a part of S that holds x. *)
LEMMA RankRange ==
  ASSUME NEW S, IsFiniteSet(S), NEW key, \A x \in S : key[x] \in Nat, NEW x \in S
  PROVE  Rank(S, key, x) \in 1 .. Cardinality(S)
<1> DEFINE upTo == {y \in S : key[y] <= key[x]}
<1>1. upTo \in SUBSET S /\ x \in upTo
  OBVIOUS
<1>2. IsFiniteSet(upTo) /\ Cardinality(upTo) <= Cardinality(S)
  BY <1>1, FS_Subset
<1>3. Cardinality(upTo) \in Nat /\ Cardinality(S) \in Nat
  BY <1>2, FS_CardinalityType
<1>4. Cardinality(upTo) # 0
  BY <1>1, <1>2, FS_EmptySet
<1> QED
  BY <1>2, <1>3, <1>4 DEF Rank

(* A smaller key has a smaller rank. *)
LEMMA RankStrict ==
  ASSUME NEW S, IsFiniteSet(S), NEW key, \A x \in S : key[x] \in Nat,
         NEW x \in S, NEW y \in S, key[x] < key[y]
  PROVE  Rank(S, key, x) < Rank(S, key, y)
<1> DEFINE upToX == {z \in S : key[z] <= key[x]}
           upToY == {z \in S : key[z] <= key[y]}
<1>1. upToX \in SUBSET upToY /\ upToY \in SUBSET S
  OBVIOUS
<1>2. y \in upToY /\ y \notin upToX
  OBVIOUS
<1>3. IsFiniteSet(upToY) /\ IsFiniteSet(upToX)
  BY <1>1, FS_Subset
<1>4. Cardinality(upToX) <= Cardinality(upToY) /\ Cardinality(upToY) # Cardinality(upToX)
  <2>1. upToY # upToX
    BY <1>2
  <2> QED
    BY <1>1, <1>3, <2>1, FS_Subset
<1>5. Cardinality(upToX) \in Nat /\ Cardinality(upToY) \in Nat
  BY <1>3, FS_CardinalityType
<1> QED
  BY <1>4, <1>5 DEF Rank

(* With distinct keys the ranks are 1, 2, ... up to the size of S. *)
LEMMA RankOnto ==
  ASSUME NEW S, IsFiniteSet(S), NEW key, \A x \in S : key[x] \in Nat,
         \A x, y \in S : key[x] = key[y] => x = y
  PROVE  /\ {Rank(S, key, x) : x \in S} = 1 .. Cardinality(S)
         /\ \A x, y \in S : Rank(S, key, x) = Rank(S, key, y) => x = y
<1> DEFINE n == Cardinality(S)
           f == [x \in S |-> Rank(S, key, x)]
<1>1. n \in Nat
  BY FS_CardinalityType
<1>2. \A x \in S : Rank(S, key, x) \in 1 .. n
  BY RankRange
<1>3. \A x, y \in S : Rank(S, key, x) = Rank(S, key, y) => x = y
  <2> SUFFICES ASSUME NEW x \in S, NEW y \in S, x # y
               PROVE  Rank(S, key, x) # Rank(S, key, y)
    OBVIOUS
  <2>1. key[x] < key[y] \/ key[y] < key[x]
    OBVIOUS
  <2>2. Rank(S, key, x) \in Nat /\ Rank(S, key, y) \in Nat
    BY <1>1, <1>2
  <2>3. Rank(S, key, x) < Rank(S, key, y) \/ Rank(S, key, y) < Rank(S, key, x)
    BY <2>1, RankStrict
  <2> QED
    BY <2>2, <2>3
<1>4. f \in Injection(S, 1 .. n)
  BY <1>2, <1>3 DEF Injection, IsInjective
<1>5. IsFiniteSet(1 .. n) /\ Cardinality(1 .. n) = n
  BY <1>1, FS_Interval
<1>6. f \in Surjection(S, 1 .. n)
  BY <1>4, <1>5, FS_Injection
<1>7. \A k \in 1 .. n : \E x \in S : Rank(S, key, x) = k
  BY <1>6 DEF Surjection
<1> QED
  BY <1>2, <1>3, <1>7

(* A finite set with distinct keys has an element whose key is greatest. *)
LEMMA LastOne ==
  ASSUME NEW S, IsFiniteSet(S), S # {}, NEW key, \A x \in S : key[x] \in Nat,
         \A x, y \in S : key[x] = key[y] => x = y
  PROVE  \E x \in S : \A y \in S : key[y] <= key[x]
<1>1. Cardinality(S) \in Nat /\ Cardinality(S) # 0
  BY FS_CardinalityType, FS_EmptySet
<1>2. {Rank(S, key, x) : x \in S} = 1 .. Cardinality(S)
  BY RankOnto
<1>3. PICK x \in S : Rank(S, key, x) = Cardinality(S)
  BY <1>1, <1>2
<1> DEFINE upTo == {y \in S : key[y] <= key[x]}
<1>4. upTo \in SUBSET S /\ Cardinality(upTo) = Cardinality(S)
  BY <1>3 DEF Rank
<1>5. upTo = S
  BY <1>4, FS_Subset
<1> QED
  BY <1>5

(* The rows S have the keys 1, 2, ... n, each once: the server's log.      *)
Numbered(S, key, n) ==
  /\ {key[o] : o \in S} = 1 .. n
  /\ \A x, y \in S : key[x] = key[y] => x = y

(* The rows S have different keys, of the n that were used up: an          *)
(* AUTOINCREMENT table.                                                    *)
Keyed(S, key, n) ==
  /\ \A o \in S : key[o] \in 1 .. n
  /\ \A x, y \in S : key[x] = key[y] => x = y

(* tab2 extends a table tab of n rows: the rows of new, in the order of    *)
(* key, follow those of old.                                               *)
Extends(old, tab, n, new, key, tab2) ==
  /\ n \in Nat /\ Numbered(old, tab, n)
  /\ old \cap new = {} /\ IsFiniteSet(new)
  /\ \A x \in new : key[x] \in Nat
  /\ \A x, y \in new : key[x] = key[y] => x = y
  /\ \A x \in old : tab2[x] = tab[x]
  /\ \A x \in new : tab2[x] = n + Rank(new, key, x)

(* A numbered table stays numbered when it is extended. *)
LEMMA Numbering ==
  ASSUME NEW old, NEW tab, NEW n, NEW new, NEW key, NEW tab2,
         Extends(old, tab, n, new, key, tab2)
  PROVE  /\ Numbered(old \cup new, tab2, n + Cardinality(new))
         /\ \A x \in new : n < tab2[x]
         /\ \A x \in new, y \in old : tab2[y] < tab2[x]
         /\ \A x, y \in new : key[y] < key[x] => tab2[y] < tab2[x]
<1> USE DEF Extends
<1> DEFINE m == Cardinality(new)
<1>1. m \in Nat
  BY FS_CardinalityType
<1>2. \A x \in new : Rank(new, key, x) \in 1 .. m
  BY RankRange
<1>3. \A x \in old : tab[x] \in 1 .. n
  BY DEF Numbered
<1>4. \A k \in 1 .. n : \E x \in old : tab[x] = k
  BY DEF Numbered
<1>5. \A k \in 1 .. m : \E x \in new : Rank(new, key, x) = k
  BY RankOnto
<1>6. \A x, y \in new : Rank(new, key, x) = Rank(new, key, y) => x = y
  BY RankOnto
<1> HIDE DEF m
<1>7. ASSUME NEW x \in new, NEW y \in old
      PROVE  tab2[y] < tab2[x]
  BY <1>1, <1>2, <1>3
<1>8. ASSUME NEW x \in new, NEW y \in new, key[y] < key[x]
      PROVE  tab2[y] < tab2[x]
  <2>1. Rank(new, key, y) < Rank(new, key, x)
    BY <1>8, RankStrict
  <2> QED
    BY <2>1, <1>1, <1>2
<1>9. {tab2[x] : x \in old \cup new} = 1 .. n + m
  <2>1. \A x \in old \cup new : tab2[x] \in 1 .. n + m
    BY <1>1, <1>2, <1>3
  <2>2. ASSUME NEW k \in 1 .. n + m
        PROVE  \E x \in old \cup new : tab2[x] = k
    <3>1. CASE k <= n
      BY <1>4, <3>1
    <3>2. CASE k > n
      <4>1. k - n \in 1 .. m
        BY <1>1, <3>2
      <4>2. PICK x \in new : Rank(new, key, x) = k - n
        BY <4>1, <1>5
      <4> QED
        BY <4>2, <1>1
    <3> QED
      BY <1>1, <3>1, <3>2
  <2> QED
    BY <2>1, <2>2
<1>10. ASSUME NEW x \in old \cup new, NEW y \in old \cup new, tab2[x] = tab2[y]
       PROVE  x = y
  <2>1. CASE x \in old /\ y \in old
    BY <2>1, <1>10 DEF Numbered
  <2>2. CASE x \in new /\ y \in new
    <3>1. Rank(new, key, x) = Rank(new, key, y)
      BY <2>2, <1>10, <1>1, <1>2
    <3> QED
      BY <2>2, <3>1, <1>6
  <2>3. tab2[x] \in Nat /\ tab2[y] \in Nat
    BY <1>1, <1>2, <1>3
  <2>4. ~(x \in old /\ y \in new) /\ ~(x \in new /\ y \in old)
    BY <1>7, <1>10, <2>3
  <2> QED
    BY <2>1, <2>2, <2>4
<1>11. \A x \in new : n < tab2[x]
  BY <1>1, <1>2
<1> QED
  BY <1>7, <1>8, <1>9, <1>10, <1>11 DEF Numbered, m

(* Of the operations S, those that a table lacks take keys in the order of *)
(* key; the others use up theirs for nothing.                              *)
Gains(old, tab, n, S, key, tab2) ==
  /\ n \in Nat /\ Keyed(old, tab, n)
  /\ IsFiniteSet(S)
  /\ \A x \in S : key[x] \in Nat
  /\ \A x, y \in S : key[x] = key[y] => x = y
  /\ \A x \in old : tab2[x] = tab[x]
  /\ \A x \in S \ old : tab2[x] = n + Rank(S, key, x)

(* The rows keep different keys, and the new ones follow the old ones.     *)
LEMMA Keying ==
  ASSUME NEW old, NEW tab, NEW n, NEW S, NEW key, NEW tab2,
         Gains(old, tab, n, S, key, tab2)
  PROVE  /\ Keyed(old \cup S, tab2, n + Cardinality(S))
         /\ \A x \in S \ old, y \in old : tab2[y] < tab2[x]
         /\ \A x, y \in S \ old : key[y] < key[x] => tab2[y] < tab2[x]
<1> USE DEF Gains
<1> DEFINE m == Cardinality(S)
           new == S \ old
<1>1. m \in Nat
  BY FS_CardinalityType
<1>2. \A x \in new : Rank(S, key, x) \in 1 .. m
  BY RankRange
<1>3. \A x \in old : tab2[x] \in 1 .. n /\ tab2[x] = tab[x]
  BY DEF Keyed
<1>4. \A x, y \in new : Rank(S, key, x) = Rank(S, key, y) => x = y
  BY RankOnto
<1>5. \A x \in new : tab2[x] = n + Rank(S, key, x)
  OBVIOUS
<1> HIDE DEF m
<1>6. \A x \in new : tab2[x] \in n + 1 .. n + m
  BY <1>1, <1>2, <1>5
<1>7. ASSUME NEW x \in new, NEW y \in old
      PROVE  tab2[y] < tab2[x]
  BY <1>1, <1>3, <1>6
<1>8. ASSUME NEW x \in new, NEW y \in new, key[y] < key[x]
      PROVE  tab2[y] < tab2[x]
  <2>1. Rank(S, key, y) < Rank(S, key, x)
    BY <1>8, RankStrict
  <2> QED
    BY <2>1, <1>1, <1>2, <1>5
<1>9. \A x \in old \cup new : tab2[x] \in 1 .. n + m
  BY <1>1, <1>3, <1>6
<1>10. ASSUME NEW x \in old \cup new, NEW y \in old \cup new, tab2[x] = tab2[y]
       PROVE  x = y
  <2>1. CASE x \in old /\ y \in old
    BY <2>1, <1>3, <1>10 DEF Keyed
  <2>2. CASE x \in new /\ y \in new
    <3>1. Rank(S, key, x) = Rank(S, key, y)
      BY <2>2, <1>10, <1>1, <1>2, <1>5
    <3> QED
      BY <2>2, <3>1, <1>4
  <2>3. tab2[x] \in Nat /\ tab2[y] \in Nat
    BY <1>1, <1>9
  <2>4. ~(x \in old /\ y \in new) /\ ~(x \in new /\ y \in old)
    BY <1>7, <1>10, <2>3
  <2> QED
    BY <2>1, <2>2, <2>4
<1>11. old \cup S = old \cup new
  OBVIOUS
<1> QED
  BY <1>7, <1>8, <1>9, <1>10, <1>11 DEF Keyed, m

-----------------------------------------------------------------------------
(* An insertion of operations with distinct keys. *)
Inserts(d, S, key) ==
  /\ S \subseteq Ops
  /\ \A x \in S : key[x] \in Nat
  /\ \A x, y \in S : key[x] = key[y] => x = y
  /\ Insert(d, S, key)

(* What Insert does to the tables: device d gains the rows of S it lacks,  *)
(* after its own and in the order of key, and no other row moves.          *)
LEMMA InsertFacts ==
  ASSUME TypeOK, NEW d \in Devices, NEW S, NEW key, Inserts(d, S, key),
         Keyed(Local(d), position[d], autoinc[d])
  PROVE  /\ position' \in [Devices -> [Ops -> Nat]]
         /\ autoinc' \in [Devices -> Nat]
         /\ Rows(position'[d]) = Local(d) \cup S
         /\ \A o \in Local(d) : position'[d][o] = position[d][o]
         /\ \A o \in S \ Local(d), p \in Local(d) : position'[d][p] < position'[d][o]
         /\ \A o, p \in S \ Local(d) : key[p] < key[o] => position'[d][p] < position'[d][o]
         /\ Keyed(Rows(position'[d]), position'[d], autoinc'[d])
         /\ \A c \in Devices \ {d} : position'[c] = position[c] /\ autoinc'[c] = autoinc[c]
<1> USE DEF Inserts
<1> DEFINE new == S \ Local(d)
           m == Cardinality(S)
<1>1. IsFiniteSet(S) /\ new \in SUBSET Ops
  BY OpsAssumption, FS_Subset
<1>2. m \in Nat
  BY <1>1, FS_CardinalityType
<1>3. \A x \in new : Rank(S, key, x) \in 1 .. m
  BY <1>1, RankRange
<1>4. /\ position' = [position EXCEPT ![d] =
           [o \in Ops |-> IF o \in new THEN autoinc[d] + Rank(S, key, o)
                          ELSE position[d][o]]]
      /\ autoinc' = [autoinc EXCEPT ![d] = @ + m]
  BY DEF Insert
<1>5. autoinc[d] \in Nat /\ position[d] \in [Ops -> Nat]
  BY DEF TypeOK
<1> HIDE DEF m, new
<1>6. /\ position'[d] = [o \in Ops |-> IF o \in new THEN autoinc[d] + Rank(S, key, o)
                                     ELSE position[d][o]]
      /\ autoinc'[d] = autoinc[d] + m
      /\ \A c \in Devices \ {d} : position'[c] = position[c] /\ autoinc'[c] = autoinc[c]
  BY <1>4 DEF TypeOK
<1>7. position'[d] \in [Ops -> Nat] /\ autoinc'[d] \in Nat
  BY <1>2, <1>3, <1>5, <1>6
<1>8. position' \in [Devices -> [Ops -> Nat]] /\ autoinc' \in [Devices -> Nat]
  <2>1. \A c \in Devices : position'[c] \in [Ops -> Nat] /\ autoinc'[c] \in Nat
    BY <1>6, <1>7 DEF TypeOK
  <2> QED
    BY <1>4, <2>1 DEF TypeOK
<1>9. \A o \in new : position'[d][o] = autoinc[d] + Rank(S, key, o)
  BY <1>1, <1>6
<1>10. \A o \in Local(d) : position'[d][o] = position[d][o]
  BY <1>6 DEF new, Local, Rows
<1>11. Rows(position'[d]) = Local(d) \cup new
  <2>1. \A o \in new : position'[d][o] # 0
    BY <1>9, <1>3, <1>2, <1>5
  <2>2. \A o \in Ops \ (new \cup Local(d)) : position'[d][o] = 0
    BY <1>6 DEF Local, Rows
  <2> QED
    BY <1>1, <1>10, <2>1, <2>2 DEF Local, Rows
<1>12. Local(d) \cap new = {} /\ Local(d) \cup new = Local(d) \cup S /\ new \subseteq S
  BY DEF new
<1>13. /\ Keyed(Local(d) \cup S, position'[d], autoinc[d] + m)
       /\ \A o \in new, p \in Local(d) : position'[d][p] < position'[d][o]
       /\ \A o, p \in new : key[p] < key[o] => position'[d][p] < position'[d][o]
  <2>1. Gains(Local(d), position[d], autoinc[d], S, key, position'[d])
    BY <1>1, <1>5, <1>9, <1>10 DEF Gains, new
  <2> QED
    BY <2>1, Keying DEF m, new
<1>14. Keyed(Rows(position'[d]), position'[d], autoinc'[d])
  BY <1>6, <1>11, <1>12, <1>13
<1> QED
  BY <1>6, <1>8, <1>10, <1>11, <1>12, <1>13, <1>14 DEF new

(* What Append does to the log: it gains the operations of S it lacks,     *)
(* after its own and in the order of d's table, and no other one moves.    *)
LEMMA AppendFacts ==
  ASSUME TypeOK, Numbered(Stored, sequence, head),
         NEW d \in Devices, NEW S \in SUBSET Local(d),
         Keyed(Local(d), position[d], autoinc[d]),
         Append(S, d)
  PROVE  /\ sequence' \in [Ops -> Nat]
         /\ head' \in Nat /\ head <= head'
         /\ Rows(sequence') = Stored \cup S
         /\ \A o \in Stored : sequence'[o] = sequence[o]
         /\ \A o \in S \ Stored : head < sequence'[o]
         /\ \A o \in S \ Stored, p \in Stored : sequence'[p] < sequence'[o]
         /\ \A o, p \in S \ Stored :
              position[d][p] < position[d][o] => sequence'[p] < sequence'[o]
         /\ Numbered(Rows(sequence'), sequence', head')
<1> DEFINE new == S \ Stored
           m == Cardinality(new)
<1>1. IsFiniteSet(new) /\ new \in SUBSET Ops
  BY OpsAssumption, FS_Subset DEF Local, Rows
<1>2. m \in Nat
  BY <1>1, FS_CardinalityType
<1>3. \A x \in new : position[d][x] \in Nat
  BY <1>1 DEF TypeOK
<1>4. \A x \in new : Rank(new, position[d], x) \in 1 .. m
  BY <1>1, <1>3, RankRange
<1>5. /\ sequence' = [o \in Ops |-> IF o \in new THEN head + Rank(new, position[d], o)
                                    ELSE sequence[o]]
      /\ head' = head + m
  BY DEF Append
<1>6. head \in Nat /\ sequence \in [Ops -> Nat]
  BY DEF TypeOK
<1>7. Stored \cap new = {} /\ Stored \cup new = Stored \cup S /\ new \subseteq S
  OBVIOUS
<1>8. \A x, y \in new : position[d][x] = position[d][y] => x = y
  BY DEF Keyed
<1> HIDE DEF m, new
<1>9. sequence' \in [Ops -> Nat] /\ head' \in Nat /\ head <= head'
  BY <1>2, <1>4, <1>5, <1>6
<1>10. \A o \in new : sequence'[o] = head + Rank(new, position[d], o)
  BY <1>1, <1>5
<1>11. \A o \in Stored : sequence'[o] = sequence[o]
  BY <1>5, <1>7 DEF Stored, Rows
<1>12. Rows(sequence') = Stored \cup new
  <2>1. \A o \in new : sequence'[o] # 0
    BY <1>4, <1>6, <1>10
  <2>2. \A o \in Ops \ (new \cup Stored) : sequence'[o] = 0
    BY <1>5 DEF Stored, Rows
  <2> QED
    BY <1>1, <1>11, <2>1, <2>2 DEF Stored, Rows
<1>13. Extends(Stored, sequence, head, new, position[d], sequence')
  BY <1>1, <1>3, <1>6, <1>7, <1>8, <1>10, <1>11 DEF Extends
<1>14. /\ Numbered(Stored \cup new, sequence', head + m)
       /\ \A x \in new : head < sequence'[x]
       /\ \A x \in new, y \in Stored : sequence'[y] < sequence'[x]
       /\ \A x, y \in new : position[d][y] < position[d][x] => sequence'[y] < sequence'[x]
  BY <1>13, Numbering DEF m
<1>15. Numbered(Rows(sequence'), sequence', head')
  BY <1>5, <1>12, <1>14
<1> QED
  BY <1>7, <1>9, <1>11, <1>12, <1>14, <1>15 DEF new

-----------------------------------------------------------------------------
(* The inductive invariant *)

(* Where the rows come from: the log and the outboxes hold operations that *)
(* some device has; demo operations and identifiers nobody has used have   *)
(* no parents; no operation has too many.                                  *)
Origins ==
  /\ Stored \subseteq Written
  /\ \A d \in Devices : outbox[d] \subseteq Local(d)
  /\ \A o \in DemoOps \cup Unused : parents[o] = {}
  /\ \A o \in Ops : Cardinality(parents[o]) <= MaxParents

(* The rows of a device have different keys, of those it has used up.      *)
KeysAreUnique == \A d \in Devices : Keyed(Local(d), position[d], autoinc[d])

(* What holds of tables and log. KeysAreUnique and Origins are what the    *)
(* checked invariants need to be inductive.                                *)
DataInv ==
  /\ GapFree /\ KeysAreUnique /\ CausalOrder
  /\ AckedIsStored /\ NothingSkipped /\ Origins

(* A batch on its way: rows of its device that the log can take. *)
Batch(S, d) ==
  /\ S \subseteq Local(d) /\ S # {}
  /\ Cardinality(S) <= PendingLimit
  /\ Causal(S, position[d], Stored)

(* What an engine waiting for the server relies on when it is answered. *)
Flight(e) ==
  /\ pc[e] = "pushing" => Batch(sent[e], StoreOf[e])
  /\ pc[e] = "pushed" => sent[e] \subseteq Stored
  /\ pc[e] \in {"pulling", "page"} => page[e].after <= cursor[StoreOf[e]]
  /\ pc[e] = "page" => page[e].after <= page[e].end /\ page[e].end <= head

(* The same for all engines, and for the pushes nobody waits for. *)
FlightInv ==
  /\ \A e \in Engines : Flight(e)
  /\ \A m \in stray : Batch(m.ops, m.store)

(* The inductive invariant. *)
IInv == TypeOK /\ DataInv /\ FlightInv

(* What no step takes back: rows, log entries, the parents of an operation *)
(* that exists, and the two counters that readers depend on.               *)
Monotone ==
  /\ \A d \in Devices :
       /\ \A o \in Local(d) : position'[d][o] = position[d][o]
       /\ cursor[d] <= cursor'[d]
  /\ \A o \in Stored : sequence'[o] = sequence[o]
  /\ \A o \in Written : parents'[o] = parents[o]
  /\ head <= head'

(* The empty stores and the empty log satisfy the invariant. *)
LEMMA InitIInv == Init => IInv
<1> SUFFICES ASSUME Init PROVE IInv
  OBVIOUS
<1> USE DEF Init
<1>1. TypeOK
  BY StoreAssumption DEF TypeOK, Places, NoPage
<1>2. Stored = {} /\ \A d \in Devices : Local(d) = {}
  BY DEF Stored, Local, Rows
<1>3. Written = {}
  BY <1>2 DEF Written
<1>4. GapFree /\ KeysAreUnique
  BY <1>2 DEF GapFree, KeysAreUnique, Keyed
<1>5. CausalOrder /\ AckedIsStored /\ NothingSkipped
  BY <1>2 DEF CausalOrder, Ordered, AckedIsStored, NothingSkipped
<1>6. Origins
  BY <1>2, <1>3, OpsAssumption, LimitAssumption, FS_EmptySet DEF Origins, Unused
<1>7. FlightInv
  BY DEF FlightInv, Flight
<1> QED
  BY <1>1, <1>4, <1>5, <1>6, <1>7 DEF IInv, DataInv

(* A step of a device's tables: d gains the rows of S, whose parents are   *)
(* rows it has or earlier rows of S; what it no longer queues is in the    *)
(* log; its cursor may advance to a place whose entries it now holds.      *)
TableStep(d, S, key) ==
  /\ Inserts(d, S, key)
  /\ parents' \in [Ops -> SUBSET Ops]
  /\ \A o \in Written : parents'[o] = parents[o]
  /\ \A o \in S \ Local(d) : \A p \in parents'[o] :
       SameSlot(p, o) /\ (p \in Local(d) \/ (p \in S /\ key[p] < key[o]))
  /\ \A o \in DemoOps \cup Unused : o \notin S => parents'[o] = {}
  /\ \A o \in DemoOps : parents'[o] = {}
  /\ \A o \in Ops : Cardinality(parents'[o]) <= MaxParents
  /\ outbox' \in [Devices -> SUBSET Ops]
  /\ outbox'[d] \subseteq Local(d) \cup S
  /\ (Local(d) \cup S) \ outbox'[d] \subseteq Stored
  /\ \A c \in Devices \ {d} : outbox'[c] = outbox[c] /\ cursor'[c] = cursor[c]
  /\ cursor' \in [Devices -> Nat]
  /\ cursor[d] <= cursor'[d] /\ cursor'[d] <= head
  /\ {o \in Stored : sequence[o] <= cursor'[d]} \subseteq Local(d) \cup S
  /\ UNCHANGED server

(* A step of a table keeps what holds of tables and log, and takes nothing  *)
(* back.                                                                    *)
LEMMA TableStepInv ==
  ASSUME TypeOK, DataInv, NEW d \in Devices, NEW S, NEW key, TableStep(d, S, key)
  PROVE  /\ DataInv' /\ Monotone
         /\ position' \in [Devices -> [Ops -> Nat]]
         /\ autoinc' \in [Devices -> Nat]
<1>1. Keyed(Local(d), position[d], autoinc[d])
  BY DEF DataInv, KeysAreUnique
<1>2. Inserts(d, S, key) /\ S \subseteq Ops
  BY DEF TableStep, Inserts
<1>3. /\ position' \in [Devices -> [Ops -> Nat]]
      /\ autoinc' \in [Devices -> Nat]
      /\ Local(d)' = Local(d) \cup S
      /\ \A o \in Local(d) : position'[d][o] = position[d][o]
      /\ \A o \in S \ Local(d), p \in Local(d) : position'[d][p] < position'[d][o]
      /\ \A o, p \in S \ Local(d) : key[p] < key[o] => position'[d][p] < position'[d][o]
      /\ Keyed(Rows(position'[d]), position'[d], autoinc'[d])
  BY <1>1, <1>2, InsertFacts DEF Local
<1>4. \A c \in Devices \ {d} : /\ position'[c] = position[c] /\ autoinc'[c] = autoinc[c]
                              /\ Local(c)' = Local(c)
  <2> TAKE c \in Devices \ {d}
  <2>1. position'[c] = position[c] /\ autoinc'[c] = autoinc[c]
    BY <1>1, <1>2, InsertFacts
  <2> QED
    BY <2>1 DEF Local
<1>5. Stored' = Stored /\ sequence' = sequence /\ head' = head
  <2>1. UNCHANGED server
    BY DEF TableStep
  <2> QED
    BY <2>1 DEF server, Stored
<1>6. Written' = Written \cup S /\ \A c \in Devices : Local(c) \subseteq Written
  <2>1. \A c \in Devices \ {d} : Rows(position'[c]) = Rows(position[c])
    BY <1>4
  <2>2. Rows(position'[d]) = Rows(position[d]) \cup S
    BY <1>3 DEF Local
  <2> QED
    BY <2>1, <2>2 DEF Written, Local
<1>7. Monotone
  <2>1. \A c \in Devices : cursor[c] <= cursor'[c]
    <3>1. cursor[d] <= cursor'[d] /\ \A c \in Devices \ {d} : cursor'[c] = cursor[c]
      BY DEF TableStep
    <3>2. \A c \in Devices : cursor[c] \in Nat
      BY DEF TypeOK
    <3> QED
      BY <3>1, <3>2
  <2>2. \A c \in Devices : \A o \in Local(c) : position'[c][o] = position[c][o]
    BY <1>3, <1>4
  <2> QED
    <3>1. \A o \in Written : parents'[o] = parents[o]
      BY DEF TableStep
    <3>2. head \in Nat
      BY DEF TypeOK
    <3> QED
      BY <1>5, <2>1, <2>2, <3>1, <3>2 DEF Monotone
<1>8. GapFree' /\ KeysAreUnique'
  <2>1. \A c \in Devices \ {d} : Keyed(Rows(position'[c]), position'[c], autoinc'[c])
    BY <1>4 DEF DataInv, KeysAreUnique, Local
  <2>2. KeysAreUnique'
    BY <1>3, <2>1 DEF KeysAreUnique, Local
  <2> QED
    BY <1>5, <2>2 DEF DataInv, GapFree
<1>9. CausalOrder'
  <2>1. Ordered(Stored, sequence)'
    BY <1>5 DEF DataInv, CausalOrder, Ordered, Origins, TableStep
  <2>2. ASSUME NEW c \in Devices \ {d}
        PROVE  Ordered(Local(c), position[c])'
    BY <1>4, <1>6 DEF DataInv, CausalOrder, Ordered, TableStep
  <2>3. Ordered(Local(d), position[d])'
    <3> SUFFICES ASSUME NEW o \in Local(d) \cup S, NEW p \in parents'[o]
                 PROVE  SameSlot(p, o) /\ p \in Local(d) \cup S
                        /\ position'[d][p] < position'[d][o]
      BY <1>3 DEF Ordered
    <3>1. CASE o \in Local(d)
      <4>1. p \in parents[o]
        BY <3>1, <1>6 DEF TableStep
      <4>2. SameSlot(p, o) /\ p \in Local(d) /\ position[d][p] < position[d][o]
        BY <3>1, <4>1 DEF DataInv, CausalOrder, Ordered
      <4> QED
        BY <3>1, <4>2, <1>3
    <3>2. CASE o \in S \ Local(d)
      <4>1. SameSlot(p, o) /\ (p \in Local(d) \/ (p \in S /\ key[p] < key[o]))
        BY <3>2 DEF TableStep
      <4> QED
        BY <3>2, <4>1, <1>3
    <3> QED
      BY <3>1, <3>2
  <2> QED
    BY <2>1, <2>2, <2>3 DEF CausalOrder
<1>10. AckedIsStored'
  BY <1>3, <1>4, <1>5 DEF DataInv, AckedIsStored, TableStep
<1>11. NothingSkipped'
  BY <1>3, <1>4, <1>5 DEF DataInv, NothingSkipped, TableStep
<1>12. Origins'
  <2>1. \A o \in (DemoOps \cup Unused)' : parents'[o] = {}
    BY <1>6 DEF Unused, TableStep
  <2>2. \A c \in Devices : (outbox[c] \subseteq Local(c))'
    BY <1>3, <1>4 DEF DataInv, Origins, TableStep
  <2>3. Stored' \subseteq Written'
    BY <1>5, <1>6 DEF DataInv, Origins
  <2> QED
    BY <2>1, <2>2, <2>3 DEF Origins, TableStep
<1> QED
  BY <1>3, <1>7, <1>8, <1>9, <1>10, <1>11, <1>12 DEF DataInv

(* A step of the log: it gains the operations of S, a part of d's table    *)
(* that it can take; the devices do nothing.                               *)
LogStep(S, d) ==
  /\ S \subseteq Local(d)
  /\ Causal(S, position[d], Stored)
  /\ Append(S, d)
  /\ UNCHANGED device

(* A step of the log keeps what holds of tables and log, and takes nothing  *)
(* back.                                                                    *)
LEMMA LogStepInv ==
  ASSUME TypeOK, DataInv, NEW d \in Devices, NEW S, LogStep(S, d)
  PROVE  /\ DataInv' /\ Monotone
         /\ sequence' \in [Ops -> Nat] /\ head' \in Nat
         /\ Stored' = Stored \cup S
<1>1. S \in SUBSET Local(d) /\ Append(S, d)
  BY DEF LogStep
<1>2. Numbered(Stored, sequence, head) /\ Keyed(Local(d), position[d], autoinc[d])
  BY DEF DataInv, GapFree, Numbered, KeysAreUnique
<1>3. /\ sequence' \in [Ops -> Nat]
      /\ head' \in Nat /\ head <= head'
      /\ Rows(sequence') = Stored \cup S
      /\ \A o \in Stored : sequence'[o] = sequence[o]
      /\ \A o \in S \ Stored : head < sequence'[o]
      /\ \A o \in S \ Stored, p \in Stored : sequence'[p] < sequence'[o]
      /\ \A o, p \in S \ Stored :
           position[d][p] < position[d][o] => sequence'[p] < sequence'[o]
      /\ Numbered(Rows(sequence'), sequence', head')
  BY <1>1, <1>2, AppendFacts
<1>4. Stored' = Stored \cup S
  BY <1>3 DEF Stored
<1>5. /\ parents' = parents /\ position' = position /\ autoinc' = autoinc
      /\ outbox' = outbox /\ cursor' = cursor
  BY DEF LogStep, device
<1>6. (\A c \in Devices : Rows(position'[c]) = Local(c)) /\ Written' = Written
  BY <1>5 DEF Local, Written
<1>7. Monotone
  <2>1. \A c \in Devices : cursor[c] <= cursor'[c]
    BY <1>5 DEF TypeOK
  <2> QED
    BY <1>3, <1>5, <2>1 DEF Monotone
<1>8. GapFree' /\ KeysAreUnique'
  <2>1. GapFree'
    BY <1>3 DEF GapFree, Numbered, Stored
  <2>2. KeysAreUnique'
    BY <1>5, <1>6 DEF DataInv, KeysAreUnique, Local
  <2> QED
    BY <2>1, <2>2
<1>9. CausalOrder'
  <2>1. \A c \in Devices : Ordered(Local(c), position[c])'
    BY <1>5, <1>6 DEF DataInv, CausalOrder, Ordered, Local
  <2>2. ASSUME NEW o \in Stored \cup S, NEW p \in parents[o]
        PROVE  SameSlot(p, o) /\ p \in Stored \cup S /\ sequence'[p] < sequence'[o]
    <3>1. CASE o \in Stored
      <4>1. SameSlot(p, o) /\ p \in Stored /\ sequence[p] < sequence[o]
        BY <3>1 DEF DataInv, CausalOrder, Ordered
      <4> QED
        BY <3>1, <4>1, <1>3
    <3>2. CASE o \in S \ Stored
      <4>1. SameSlot(p, o) /\ (p \in Stored \/ (p \in S /\ position[d][p] < position[d][o]))
        BY <3>2 DEF LogStep, Causal
      <4> QED
        BY <3>2, <4>1, <1>3
    <3> QED
      BY <3>1, <3>2
  <2>3. Ordered(Stored, sequence)'
    BY <1>4, <1>5, <2>2 DEF Ordered
  <2> QED
    BY <2>1, <2>3 DEF CausalOrder
<1>10. AckedIsStored'
  BY <1>4, <1>5, <1>6 DEF DataInv, AckedIsStored, Local
<1>11. NothingSkipped'
  <2> SUFFICES ASSUME NEW c \in Devices
               PROVE  /\ cursor[c] <= head'
                      /\ \A o \in Stored \cup S : sequence'[o] <= cursor[c] => o \in Local(c)
    BY <1>4, <1>5, <1>6 DEF NothingSkipped, Local
  <2>1. /\ cursor[c] \in Nat /\ head \in Nat /\ cursor[c] <= head
        /\ \A o \in Stored : sequence[o] <= cursor[c] => o \in Local(c)
    BY DEF DataInv, NothingSkipped, TypeOK
  <2>2. \A o \in S \ Stored : ~(sequence'[o] <= cursor[c])
    <3>1. \A o \in S \ Stored : sequence'[o] \in Nat /\ head < sequence'[o]
      BY <1>1, <1>3 DEF Local, Rows
    <3> QED
      BY <2>1, <3>1
  <2> QED
    BY <1>3, <2>1, <2>2
<1>12. Origins'
  <2>1. S \subseteq Written
    BY <1>1 DEF Written
  <2> QED
    BY <1>4, <1>5, <1>6, <2>1 DEF DataInv, Origins, Unused, Local
<1> QED
  BY <1>3, <1>4, <1>7, <1>8, <1>9, <1>10, <1>11, <1>12 DEF DataInv

(* A step that leaves tables and log alone. *)
LEMMA QuietStep ==
  ASSUME TypeOK, DataInv, UNCHANGED <<device, server>>
  PROVE  DataInv' /\ Monotone
<1>1. /\ parents' = parents /\ position' = position /\ autoinc' = autoinc
      /\ outbox' = outbox /\ cursor' = cursor /\ sequence' = sequence /\ head' = head
  BY DEF device, server
<1>2. Stored' = Stored /\ Written' = Written /\ Unused' = Unused
  BY <1>1 DEF Stored, Written, Unused, Local
<1>3. GapFree' /\ KeysAreUnique' /\ CausalOrder'
  BY <1>1, <1>2 DEF DataInv, GapFree, KeysAreUnique, CausalOrder, Ordered, Local
<1>4. AckedIsStored' /\ NothingSkipped' /\ Origins'
  BY <1>1, <1>2 DEF DataInv, AckedIsStored, NothingSkipped, Origins, Local
<1>5. Monotone
  BY <1>1 DEF Monotone, TypeOK
<1> QED
  BY <1>3, <1>4, <1>5 DEF DataInv

-----------------------------------------------------------------------------
(* What is on its way stays good while tables and log grow. *)

(* Rows and log entries only become more. *)
LEMMA RowsStay ==
  ASSUME Monotone
  PROVE  /\ \A d \in Devices : Local(d) \subseteq Rows(position'[d])
         /\ Stored \subseteq Rows(sequence')
  BY DEF Monotone, Local, Stored, Rows

(* Batch, of the state that follows. *)
BatchNext(S, d) ==
  /\ S \subseteq Rows(position'[d]) /\ S # {}
  /\ Cardinality(S) <= PendingLimit
  /\ \A o \in S \ Rows(sequence') : \A p \in parents'[o] :
       /\ SameSlot(p, o)
       /\ p \in Rows(sequence') \/ (p \in S /\ position'[d][p] < position'[d][o])

(* A batch on its way is still one after any step: its operations keep rows *)
(* and parents, and the log only gained entries.                            *)
LEMMA BatchStays ==
  ASSUME Monotone, NEW d \in Devices, NEW S, Batch(S, d)
  PROVE  BatchNext(S, d)
<1>1. Stored \subseteq Rows(sequence') /\ Local(d) \subseteq Rows(position'[d])
  BY RowsStay
<1>2. S \subseteq Local(d) /\ S # {} /\ Cardinality(S) <= PendingLimit
  BY DEF Batch
<1>3. \A o \in S : position'[d][o] = position[d][o] /\ parents'[o] = parents[o]
  BY <1>2 DEF Monotone, Written
<1>4. \A o \in S \ Stored : \A p \in parents[o] :
        SameSlot(p, o) /\ (p \in Stored \/ (p \in S /\ position[d][p] < position[d][o]))
  BY DEF Batch, Causal
<1> QED
  BY <1>1, <1>2, <1>3, <1>4 DEF BatchNext

(* An engine that takes no step stays served by Flight. *)
LEMMA FlightStays ==
  ASSUME TypeOK, Monotone, head' \in Nat, cursor' \in [Devices -> Nat],
         NEW e \in Engines, Flight(e),
         pc'[e] = pc[e], sent'[e] = sent[e], page'[e] = page[e]
  PROVE  Flight(e)'
<1>1. StoreOf[e] \in Devices
  BY StoreAssumption
<1>2. pc[e] = "pushing" => BatchNext(sent[e], StoreOf[e])
  BY <1>1, BatchStays DEF Flight
<1>3. (pc[e] = "pushing" => Batch(sent[e], StoreOf[e]))'
  BY <1>2 DEF Batch, BatchNext, Causal, Local, Stored
<1>4. (pc[e] = "pushed" => sent[e] \subseteq Stored)'
  BY RowsStay DEF Flight, Stored
<1>5. /\ cursor[StoreOf[e]] <= cursor'[StoreOf[e]] /\ head <= head'
      /\ cursor[StoreOf[e]] \in Nat /\ cursor'[StoreOf[e]] \in Nat /\ head \in Nat
      /\ page[e].after \in Nat /\ page[e].end \in Nat
  BY <1>1 DEF Monotone, TypeOK
<1>6. (pc[e] \in {"pulling", "page"} => page[e].after <= cursor[StoreOf[e]])'
  BY <1>5 DEF Flight
<1>7. (pc[e] = "page" => page[e].after <= page[e].end /\ page[e].end <= head)'
  BY <1>5 DEF Flight
<1> QED
  BY <1>3, <1>4, <1>6, <1>7 DEF Flight

(* So are the batches nobody waits for. *)
LEMMA StrayStays ==
  ASSUME Monotone, NEW T \in SUBSET [store : Devices, ops : SUBSET Ops],
         \A m \in T : Batch(m.ops, m.store), stray' \subseteq T
  PROVE  (\A m \in stray : Batch(m.ops, m.store))'
<1> SUFFICES ASSUME NEW m \in T
             PROVE  /\ m.ops \subseteq Rows(position'[m.store]) /\ m.ops # {}
                    /\ Cardinality(m.ops) <= PendingLimit
                    /\ \A o \in m.ops \ Rows(sequence') : \A p \in parents'[o] :
                         /\ SameSlot(p, o)
                         /\ \/ p \in Rows(sequence')
                            \/ p \in m.ops /\ position'[m.store][p] < position'[m.store][o]
  BY DEF Batch, Causal, Local, Stored
<1>1. BatchNext(m.ops, m.store)
  BY BatchStays
<1> QED
  BY <1>1 DEF BatchNext

(* A step of the user, or of the server for nobody in particular. *)
LEMMA TaskKept ==
  ASSUME IInv, Monotone, TypeOK', UNCHANGED task, stray' \subseteq stray
  PROVE  FlightInv'
<1>1. /\ pc' = pc /\ sent' = sent /\ page' = page
      /\ head' \in Nat /\ cursor' \in [Devices -> Nat]
  BY DEF task, TypeOK
<1>2. \A e \in Engines : Flight(e)'
  BY <1>1, FlightStays DEF IInv, FlightInv
<1>3. (\A m \in stray : Batch(m.ops, m.store))'
  BY StrayStays DEF IInv, FlightInv, TypeOK
<1> QED
  BY <1>2, <1>3 DEF FlightInv

(* A step of engine e, which may leave its push to the network. *)
LEMMA TaskStep ==
  ASSUME IInv, Monotone, TypeOK', NEW e \in Engines, Flight(e)',
         \A c \in Engines \ {e} : pc'[c] = pc[c] /\ sent'[c] = sent[c] /\ page'[c] = page[c],
         stray' = stray \/ Abandon(e)
  PROVE  FlightInv'
<1>1. head' \in Nat /\ cursor' \in [Devices -> Nat]
  BY DEF TypeOK
<1>2. \A c \in Engines : Flight(c)'
  <2> SUFFICES ASSUME NEW c \in Engines \ {e} PROVE Flight(c)'
    OBVIOUS
  <2> QED
    BY <1>1, FlightStays DEF IInv, FlightInv
<1>3. (\A m \in stray : Batch(m.ops, m.store))'
  <2> DEFINE b == [store |-> StoreOf[e], ops |-> sent[e]]
  <2>1. stray \in SUBSET [store : Devices, ops : SUBSET Ops]
        /\ \A m \in stray : Batch(m.ops, m.store)
    BY DEF IInv, FlightInv, TypeOK
  <2>2. CASE stray' = stray
    BY <2>1, <2>2, StrayStays
  <2>3. CASE pc[e] = "pushing" /\ stray' = stray \cup {b}
    <3>1. b \in [store : Devices, ops : SUBSET Ops]
      BY StoreAssumption DEF IInv, TypeOK
    <3>2. Batch(b.ops, b.store)
      BY <2>3 DEF IInv, FlightInv, Flight
    <3> HIDE DEF b
    <3>3. (stray \cup {b}) \in SUBSET [store : Devices, ops : SUBSET Ops]
          /\ \A m \in stray \cup {b} : Batch(m.ops, m.store)
      BY <2>1, <3>1, <3>2
    <3> QED
      BY <2>3, <3>3, StrayStays
  <2> QED
    BY <2>2, <2>3 DEF Abandon
<1> QED
  BY <1>2, <1>3 DEF FlightInv

-----------------------------------------------------------------------------
(* The steps of the user *)

(* save() is a table step when the parents of what it inserts are rows the *)
(* device has.                                                             *)
LEMMA SaveStep ==
  ASSUME IInv, NEW d \in Devices, NEW S \in SUBSET Ops, Save(d, S), UNCHANGED server,
         parents' \in [Ops -> SUBSET Ops],
         \A o \in Written : parents'[o] = parents[o],
         \A o \in S \ Local(d) : \A p \in parents'[o] : SameSlot(p, o) /\ p \in Local(d),
         \A o \in DemoOps \cup Unused : o \notin S => parents'[o] = {},
         \A o \in DemoOps : parents'[o] = {},
         \A o \in Ops : Cardinality(parents'[o]) <= MaxParents
  PROVE  /\ DataInv' /\ Monotone
         /\ position' \in [Devices -> [Ops -> Nat]]
         /\ autoinc' \in [Devices -> Nat]
         /\ outbox' \in [Devices -> SUBSET Ops]
         /\ cursor' = cursor
<1> DEFINE new == S \ Local(d)
<1>1. Inserts(d, new, ById)
  BY OpsAssumption DEF Save, Inserts, ById
<1>2. /\ outbox' = [outbox EXCEPT ![d] = @ \cup new]
      /\ cursor' = cursor
      /\ outbox \in [Devices -> SUBSET Ops] /\ cursor \in [Devices -> Nat]
  BY DEF Save, IInv, TypeOK
<1>3. /\ outbox' \in [Devices -> SUBSET Ops]
      /\ outbox'[d] = outbox[d] \cup new
      /\ \A c \in Devices \ {d} : outbox'[c] = outbox[c] /\ cursor'[c] = cursor[c]
  BY <1>2
<1>4. /\ outbox[d] \subseteq Local(d) /\ Local(d) \ outbox[d] \subseteq Stored
      /\ cursor[d] <= head
      /\ {o \in Stored : sequence[o] <= cursor[d]} \subseteq Local(d)
  BY DEF IInv, DataInv, Origins, AckedIsStored, NothingSkipped
<1>5. cursor[d] <= cursor'[d] /\ cursor' \in [Devices -> Nat]
  BY <1>2
<1>6. /\ \A o \in new : \A p \in parents'[o] : SameSlot(p, o) /\ p \in Local(d)
      /\ \A o \in DemoOps \cup Unused : o \notin new => parents'[o] = {}
  BY DEF Unused, Written
<1> HIDE DEF new
<1>7. TableStep(d, new, ById)
  <2>1. outbox'[d] \subseteq Local(d) \cup new /\ (Local(d) \cup new) \ outbox'[d] \subseteq Stored
    BY <1>3, <1>4
  <2>2. cursor'[d] <= head /\ {o \in Stored : sequence[o] <= cursor'[d]} \subseteq Local(d) \cup new
    BY <1>2, <1>4
  <2> QED
    BY <1>1, <1>3, <1>5, <1>6, <2>1, <2>2 DEF TableStep, new
<1> QED
  BY <1>2, <1>3, <1>7, TableStepInv DEF IInv

(* Creating an inspection keeps the invariant: new operations, no parents. *)
LEMMA CreateStep ==
  ASSUME IInv, NEW e \in Engines, NEW S, Create(e, S)
  PROVE  IInv' /\ Monotone
<1> DEFINE d == StoreOf[e]
<1>1. /\ d \in Devices /\ S \in SUBSET Ops /\ S \subseteq Unused
      /\ Save(d, S) /\ parents' = parents
      /\ UNCHANGED <<server, task, window, faults>>
  BY StoreAssumption DEF Create, Fresh, Unused
<1> HIDE DEF d
<1>2. /\ parents \in [Ops -> SUBSET Ops]
      /\ \A o \in DemoOps \cup Unused : parents[o] = {}
      /\ \A o \in Ops : Cardinality(parents[o]) <= MaxParents
  BY DEF IInv, TypeOK, DataInv, Origins
<1>3. /\ DataInv' /\ Monotone
      /\ position' \in [Devices -> [Ops -> Nat]] /\ autoinc' \in [Devices -> Nat]
      /\ outbox' \in [Devices -> SUBSET Ops] /\ cursor' = cursor
  BY <1>1, <1>2, SaveStep
<1>4. TypeOK'
  BY <1>1, <1>3 DEF IInv, TypeOK, server, task, window, faults
<1> QED
  BY <1>1, <1>3, <1>4, TaskKept DEF IInv, faults

(* Editing keeps the invariant: the parents are rows the window showed, and *)
(* rows that were shown are in the table.                                   *)
LEMMA EditStep ==
  ASSUME IInv, NEW e \in Engines, NEW o, Edit(e, o)
  PROVE  IInv' /\ Monotone
<1> DEFINE d == StoreOf[e]
           observed == Frontier(Visible(e), o)
<1>1. /\ d \in Devices /\ o \in Ops /\ o \in Unused
      /\ Cardinality(observed) <= MaxParents
      /\ parents' = [parents EXCEPT ![o] = observed]
      /\ Save(d, {o})
      /\ UNCHANGED <<server, task, window, faults>>
  BY StoreAssumption DEF Edit, Fresh, Unused
<1>2. \A p \in observed : SameSlot(p, o) /\ p \in Local(d) /\ p \in Ops
  BY DEF Frontier, Visible, Local, Rows
<1> HIDE DEF d, observed
<1>3. /\ parents \in [Ops -> SUBSET Ops]
      /\ \A x \in DemoOps \cup Unused : parents[x] = {}
      /\ \A x \in Ops : Cardinality(parents[x]) <= MaxParents
  BY DEF IInv, TypeOK, DataInv, Origins
<1>4. o \notin Written /\ o \notin DemoOps
  BY <1>1 DEF Unused
<1>5. /\ parents' \in [Ops -> SUBSET Ops]
      /\ parents'[o] = observed
      /\ \A x \in Ops \ {o} : parents'[x] = parents[x]
  BY <1>1, <1>2, <1>3
<1>6. /\ DataInv' /\ Monotone
      /\ position' \in [Devices -> [Ops -> Nat]] /\ autoinc' \in [Devices -> Nat]
      /\ outbox' \in [Devices -> SUBSET Ops] /\ cursor' = cursor
  <2>1. \A x \in Written : parents'[x] = parents[x]
    BY <1>4, <1>5 DEF Written, Local, Rows
  <2>2. \A x \in {o} \ Local(d) : \A p \in parents'[x] : SameSlot(p, x) /\ p \in Local(d)
    BY <1>2, <1>5
  <2>3. /\ \A x \in DemoOps \cup Unused : x \notin {o} => parents'[x] = {}
        /\ \A x \in DemoOps : parents'[x] = {}
    BY <1>3, <1>4, <1>5, OpsAssumption DEF Unused
  <2>4. \A x \in Ops : Cardinality(parents'[x]) <= MaxParents
    BY <1>1, <1>3, <1>5
  <2>5. {o} \in SUBSET Ops /\ UNCHANGED server
    BY <1>1
  <2> QED
    BY <1>1, <1>5, <2>1, <2>2, <2>3, <2>4, <2>5, SaveStep
<1>7. TypeOK'
  BY <1>1, <1>5, <1>6 DEF IInv, TypeOK, server, task, window, faults
<1> QED
  BY <1>1, <1>6, <1>7, TaskKept DEF IInv, faults

(* Loading the demo data keeps the invariant, also on a second device or in *)
(* a store that is no longer empty: its rows have no parents.               *)
LEMMA SaveDemoStep ==
  ASSUME IInv, NEW e \in Engines, SaveDemo(e)
  PROVE  IInv' /\ Monotone
<1> DEFINE d == StoreOf[e]
<1>1. /\ d \in Devices /\ DemoOps \in SUBSET Ops
      /\ Save(d, DemoOps) /\ parents' = parents /\ seeding' = seeding \ {e}
      /\ UNCHANGED <<server, task, connected, paused, seen, faults>>
  BY StoreAssumption, OpsAssumption DEF SaveDemo
<1> HIDE DEF d
<1>2. /\ parents \in [Ops -> SUBSET Ops]
      /\ \A o \in DemoOps \cup Unused : parents[o] = {}
      /\ \A o \in Ops : Cardinality(parents[o]) <= MaxParents
  BY DEF IInv, TypeOK, DataInv, Origins
<1>3. /\ DataInv' /\ Monotone
      /\ position' \in [Devices -> [Ops -> Nat]] /\ autoinc' \in [Devices -> Nat]
      /\ outbox' \in [Devices -> SUBSET Ops] /\ cursor' = cursor
  BY <1>1, <1>2, SaveStep
<1>4. TypeOK'
  BY <1>1, <1>3 DEF IInv, TypeOK, server, task, faults
<1> QED
  BY <1>1, <1>3, <1>4, TaskKept DEF IInv, faults

(* A store without rows has applied no entry of the log. *)
LEMMA EmptyStore ==
  ASSUME TypeOK, DataInv, NEW d \in Devices, Local(d) = {}
  PROVE  cursor[d] = 0
<1>1. cursor[d] \in Nat /\ head \in Nat /\ sequence \in [Ops -> Nat]
  BY DEF TypeOK
<1>2. cursor[d] <= head /\ {o \in Stored : sequence[o] <= cursor[d]} \subseteq Local(d)
  BY DEF DataInv, NothingSkipped
<1>3. {sequence[o] : o \in Stored} = 1 .. head
  BY DEF DataInv, GapFree
<1> SUFFICES ASSUME cursor[d] # 0 PROVE FALSE
  OBVIOUS
<1>4. 1 \in 1 .. head
  BY <1>1, <1>2
<1>5. PICK o \in Stored : sequence[o] = 1
  BY <1>3, <1>4
<1> QED
  BY <1>1, <1>2, <1>5

(* Restoring a bundle keeps the invariant: a prefix of a table in causal   *)
(* order is in causal order, and an empty store has no cursor to lose.     *)
LEMMA RestoreStep ==
  ASSUME IInv, NEW e \in Engines, NEW s \in Devices, NEW n \in 1 .. autoinc[s],
         Restore(e, s, n)
  PROVE  IInv' /\ Monotone
<1> DEFINE d == StoreOf[e]
           bundle == {o \in Local(s) : position[s][o] <= n}
<1>1. /\ d \in Devices
      /\ Local(d) = {}
      /\ Insert(d, bundle, position[s])
      /\ outbox' = [outbox EXCEPT ![d] = @ \cup bundle]
      /\ cursor' = [cursor EXCEPT ![d] = 0]
      /\ UNCHANGED <<parents, server, task, window, faults>>
  BY StoreAssumption DEF Restore
<1>2. /\ bundle \subseteq Local(s) /\ bundle \subseteq Ops
      /\ autoinc[s] \in Nat /\ n \in Nat /\ position[s] \in [Ops -> Nat]
  BY DEF IInv, TypeOK, Local, Rows
<1>3. \A o \in bundle : \A p \in parents[o] :
        SameSlot(p, o) /\ p \in bundle /\ position[s][p] < position[s][o]
  <2> SUFFICES ASSUME NEW o \in bundle, NEW p \in parents[o]
               PROVE  SameSlot(p, o) /\ p \in bundle /\ position[s][p] < position[s][o]
    OBVIOUS
  <2>1. SameSlot(p, o) /\ p \in Local(s) /\ position[s][p] < position[s][o]
    BY <1>2 DEF IInv, DataInv, CausalOrder, Ordered
  <2>2. position[s][p] \in Nat /\ position[s][o] \in Nat /\ position[s][o] <= n
    BY <1>2, <2>1 DEF Local, Rows
  <2> QED
    BY <1>2, <2>1, <2>2
<1>4. \A x, y \in bundle : position[s][x] = position[s][y] => x = y
  BY <1>2 DEF IInv, DataInv, KeysAreUnique, Keyed
<1>5. \A x \in bundle : position[s][x] \in Nat
  BY <1>2
<1> HIDE DEF d, bundle
<1>6. Inserts(d, bundle, position[s])
  BY <1>1, <1>2, <1>4, <1>5 DEF Inserts
<1>7. cursor[d] = 0
  BY <1>1, EmptyStore DEF IInv
<1>8. outbox \in [Devices -> SUBSET Ops] /\ cursor \in [Devices -> Nat] /\ head \in Nat
  BY DEF IInv, TypeOK
<1>9. /\ outbox' \in [Devices -> SUBSET Ops]
      /\ outbox'[d] = outbox[d] \cup bundle
      /\ \A c \in Devices \ {d} : outbox'[c] = outbox[c] /\ cursor'[c] = cursor[c]
      /\ cursor' \in [Devices -> Nat] /\ cursor'[d] = 0
  BY <1>1, <1>2, <1>8
<1>10. /\ parents' \in [Ops -> SUBSET Ops] /\ parents' = parents
       /\ \A o \in DemoOps \cup Unused : parents[o] = {}
       /\ \A o \in Ops : Cardinality(parents[o]) <= MaxParents
       /\ outbox[d] \subseteq Local(d)
       /\ {o \in Stored : sequence[o] <= cursor[d]} \subseteq Local(d)
       /\ UNCHANGED server
  BY <1>1 DEF IInv, TypeOK, DataInv, Origins, NothingSkipped
<1>11. TableStep(d, bundle, position[s])
  <2>1. outbox'[d] \subseteq Local(d) \cup bundle /\ (Local(d) \cup bundle) \ outbox'[d] \subseteq Stored
    BY <1>1, <1>9, <1>10
  <2>2. cursor[d] <= cursor'[d] /\ cursor'[d] <= head
        /\ {o \in Stored : sequence[o] <= cursor'[d]} \subseteq Local(d) \cup bundle
    BY <1>7, <1>8, <1>9, <1>10
  <2>3. \A o \in bundle \ Local(d) : \A p \in parents'[o] :
          SameSlot(p, o) /\ (p \in Local(d) \/ (p \in bundle /\ position[s][p] < position[s][o]))
    BY <1>3, <1>10
  <2> QED
    BY <1>6, <1>9, <1>10, <2>1, <2>2, <2>3 DEF TableStep
<1>12. /\ DataInv' /\ Monotone
       /\ position' \in [Devices -> [Ops -> Nat]] /\ autoinc' \in [Devices -> Nat]
  BY <1>1, <1>11, TableStepInv DEF IInv
<1>13. TypeOK'
  BY <1>1, <1>9, <1>10, <1>12 DEF IInv, TypeOK, server, task, window, faults
<1> QED
  BY <1>1, <1>12, <1>13, TaskKept DEF IInv, faults

(* Steps that only concern the window. *)
LEMMA WindowStep ==
  ASSUME IInv, UNCHANGED <<device, server, task>>, stray' \subseteq stray,
         connected' \subseteq Engines, paused' \subseteq Engines,
         seen' \in [Engines -> Nat], seeding' \subseteq Engines, interruptions' \in Nat
  PROVE  IInv' /\ Monotone
<1>1. DataInv' /\ Monotone
  BY QuietStep DEF IInv
<1>2. TypeOK'
  BY DEF IInv, TypeOK, device, server, task
<1> QED
  BY <1>1, <1>2, TaskKept DEF IInv

(* Each step a user takes keeps the invariant. *)
LEMMA UserInv ==
  ASSUME IInv, NEW e \in Engines, UserStep(e)
  PROVE  IInv' /\ Monotone
<1>0. /\ connected \subseteq Engines /\ paused \subseteq Engines
      /\ seen \in [Engines -> Nat] /\ seeding \subseteq Engines
      /\ interruptions \in Nat /\ autoinc \in [Devices -> Nat]
  BY DEF IInv, TypeOK
<1>1. CASE \E S \in SUBSET Fresh : Create(e, S)
  BY <1>1, CreateStep
<1>2. CASE \E o \in Fresh : Edit(e, o)
  BY <1>2, EditStep
<1>3. CASE Refresh(e)
  <2>1. PICK o \in Local(StoreOf[e]) : seen' = [seen EXCEPT ![e] = position[StoreOf[e]][o]]
    BY <1>3 DEF Refresh
  <2>2. position[StoreOf[e]][o] \in Nat
    BY StoreAssumption DEF IInv, TypeOK, Local, Rows
  <2>3. seen' \in [Engines -> Nat]
    BY <1>0, <2>1, <2>2
  <2> QED
    BY <1>0, <1>3, <2>3, WindowStep DEF Refresh, faults
<1>4. CASE CheckEmpty(e)
  BY <1>0, <1>4, WindowStep DEF CheckEmpty, faults
<1>5. CASE SaveDemo(e)
  BY <1>5, SaveDemoStep
<1>6. CASE \E s \in Devices : \E n \in 1 .. autoinc[s] : Restore(e, s, n)
  BY <1>6, RestoreStep
<1>7. CASE Login(e)
  BY <1>0, <1>7, WindowStep DEF Login, faults
<1>8. CASE Resume(e)
  BY <1>0, <1>8, WindowStep DEF Resume, faults
<1> QED
  BY <1>1, <1>2, <1>3, <1>4, <1>5, <1>6, <1>7, <1>8 DEF UserStep

-----------------------------------------------------------------------------
(* The steps of a synchronization *)

(* The variables of engine e take values of their types, the others stay. *)
TaskOf(e) ==
  /\ \A c \in Engines \ {e} : pc'[c] = pc[c] /\ sent'[c] = sent[c] /\ page'[c] = page[c]
  /\ pc' \in [Engines -> Places]
  /\ round' \in [Engines -> Nat]
  /\ sent' \in [Engines -> SUBSET Ops]
  /\ page' \in [Engines -> [after : Nat, end : Nat, more : BOOLEAN]]

(* Leaving synchronize(), in the middle or at the end, keeps the invariant, *)
(* and so does a push left to the network.                                  *)
LEMMA IdleStep ==
  ASSUME IInv, NEW e \in Engines, Idle(e), UNCHANGED <<device, server>>,
         stray' = stray \/ Abandon(e),
         connected' \subseteq Engines, paused' \subseteq Engines,
         seen' \in [Engines -> Nat], seeding' \subseteq Engines, interruptions' \in Nat
  PROVE  IInv' /\ Monotone
<1>1. DataInv' /\ Monotone
  BY QuietStep DEF IInv
<1>2. TaskOf(e) /\ pc'[e] = "idle"
  BY DEF TaskOf, Places, Idle, NoPage, IInv, TypeOK
<1>3. stray' \subseteq [store : Devices, ops : SUBSET Ops]
  BY StoreAssumption DEF Abandon, IInv, TypeOK
<1>4. TypeOK'
  BY <1>2, <1>3 DEF IInv, TypeOK, TaskOf, device, server
<1>5. Flight(e)'
  BY <1>2 DEF Flight
<1>6. FlightInv'
  BY <1>1, <1>2, <1>4, <1>5, TaskStep DEF TaskOf
<1> QED
  BY <1>1, <1>4, <1>6 DEF IInv

(* A step of e that leaves tables and log alone and is ready for what e    *)
(* waits for next.                                                         *)
LEMMA WaitStep ==
  ASSUME IInv, NEW e \in Engines, TaskOf(e), Flight(e)',
         UNCHANGED <<device, server, window, faults>>
  PROVE  IInv' /\ Monotone
<1>1. DataInv' /\ Monotone
  BY QuietStep DEF IInv
<1>2. TypeOK'
  BY DEF IInv, TypeOK, TaskOf, device, server, window, faults
<1>3. FlightInv'
  BY <1>1, <1>2, TaskStep DEF TaskOf, faults
<1> QED
  BY <1>1, <1>2, <1>3 DEF IInv

(* The batch cut off the outbox is not empty, not too long, and contains   *)
(* the parents that the log does not have: they are queued, before it.     *)
LEMMA PendingIsBatch ==
  ASSUME TypeOK, DataInv, NEW d \in Devices, outbox[d] # {}
  PROVE  Pending(d) \subseteq Ops /\ Batch(Pending(d), d)
<1> DEFINE q == outbox[d]
           key == position[d]
           n == Cardinality(q)
<1>1. /\ q \subseteq Local(d) /\ Local(d) \subseteq Ops
      /\ key \in [Ops -> Nat]
      /\ PendingLimit \in Nat \ {0}
  BY LimitAssumption DEF DataInv, Origins, TypeOK, Local, Rows
<1>2. IsFiniteSet(q) /\ \A x \in q : key[x] \in Nat
  BY <1>1, OpsAssumption, FS_Subset
<1>3. \A x, y \in q : key[x] = key[y] => x = y
  BY <1>1 DEF DataInv, KeysAreUnique, Keyed
<1>4. n \in Nat /\ n # 0
  BY <1>2, FS_CardinalityType, FS_EmptySet
<1>5. Pending(d) = {x \in q : Rank(q, key, x) <= PendingLimit}
  BY DEF Pending
<1> HIDE DEF q, key, n
<1>6. /\ {Rank(q, key, x) : x \in q} = 1 .. n
      /\ \A x, y \in q : Rank(q, key, x) = Rank(q, key, y) => x = y
  BY <1>2, <1>3, RankOnto DEF n
<1>7. \A x \in q : Rank(q, key, x) \in Nat /\ Rank(q, key, x) >= 1
  BY <1>4, <1>6
<1>8. Pending(d) # {}
  <2>1. PICK x \in q : Rank(q, key, x) = 1
    BY <1>4, <1>6
  <2> QED
    BY <1>1, <1>5, <2>1
<1>9. Cardinality(Pending(d)) <= PendingLimit
  <2> DEFINE f == [x \in Pending(d) |-> Rank(q, key, x)]
  <2>1. f \in Injection(Pending(d), 1 .. PendingLimit)
    BY <1>1, <1>5, <1>6, <1>7 DEF Injection, IsInjective
  <2>2. IsFiniteSet(1 .. PendingLimit) /\ Cardinality(1 .. PendingLimit) = PendingLimit
    BY <1>1, FS_Interval
  <2> HIDE DEF f
  <2> QED
    BY <2>1, <2>2, FS_Injection
<1>10. ASSUME NEW o \in Pending(d), NEW x \in parents[o], x \notin Stored
       PROVE  x \in Pending(d) /\ key[x] < key[o]
  <2>1. o \in q /\ Rank(q, key, o) <= PendingLimit
    BY <1>5
  <2>2. x \in Local(d) /\ key[x] < key[o]
    BY <1>1, <2>1 DEF DataInv, CausalOrder, Ordered, key
  <2>3. x \in q
    BY <2>2, <1>10 DEF DataInv, AckedIsStored, q
  <2>4. Rank(q, key, x) < Rank(q, key, o)
    BY <1>2, <2>1, <2>2, <2>3, RankStrict
  <2> QED
    BY <1>1, <1>5, <1>7, <2>1, <2>2, <2>3, <2>4
<1>11. \A o \in Pending(d) : \A x \in parents[o] : SameSlot(x, o)
  BY <1>1, <1>5 DEF DataInv, CausalOrder, Ordered
<1>12. Causal(Pending(d), key, Stored)
  BY <1>10, <1>11 DEF Causal
<1> QED
  BY <1>1, <1>5, <1>8, <1>9, <1>12 DEF Batch, key

(* The server answers a push. *)
LEMMA ServerPushStep ==
  ASSUME IInv, NEW e \in Engines, ServerPush(e)
  PROVE  IInv' /\ Monotone
<1> DEFINE d == StoreOf[e]
<1>1. /\ pc[e] = "pushing" /\ d \in Devices
      /\ UNCHANGED <<device, window, faults>>
  BY StoreAssumption DEF ServerPush
<1>2. sent[e] \subseteq Local(d) /\ Causal(sent[e], position[d], Stored)
  BY <1>1 DEF IInv, FlightInv, Flight, Batch
<1>3. CASE Valid(sent[e], d)
  <2>1. /\ Append(sent[e], d)
        /\ pc' = [pc EXCEPT ![e] = "pushed"]
        /\ UNCHANGED <<round, sent, page>>
    BY <1>3 DEF ServerPush
  <2> HIDE DEF d
  <2>2. LogStep(sent[e], d)
    BY <1>1, <1>2, <2>1 DEF LogStep
  <2>3. /\ DataInv' /\ Monotone
        /\ sequence' \in [Ops -> Nat] /\ head' \in Nat
        /\ Stored' = Stored \cup sent[e]
    BY <1>1, <2>2, LogStepInv DEF IInv
  <2>4. TaskOf(e) /\ pc'[e] = "pushed" /\ sent'[e] = sent[e]
    BY <2>1 DEF TaskOf, Places, IInv, TypeOK
  <2>5. TypeOK'
    BY <1>1, <2>3, <2>4 DEF IInv, TypeOK, TaskOf, device, window, faults
  <2>6. Flight(e)'
    BY <2>3, <2>4 DEF Flight
  <2>7. FlightInv'
    BY <1>1, <2>3, <2>4, <2>5, <2>6, TaskStep DEF TaskOf, faults
  <2> QED
    BY <2>3, <2>5, <2>7 DEF IInv
<1>4. CASE ~Valid(sent[e], d)
  <2>1. Idle(e) /\ UNCHANGED server
    BY <1>4 DEF ServerPush
  <2> QED
    BY <1>1, <2>1, IdleStep DEF IInv, TypeOK, window, faults
<1> QED
  BY <1>3, <1>4

(* The client takes a batch off its outbox: the log has it. *)
LEMMA AcknowledgeStep ==
  ASSUME IInv, NEW e \in Engines, Acknowledge(e)
  PROVE  IInv' /\ Monotone
<1> DEFINE d == StoreOf[e]
<1>1. /\ pc[e] = "pushed" /\ d \in Devices
      /\ outbox' = [outbox EXCEPT ![d] = @ \ sent[e]]
      /\ round' = [round EXCEPT ![e] = @ + 1]
      /\ sent' = [sent EXCEPT ![e] = {}]
      /\ pc' = [pc EXCEPT ![e] = "push"]
      /\ UNCHANGED <<parents, position, autoinc, cursor, server, page, window, faults>>
  BY StoreAssumption DEF Acknowledge
<1>2. sent[e] \subseteq Stored
  BY <1>1 DEF IInv, FlightInv, Flight
<1> HIDE DEF d
<1>3. /\ outbox \in [Devices -> SUBSET Ops]
      /\ cursor \in [Devices -> Nat] /\ head \in Nat
  BY DEF IInv, TypeOK
<1>4. /\ outbox' \in [Devices -> SUBSET Ops]
      /\ \A c \in Devices : /\ outbox'[c] \subseteq outbox[c]
                            /\ outbox[c] \ outbox'[c] \subseteq Stored
  BY <1>1, <1>2, <1>3
<1>5. /\ sequence' = sequence /\ head' = head /\ Stored' = Stored
      /\ Written' = Written /\ Unused' = Unused
  BY <1>1 DEF server, Stored, Written, Unused, Local
<1>6. DataInv'
  <2>1. GapFree' /\ KeysAreUnique' /\ CausalOrder' /\ NothingSkipped'
    BY <1>1, <1>5 DEF IInv, DataInv, GapFree, KeysAreUnique, CausalOrder, Ordered,
                      NothingSkipped, Local
  <2>2. AckedIsStored'
    BY <1>1, <1>4, <1>5 DEF IInv, DataInv, AckedIsStored, Local
  <2>3. Origins'
    BY <1>1, <1>4, <1>5 DEF IInv, DataInv, Origins, Local
  <2> QED
    BY <2>1, <2>2, <2>3 DEF DataInv
<1>7. Monotone
  BY <1>1, <1>3, <1>5 DEF Monotone
<1>8. TaskOf(e) /\ pc'[e] = "push"
  BY <1>1 DEF TaskOf, Places, IInv, TypeOK
<1>9. TypeOK'
  BY <1>1, <1>4, <1>8 DEF IInv, TypeOK, TaskOf, server, window, faults
<1>10. FlightInv'
  <2>1. Flight(e)'
    BY <1>8 DEF Flight
  <2> QED
    BY <1>1, <1>7, <1>8, <1>9, <2>1, TaskStep DEF TaskOf, faults
<1> QED
  BY <1>6, <1>7, <1>9, <1>10 DEF IInv

(* What a page brings to a device whose cursor it continues. *)
LEMMA PageFits ==
  ASSUME TypeOK, DataInv, NEW d \in Devices,
         NEW g \in [after : Nat, end : Nat, more : BOOLEAN],
         g.after = cursor[d]
  PROVE  /\ Entries(g) \subseteq Stored
         /\ Causal(Entries(g), sequence, Local(d))
         /\ {o \in Stored : sequence[o] <= g.end} \subseteq Local(d) \cup Entries(g)
<1>1. /\ sequence \in [Ops -> Nat] /\ g.after \in Nat /\ g.end \in Nat
      /\ Stored \subseteq Ops
  BY DEF TypeOK, Stored, Rows
<1>2. {o \in Stored : sequence[o] <= g.after} \subseteq Local(d)
  BY DEF DataInv, NothingSkipped
<1>3. \A o \in Entries(g) : o \in Stored /\ g.after < sequence[o] /\ sequence[o] <= g.end
  BY <1>1 DEF Entries, Stored, Rows
<1>4. \A o \in Stored : sequence[o] <= g.end => o \in Local(d) \cup Entries(g)
  BY <1>1, <1>2 DEF Entries
<1>5. ASSUME NEW o \in Entries(g), NEW x \in parents[o]
      PROVE  SameSlot(x, o) /\ (x \in Local(d) \/ (x \in Entries(g) /\ sequence[x] < sequence[o]))
  <2>1. SameSlot(x, o) /\ x \in Stored /\ sequence[x] < sequence[o]
    BY <1>3 DEF DataInv, CausalOrder, Ordered
  <2>2. sequence[x] <= g.end
    BY <1>1, <1>3, <2>1
  <2> QED
    BY <1>4, <2>1, <2>2
<1>6. Causal(Entries(g), sequence, Local(d))
  BY <1>5 DEF Causal
<1> QED
  BY <1>3, <1>4, <1>6

(* Applying a page keeps the invariant, and so does refusing it. *)
LEMMA ApplyPageStep ==
  ASSUME IInv, NEW e \in Engines, ApplyPage(e)
  PROVE  IInv' /\ Monotone
<1> DEFINE d == StoreOf[e]
           g == page[e]
           S == Entries(g)
<1>1. /\ pc[e] = "page" /\ d \in Devices
      /\ UNCHANGED <<parents, outbox, server, window, faults>>
  BY StoreAssumption DEF ApplyPage
<1>2. CASE Applicable(d, g)
  <2>1. /\ Insert(d, S, sequence)
        /\ cursor' = [cursor EXCEPT ![d] = g.end]
        /\ TaskOf(e) /\ pc'[e] \in {"upload", "pull"}
    <3> DEFINE last == ~page[e].more \/ round[e] + 1 = MaxRounds
    <3>1. /\ Insert(d, S, sequence)
          /\ cursor' = [cursor EXCEPT ![d] = g.end]
          /\ pc' = [pc EXCEPT ![e] = IF last THEN "upload" ELSE "pull"]
          /\ round' = [round EXCEPT ![e] = IF last THEN 0 ELSE @ + 1]
          /\ page' = [page EXCEPT ![e] = NoPage]
          /\ UNCHANGED sent
      BY <1>2 DEF ApplyPage
    <3> HIDE DEF last, d, g, S
    <3>2. pc \in [Engines -> Places]
          /\ round \in [Engines -> Nat] /\ sent \in [Engines -> SUBSET Ops]
          /\ page \in [Engines -> [after : Nat, end : Nat, more : BOOLEAN]]
      BY DEF IInv, TypeOK
    <3>3. NoPage \in [after : Nat, end : Nat, more : BOOLEAN]
      BY DEF NoPage
    <3>4. pc'[e] \in {"upload", "pull"}
      BY <3>1, <3>2
    <3> QED
      BY <3>1, <3>2, <3>3, <3>4 DEF TaskOf, Places
  <2>2. g \in [after : Nat, end : Nat, more : BOOLEAN] /\ g.after = cursor[d]
    BY <1>2 DEF Applicable, IInv, TypeOK
  <2>3. g.after <= g.end /\ g.end <= head
    BY <1>1 DEF IInv, FlightInv, Flight
  <2> HIDE DEF d, g
  <2>4. /\ S \subseteq Stored
        /\ Causal(S, sequence, Local(d))
        /\ {o \in Stored : sequence[o] <= g.end} \subseteq Local(d) \cup S
    BY <1>1, <2>2, PageFits DEF IInv
  <2> HIDE DEF S
  <2>5. Inserts(d, S, sequence)
    BY <2>1, <2>4 DEF Inserts, IInv, DataInv, GapFree, TypeOK, Stored, Rows
  <2>6. /\ cursor \in [Devices -> Nat] /\ cursor' \in [Devices -> Nat]
        /\ cursor'[d] = g.end
        /\ \A c \in Devices \ {d} : cursor'[c] = cursor[c]
    BY <1>1, <2>1, <2>2 DEF IInv, TypeOK
  <2>7. /\ parents' \in [Ops -> SUBSET Ops] /\ parents' = parents
        /\ outbox' \in [Devices -> SUBSET Ops] /\ outbox' = outbox
        /\ \A o \in DemoOps \cup Unused : parents[o] = {}
        /\ \A o \in Ops : Cardinality(parents[o]) <= MaxParents
        /\ outbox[d] \subseteq Local(d)
        /\ Local(d) \ outbox[d] \subseteq Stored
        /\ UNCHANGED server
    BY <1>1 DEF IInv, TypeOK, DataInv, Origins, AckedIsStored
  <2>8. TableStep(d, S, sequence)
    <3>1. \A o \in S \ Local(d) : \A x \in parents'[o] :
            SameSlot(x, o) /\ (x \in Local(d) \/ (x \in S /\ sequence[x] < sequence[o]))
      BY <2>4, <2>7 DEF Causal
    <3>2. cursor[d] <= cursor'[d] /\ cursor'[d] <= head
          /\ {o \in Stored : sequence[o] <= cursor'[d]} \subseteq Local(d) \cup S
      BY <2>2, <2>3, <2>4, <2>6
    <3>3. outbox'[d] \subseteq Local(d) \cup S /\ (Local(d) \cup S) \ outbox'[d] \subseteq Stored
      BY <2>4, <2>7
    <3>4. \A c \in Devices \ {d} : outbox'[c] = outbox[c] /\ cursor'[c] = cursor[c]
      BY <2>6, <2>7
    <3> QED
      BY <2>5, <2>6, <2>7, <3>1, <3>2, <3>3, <3>4 DEF TableStep
  <2>9. /\ DataInv' /\ Monotone
        /\ position' \in [Devices -> [Ops -> Nat]] /\ autoinc' \in [Devices -> Nat]
    BY <1>1, <2>8, TableStepInv DEF IInv
  <2>10. TypeOK'
    BY <1>1, <2>1, <2>6, <2>7, <2>9 DEF IInv, TypeOK, TaskOf, server, window, faults
  <2>11. Flight(e)'
    BY <2>1 DEF Flight
  <2>12. FlightInv'
    BY <1>1, <2>1, <2>9, <2>10, <2>11, TaskStep DEF TaskOf, faults
  <2> QED
    BY <2>9, <2>10, <2>12 DEF IInv
<1>3. CASE ~Applicable(d, g)
  <2>1. Idle(e) /\ UNCHANGED <<position, autoinc, cursor>>
    BY <1>3 DEF ApplyPage
  <2> QED
    BY <1>1, <2>1, IdleStep DEF IInv, TypeOK, device, window, faults
<1> QED
  BY <1>2, <1>3

(* The server answers a pull. *)
LEMMA ServerPullStep ==
  ASSUME IInv, NEW e \in Engines, ServerPull(e)
  PROVE  IInv' /\ Monotone
<1> DEFINE after == page[e].after
           end == IF after + PageLimit <= head THEN after + PageLimit ELSE head
           answer == [after |-> after, end |-> end, more |-> end < head]
<1>1. /\ pc[e] = "pulling" /\ UNCHANGED <<device, server, window, faults>>
  BY DEF ServerPull
<1>2. /\ after \in Nat /\ head \in Nat /\ PageLimit \in Nat
      /\ after <= cursor[StoreOf[e]]
  BY <1>1, LimitAssumption DEF IInv, TypeOK, FlightInv, Flight
<1>3. CASE after <= head
  <2>1. /\ page' = [page EXCEPT ![e] = answer]
        /\ pc' = [pc EXCEPT ![e] = "page"]
        /\ UNCHANGED <<round, sent>>
    BY <1>3 DEF ServerPull
  <2>2. end \in Nat /\ after <= end /\ end <= head
    BY <1>2, <1>3
  <2> HIDE DEF end, after
  <2>3. answer \in [after : Nat, end : Nat, more : BOOLEAN]
    BY <1>2, <2>2
  <2>4. answer.after = after /\ answer.end = end
    OBVIOUS
  <2> HIDE DEF answer
  <2>5. TaskOf(e) /\ pc'[e] = "page" /\ page'[e] = answer
    BY <2>1, <2>3 DEF TaskOf, Places, IInv, TypeOK
  <2>6. Flight(e)'
    BY <1>1, <1>2, <2>2, <2>4, <2>5 DEF Flight, device, server
  <2> QED
    BY <1>1, <2>5, <2>6, WaitStep
<1>4. CASE ~(after <= head)
  <2>1. Idle(e)
    BY <1>4 DEF ServerPull
  <2> QED
    BY <1>1, <2>1, IdleStep DEF IInv, TypeOK, window, faults
<1> QED
  BY <1>3, <1>4

(* Each step of a synchronization keeps the invariant. *)
LEMMA SyncInv ==
  ASSUME IInv, NEW e \in Engines, SyncStep(e)
  PROVE  IInv' /\ Monotone
<1>0. /\ StoreOf[e] \in Devices
      /\ cursor \in [Devices -> Nat]
      /\ outbox \in [Devices -> SUBSET Ops]
      /\ pc \in [Engines -> Places]
      /\ round \in [Engines -> Nat]
      /\ sent \in [Engines -> SUBSET Ops]
      /\ page \in [Engines -> [after : Nat, end : Nat, more : BOOLEAN]]
  BY StoreAssumption DEF IInv, TypeOK
<1>1. CASE Start(e)
  <2>1. TaskOf(e) /\ pc'[e] = "push"
    BY <1>0, <1>1 DEF Start, TaskOf, Places
  <2> QED
    BY <1>1, <2>1, WaitStep DEF Start, Flight
<1>2. CASE SendPush(e)
  <2>1. Pending(StoreOf[e]) \subseteq Ops /\ Batch(Pending(StoreOf[e]), StoreOf[e])
    BY <1>0, <1>2, PendingIsBatch DEF SendPush, IInv
  <2>2. /\ sent' = [sent EXCEPT ![e] = Pending(StoreOf[e])]
        /\ Await(e, "pushing")
        /\ UNCHANGED <<device, server, round, page, window, faults>>
    BY <1>2 DEF SendPush
  <2>3. TaskOf(e) /\ pc'[e] \in {"pushing", "denied"} /\ sent'[e] = Pending(StoreOf[e])
    BY <1>0, <2>1, <2>2 DEF TaskOf, Places, Await
  <2>4. Batch(sent'[e], StoreOf[e])
    BY <2>1, <2>3
  <2>5. Batch(sent[e], StoreOf[e])'
    BY <2>2, <2>4 DEF Batch, Causal, Local, Stored, device, server
  <2>6. Flight(e)'
    BY <2>3, <2>5 DEF Flight
  <2> QED
    BY <2>2, <2>3, <2>6, WaitStep
<1>3. CASE EndPush(e)
  <2>1. TaskOf(e) /\ pc'[e] = "pull"
    BY <1>0, <1>3 DEF EndPush, TaskOf, Places
  <2> QED
    BY <1>3, <2>1, WaitStep DEF EndPush, Flight
<1>4. CASE ServerPush(e)
  BY <1>4, ServerPushStep
<1>5. CASE Acknowledge(e)
  BY <1>5, AcknowledgeStep
<1>6. CASE SendPull(e)
  <2>1. /\ page' = [page EXCEPT ![e].after = cursor[StoreOf[e]]]
        /\ Await(e, "pulling")
        /\ UNCHANGED <<device, server, round, sent, window, faults>>
    BY <1>6 DEF SendPull
  <2>2. TaskOf(e) /\ pc'[e] \in {"pulling", "denied"} /\ page'[e].after = cursor[StoreOf[e]]
    BY <1>0, <2>1 DEF TaskOf, Places, Await
  <2>3. cursor' = cursor /\ cursor[StoreOf[e]] \in Nat
    BY <1>0, <2>1 DEF device
  <2>4. Flight(e)'
    BY <2>2, <2>3 DEF Flight
  <2> QED
    BY <2>1, <2>2, <2>4, WaitStep
<1>7. CASE ServerPull(e)
  BY <1>7, ServerPullStep
<1>8. CASE ApplyPage(e)
  BY <1>8, ApplyPageStep
<1>9. CASE Finish(e)
  BY <1>9, IdleStep DEF Finish, IInv, TypeOK, window, faults
<1>10. CASE Denied(e)
  BY <1>10, IdleStep DEF Denied, IInv, TypeOK, faults
<1> QED
  BY <1>1, <1>2, <1>3, <1>4, <1>5, <1>6, <1>7, <1>8, <1>9, <1>10 DEF SyncStep

-----------------------------------------------------------------------------
(* Failures *)

(* Each failure, and each way a user takes an engine away, keeps it too. *)
LEMMA FaultInv ==
  ASSUME IInv, NEW e \in Engines, FaultStep(e)
  PROVE  IInv' /\ Monotone
<1>0. /\ connected \subseteq Engines /\ paused \subseteq Engines
      /\ seen \in [Engines -> Nat] /\ seeding \subseteq Engines
      /\ interruptions \in Nat
  BY DEF IInv, TypeOK
<1>1. CASE Fail(e)
  BY <1>0, <1>1, IdleStep DEF Fail, Interrupt, window
<1>2. CASE Refused(e)
  BY <1>0, <1>2, IdleStep DEF Refused, Interrupt
<1>3. CASE Crash(e)
  BY <1>0, <1>3, IdleStep DEF Crash, Interrupt
<1>4. CASE Logout(e)
  BY <1>0, <1>4, WindowStep DEF Logout, Interrupt
<1>5. CASE Pause(e)
  BY <1>0, <1>5, WindowStep DEF Pause, Interrupt
<1> QED
  BY <1>1, <1>2, <1>3, <1>4, <1>5 DEF FaultStep

(* A push nobody waits for is as good as any when it arrives. *)
LEMMA ServerStrayStep ==
  ASSUME IInv, NEW m \in stray, ServerStray(m)
  PROVE  IInv' /\ Monotone
<1>1. /\ stray' = stray \ {m} /\ m.store \in Devices
      /\ UNCHANGED <<device, task, window, interruptions>>
      /\ stray \subseteq [store : Devices, ops : SUBSET Ops]
  BY DEF ServerStray, IInv, TypeOK
<1>2. m.ops \subseteq Local(m.store) /\ Causal(m.ops, position[m.store], Stored)
  BY DEF IInv, FlightInv, Batch
<1>3. CASE Append(m.ops, m.store)
  <2>1. LogStep(m.ops, m.store)
    BY <1>1, <1>2, <1>3 DEF LogStep
  <2>2. DataInv' /\ Monotone /\ sequence' \in [Ops -> Nat] /\ head' \in Nat
    BY <1>1, <2>1, LogStepInv DEF IInv
  <2>3. TypeOK'
    BY <1>1, <2>2 DEF IInv, TypeOK, device, task, window
  <2> QED
    BY <1>1, <2>2, <2>3, TaskKept DEF IInv
<1>4. CASE UNCHANGED server
  BY <1>1, <1>4, WindowStep DEF window, IInv, TypeOK
<1> QED
  BY <1>3, <1>4 DEF ServerStray

-----------------------------------------------------------------------------
(* Every step keeps the invariant and takes nothing back. *)
LEMMA NextInv == IInv /\ [Next]_vars => IInv' /\ Monotone
<1> SUFFICES ASSUME IInv, [Next]_vars PROVE IInv' /\ Monotone
  OBVIOUS
<1>1. ASSUME NEW e \in Engines, UserStep(e) \/ SyncStep(e) \/ FaultStep(e)
      PROVE  IInv' /\ Monotone
  BY <1>1, UserInv, SyncInv, FaultInv
<1>2. ASSUME NEW m \in stray, ServerStray(m)
      PROVE  IInv' /\ Monotone
  BY <1>2, ServerStrayStep
<1>3. CASE UNCHANGED vars
  BY <1>3, WindowStep DEF vars, window, faults, IInv, TypeOK
<1> QED
  BY <1>1, <1>2, <1>3 DEF Next

(* The invariant holds in every behaviour of the specification. *)
THEOREM Inductive == Spec => []IInv
<1>1. Init => IInv
  BY InitIInv
<1>2. IInv /\ [Next]_vars => IInv'
  BY NextInv
<1> QED
  BY <1>1, <1>2, PTL DEF Spec

-----------------------------------------------------------------------------
(* The invariants that TLC checks *)

(* Every variable keeps its type, whatever is lost or retried. *)
THEOREM TypeCorrect == Spec => []TypeOK
<1>1. IInv => TypeOK
  BY DEF IInv
<1> QED
  BY <1>1, Inductive, PTL

(* What a device has taken off its outbox is in the log. *)
THEOREM NothingLost == Spec => []AckedIsStored
<1>1. IInv => AckedIsStored
  BY DEF IInv, DataInv
<1> QED
  BY <1>1, Inductive, PTL

(* Cursors never run ahead of the rows they stand for. *)
THEOREM CursorsAreSafe == Spec => []NothingSkipped
<1>1. IInv => NothingSkipped
  BY DEF IInv, DataInv
<1> QED
  BY <1>1, Inductive, PTL

(* Every table and the log list parents before children. *)
THEOREM TablesAreCausal == Spec => []CausalOrder
<1>1. IInv => CausalOrder
  BY DEF IInv, DataInv
<1> QED
  BY <1>1, Inductive, PTL

(* The numbers of the log have no gap and no double. *)
THEOREM NumbersAreGapFree == Spec => []GapFree
<1>1. IInv => GapFree
  BY DEF IInv, DataInv
<1> QED
  BY <1>1, Inductive, PTL

(* A batch within PendingLimit is a batch the server accepts. *)
LEMMA BatchIsValid ==
  ASSUME DataInv, NEW d \in Devices, NEW S, Batch(S, d)
  PROVE  Valid(S, d)
<1>1. S \subseteq Ops /\ S # {} /\ Causal(S, position[d], Stored)
  BY DEF Batch, Local, Rows
<1>2. Cardinality(S) \in Nat
  BY <1>1, OpsAssumption, FS_Subset, FS_CardinalityType
<1>3. Cardinality(S) <= MaxBatch
  BY <1>2, LimitAssumption DEF Batch
<1> QED
  BY <1>1, <1>3 DEF Valid, DataInv, Origins

(* The server accepts whatever is pushed, at once or late. *)
THEOREM PushesAreAccepted == Spec => []PushIsValid
<1>1. IInv => PushIsValid
  <2> SUFFICES ASSUME IInv PROVE PushIsValid
    OBVIOUS
  <2>1. ASSUME NEW e \in Engines, pc[e] = "pushing"
        PROVE  Valid(sent[e], StoreOf[e])
    BY <2>1, BatchIsValid, StoreAssumption DEF IInv, FlightInv, Flight
  <2>2. ASSUME NEW m \in stray
        PROVE  Valid(m.ops, m.store)
    <3>1. m.store \in Devices /\ Batch(m.ops, m.store)
      BY DEF IInv, TypeOK, FlightInv
    <3> QED
      BY <3>1, BatchIsValid DEF IInv
  <2> QED
    BY <2>1, <2>2 DEF PushIsValid
<1> QED
  BY <1>1, Inductive, PTL

(* A page is refused only where another window was faster. *)
THEOREM PagesAreApplicable == Spec => []PageIsApplicable
<1>1. IInv => PageIsApplicable
  <2> SUFFICES ASSUME IInv, NEW e \in Engines, pc[e] = "page"
               PROVE  /\ page[e].after <= cursor[StoreOf[e]]
                      /\ page[e].after = cursor[StoreOf[e]] => Applicable(StoreOf[e], page[e])
    BY DEF PageIsApplicable
  <2>1. page[e].after <= cursor[StoreOf[e]]
    BY DEF IInv, FlightInv, Flight
  <2>2. /\ StoreOf[e] \in Devices /\ TypeOK /\ DataInv
        /\ page[e] \in [after : Nat, end : Nat, more : BOOLEAN]
    BY StoreAssumption DEF IInv, TypeOK
  <2>3. ASSUME page[e].after = cursor[StoreOf[e]]
        PROVE  Applicable(StoreOf[e], page[e])
    BY <2>2, <2>3, PageFits DEF Applicable
  <2> QED
    BY <2>1, <2>3
<1> QED
  BY <1>1, Inductive, PTL

(* Replicas that are up to date have the same operations. *)
THEOREM ReplicasAgree == Spec => []Agreement
<1>1. IInv => Agreement
  <2> SUFFICES ASSUME IInv, NEW d \in Devices, outbox[d] = {}, cursor[d] = head
               PROVE  Local(d) = Stored
    BY DEF Agreement
  <2>1. Local(d) \subseteq Stored
    BY DEF IInv, DataInv, AckedIsStored
  <2>2. \A o \in Stored : sequence[o] <= head
    <3>1. {sequence[o] : o \in Stored} = 1 .. head
      BY DEF IInv, DataInv, GapFree
    <3> QED
      BY <3>1
  <2>3. {o \in Stored : sequence[o] <= head} \subseteq Local(d)
    BY DEF IInv, DataInv, NothingSkipped
  <2> QED
    BY <2>1, <2>2, <2>3
<1> QED
  BY <1>1, Inductive, PTL

(* No version disappears from the frontiers without one that replaced it. *)
THEOREM VersionsAreRepresented == Spec => []EveryVersionIsRepresented
<1>1. IInv => EveryVersionIsRepresented
  <2> SUFFICES ASSUME IInv, NEW d \in Devices, NEW S \in SUBSET Local(d), S # {},
                      \A x \in S : x \notin Frontier(Local(d), x)
               PROVE  \E x \in S, y \in Local(d) \ S : x \in parents[y]
    BY DEF EveryVersionIsRepresented
  <2>1. /\ S \subseteq Ops /\ position[d] \in [Ops -> Nat]
        /\ \A x, y \in S : position[d][x] = position[d][y] => x = y
    BY DEF IInv, TypeOK, DataInv, KeysAreUnique, Keyed, Local, Rows
  <2>2. IsFiniteSet(S)
    BY <2>1, OpsAssumption, FS_Subset
  <2>3. PICK x \in S : \A y \in S : position[d][y] <= position[d][x]
    BY <2>1, <2>2, LastOne
  <2>4. PICK y \in Local(d) : x \in parents[y]
    BY DEF Frontier, SameSlot
  <2>5. position[d][x] < position[d][y]
    BY <2>4 DEF IInv, DataInv, CausalOrder, Ordered
  <2>6. y \notin S
    BY <2>1, <2>3, <2>5
  <2> QED
    BY <2>4, <2>6
<1> QED
  BY <1>1, Inductive, PTL

-----------------------------------------------------------------------------
(* The action properties that TLC checks *)

(* No step moves a cursor back, a restore included: it finds it at 0. *)
THEOREM CursorsGrow == Spec => CursorGrows
<1>1. IInv /\ [Next]_vars => [\A d \in Devices : cursor[d] <= cursor'[d]]_vars
  BY NextInv DEF Monotone
<1> QED
  BY <1>1, Inductive, PTL DEF Spec, CursorGrows

(* No step changes an operation, a row or an entry that exists. *)
THEOREM HistoryIsImmutable == Spec => LogIsImmutable
<1> DEFINE Kept == /\ \A o \in Written : parents'[o] = parents[o]
                   /\ \A d \in Devices : \A o \in Local(d) : position'[d][o] = position[d][o]
                   /\ \A o \in Stored : sequence'[o] = sequence[o]
<1>1. IInv /\ [Next]_vars => [Kept]_vars
  BY NextInv DEF Monotone
<1> QED
  BY <1>1, Inductive, PTL DEF Spec, LogIsImmutable

-----------------------------------------------------------------------------
(* Sync implements Replication, for all values of the constants: empty      *)
(* stores and an empty log are its initial state, and each step writes,     *)
(* publishes, learns, or leaves parents, rows and log entries as they are.  *)

(* In terms of Sync, the sets that Replication speaks of. *)
LEMMA HeldFacts ==
  /\ held = [d \in Devices |-> Local(d)]
  /\ held' = [d \in Devices |-> Rows(position'[d])]
  /\ R!Known = Written
  /\ R!Logged = Stored
  /\ R!Logged' = Rows(sequence')
<1>1. held = [d \in Devices |-> Local(d)] /\ held' = [d \in Devices |-> Rows(position'[d])]
  BY DEF held, Local
<1>2. R!Known = Written
  BY <1>1 DEF R!Known, Written
<1> QED
  BY <1>1, <1>2 DEF R!Logged, Stored, Rows

(* The rows of the device that a step wrote, with their parents.           *)
LEMMA WholeTable ==
  ASSUME IInv', Monotone, NEW d \in Devices,
         \A c \in Devices \ {d} : position'[c] = position[c]
  PROVE  LET S == Rows(position'[d])
         IN  /\ S \in SUBSET Ops /\ Local(d) \subseteq S
             /\ held' = [held EXCEPT ![d] = S] /\ held'[d] = S
             /\ R!Closed(S, parents')
<1> DEFINE S == Rows(position'[d])
<1>1. S \in SUBSET Ops /\ Local(d) \subseteq S
  BY RowsStay DEF Rows
<1>2. held' = [held EXCEPT ![d] = S] /\ held'[d] = S
  BY <1>1, HeldFacts DEF Local
<1>3. R!Closed(S, parents')
  BY DEF R!Closed, IInv, DataInv, CausalOrder, Ordered, Local
<1> QED
  BY <1>1, <1>2, <1>3

(* An insertion of unused identifiers is a write. *)
LEMMA WriteStep ==
  ASSUME IInv, IInv', Monotone, NEW d \in Devices, NEW T, NEW key, T \subseteq Unused,
         Insert(d, T, key), UNCHANGED server
  PROVE  \E S \in SUBSET Ops : R!Write(d, S)
<1> DEFINE all == Rows(position'[d])
           S == all \ Local(d)
<1>1. position' = [position EXCEPT ![d] =
        [o \in Ops |-> IF o \in T \ Local(d)
                       THEN autoinc[d] + Rank(T, key, o)
                       ELSE position[d][o]]]
  BY DEF Insert
<1>2. position \in [Devices -> [Ops -> Nat]]
  BY DEF IInv, TypeOK
<1>3. \A c \in Devices \ {d} : position'[c] = position[c]
  BY <1>1, <1>2
<1>4. S \subseteq T
  BY <1>1, <1>2 DEF Local, Rows
<1>5. /\ all \in SUBSET Ops /\ Local(d) \subseteq all
      /\ held' = [held EXCEPT ![d] = all] /\ held'[d] = all
      /\ R!Closed(all, parents')
  BY <1>3, WholeTable
<1>6. \A o \in Written : parents'[o] = parents[o]
  BY DEF Monotone
<1>7. held[d] = Local(d) /\ sequence' = sequence
  BY HeldFacts DEF server
<1> HIDE DEF all
<1>8. held' = [held EXCEPT ![d] = @ \cup S]
  BY <1>5, <1>7
<1>9. S \cap (R!Known \cup DemoOps) = {}
  BY <1>4, HeldFacts DEF Unused
<1> QED
  BY <1>5, <1>6, <1>7, <1>8, <1>9, HeldFacts DEF R!Write

(* Saving the demo data: the device holds all of it afterwards. *)
LEMMA LoadDemoStep ==
  ASSUME IInv, IInv', Monotone, NEW e \in Engines, SaveDemo(e)
  PROVE  R!LoadDemo(StoreOf[e])
<1> DEFINE d == StoreOf[e]
<1>1. /\ d \in Devices /\ Insert(d, DemoOps \ Local(d), ById)
      /\ parents' = parents /\ sequence' = sequence
  BY StoreAssumption DEF SaveDemo, Save, server
<1> HIDE DEF d
<1>2. Inserts(d, DemoOps \ Local(d), ById)
  BY <1>1, OpsAssumption DEF Inserts, ById
<1>3. Keyed(Local(d), position[d], autoinc[d])
  BY <1>1 DEF IInv, DataInv, KeysAreUnique
<1>4. /\ Rows(position'[d]) = Local(d) \cup DemoOps
      /\ \A c \in Devices \ {d} : position'[c] = position[c]
  BY <1>1, <1>2, <1>3, InsertFacts DEF IInv
<1>5. held' = [held EXCEPT ![d] = Rows(position'[d])]
  BY <1>1, <1>4, WholeTable
<1>6. held' = [held EXCEPT ![d] = @ \cup DemoOps]
  BY <1>1, <1>4, <1>5, HeldFacts
<1> QED
  BY <1>1, <1>6 DEF R!LoadDemo, d

(* Restoring a bundle: an empty device gets a closed part of what the      *)
(* exporting device holds.                                                 *)
LEMMA RestoredStep ==
  ASSUME IInv, IInv', Monotone, NEW e \in Engines, NEW s \in Devices,
         NEW n \in 1 .. autoinc[s], Restore(e, s, n)
  PROVE  \E S \in SUBSET held[s] : R!Restore(StoreOf[e], s, S)
<1> DEFINE d == StoreOf[e]
           bundle == {o \in Local(s) : position[s][o] <= n}
           S == Rows(position'[d])
<1>1. /\ d \in Devices /\ Local(d) = {} /\ Insert(d, bundle, position[s])
      /\ parents' = parents /\ sequence' = sequence
  BY StoreAssumption DEF Restore, server
<1>2. /\ bundle \subseteq Local(s)
      /\ position \in [Devices -> [Ops -> Nat]]
  BY DEF IInv, TypeOK
<1> HIDE DEF d, bundle
<1>3. position' = [position EXCEPT ![d] =
        [o \in Ops |-> IF o \in bundle \ Local(d)
                       THEN autoinc[d] + Rank(bundle, position[s], o)
                       ELSE position[d][o]]]
  BY <1>1 DEF Insert
<1>4. S \subseteq Local(s)
  BY <1>1, <1>2, <1>3 DEF Local, Rows
<1>5. \A c \in Devices \ {d} : position'[c] = position[c]
  BY <1>2, <1>3
<1>6. held' = [held EXCEPT ![d] = S] /\ R!Closed(S, parents')
  BY <1>1, <1>5, WholeTable
<1>7. held[s] = Local(s) /\ held[d] = {}
  BY <1>1, HeldFacts
<1> HIDE DEF S
<1>8. S \in SUBSET held[s] /\ R!Restore(d, s, S)
  BY <1>1, <1>4, <1>6, <1>7 DEF R!Restore
<1> QED
  BY <1>8 DEF d

(* The log in order, as the abstract specification puts it. *)
LEMMA LogInOrder == IInv => R!InOrder
<1> SUFFICES ASSUME IInv PROVE R!InOrder
  OBVIOUS
<1>1. /\ {sequence[o] : o \in Stored} = 1 .. head
      /\ \A x, y \in Stored : sequence[x] = sequence[y] => x = y
      /\ \A o \in Stored : \A p \in parents[o] : p \in Stored /\ sequence[p] < sequence[o]
      /\ head \in Nat
  BY DEF IInv, TypeOK, DataInv, GapFree, CausalOrder, Ordered
<1>2. \A o \in Stored : \A n \in 1 .. sequence[o] : \E x \in Stored : sequence[x] = n
  <2> SUFFICES ASSUME NEW o \in Stored, NEW n \in 1 .. sequence[o]
               PROVE  \E x \in Stored : sequence[x] = n
    OBVIOUS
  <2>1. sequence[o] \in 1 .. head
    BY <1>1
  <2>2. n \in 1 .. head
    BY <1>1, <2>1
  <2> QED
    BY <1>1, <2>2
<1> QED
  BY <1>1, <1>2, HeldFacts DEF R!InOrder

(* What the server appends is a publication: the operations are rows of    *)
(* the device that sent them.                                              *)
LEMMA PublishStep ==
  ASSUME IInv', Monotone, NEW d \in Devices, NEW S, S \subseteq Local(d),
         Append(S, d), UNCHANGED device
  PROVE  R!Publish(d)
<1>1. \A o \in R!Logged : sequence'[o] = sequence[o]
  BY HeldFacts DEF Monotone
<1>2. R!Logged' \ R!Logged \subseteq S
  BY HeldFacts DEF Append, Stored, Rows
<1>3. R!InOrder'
  BY LogInOrder, PTL
<1>4. UNCHANGED <<parents, held>> /\ held[d] = Local(d)
  BY HeldFacts DEF device, Local
<1> QED
  BY <1>1, <1>2, <1>3, <1>4 DEF R!Publish

(* A page that is applied teaches its device the log up to the page's last *)
(* entry, with what it knew before; an empty page teaches it nothing.      *)
LEMMA LearnStep ==
  ASSUME IInv, IInv', Monotone, NEW e \in Engines, ApplyPage(e)
  PROVE  (\E x \in R!Logged : R!Learn(StoreOf[e], x)) \/ UNCHANGED <<parents, held, sequence>>
<1> DEFINE d == StoreOf[e]
           g == page[e]
           known == {o \in Stored : sequence[o] <= g.end}
<1>1. pc[e] = "page" /\ d \in Devices /\ parents' = parents /\ sequence' = sequence
  BY StoreAssumption DEF ApplyPage, server
<1>2. CASE ~Applicable(d, g)
  BY <1>1, <1>2, HeldFacts DEF ApplyPage, Local
<1>3. CASE Applicable(d, g)
  <2>1. Insert(d, Entries(g), sequence) /\ cursor' = [cursor EXCEPT ![d] = g.end]
    BY <1>3 DEF ApplyPage
  <2>2. /\ g.end \in Nat /\ g.end <= head /\ head \in Nat
        /\ sequence \in [Ops -> Nat]
        /\ cursor \in [Devices -> Nat] /\ position \in [Devices -> [Ops -> Nat]]
    BY <1>1 DEF IInv, TypeOK, FlightInv, Flight
  <2> HIDE DEF d, g
  <2>3. cursor'[d] = g.end
    BY <1>1, <2>1, <2>2
  <2>4. known \subseteq Rows(position'[d])
    BY <1>1, <2>3 DEF IInv, DataInv, NothingSkipped, Local, Stored
  <2>5. Rows(position'[d]) \subseteq Local(d) \cup known
    <3>1. position'[d] = [o \in Ops |->
            IF o \in Entries(g) \ Local(d)
            THEN autoinc[d] + Rank(Entries(g), sequence, o)
            ELSE position[d][o]]
      BY <1>1, <2>1, <2>2 DEF Insert
    <3>2. \A o \in Rows(position'[d]) : o \in Entries(g) \/ o \in Local(d)
      BY <3>1 DEF Local, Rows
    <3>3. g.after \in Nat
      BY <1>1 DEF IInv, TypeOK, g
    <3>4. Entries(g) \subseteq known
      BY <2>2, <3>3 DEF Entries, Stored, Rows
    <3> QED
      BY <3>2, <3>4
  <2>6. Rows(position'[d]) = Local(d) \cup known
    BY <1>1, <2>4, <2>5, RowsStay
  <2>7. \A c \in Devices \ {d} : position'[c] = position[c]
    BY <1>1, <2>1, <2>2 DEF Insert
  <2>8. held' = [held EXCEPT ![d] = @ \cup known]
    BY <1>1, <2>6, <2>7, HeldFacts DEF Local
  <2>9. {sequence[o] : o \in Stored} = 1 .. head
    BY DEF IInv, DataInv, GapFree
  <2>10. CASE g.end = 0
    <3>1. known = {}
      <4> SUFFICES ASSUME NEW o \in Stored, sequence[o] <= g.end
                   PROVE  FALSE
        OBVIOUS
      <4>1. sequence[o] \in 1 .. head
        BY <2>9
      <4> QED
        BY <4>1, <2>2, <2>10
    <3>2. held' = held
      <4>1. DOMAIN held = Devices /\ held = [c \in Devices |-> held[c]]
        BY HeldFacts
      <4>2. held' = [held EXCEPT ![d] = held[d]]
        BY <2>8, <3>1
      <4> QED
        BY <4>1, <4>2
    <3> QED
      BY <1>1, <3>2
  <2>11. CASE g.end # 0
    <3>1. PICK x \in Stored : sequence[x] = g.end
      BY <2>2, <2>9, <2>11
    <3>2. R!Learn(d, x)
      BY <1>1, <2>8, <3>1, HeldFacts DEF R!Learn
    <3> QED
      BY <3>1, <3>2, HeldFacts DEF d
  <2> QED
    BY <2>10, <2>11
<1> QED
  BY <1>2, <1>3

(* Each step of Sync is a step of Replication or a stutter. *)
LEMMA StepSimulation ==
  ASSUME IInv, IInv', Monotone, [Next]_vars
  PROVE  R!Next \/ UNCHANGED <<parents, held, sequence>>
<1>0. ASSUME UNCHANGED <<device, server>>
      PROVE  UNCHANGED <<parents, held, sequence>>
  BY <1>0, HeldFacts DEF device, server, Local
<1>1. ASSUME NEW e \in Engines, UserStep(e)
      PROVE  R!Next \/ UNCHANGED <<parents, held, sequence>>
  <2> DEFINE d == StoreOf[e]
  <2>1. d \in Devices
    BY StoreAssumption
  <2> HIDE DEF d
  <2>3. CASE \E S \in SUBSET Fresh : Create(e, S)
    <3>1. PICK S \in SUBSET Fresh : Create(e, S)
      BY <2>3
    <3>2. S \ Local(d) \subseteq Unused /\ Insert(d, S \ Local(d), ById) /\ UNCHANGED server
      BY <3>1 DEF Create, Save, Fresh, d
    <3> QED
      BY <2>1, <3>2, WriteStep DEF R!Next
  <2>4. CASE \E o \in Fresh : Edit(e, o)
    <3>1. PICK o \in Fresh : Edit(e, o)
      BY <2>4
    <3>2. {o} \ Local(d) \subseteq Unused /\ Insert(d, {o} \ Local(d), ById) /\ UNCHANGED server
      BY <3>1 DEF Edit, Save, Fresh, d
    <3> QED
      BY <2>1, <3>2, WriteStep DEF R!Next
  <2>5. CASE SaveDemo(e)
    BY <2>1, <2>5, LoadDemoStep DEF R!Next, d
  <2>6. CASE \E s \in Devices : \E n \in 1 .. autoinc[s] : Restore(e, s, n)
    BY <2>1, <2>6, RestoredStep DEF R!Next, d
  <2>7. CASE Refresh(e) \/ CheckEmpty(e) \/ Login(e) \/ Resume(e)
    BY <1>0, <2>7 DEF Refresh, CheckEmpty, Login, Resume
  <2> QED
    BY <1>1, <2>3, <2>4, <2>5, <2>6, <2>7 DEF UserStep
<1>2. ASSUME NEW e \in Engines, SyncStep(e)
      PROVE  R!Next \/ UNCHANGED <<parents, held, sequence>>
  <2>1. StoreOf[e] \in Devices
    BY StoreAssumption
  <2>2. CASE ServerPush(e)
    <3>1. UNCHANGED device /\ sent[e] \subseteq Local(StoreOf[e])
      BY <2>2 DEF ServerPush, IInv, FlightInv, Flight, Batch
    <3>2. Append(sent[e], StoreOf[e]) \/ UNCHANGED server
      BY <2>2 DEF ServerPush
    <3> QED
      BY <1>0, <2>1, <3>1, <3>2, PublishStep DEF R!Next
  <2>3. CASE ApplyPage(e)
    BY <2>1, <2>3, LearnStep DEF R!Next
  <2>4. CASE Acknowledge(e)
    BY <2>4, HeldFacts DEF Acknowledge, server, Local
  <2>5. CASE \/ Start(e) \/ SendPush(e) \/ EndPush(e) \/ SendPull(e)
             \/ ServerPull(e) \/ Finish(e) \/ Denied(e)
    BY <1>0, <2>5 DEF Start, SendPush, EndPush, SendPull, ServerPull, Finish, Denied
  <2> QED
    BY <1>2, <2>2, <2>3, <2>4, <2>5 DEF SyncStep
<1>3. ASSUME NEW e \in Engines, FaultStep(e)
      PROVE  UNCHANGED <<parents, held, sequence>>
  BY <1>0, <1>3 DEF FaultStep, Fail, Refused, Crash, Logout, Pause
<1>4. ASSUME NEW m \in stray, ServerStray(m)
      PROVE  R!Next \/ UNCHANGED <<parents, held, sequence>>
  <2>1. m.store \in Devices /\ m.ops \subseteq Local(m.store)
    BY DEF IInv, TypeOK, FlightInv, Batch
  <2>2. UNCHANGED device /\ (Append(m.ops, m.store) \/ UNCHANGED server)
    BY <1>4 DEF ServerStray
  <2> QED
    BY <1>0, <2>1, <2>2, PublishStep DEF R!Next
<1>5. CASE UNCHANGED vars
  BY <1>0, <1>5 DEF vars
<1> QED
  BY <1>1, <1>2, <1>3, <1>4, <1>5 DEF Next

(* The client, the server and the network together implement the log that  *)
(* the devices agree on: a device only ever learns prefixes of it, whole,  *)
(* and only operations that a device holds enter it, after their parents   *)
(* (sync_engine.dart:50, memory.go:83).                                    *)
THEOREM Refinement == Spec => Implements
<1>1. Init => R!Init
  <2> SUFFICES ASSUME Init PROVE R!Init
    OBVIOUS
  <2> QED
    BY HeldFacts DEF Init, R!Init, Local, Rows
<1>2. IInv /\ IInv' /\ [Next]_vars => [R!Next]_<<parents, held, sequence>>
  BY NextInv, StepSimulation
<1> QED
  BY <1>1, <1>2, Inductive, PTL DEF Spec, Implements, R!Spec, R!vars
=============================================================================
