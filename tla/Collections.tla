----------------------------- MODULE Collections -----------------------------
(***************************************************************************)
(* The maps that the worker keeps its state in (A.aY and A.dy of           *)
(* web/sqflite_sw.js): its databases, the files in memory, their numbers   *)
(* in IndexedDB, the blocks of a write; and the sets made of them.         *)
(*                                                                         *)
(* A key is a string or a small number, which is looked up by its name, or *)
(* an object, which is looked for in the bucket of its hash.               *)
(***************************************************************************)
EXTENDS Integers, SequencesExt

CONSTANTS
  Keys,       \* records: kind, name and hash
  Nothing     \* no value, no key

ASSUME KeysAssumption ==
  /\ \A k \in Keys : k.kind \in {"string", "number", "object"}
  /\ \A k, l \in Keys : k.kind = l.kind /\ k.kind # "object" /\ k.name = l.name => k = l
  /\ Nothing \notin Nat

ValueAt(f, x, default) == IF x \in DOMAIN f THEN f[x] ELSE default
With(f, x, y)     == [z \in DOMAIN f \cup {x} |-> IF z = x THEN y ELSE f[z]]
But(f, x)         == [z \in DOMAIN f \ {x} |-> f[z]]

Direct(k) == k.kind # "object"
Tables    == [kind \in {"string", "number"} |-> <<>>]

-----------------------------------------------------------------------------
(* The map that keeps the order of insertion.  A cell is a place in cells, *)
(* 0 for none.                                                             *)

NewMap == [tables |-> Tables, buckets |-> <<>>, cells |-> <<>>,
           first |-> 0, last |-> 0, size |-> 0, changes |-> 0]

PlaceIn(m, bucket, k) ==
  LET at == {i \in DOMAIN bucket : m.cells[bucket[i]].key = k}
  IN  IF at = {} THEN 0 ELSE CHOOSE i \in at : \A j \in at : i <= j

Bucket(m, k) == ValueAt(m.buckets, k.hash, <<>>)

Find(m, k) ==
  IF Direct(k) THEN ValueAt(m.tables[k.kind], k.name, 0)
  ELSE LET i == PlaceIn(m, Bucket(m, k), k) IN IF i = 0 THEN 0 ELSE Bucket(m, k)[i]

AddCell(m, k, v) ==
  LET c    == Len(m.cells) + 1
      cell == [key |-> k, value |-> v, next |-> 0, previous |-> m.last]
  IN  [m EXCEPT !.cells = Append(IF m.last = 0 THEN @ ELSE [@ EXCEPT ![m.last].next = c], cell),
                !.first = IF @ = 0 THEN c ELSE @,
                !.last = c,
                !.size = @ + 1, !.changes = @ + 1]

Put(m, k, v) ==
  LET c   == Find(m, k)
      new == Len(m.cells) + 1
      n   == AddCell(m, k, v)
  IN  IF c # 0 THEN [m EXCEPT !.cells[c].value = v]
      ELSE IF Direct(k) THEN [n EXCEPT !.tables[k.kind] = With(@, k.name, new)]
      ELSE [n EXCEPT !.buckets = With(@, k.hash, Append(Bucket(m, k), new))]

(* Slip: the last cell stays the last. *)
UnlinkForward(m, c) ==
  LET next     == m.cells[c].next
      previous == m.cells[c].previous
      relinked == [i \in DOMAIN m.cells |->
                     [m.cells[i] EXCEPT !.next = IF i = previous THEN next ELSE @,
                                        !.previous = IF i = next THEN previous ELSE @]]
  IN  [m EXCEPT !.cells = relinked,
                !.first = IF previous = 0 THEN next ELSE @,
                !.size = @ - 1, !.changes = @ + 1]

(* The cell keeps its own links. *)
Unlink(m, c) ==
  LET next     == m.cells[c].next
      previous == m.cells[c].previous
      relinked == [i \in DOMAIN m.cells |->
                     [m.cells[i] EXCEPT !.next = IF i = previous THEN next ELSE @,
                                        !.previous = IF i = next THEN previous ELSE @]]
  IN  [m EXCEPT !.cells = relinked,
                !.first = IF previous = 0 THEN next ELSE @,
                !.last = IF next = 0 THEN previous ELSE @,
                !.size = @ - 1, !.changes = @ + 1]

Delete(m, k) ==
  LET c    == Find(m, k)
      n    == Unlink(m, c)
      left == RemoveAt(Bucket(m, k), PlaceIn(m, Bucket(m, k), k))
  IN  IF c = 0 THEN m
      ELSE IF Direct(k) THEN [n EXCEPT !.tables[k.kind] = But(@, k.name)]
      ELSE [n EXCEPT !.buckets = IF left = <<>> THEN But(@, k.hash) ELSE With(@, k.hash, left)]

Value(m, k) == IF Find(m, k) = 0 THEN Nothing ELSE m.cells[Find(m, k)].value

Entries(m) ==
  LET From[c \in 0 .. Len(m.cells)] ==
        IF c = 0 THEN <<>> ELSE <<m.cells[c]>> \o From[m.cells[c].next]
  IN  [i \in DOMAIN From[m.first] |-> <<From[m.first][i].key, From[m.first][i].value>>]

(* A set is such a map of which only the keys are read. *)
Has(m, k)     == Find(m, k) # 0
Include(m, k) == IF Has(m, k) THEN m ELSE Put(m, k, 1)
Exclude(m, k) == Delete(m, k)

(* A walk over the entries ends with an error when the map was changed. *)
Walk(m)       == [changes |-> m.changes, next |-> m.first]
Failed(m, w)  == w.changes # m.changes
Shown(m, w)   == IF w.next = 0 THEN Nothing ELSE m.cells[w.next].key
Stepped(m, w) == IF w.next = 0 THEN w ELSE [w EXCEPT !.next = m.cells[w.next].next]

-----------------------------------------------------------------------------
(* The map that keeps no order.  A bucket is its keys and values in turn;  *)
(* the list of the keys is made when it is needed and kept until there is  *)
(* another key.  Lists are told apart by a number, 0 for none.             *)

NewHashMap == [strings |-> <<>>, numbers |-> <<>>, buckets |-> <<>>,
               size |-> 0, keys |-> <<>>, list |-> 0, lists |-> 0]

PairIn(bucket, k) ==
  LET at == {i \in DOMAIN bucket : i % 2 = 1 /\ bucket[i] = k}
  IN  IF at = {} THEN 0 ELSE CHOOSE i \in at : \A j \in at : i <= j

HashBucket(h, k) == ValueAt(h.buckets, k.hash, <<>>)

HashValue(h, k) ==
  LET i == PairIn(HashBucket(h, k), k)
      s == {j \in DOMAIN h.strings : h.strings[j][1] = k}
  IN  CASE k.kind = "string" -> IF s = {} THEN Nothing ELSE h.strings[CHOOSE j \in s : TRUE][2]
        [] k.kind = "number" -> ValueAt(h.numbers, k, Nothing)
        [] OTHER             -> IF i = 0 THEN Nothing ELSE HashBucket(h, k)[i + 1]

HashPut(h, k, v) ==
  LET bucket == HashBucket(h, k)
      i      == PairIn(bucket, k)
      known  == HashValue(h, k) # Nothing
      s      == {j \in DOMAIN h.strings : h.strings[j][1] = k}
      put    == CASE k.kind = "string" ->
                       [h EXCEPT !.strings = IF known THEN [@ EXCEPT ![CHOOSE j \in s : TRUE][2] = v]
                                             ELSE Append(@, <<k, v>>)]
                  [] k.kind = "number" -> [h EXCEPT !.numbers = With(@, k, v)]
                  [] OTHER -> [h EXCEPT !.buckets = With(@, k.hash,
                                   IF known THEN [bucket EXCEPT ![i + 1] = v]
                                   ELSE bucket \o <<k, v>>)]
  IN  IF known THEN put ELSE [put EXCEPT !.size = @ + 1, !.list = 0]

(* Strings as they came, then numbers, then objects by bucket; the order   *)
(* among numbers and among buckets is left out.                            *)
KeyPlaces(h) == UNION {{<<x, i>> : i \in {j \in DOMAIN h.buckets[x] : j % 2 = 1}} : x \in DOMAIN h.buckets}

MakeKeys(h) ==
  LET places == SetToSeq(KeyPlaces(h))
  IN  [i \in DOMAIN h.strings |-> h.strings[i][1]] \o SetToSeq(DOMAIN h.numbers)
      \o [i \in DOMAIN places |-> h.buckets[places[i][1]][places[i][2]]]

Listed(h) == IF h.list # 0 THEN h
             ELSE [h EXCEPT !.keys = MakeKeys(h), !.list = h.lists + 1, !.lists = @ + 1]

HashWalk(h)      == [list |-> h.list, keys |-> h.keys, at |-> 0]
HashFailed(h, w) == w.list # h.list
HashShown(w)     == IF w.at >= Len(w.keys) THEN Nothing ELSE w.keys[w.at + 1]
HashStepped(w)   == [w EXCEPT !.at = @ + 1]

-----------------------------------------------------------------------------
(* What both promise: a list of pairs, in the order in which their keys    *)
(* were put, and of a walk the keys that are left to show.                 *)

PlaceOf(list, k) == {i \in DOMAIN list : list[i][1] = k}
Putting(list, k, v) ==
  IF PlaceOf(list, k) = {} THEN Append(list, <<k, v>>)
  ELSE [i \in DOMAIN list |-> IF i \in PlaceOf(list, k) THEN <<k, v>> ELSE list[i]]
Deleting(list, k) == IF PlaceOf(list, k) = {} THEN list
                     ELSE RemoveAt(list, CHOOSE i \in PlaceOf(list, k) : TRUE)
ListValue(list, k) == IF PlaceOf(list, k) = {} THEN Nothing
                      ELSE list[CHOOSE i \in PlaceOf(list, k) : TRUE][2]
KeysOf(list) == [i \in DOMAIN list |-> list[i][1]]

(* What can come about in one call more: a map and a walk over it, and     *)
(* what they are to be.                                                    *)
Put12 == {<<k, v>> : k \in Keys, v \in {1, 2}}

Since(s, list) == IF Len(list) = Len(s.list) THEN s.valid ELSE FALSE

LinkedAfter(s) ==
  LET with(m, list) == [s EXCEPT !.map = m, !.list = list, !.valid = Since(s, list)]
  IN  {with(Put(s.map, p[1], p[2]), Putting(s.list, p[1], p[2])) : p \in Put12}
      \cup {with(Include(s.map, k), IF PlaceOf(s.list, k) = {} THEN Putting(s.list, k, 1) ELSE s.list)
              : k \in Keys}
      \cup {with(Exclude(s.map, k), Deleting(s.list, k)) : k \in Keys}
      \cup {[s EXCEPT !.walk = Walk(s.map), !.left = KeysOf(s.list), !.valid = TRUE]}
      \cup IF Failed(s.map, s.walk) THEN {}
           ELSE {[s EXCEPT !.walk = Stepped(s.map, s.walk), !.left = IF @ = <<>> THEN @ ELSE Tail(@)]}

HashAfter(s) ==
  LET listed == Listed(s.map)
  IN  {[s EXCEPT !.map = HashPut(s.map, p[1], p[2]), !.list = Putting(s.list, p[1], p[2]),
                 !.valid = Since(s, Putting(s.list, p[1], p[2]))] : p \in Put12}
      \cup {[s EXCEPT !.map = listed, !.walk = HashWalk(listed), !.left = MakeKeys(s.map), !.valid = TRUE]}
      \cup IF HashFailed(s.map, s.walk) THEN {}
           ELSE {[s EXCEPT !.walk = HashStepped(s.walk), !.left = IF @ = <<>> THEN @ ELSE Tail(@)]}

Made(m, w) == [map |-> m, list |-> <<>>, walk |-> w, left |-> <<>>, valid |-> TRUE]
NewLinked  == Made(NewMap, Walk(NewMap))
NewHashed  == Made(Listed(NewHashMap), HashWalk(Listed(NewHashMap)))

First(left) == IF left = <<>> THEN Nothing ELSE Head(left)

(* A map holds what was put and not deleted, each key with its last value, *)
(* in the order in which the keys were put.  A walk shows each key once,   *)
(* and fails exactly when a key came or went since it began.               *)
LinkedIsRight(s) ==
  /\ Entries(s.map) = s.list
  /\ s.map.size = Len(s.list)
  /\ \A k \in Keys : /\ Value(s.map, k) = ListValue(s.list, k)
                     /\ Has(s.map, k) = (PlaceOf(s.list, k) # {})
  /\ Failed(s.map, s.walk) = ~s.valid
  /\ s.valid => Shown(s.map, s.walk) = First(s.left)

(* The same of the map that does not keep the order. *)
HashedIsRight(s) ==
  /\ ToSet(MakeKeys(s.map)) = ToSet(KeysOf(s.list))
  /\ s.map.size = Len(s.list) /\ Len(MakeKeys(s.map)) = Len(s.list)
  /\ \A k \in Keys : HashValue(s.map, k) = ListValue(s.list, k)
  /\ HashFailed(s.map, s.walk) = ~s.valid
  /\ s.valid => HashShown(s.walk) = First(s.left)
=============================================================================
