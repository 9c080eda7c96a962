------------------------------- MODULE MCSync -------------------------------
(* Small instances of Sync for TLC: which window works on which database,  *)
(* and which record and field each operation identifier belongs to.        *)
EXTENDS SyncImplements, TLC

CONSTANTS d1, d2, e1, e2, e3

(* One window per device; renaming a device along with its window changes  *)
(* nothing.  Or two tabs of one browser, and a window of another device.   *)
OneEach == e1 :> d1 @@ e2 :> d2
Swap == {d1 :> d2 @@ d2 :> d1 @@ e1 :> e2 @@ e2 :> e1,
         d1 :> d1 @@ d2 :> d2 @@ e1 :> e1 @@ e2 :> e2}
TwoTabs == e1 :> d1 @@ e2 :> d1 @@ e3 :> d2
SwapTabs == {e1 :> e2 @@ e2 :> e1, e1 :> e1 @@ e2 :> e2}

(* Up to four operations of one record: versions of one field, or an       *)
(* inspection created with two fields and edits of the first.              *)
TwoOps == 1 .. 2
ThreeOps == 1 .. 3
FourOps == 1 .. 4
InOneRecord == [o \in FourOps |-> 1]
InOneField == [o \in FourOps |-> "title"]
InTwoFields == [o \in FourOps |-> IF o = 2 THEN "site" ELSE "title"]
Title == {"title"}
TitleAndSite == {"title", "site"}

(* Of the keys of a table only their order matters: states that differ in  *)
(* the gaps between keys alone are checked once.                           *)
Below(keys, n) == Cardinality({o \in Ops : 0 < keys[o] /\ keys[o] <= n})
UpToGaps ==
  <<parents, outbox, cursor, server, task, connected, paused, seeding, faults,
    [d \in Devices |-> [o \in Ops |-> Below(position[d], position[d][o])]],
    [e \in Engines |-> Below(position[StoreOf[e]], seen[e])]>>
=============================================================================
