------------------------------ MODULE Promises ------------------------------
(***************************************************************************)
(* What the code of the worker expects of a future: it is settled once, and *)
(* what is registered on it is told its outcome once, in the order in which *)
(* it was registered and before it has a result of its own.  Futures that   *)
(* follow one another are settled together.                                *)
(***************************************************************************)
EXTENDS Naturals

CONSTANTS MaxFutures, None

Ids == 1..MaxFutures
Outcomes == [how : {"value", "error"}, by : Ids]

VARIABLES
  outcome,     \* outcome[f], None while it is open
  source,      \* source[l]: the future that l is registered on and results from, or 0
  heard        \* heard[l]: the outcome that l was told, or None

promiseVars == <<outcome, source, heard>>

PromisesInit ==
  /\ outcome = [f \in Ids |-> None]
  /\ source = [f \in Ids |-> 0]
  /\ heard = [f \in Ids |-> None]

(* Listeners are numbered in the order of their registration. *)
Register(l, f) ==
  /\ source[l] = 0 /\ f < l
  /\ \A k \in Ids : k > l => source[k] = 0
  /\ source' = [source EXCEPT ![l] = f]
  /\ UNCHANGED <<outcome, heard>>

RegisterBoth(l, f, g) ==
  /\ source[l] = 0 /\ f < l /\ g < l
  /\ \A k \in Ids : k > l => source[k] = 0
  /\ source' = [source EXCEPT ![l] = f, ![l + 1] = g]
  /\ UNCHANGED <<outcome, heard>>

Settling(F, o) ==
  /\ \A f \in F : outcome[f] = None /\ (source[f] # 0 => heard'[f] # None)
  /\ outcome' = [f \in Ids |-> IF f \in F THEN o ELSE outcome[f]]

Hear(l) ==
  /\ source[l] # 0 /\ heard[l] = None /\ outcome[source[l]] # None
  /\ \A k \in Ids : k < l /\ source[k] = source[l] => heard[k] # None
  /\ heard' = [heard EXCEPT ![l] = outcome[source[l]]]

(* To be told may settle the result at once. *)
PromisesNext ==
  \/ \E l, f \in Ids : Register(l, f)
  \/ \E l, f, g \in Ids : l < MaxFutures /\ RegisterBoth(l, f, g)
  \/ \E F \in SUBSET Ids, o \in Outcomes :
       /\ \/ UNCHANGED heard
          \/ \E l \in Ids : Hear(l)
       /\ Settling(F, o)
       /\ UNCHANGED source

PromisesSpec == PromisesInit /\ [][PromisesNext]_promiseVars
=============================================================================
