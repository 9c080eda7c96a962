---------------------------- MODULE Replication ----------------------------
(* What the field client and the server promise together: operations that  *)
(* devices hold, one log that they agree on, and nothing of the outboxes,  *)
(* cursors, batches, pages and retries that bring it about.                *)
EXTENDS Naturals

CONSTANTS
  Devices,    \* devices
  Ops,        \* operations
  Demo        \* the operations of the demo data

VARIABLES
  parents,    \* parents[o]: the versions o's author had observed
  held,       \* held[d]: the operations device d has
  log         \* log[o]: o's number in the log, 0 if it is not in it

vars == <<parents, held, log>>

Logged == {o \in Ops : log[o] # 0}
Known  == UNION {held[d] : d \in Devices}

(* The log lists its operations without gaps, each after its parents. *)
InOrder ==
  /\ \A o \in Logged : \A n \in 1 .. log[o] : \E x \in Logged : log[x] = n
  /\ \A x, y \in Logged : log[x] = log[y] => x = y
  /\ \A o \in Logged : \A p \in parents[o] : p \in Logged /\ log[p] < log[o]

Init ==
  /\ parents = [o \in Ops |-> {}]
  /\ held = [d \in Devices |-> {}]
  /\ log = [o \in Ops |-> 0]

(* Whatever a device holds, it holds the parents of. *)
Closed(S, par) == \A o \in S : par[o] \subseteq S

(* The user of d writes S: operations nobody had before.  The parents of   *)
(* an operation that somebody has are settled.                             *)
Write(d, S) ==
  /\ S \cap (Known \cup Demo) = {}
  /\ held' = [held EXCEPT ![d] = @ \cup S]
  /\ \A o \in Known : parents'[o] = parents[o]
  /\ Closed(held'[d], parents')
  /\ UNCHANGED log

(* d loads the demo data, which is the same on every device. *)
LoadDemo(d) ==
  /\ held' = [held EXCEPT ![d] = @ \cup Demo]
  /\ UNCHANGED <<parents, log>>

(* d, empty, restores what s held at some moment. *)
Restore(d, s, S) ==
  /\ held[d] = {} /\ S \subseteq held[s] /\ Closed(S, parents)
  /\ held' = [held EXCEPT ![d] = S]
  /\ UNCHANGED <<parents, log>>

(* Operations that d holds enter the log, behind those it has. *)
Publish(d) ==
  /\ \A o \in Logged : log'[o] = log[o]
  /\ Logged' \ Logged \subseteq held[d]
  /\ InOrder'
  /\ UNCHANGED <<parents, held>>

(* d learns the log up to entry x, all of it. *)
Learn(d, x) ==
  /\ held' = [held EXCEPT ![d] = @ \cup {o \in Logged : log[o] <= log[x]}]
  /\ UNCHANGED <<parents, log>>

Next ==
  \E d \in Devices :
    \/ \E S \in SUBSET Ops : Write(d, S)
    \/ LoadDemo(d)
    \/ \E s \in Devices : \E S \in SUBSET held[s] : Restore(d, s, S)
    \/ Publish(d)
    \/ \E x \in Logged : Learn(d, x)

Spec == Init /\ [][Next]_vars
=============================================================================
