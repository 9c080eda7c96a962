--------------------------- MODULE SyncImplements ---------------------------
(* Sync implements Replication: the rows of a device are what it holds, the *)
(* server's log is the log.                                                *)
EXTENDS Sync

held == [d \in Devices |-> Local(d)]

R == INSTANCE Replication WITH log <- sequence, Demo <- DemoOps

(* Every step of the client, the server and the network, failures included, *)
(* is a step of Replication or changes nothing it speaks of                *)
(* (sync_engine.dart:50).                                                  *)
Implements == R!Spec
=============================================================================
