--------------------------- MODULE MCAttachments ---------------------------
(* A small instance of Attachments for TLC. *)
EXTENDS Attachments, TLC

CONSTANTS f1, f2, f3, s1, s2, w1, w2, p1

(* A store with two windows, and one of another device with a panel. *)
TwoWindows == w1 :> s1 @@ w2 :> s1 @@ p1 :> s2

OneRecord == [f \in Files |-> 1]
=============================================================================
