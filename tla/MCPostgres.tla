----------------------------- MODULE MCPostgres -----------------------------
(* Small instances of Postgres for TLC. *)
EXTENDS Postgres, TLC

CONSTANTS note, reply, edited, photo, c1, c2

(* A note, a reply to it, and another operation under the note's identifier. *)
TheId == note :> 1 @@ edited :> 1 @@ reply :> 2 @@ photo :> 1
TheParents == note :> {} @@ edited :> {} @@ reply :> {1}

SomeBatches == {<<note, reply>>, <<reply>>, <<edited>>, <<note, note>>}
OneBatch    == {<<note, reply>>}

Alike == Permutations({c1, c2})
=============================================================================
