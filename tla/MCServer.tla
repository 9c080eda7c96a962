------------------------------ MODULE MCServer ------------------------------
(* Small instances of Server for TLC. *)
EXTENDS Server, TLC

CONSTANTS editor, viewer, admin, d1, d2, o1, o2, c1, c2, h1, h2

Roles == editor :> "editor" @@ viewer :> "viewer" @@ admin :> "admin"
EditorOnly == editor :> "editor"

(* Devices, operations, contents and handlers of each kind are alike. *)
Alike == {f @@ g @@ k : f \in Permutations({d1, d2}),
                        g \in Permutations({o1, o2}),
                        k \in {i @@ j : i \in Permutations({c1, c2}),
                                        j \in Permutations({h1, h2})}}
=============================================================================
