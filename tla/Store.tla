------------------------------- MODULE Store -------------------------------
(***************************************************************************)
(* What the interface Store promises of its writing methods, whichever     *)
(* adapter is behind it (store/store.go): each is one step that adds all   *)
(* its rows or none.  The memory adapter is that by its mutex              *)
(* (store/memory.go); Postgres takes many statements for it.               *)
(***************************************************************************)
EXTENDS Naturals, FiniteSets, Sequences

CONSTANTS
  Devices,    \* device identifiers
  Users,      \* user names
  Ops,        \* operations, identifier and contents together
  Files,      \* attachments, the same
  Id,         \* Id[x]: the identifier of an operation or an attachment
  Parents,    \* Parents[o]: the identifiers of o's parents
  Batches     \* what a push may carry: never nothing

ASSUME BatchAssumption == Batches \subseteq Seq(Ops) \ {<<>>}

VARIABLE db   \* rows of the workspace

-----------------------------------------------------------------------------
(* A row of a table: its key, its number where the table has one, and who  *)
(* caused it.  The flag revoked of a device is a row of its own.  A line   *)
(* of the audit log has the table and key of the row it is about.          *)
Row(table, key, number, by) ==
  [table |-> table, key |-> key, number |-> number, by |-> by]

Table(S, table) == {r \in S : r.table = table}
Keys(S, table)  == {r.key : r \in Table(S, table)}

Registrations == [kind : {"register"}, user : Users, device : Devices]
Revocations   == [kind : {"revoke"}, user : Users, device : Devices]
Pushes        == [kind : {"push"}, user : Users, device : Devices, batch : Batches]
Uploads       == [kind : {"upload"}, user : Users, device : Devices, file : Files]
Requests      == Registrations \cup Revocations \cup Pushes \cup Uploads

Trusted(S, u, d) ==
  /\ \E r \in Table(S, "devices") : r.key = d /\ r.by = <<u>>
  /\ d \notin Keys(S, "revoked")

(* The check of the device. *)
Entitled(S, r) ==
  CASE r.kind = "register" -> r.device \in Keys(S, "devices") => Trusted(S, r.user, r.device)
    [] r.kind = "revoke"   -> r.device \in Keys(S, "devices")
    [] OTHER               -> Trusted(S, r.user, r.device)

(* An identifier always says the same, and parents come first.             *)
Agrees(X, x) == \A y \in X : Id[y] = Id[x] => y = x

Valid(S, batch) ==
  \A k \in DOMAIN batch :
    LET known == Keys(S, "operations") \cup {batch[j] : j \in 1 .. k - 1}
    IN  /\ Agrees(known, batch[k])
        /\ batch[k] \in known \/ Parents[batch[k]] \subseteq {Id[x] : x \in known}

Consistent(S, r) ==
  CASE r.kind = "push"   -> Valid(S, r.batch)
    [] r.kind = "upload" -> Agrees(Keys(S, "attachments"), r.file)
    [] OTHER             -> TRUE

(* The rows that r asks for: table and key. *)
Wanted(r) ==
  CASE r.kind = "register" -> << <<"devices", r.device>> >>
    [] r.kind = "revoke"   -> << <<"revoked", r.device>> >>
    [] r.kind = "push"     -> [k \in DOMAIN r.batch |-> <<"operations", r.batch[k]>>]
    [] r.kind = "upload"   -> << <<"attachments", r.file>> >>

(* Those that are not there yet, by their places in Wanted(r); a row that  *)
(* is asked for twice is inserted once.                                    *)
Missing(S, r) ==
  LET w == Wanted(r)
  IN  {n \in DOMAIN w : /\ w[n][2] \notin Keys(S, w[n][1])
                        /\ \A j \in 1 .. n - 1 : w[j] # w[n]}

UpTo(N, n) == {j \in N : j <= n}

(* The columns that say who caused a row. *)
By(table, r) ==
  CASE table \in {"devices", "audit"} -> <<r.user>>
    [] table = "operations"           -> <<r.user, r.device>>
    [] OTHER                          -> <<>>

(* The n-th row after those of S in a table that numbers its rows.        *)
Number(S, table, n) ==
  IF table \in {"operations", "audit"} THEN Cardinality(Table(S, table)) + n ELSE 0

(* What inserting the n-th row of Wanted(r) adds, and logging it.          *)
Effect(S, r, n) ==
  LET w == Wanted(r)[n]
  IN  Row(w[1], w[2], Number(S, w[1], Cardinality(UpTo(Missing(S, r), n))), By(w[1], r))

Line(S, r, n) ==
  Row("audit", Wanted(r)[n], Number(S, "audit", Cardinality(UpTo(Missing(S, r), n))),
      By("audit", r))

Additions(S, r) ==
  {Effect(S, r, n) : n \in Missing(S, r)} \cup {Line(S, r, n) : n \in Missing(S, r)}

-----------------------------------------------------------------------------
Handle(r) ==
  /\ Entitled(db, r) /\ Consistent(db, r)
  /\ db' = db \cup Additions(db, r)

StoreInit == db = {}
StoreNext == \E r \in Requests : Handle(r)
StoreSpec == StoreInit /\ [][StoreNext]_db
=============================================================================
