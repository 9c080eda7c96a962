--------------------------- MODULE LocalDatabase ---------------------------
(***************************************************************************)
(* What the application relies on when it calls its SQLite database: work  *)
(* is committed whole and in an order, what is committed becomes           *)
(* persistent by and by and in that order, and a restart may lose what is  *)
(* not persistent yet, the latest work first.  The browser may refuse to   *)
(* keep something: it says so to nobody, and from then on nothing is       *)
(* promised of what is persistent, only of the log.                        *)
(***************************************************************************)
EXTENDS Naturals, SequencesExt

CONSTANT Works   \* transactions and single statements

VARIABLES
  log,     \* what is committed, in order
  kept,    \* how much of it is persistent
  intact   \* nothing has been refused since the last restart

vars == <<log, kept, intact>>

Init == log = <<>> /\ kept = 0 /\ intact = TRUE

Commit(m) ==
  /\ m \notin ToSet(log)
  /\ log' = Append(log, m)
  /\ UNCHANGED <<kept, intact>>

Keep ==
  /\ intact
  /\ kept' \in (kept + 1)..Len(log)
  /\ UNCHANGED <<log, intact>>

Refuse ==
  /\ intact' = FALSE
  /\ UNCHANGED <<log, kept>>

Restart ==
  /\ intact
  /\ kept' \in kept..Len(log)
  /\ log' = SubSeq(log, 1, kept')
  /\ UNCHANGED intact

Next == Keep \/ Refuse \/ Restart \/ \E m \in Works : Commit(m)

Spec == Init /\ [][Next]_vars /\ WF_vars(Keep)
=============================================================================
