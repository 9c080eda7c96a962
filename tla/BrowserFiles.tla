---------------------------- MODULE BrowserFiles ----------------------------
(***************************************************************************)
(* The file system under SQLite in the browser (class cf and its work      *)
(* items in web/sqflite_sw.js).  Files are kept in memory; every change is *)
(* queued, merged with what is queued already, and written to IndexedDB in *)
(* batches.  A batch is all that is queued, in one IndexedDB transaction,  *)
(* and the next one starts when it has ended.                              *)
(*                                                                         *)
(* A file is a function from the numbers of its blocks to what they hold;  *)
(* a set of files maps the names of those that exist.  An item stands for  *)
(* one file; a write holds the blocks it writes.                           *)
(*                                                                         *)
(* The browser may refuse a batch, for want of space or otherwise.  Files  *)
(* are known to IndexedDB by numbers, which the worker remembers and which *)
(* a refused batch may leave wrong; the model has names only, and what it  *)
(* says of IndexedDB after a refusal is one of the things that may happen. *)
(***************************************************************************)
EXTENDS Naturals, SequencesExt, FiniteSetsExt

VARIABLES
  files,     \* the files in memory
  pending,   \* items queued
  inflight,  \* items of the batch that is being written
  disk,      \* the files in IndexedDB
  intact     \* no batch of this worker has been refused

filesVars == <<files, pending, inflight, disk, intact>>

NoFiles == [f \in {} |-> {}]
Empty   == [b \in {} |-> {}]

CreateItem(f)      == [op |-> "create", file |-> f]
DeleteItem(f)      == [op |-> "delete", file |-> f]
WriteItem(f, data) == [op |-> "write", file |-> f, data |-> data]
TruncateItem(f, n) == [op |-> "truncate", file |-> f, size |-> n]

-----------------------------------------------------------------------------
(* What an item does to a set of files, in memory and in IndexedDB.        *)

Over(new, old) ==
  [b \in DOMAIN new \cup DOMAIN old |-> IF b \in DOMAIN new THEN new[b] ELSE old[b]]

Restricted(file, n) == [b \in {b \in DOMAIN file : b <= n} |-> file[b]]

Applicable(i, fs) ==
  IF i.op = "create" THEN i.file \notin DOMAIN fs ELSE i.file \in DOMAIN fs

Applied(i, fs) ==
  CASE i.op = "create"   -> Over([f \in {i.file} |-> Empty], fs)
    [] i.op = "write"    -> [fs EXCEPT ![i.file] = Over(i.data, @)]
    [] i.op = "truncate" -> [fs EXCEPT ![i.file] = Restricted(@, i.size)]
    [] i.op = "delete"   -> [f \in DOMAIN fs \ {i.file} |-> fs[f]]

(* A batch is written as a whole: one item that cannot be applied aborts   *)
(* the IndexedDB transaction.                                              *)
Outcome(items, fs) ==
  LET after[k \in 0..Len(items)] ==
        IF k = 0 THEN [ok |-> TRUE, files |-> fs]
        ELSE LET o == after[k - 1]
             IN  IF o.ok /\ Applicable(items[k], o.files)
                 THEN [ok |-> TRUE, files |-> Applied(items[k], o.files)]
                 ELSE [ok |-> FALSE, files |-> fs]
  IN  after[Len(items)]

-----------------------------------------------------------------------------
(* How an item joins the queue (w).  The walk back through the queue ends  *)
(* at the last of the places that stop it, at 0 if there is none.          *)

LastOf(stops) == Max({0} \cup stops)

Without(q, gone) ==
  LET left[k \in 0..Len(q)] ==
        IF k = 0 THEN <<>> ELSE IF k \in gone THEN left[k - 1] ELSE Append(left[k - 1], q[k])
  IN  left[Len(q)]

(* Slip: a write is merged into an earlier one of its file, whatever is    *)
(* queued between them.                                                    *)
JoinAnyWrite(q, i) ==
  LET at == LastOf({k \in DOMAIN q : q[k].op = "write" /\ q[k].file = i.file})
  IN  IF at > 0 THEN [q EXCEPT ![at].data = Over(i.data, @)] ELSE Append(q, i)

(* A write is merged into the last write of its file, unless the file was  *)
(* created since, or any file deleted or truncated.                        *)
JoinWrite(q, i) ==
  LET at == LastOf({k \in DOMAIN q : q[k].op \in {"delete", "truncate"} \/ q[k].file = i.file})
  IN  IF at > 0 /\ q[at].op = "write"
      THEN [q EXCEPT ![at].data = Over(i.data, @)]
      ELSE Append(q, i)

(* A file that is deleted needs no writes; if it was created in the queue  *)
(* it need not be created either.                                          *)
JoinDelete(q, i) ==
  LET f  == i.file
      at == LastOf({k \in DOMAIN q : \/ q[k].op = "truncate"
                                 \/ (q[k].file = f /\ q[k].op # "write")})
      gone == {k \in DOMAIN q : q[k].file = f /\ (k > at \/ (k = at /\ q[k].op = "create"))}
  IN  IF at > 0 /\ q[at].op # "truncate"
      THEN Without(q, gone)
      ELSE Append(Without(q, gone), i)

Join(q, i) ==
  CASE i.op = "write"  -> JoinWrite(q, i)
    [] i.op = "delete" -> JoinDelete(q, i)
    [] OTHER           -> Append(q, i)

(* A batch starts at once when none is being written.                      *)
Changed(s, i) ==
  LET q == Join(s.pending, i)
  IN  [files    |-> Applied(i, s.files),
       pending  |-> IF s.inflight = <<>> THEN <<>> ELSE q,
       inflight |-> IF s.inflight = <<>> THEN q ELSE s.inflight]

(* The changes that one stretch of synchronous code makes.                 *)
Change(items) ==
  LET after[k \in 0..Len(items)] ==
        IF k = 0 THEN [files |-> files, pending |-> pending, inflight |-> inflight]
        ELSE LET s == after[k - 1] IN Changed(s, items[k])
      end == after[Len(items)]
  IN  /\ files' = end.files /\ pending' = end.pending /\ inflight' = end.inflight
      /\ UNCHANGED <<disk, intact>>

(* Slip: the next batch waits for the next change. *)
BatchEndsIdle ==
  /\ inflight # <<>>
  /\ inflight' = <<>>
  /\ UNCHANGED pending

(* A batch has ended, and what was queued meanwhile is the next one.       *)
BatchEnds ==
  /\ inflight # <<>>
  /\ inflight' = pending
  /\ pending' = <<>>

BatchDone ==
  /\ BatchEnds
  /\ disk' = Outcome(inflight, disk).files
  /\ intact' = (intact /\ Outcome(inflight, disk).ok)
  /\ UNCHANGED files

(* The browser refuses the batch.  It is dropped, and the next one is      *)
(* written as if it had succeeded.                                         *)
BatchFails ==
  /\ BatchEnds
  /\ intact' = FALSE
  /\ UNCHANGED <<files, disk>>

(* The worker ends: the batch may or may not be in IndexedDB, what is      *)
(* queued is lost, and the next worker reads its files from IndexedDB.     *)
StopFiles ==
  /\ disk' \in {disk, Outcome(inflight, disk).files}
  /\ files' = disk'
  /\ pending' = <<>> /\ inflight' = <<>>
  /\ intact' = TRUE

FilesInit ==
  /\ files = NoFiles
  /\ pending = <<>> /\ inflight = <<>>
  /\ disk = NoFiles
  /\ intact = TRUE

(* The queue says of IndexedDB what memory says: every item of it can be   *)
(* applied, and all of them together make the files in memory.             *)
QueueIsFaithful ==
  Outcome(inflight \o pending, disk) = [ok |-> TRUE, files |-> files]
=============================================================================
