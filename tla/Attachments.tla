---------------------------- MODULE Attachments ----------------------------
(***************************************************************************)
(* Attachments on the client (data/attachment_store.dart): files are added *)
(* to table attachments, uploaded at the end of each synchronization, and  *)
(* fetched record by record when the user asks for it.  Windows share a    *)
(* store; a panel that was closed goes on fetching.                        *)
(*                                                                         *)
(* A file is its identifier: it is a fresh UUID, and what it says does not *)
(* change from then on (the checksums compare equal).                      *)
(***************************************************************************)
EXTENDS Naturals, FiniteSets, SequencesExt

CONSTANTS
  Stores,            \* SQLite databases
  Windows,           \* windows, each with an engine that uploads
  Panels,            \* attachment panels, open or not
  StoreOf,           \* the store of a window or a panel
  Files,             \* identifiers of attachments
  RecordOf,          \* the record of a file
  Refused,           \* files that add accepts and the server does not: it
                     \* counts 200 bytes in a name, the client 200 characters
  UploadLimit,       \* rows per synchronization, 10
  ListLimit,         \* rows that PostgreSQL lists of a record, 500
  MaxInterruptions   \* bound on requests that fail

ASSUME StoreOfAssumption == StoreOf \in [Windows \cup Panels -> Stores]
ASSUME LimitAssumption == UploadLimit \in Nat \ {0} /\ MaxInterruptions \in Nat

VARIABLES
  rows,           \* rows[s]: table attachments, in the order of its rowid
  uploaded,       \* uploaded[s]: its rows with uploaded=1
  stored,         \* the server's attachments
  at,             \* at[w]: where uploadPending of window w stands
  queue,          \* queue[w]: files it has read and not finished
  stray,          \* uploads whose client gave up, still on their way
  panel,          \* panel[p]: a run of fetch
  interruptions

vars == <<rows, uploaded, stored, at, queue, stray, panel, interruptions>>

Closed == [at |-> "idle", listed |-> {}, left |-> <<>>]

Init ==
  /\ rows = [s \in Stores |-> <<>>]
  /\ uploaded = [s \in Stores |-> {}]
  /\ stored = {}
  /\ at = [w \in Windows |-> "idle"]
  /\ queue = [w \in Windows |-> {}]
  /\ stray = {}
  /\ panel = [p \in Panels |-> Closed]
  /\ interruptions = 0

Holds(s) == ToSet(rows[s])
Used     == UNION {Holds(s) : s \in Stores}

Interrupt == interruptions < MaxInterruptions /\ interruptions' = interruptions + 1

-----------------------------------------------------------------------------
Add(s, f) ==
  /\ f \notin Used
  /\ rows' = [rows EXCEPT ![s] = Append(@, f)]
  /\ UNCHANGED <<uploaded, stored, at, queue, stray, panel, interruptions>>

(* A bundle has the rows that some store had when it was exported.  They   *)
(* become pending; only an empty workspace is restored.                    *)
Restore(s, bundle) ==
  /\ rows[s] = <<>>
  /\ rows' = [rows EXCEPT ![s] = bundle]
  /\ UNCHANGED <<uploaded, stored, at, queue, stray, panel, interruptions>>

-----------------------------------------------------------------------------
(* uploadPending *)

(* The rows whose files wait. *)
Waiting(s) == {n \in DOMAIN rows[s] : rows[s][n] \notin uploaded[s]}

(* Slip: the newest files are read first. *)
PendingNewest(s) ==
  LET read == {n \in Waiting(s) : Cardinality({j \in Waiting(s) : j >= n}) <= UploadLimit}
  IN  {rows[s][n] : n \in read}

(* What is read: the first files that wait, as many as the limit allows.   *)
Pending(s) ==
  LET read == {n \in Waiting(s) : Cardinality({j \in Waiting(s) : j <= n}) <= UploadLimit}
  IN  {rows[s][n] : n \in read}

(* The file that window w is busy with: the first of those it has read.    *)
Current(w, f) ==
  LET files == rows[StoreOf[w]]
  IN  /\ f \in queue[w]
      /\ \E n \in DOMAIN files : files[n] = f /\ \A j \in 1 .. n - 1 : files[j] \notin queue[w]

Start(w) ==
  LET pending == Pending(StoreOf[w])
  IN  /\ at[w] = "idle" /\ pending # {}
      /\ queue' = [queue EXCEPT ![w] = pending]
      /\ at' = [at EXCEPT ![w] = "sending"]
      /\ UNCHANGED <<rows, uploaded, stored, stray, panel, interruptions>>

Upload(w, f) ==
  /\ at[w] = "sending" /\ Current(w, f) /\ f \notin Refused
  /\ stored' = stored \cup {f}
  /\ at' = [at EXCEPT ![w] = "answered"]
  /\ UNCHANGED <<rows, uploaded, queue, stray, panel, interruptions>>

Stop(w) ==
  /\ at' = [at EXCEPT ![w] = "idle"]
  /\ queue' = [queue EXCEPT ![w] = {}]

(* The server refuses a file: the rest of the queue is not tried. *)
Refuse(w, f) ==
  /\ at[w] = "sending" /\ Current(w, f) /\ f \in Refused
  /\ Stop(w)
  /\ UNCHANGED <<rows, uploaded, stored, stray, panel, interruptions>>

(* Slip: one answer marks everything that was read. *)
MarkAll(w, f) ==
  /\ at[w] = "answered" /\ Current(w, f)
  /\ uploaded' = [uploaded EXCEPT ![StoreOf[w]] = @ \cup queue[w]]
  /\ Stop(w)
  /\ UNCHANGED <<rows, stored, stray, panel, interruptions>>

Mark(w, f) ==
  /\ at[w] = "answered" /\ Current(w, f)
  /\ uploaded' = [uploaded EXCEPT ![StoreOf[w]] = @ \cup {f}]
  /\ queue' = [queue EXCEPT ![w] = @ \ {f}]
  /\ at' = [at EXCEPT ![w] = IF queue[w] = {f} THEN "idle" ELSE "sending"]
  /\ UNCHANGED <<rows, stored, stray, panel, interruptions>>

(* A timeout, a lost answer, a logout, the end of the process: the request *)
(* may still be on its way.                                                *)
GiveUp(w, f) ==
  /\ at[w] # "idle" /\ Current(w, f)
  /\ Interrupt
  /\ stray' \in {stray, stray \cup {f}}
  /\ Stop(w)
  /\ UNCHANGED <<rows, uploaded, stored, panel>>

UploadStray(f) ==
  /\ f \in stray
  /\ stray' = stray \ {f}
  /\ stored' = stored \cup ({f} \ Refused)
  /\ UNCHANGED <<rows, uploaded, at, queue, panel, interruptions>>

-----------------------------------------------------------------------------
(* fetch *)

(* What the server has of the record, in the order of the identifiers; of  *)
(* a long list PostgreSQL gives the beginning, and identifiers are random. *)
Lists(r) ==
  LET remote == {f \in stored : RecordOf[f] = r}
  IN  {remote} \cup {some \in SUBSET remote : Cardinality(some) = ListLimit}

List(p, r) ==
  /\ panel[p].at \notin {"checking", "downloading"}
  /\ \E remote \in Lists(r) :
     \E order \in {o \in [1 .. Cardinality(remote) -> remote] : ToSet(o) = remote} :
       panel' = [panel EXCEPT ![p] = [at |-> "checking", listed |-> remote, left |-> order]]
  /\ UNCHANGED <<rows, uploaded, stored, at, queue, stray, interruptions>>

(* Slip: a file that is there ends the loop. *)
CheckOrStop(p) ==
  /\ panel[p].at = "checking" /\ panel[p].left # <<>>
  /\ panel' = [panel EXCEPT ![p] =
       IF Head(@.left) \in Holds(StoreOf[p]) THEN [@ EXCEPT !.left = <<>>]
       ELSE [@ EXCEPT !.at = "downloading"]]
  /\ UNCHANGED <<rows, uploaded, stored, at, queue, stray, interruptions>>

(* Is the next file there? *)
Check(p) ==
  /\ panel[p].at = "checking" /\ panel[p].left # <<>>
  /\ panel' = [panel EXCEPT ![p] =
       IF Head(@.left) \in Holds(StoreOf[p]) THEN [@ EXCEPT !.left = Tail(panel[p].left)]
       ELSE [@ EXCEPT !.at = "downloading"]]
  /\ UNCHANGED <<rows, uploaded, stored, at, queue, stray, interruptions>>

(* Slip: no primary key. *)
InsertTwice(p) ==
  LET s == StoreOf[p]
      f == Head(panel[p].left)
  IN  /\ panel[p].at = "downloading"
      /\ rows' = [rows EXCEPT ![s] = Append(@, f)]
      /\ uploaded' = [uploaded EXCEPT ![s] = @ \cup {f}]
      /\ panel' = [panel EXCEPT ![p].at = "checking", ![p].left = Tail(@)]
      /\ UNCHANGED <<stored, at, queue, stray, interruptions>>

(* The download has arrived; its identifier is the primary key, so a row   *)
(* that another panel has inserted since ends the fetch with an error.     *)
Insert(p) ==
  LET s == StoreOf[p]
      f == Head(panel[p].left)
  IN  /\ panel[p].at = "downloading"
      /\ \/ /\ f \in Holds(s)
            /\ panel' = [panel EXCEPT ![p].at = "failed"]
            /\ UNCHANGED <<rows, uploaded>>
         \/ /\ f \notin Holds(s)
            /\ rows' = [rows EXCEPT ![s] = Append(@, f)]
            /\ uploaded' = [uploaded EXCEPT ![s] = @ \cup {f}]
            /\ panel' = [panel EXCEPT ![p].at = "checking", ![p].left = Tail(@)]
      /\ UNCHANGED <<stored, at, queue, stray, interruptions>>

Done(p) ==
  /\ panel[p].at = "checking" /\ panel[p].left = <<>>
  /\ panel' = [panel EXCEPT ![p].at = "done"]
  /\ UNCHANGED <<rows, uploaded, stored, at, queue, stray, interruptions>>

FailFetch(p) ==
  /\ panel[p].at \in {"checking", "downloading"}
  /\ Interrupt
  /\ panel' = [panel EXCEPT ![p].at = "failed"]
  /\ UNCHANGED <<rows, uploaded, stored, at, queue, stray>>

-----------------------------------------------------------------------------
UploadStep(w) == Start(w) \/ \E f \in queue[w] : Upload(w, f) \/ Refuse(w, f) \/ Mark(w, f)
FetchStep(p)  == Check(p) \/ Insert(p) \/ Done(p)

Next ==
  \/ \E s \in Stores : \/ \E f \in Files : Add(s, f)
                       \/ \E other \in Stores : \E b \in Prefixes(rows[other]) : Restore(s, b)
  \/ \E w \in Windows : UploadStep(w) \/ \E f \in queue[w] : GiveUp(w, f)
  \/ \E f \in Files : UploadStray(f)
  \/ \E p \in Panels : \/ \E r \in {RecordOf[f] : f \in Files} : List(p, r)
                       \/ FetchStep(p) \/ FailFetch(p)

Spec == Init /\ [][Next]_vars

(* While a window is connected, its timer synchronizes again and again,    *)
(* each synchronization that has pushed and pulled uploads, and a request  *)
(* is answered or times out after 30 seconds.                              *)
Fairness == \A w \in Windows : WF_vars(UploadStep(w))

FairSpec == Spec /\ Fairness
-----------------------------------------------------------------------------
(* Properties *)

(* Every variable has its type; a row has its own identifier, and only     *)
(* what was read is uploaded (database_schema.dart).                       *)
TypeOK ==
  /\ rows \in [Stores -> Seq(Files)] /\ \A s \in Stores : IsInjective(rows[s])
  /\ uploaded \in [Stores -> SUBSET Files] /\ \A s \in Stores : uploaded[s] \subseteq Holds(s)
  /\ stored \subseteq Files
  /\ at \in [Windows -> {"idle", "sending", "answered"}]
  /\ queue \in [Windows -> SUBSET Files]
  /\ \A w \in Windows : /\ at[w] = "idle" <=> queue[w] = {}
                        /\ queue[w] \subseteq Holds(StoreOf[w])
  /\ stray \subseteq Files
  /\ panel \in [Panels -> [at     : {"idle", "checking", "downloading", "done", "failed"},
                            listed : SUBSET Files, left : Seq(Files)]]
  /\ \A p \in Panels : ToSet(panel[p].left) \subseteq panel[p].listed /\ panel[p].listed \subseteq stored
  /\ interruptions \in 0 .. MaxInterruptions

(* "Available offline" is true of both sides: what a store has marked, the *)
(* server has, whoever uploaded it and however often                       *)
(* (attachment_store.dart:79).                                             *)
UploadedIsStored == \A s \in Stores : uploaded[s] \subseteq stored

(* A fetch that ends without an error has brought every file that the      *)
(* server listed, although other panels insert rows and windows upload     *)
(* between its requests (attachment_store.dart:88).                        *)
FetchIsComplete ==
  \A p \in Panels : panel[p].at = "done" => panel[p].listed \subseteq Holds(StoreOf[p])

(* Files are uploaded in the end, up to the first that the server refuses: *)
(* failures, other windows and full queues hold nothing up for ever        *)
(* (attachment_store.dart:62).  A row stays where it is, so that one which *)
(* is in front has been uploaded, or will be.                              *)
InFront(s, f) ==
  \E n \in DOMAIN rows[s] : rows[s][n] = f /\ \A j \in 1 .. n : rows[s][j] \notin Refused

EverythingInFrontIsUploaded ==
  \A s \in {StoreOf[w] : w \in Windows}, f \in Files :
    []<>(InFront(s, f) => f \in uploaded[s])
=============================================================================
