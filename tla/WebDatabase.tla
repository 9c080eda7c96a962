---------------------------- MODULE WebDatabase ----------------------------
(***************************************************************************)
(* The database of the web build: the worker (WebWorker), SQLite's pager   *)
(* with its rollback journal, and the files (BrowserFiles).  The pager is  *)
(* external (sqlite3.wasm) and is modelled from the calls that it makes to *)
(* the file system of the worker.                                          *)
(*                                                                         *)
(* Block 0 of the journal is its header, which says how large the database *)
(* was and which records count; block p is what page p held.               *)
(***************************************************************************)
EXTENDS WebWorker, BrowserFiles

CONSTANTS
  Database, Journal,   \* the two files
  MaxFaults            \* bound on failures, windows that go and ends of the worker

ASSUME PagesAssumption == Pages \subseteq Nat \ {0} /\ IsFiniteSet(Pages)
ASSUME FilesAssumption == Database # Journal /\ MaxFaults \in Nat

VARIABLES
  log,     \* what is committed, in order
  kept,    \* how much of it IndexedDB holds, see Kept
  faults   \* how many there were, see MaxFaults

ghostVars == <<log, kept, faults>>
webVars   == <<workerVars, filesVars, ghostVars>>

-----------------------------------------------------------------------------
(* The pager *)

Block(fs, f, b) == IF f \in DOMAIN fs /\ b \in DOMAIN fs[f] THEN fs[f][b] ELSE {}
Size(fs)        == IF Database \in DOMAIN fs THEN Max({0} \cup DOMAIN fs[Database]) ELSE 0

HasHeader(fs) == Journal \in DOMAIN fs /\ 0 \in DOMAIN fs[Journal]

(* The size before the transaction, and the pages that the journal has.    *)
SizeBefore == IF HasHeader(files) THEN files[Journal][0].size ELSE Size(files)
Saved      == IF HasHeader(files) THEN DOMAIN files[Journal] \ {0} ELSE {}
ToSave(P)  == {p \in P : p <= SizeBefore} \ Saved

\* In some order: the blocks are different ones.
InOrder(P)          == SetToSeq(P)
WriteBlock(f, b, v) == WriteItem(f, [x \in {b} |-> v])
Header(records)     == WriteBlock(Journal, 0, [records |-> records, size |-> SizeBefore])

(* The pages that a statement changes for the first time in its            *)
(* transaction are saved; the first of them opens the journal.             *)
SaveItems(P) ==
  LET pages == InOrder(ToSave(P))
  IN  (IF Journal \in DOMAIN files THEN <<>> ELSE <<CreateItem(Journal)>>) \o
      (IF HasHeader(files) THEN <<>> ELSE <<Header({})>>) \o
      [k \in DOMAIN pages |-> WriteBlock(Journal, pages[k], Block(files, Database, pages[k]))]

(* Pages are written to the database after the header of the journal says  *)
(* that its records count.                                                 *)
StoreItems(P, content) ==
  LET dirty == InOrder({p \in Pages : content[p] # Block(files, Database, p)})
  IN  <<Header(Saved \cup ToSave(P))>> \o
      [k \in DOMAIN dirty |-> WriteBlock(Database, dirty[k], content[dirty[k]])]

(* A rollback, of this connection or of one that did not come back: the    *)
(* records that count are put back, and the journal is deleted.            *)
RestoreItems(fs) ==
  IF ~HasHeader(fs) THEN <<>>
  ELSE LET header == fs[Journal][0]
           old    == InOrder(header.records)
       IN  (IF Size(fs) > header.size THEN <<TruncateItem(Database, header.size)>> ELSE <<>>) \o
           [k \in DOMAIN old |-> WriteBlock(Database, old[k], fs[Journal][old[k]])] \o
           <<DeleteItem(Journal)>>

Recovered(fs) ==
  LET end == Outcome(RestoreItems(fs), fs).files
  IN  [p \in Pages |-> Block(end, Database, p)]

-----------------------------------------------------------------------------
WebInit == WorkerInit /\ FilesInit /\ log = <<>> /\ kept = 0 /\ faults = 0

Idle == UNCHANGED <<filesVars, log, kept>>

Fault == faults < MaxFaults /\ faults' = faults + 1

WebCreate(c) ==
  /\ Create(c)
  /\ Change(IF outcome'[c] = "failed" THEN <<>>
            ELSE (IF Database \in DOMAIN files THEN <<>> ELSE <<CreateItem(Database)>>)
                 \o RestoreItems(files))
  /\ UNCHANGED <<log, kept>>

(* A write in a transaction stays in SQLite's cache unless that is full. *)
WebWrite(c) ==
  LET P     == asked[c].pages
      store == StoreItems(P, working')
  IN  /\ ExecuteWrite(c)
      /\ IF inTransaction
         THEN /\ \E spill \in {<<>>, store} : Change(SaveItems(P) \o spill)
              /\ UNCHANGED log
         ELSE /\ Change(SaveItems(P) \o store \o <<DeleteItem(Journal)>>)
              /\ log' = Append(log, <<c, works[c]>>)
      /\ UNCHANGED kept

WebCommit(c) ==
  /\ ExecuteCommit(c)
  /\ IF working = committed
     THEN Change(<<>>) /\ UNCHANGED log
     ELSE /\ Change(StoreItems({}, working) \o <<DeleteItem(Journal)>>)
          /\ log' = Append(log, <<c, works[c]>>)
  /\ UNCHANGED kept

WebRollback(c) ==
  /\ ExecuteRollback(c) \/ ExecuteAborts(c)
  /\ Change(RestoreItems(files))
  /\ UNCHANGED <<log, kept>>

(* How much of the log the files hold that a worker would start with; more *)
(* than there is if they hold something else.                              *)
Content(s) == [p \in Pages |-> {m \in ToSet(s) : p \in wrote[m]}]

Kept(fs) ==
  Min({Len(log) + 1} \cup {k \in 0..Len(log) : Content(SubSeq(log, 1, k)) = Recovered(fs)})

WebBatchDone ==
  /\ Quiet /\ BatchDone
  /\ kept' = IF intact' THEN Kept(disk') ELSE kept
  /\ UNCHANGED <<workerVars, log, faults>>

(* Nobody is told that a batch is lost: the windows have their answers,    *)
(* and the worker goes on with the files that it has in memory.            *)
WebBatchFails ==
  /\ Quiet /\ Fault
  /\ BatchFails
  /\ UNCHANGED <<workerVars, log, kept>>

(* The browser ends the worker: it crashes, or the last window is closed.  *)
(* What SQLite would make of files that lack a batch is not modelled.      *)
Stop ==
  /\ Quiet /\ ready /\ intact /\ Fault
  /\ StopFiles
  /\ kept' = Kept(disk')
  /\ log' = SubSeq(log, 1, kept')
  /\ phase' = [c \in Clients |-> "away"]
  /\ owned' = [c \in Clients |-> None]
  /\ asked' = [c \in Clients |-> NoRequest]
  /\ stage' = [c \in Clients |-> "idle"]
  /\ outcome' = [c \in Clients |-> "ok"]
  /\ ready' = FALSE /\ connections' = 0 /\ opening' = <<>>
  /\ current' = None /\ queue' = <<>> /\ draining' = FALSE
  /\ lock' = <<>> /\ turn' = FALSE
  /\ inTransaction' = FALSE
  /\ committed' = Recovered(disk') /\ working' = committed'
  /\ UNCHANGED <<works, wrote>>

WebServe(c) ==
  /\ \/ WebCreate(c) \/ WebWrite(c) \/ WebCommit(c) \/ WebRollback(c)
     \/ /\ \/ Deliver(c) \/ Initialise(c) \/ Lookup(c)
           \/ ExecuteBegin(c) \/ ExecuteRead(c) \/ ExecuteFails(c)
        /\ Idle
  /\ IF outcome'[c] # outcome[c] THEN Fault ELSE UNCHANGED faults

WebClient(c) ==
  /\ Idle
  /\ \/ ClientStep(c) /\ UNCHANGED faults
     \/ Leave(c) /\ Fault

WebNext ==
  \/ TurnStep /\ Idle /\ UNCHANGED faults
  \/ \E c \in Clients : WebClient(c) \/ WebServe(c)
  \/ WebBatchDone \/ WebBatchFails
  \/ Stop

(* The worker's event loop runs, IndexedDB ends its transactions, and a    *)
(* window that is there ends the transaction it has begun.                 *)
Fairness ==
  /\ WF_workerVars(TurnStep)
  /\ WF_<<pending, inflight>>(Quiet /\ BatchEnds)
  /\ \A c \in Clients :
       /\ WF_workerVars(Serve(c))
       /\ WF_workerVars(Receive(c))
       /\ WF_workerVars(phase[c] # "gone" /\ \E kind \in Ends : AskEnd(c, kind))

WebSpec == WebInit /\ [][WebNext]_webVars /\ Fairness

-----------------------------------------------------------------------------
(* What SQLite would recover from the files in memory is what is           *)
(* committed, and that is the works of the log, each of them whole,        *)
(* whatever becomes of the batches.  As long as none is refused, IndexedDB *)
(* agrees with them: the queue can be applied to it and leads to them.     *)
FilesHoldTheLog ==
  /\ intact => QueueIsFaithful
  /\ Recovered(files) = committed
  /\ committed = Content(log)

(* IndexedDB holds a transaction whole or not at all, when there is no     *)
(* journal that would complete it or take it back: what a user edits and   *)
(* its entry in the outbox are one transaction.  It is so until the        *)
(* browser refuses a batch, and not afterwards.                            *)
TransactionsStayWhole ==
  ~HasHeader(disk) =>
    \A m \in Works :
      {p \in wrote[m] : m \in Block(disk, Database, p)} \in {{}, wrote[m]}

(* To the application it is the database of LocalDatabase: as long as no   *)
(* batch is refused, what IndexedDB holds is the result of a prefix of the *)
(* log, which only grows, and reaches the end of the log when the worker   *)
(* lives on.  What the worker itself answers comes from the whole log,     *)
(* refused batches or not.                                                 *)
Promise    == INSTANCE LocalDatabase
Implements == Promise!Spec

(* A window has gone with its transaction open.  The worker is not told,   *)
(* and keeps the gate closed for as long as it lives.                      *)
Abandoned ==
  \E c \in Clients : /\ phase[c] = "gone" /\ stage[c] \in {"idle", "answered"}
                     /\ current \in {c} \X (1..MaxWorks)

(* Every request is answered, unless a transaction was abandoned: no       *)
(* window has a request under way for ever.                                *)
EveryRequestIsAnswered ==
  \A c \in Clients : []<>(stage[c] \in {"idle", "answered"} \/ Abandoned)
=============================================================================
