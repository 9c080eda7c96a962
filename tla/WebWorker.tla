------------------------------ MODULE WebWorker ------------------------------
(***************************************************************************)
(* The SQLite worker of the web build (web/sqflite_sw.js).  All windows of *)
(* a browser send their requests to one shared worker, which keeps one     *)
(* connection to the database and lets one transaction in at a time.       *)
(*                                                                         *)
(* The worker has one thread.  The synchronous part of a request runs when *)
(* its message is handled; what follows an await runs later, in a turn of  *)
(* the event loop that a zero timer starts and that ends when nothing is   *)
(* left to do.  Messages are handled between turns only.                   *)
(*                                                                         *)
(* The client library is external: a window has one request outstanding,   *)
(* and brackets a transaction with BEGIN and COMMIT or ROLLBACK.  A piece  *)
(* of work, a transaction or a single statement, is <<window, number>>; it *)
(* leaves its mark on the pages it changes.  It also stands for the number *)
(* the worker gives a transaction, which is only compared for equality.    *)
(***************************************************************************)
EXTENDS Naturals, Sequences

CONSTANTS
  Clients,     \* windows
  Pages,       \* pages of the database file
  Changes,     \* sets of pages that one statement may change
  MaxWorks,    \* bound on pieces of work per window
  None         \* no transaction

Works == Clients \X (1..MaxWorks)

ASSUME WorksAssumption == MaxWorks \in Nat /\ Changes \subseteq (SUBSET Pages) \ {{}}
ASSUME NoneAssumption  == None \notin Works

VARIABLES
  phase,          \* phase[c]: of the window, see Phases
  works,          \* works[c]: pieces of work it has begun
  owned,          \* owned[c]: the transaction it is in, by the worker's answer
  asked,          \* asked[c]: its last request
  stage,          \* stage[c]: where that request stands, see Stages
  outcome,        \* outcome[c]: of the request
  wrote,          \* wrote[m]: pages that work m has written or tried to
  ready,          \* the worker has loaded SQLite and its files
  connections,    \* connections it has opened to the database
  opening,        \* the lock around openDatabase, its holder first
  current,        \* the transaction that is let in (b)
  queue,          \* requests that wait for it to end (c)
  draining,       \* the queue is being worked off
  lock,           \* the lock around the connection (d), its holder first
  turn,           \* a turn of the event loop is running
  inTransaction,  \* the connection is not in autocommit mode
  working,        \* what the connection reads: page -> marks
  committed       \* what it would read after a rollback

clientVars   == <<phase, works, owned, wrote>>
openVars     == <<ready, connections, opening>>
gateVars     == <<current, queue, draining>>
databaseVars == <<inTransaction, working, committed>>
workerVars   == <<clientVars, asked, stage, outcome, openVars, gateVars, lock,
                  turn, databaseVars>>

Phases == {"away", "loading", "ready", "failing", "failed", "gone"}
Stages == {"idle", "posted", "starting", "opening", "creating", "opened",
           "queued", "locked", "executed", "settling", "answered"}
Kinds  == {"none", "open", "begin", "read", "write", "commit", "rollback"}
Ends   == {"commit", "rollback"}

NoRequest == [kind |-> "none", id |-> None, pages |-> {}]

WorkerInit ==
  /\ phase = [c \in Clients |-> "away"]
  /\ works = [c \in Clients |-> 0]
  /\ owned = [c \in Clients |-> None]
  /\ asked = [c \in Clients |-> NoRequest]
  /\ stage = [c \in Clients |-> "idle"]
  /\ outcome = [c \in Clients |-> "ok"]
  /\ wrote = [m \in Works |-> {}]
  /\ ready = FALSE /\ connections = 0 /\ opening = <<>>
  /\ current = None /\ queue = <<>> /\ draining = FALSE
  /\ lock = <<>>
  /\ turn = FALSE
  /\ inTransaction = FALSE
  /\ working = [p \in Pages |-> {}]
  /\ committed = [p \in Pages |-> {}]

Move(c, s) == stage' = [stage EXCEPT ![c] = s]

(* A stretch of synchronous code is not over: its first lock was free.     *)
Busy ==
  \/ lock # <<>> /\ stage[Head(lock)] = "locked"
  \/ opening # <<>> /\ stage[Head(opening)] = "opening"

(* Something awaits its turn. *)
Scheduled ==
  draining \/ \E c \in Clients : stage[c] \in {"creating", "opened", "executed", "settling"}

(* No code of the worker is running.  Windows and IndexedDB, which run     *)
(* beside it and only exchange messages with it, move at these moments.    *)
Quiet == ~turn /\ ~Busy

-----------------------------------------------------------------------------
(* The windows *)

Post(c, kind, pages) ==
  /\ Quiet /\ stage[c] = "idle"
  /\ asked' = [asked EXCEPT ![c] = [kind |-> kind, id |-> owned[c], pages |-> pages]]
  /\ Move(c, "posted")
  /\ UNCHANGED <<owned, outcome, openVars, gateVars, lock, turn, databaseVars>>

Load(c) ==
  /\ phase[c] = "away"
  /\ phase' = [phase EXCEPT ![c] = "loading"]
  /\ Post(c, "open", {})
  /\ UNCHANGED <<works, wrote>>

AskBegin(c) ==
  /\ phase[c] = "ready" /\ owned[c] = None /\ works[c] < MaxWorks
  /\ works' = [works EXCEPT ![c] = @ + 1]
  /\ Post(c, "begin", {})
  /\ UNCHANGED <<phase, wrote>>

(* A statement of its own, outside any transaction. *)
AskSingle(c, P) ==
  /\ phase[c] = "ready" /\ owned[c] = None /\ works[c] < MaxWorks
  /\ works' = [works EXCEPT ![c] = @ + 1]
  /\ wrote' = [wrote EXCEPT ![<<c, works[c] + 1>>] = P]
  /\ Post(c, "write", P)
  /\ UNCHANGED phase

(* A query outside any transaction; one inside a transaction goes the way  *)
(* of a write and changes nothing.                                         *)
AskRead(c) ==
  /\ phase[c] = "ready" /\ owned[c] = None /\ works[c] < MaxWorks
  /\ works' = [works EXCEPT ![c] = @ + 1]
  /\ Post(c, "read", {})
  /\ UNCHANGED <<phase, wrote>>

AskWrite(c, P) ==
  /\ phase[c] = "ready" /\ owned[c] # None
  /\ ~(P \subseteq wrote[<<c, works[c]>>])
  /\ wrote' = [wrote EXCEPT ![<<c, works[c]>>] = @ \cup P]
  /\ Post(c, "write", P)
  /\ UNCHANGED <<phase, works>>

(* After an error the library rolls back; otherwise the application ends   *)
(* the transaction one way or the other.                                   *)
AskEnd(c, kind) ==
  /\ owned[c] # None
  /\ phase[c] = "ready" \/ (phase[c] = "failing" /\ kind = "rollback")
  /\ Post(c, kind, {})
  /\ UNCHANGED <<phase, works, wrote>>

Receive(c) ==
  LET r    == asked[c]
      over == r.kind \in Ends \/ outcome[c] = "closed"
  IN  /\ Quiet /\ stage[c] = "answered" /\ phase[c] # "gone"
      /\ Move(c, "idle")
      /\ phase' = [phase EXCEPT ![c] =
           IF r.kind = "open"
           THEN IF outcome[c] = "ok" THEN "ready" ELSE "failed"
           ELSE IF owned[c] # None /\ outcome[c] = "failed" THEN "failing" ELSE "ready"]
      /\ owned' = [owned EXCEPT ![c] =
           IF over THEN None
           ELSE IF r.kind = "begin" /\ outcome[c] = "ok" THEN r.id ELSE @]
      /\ asked' = [asked EXCEPT ![c] = NoRequest]
      /\ outcome' = [outcome EXCEPT ![c] = "ok"]
      /\ UNCHANGED <<works, wrote, openVars, gateVars, lock, turn, databaseVars>>

(* The window is closed or reloaded: what it has asked for goes on.  One   *)
(* that has nothing open leaves no trace.                                  *)
Leave(c) ==
  /\ Quiet /\ phase[c] \notin {"away", "gone"}
  /\ stage[c] # "idle" \/ owned[c] # None
  /\ phase' = [phase EXCEPT ![c] = "gone"]
  /\ UNCHANGED <<works, owned, wrote, asked, stage, outcome, openVars, gateVars,
                 lock, turn, databaseVars>>

-----------------------------------------------------------------------------
(* The worker: the synchronous part of a request *)

(* Slip: the number of a transaction is taken after it is counted up. *)
PassAhead(c) ==
  /\ current' = IF asked[c].kind = "begin" THEN <<c, works[c] + 1>> ELSE current
  /\ lock' = Append(lock, c)
  /\ Move(c, "locked")

(* BEGIN takes the gate before it is executed.                             *)
Pass(c) ==
  /\ current' = IF asked[c].kind = "begin" THEN <<c, works[c]>> ELSE current
  /\ lock' = Append(lock, c)
  /\ Move(c, "locked")

Queue(c) ==
  /\ queue' = Append(queue, c)
  /\ Move(c, "queued")
  /\ UNCHANGED <<current, lock>>

(* Slip: only a BEGIN waits for the transaction to end. *)
GateForBegin(c) ==
  IF current \in {None, asked[c].id} \/ asked[c].kind # "begin"
  THEN Pass(c) /\ UNCHANGED queue
  ELSE Queue(c)

Gate(c) ==
  IF current \in {None, asked[c].id}
  THEN Pass(c) /\ UNCHANGED queue
  ELSE Queue(c)

EnterOpening(c) == opening' = Append(opening, c) /\ Move(c, "opening")

Deliver(c) ==
  /\ Quiet /\ stage[c] = "posted"
  /\ \/ /\ asked[c].kind # "open"
        /\ Gate(c)
        /\ UNCHANGED openVars
     \/ /\ asked[c].kind = "open" /\ ready
        /\ EnterOpening(c)
        /\ UNCHANGED <<ready, connections, current, queue, lock>>
     \/ /\ asked[c].kind = "open" /\ ~ready
        /\ Move(c, "starting")
        /\ UNCHANGED <<openVars, current, queue, lock>>
  /\ UNCHANGED <<clientVars, asked, outcome, draining, turn, databaseVars>>

(* Every message that finds no SQLite loads it, the first and others that  *)
(* come meanwhile.  A failure is forgotten: the next message tries again.  *)
Loaded(c) == ready' = TRUE /\ EnterOpening(c) /\ UNCHANGED <<connections, outcome>>

LoadFails(c) ==
  /\ outcome' = [outcome EXCEPT ![c] = "failed"]
  /\ Move(c, "answered")
  /\ UNCHANGED openVars

Initialise(c) ==
  /\ Quiet /\ stage[c] = "starting"
  /\ Loaded(c) \/ LoadFails(c)
  /\ UNCHANGED <<clientVars, asked, gateVars, lock, turn, databaseVars>>

(* The lock around openDatabase is held: is the database open already? *)
Lookup(c) ==
  /\ opening # <<>> /\ c = Head(opening) /\ stage[c] = "opening"
  /\ IF connections > 0
     THEN Move(c, "opened") /\ outcome' = [outcome EXCEPT ![c] = "ok"]
     ELSE Move(c, "creating") /\ UNCHANGED outcome
  /\ UNCHANGED <<clientVars, asked, openVars, gateVars, lock, turn, databaseVars>>

(* SQLite runs the statement of the request that holds the lock.  A        *)
(* statement that fails may take the transaction with it.                  *)
Executable(c) == lock # <<>> /\ c = Head(lock) /\ stage[c] = "locked"

Executed(c, o) ==
  /\ Move(c, "executed")
  /\ outcome' = [outcome EXCEPT ![c] = o]
  /\ UNCHANGED <<clientVars, asked, openVars, gateVars, lock, turn>>

Marked(c) ==
  [p \in Pages |-> IF p \in asked[c].pages THEN working[p] \cup {<<c, works[c]>>}
                                           ELSE working[p]]

ExecuteBegin(c) ==
  /\ Executable(c) /\ asked[c].kind = "begin"
  /\ inTransaction' = TRUE
  /\ Executed(c, IF inTransaction THEN "failed" ELSE "ok")
  /\ UNCHANGED <<working, committed>>

ExecuteWrite(c) ==
  /\ Executable(c) /\ asked[c].kind = "write"
  /\ working' = Marked(c)
  /\ committed' = IF inTransaction THEN committed ELSE working'
  /\ Executed(c, "ok")
  /\ UNCHANGED inTransaction

ExecuteRead(c) ==
  /\ Executable(c) /\ asked[c].kind = "read"
  /\ Executed(c, "ok")
  /\ UNCHANGED databaseVars

ExecuteCommit(c) ==
  /\ Executable(c) /\ asked[c].kind = "commit" /\ inTransaction
  /\ committed' = working
  /\ inTransaction' = FALSE
  /\ Executed(c, "ok")
  /\ UNCHANGED working

ExecuteRollback(c) ==
  /\ Executable(c) /\ asked[c].kind = "rollback" /\ inTransaction
  /\ working' = committed
  /\ inTransaction' = FALSE
  /\ Executed(c, "ok")
  /\ UNCHANGED committed

(* A violated constraint. *)
ExecuteFails(c) ==
  /\ Executable(c) /\ asked[c].kind \in {"read", "write"}
  /\ Executed(c, "failed")
  /\ UNCHANGED databaseVars

(* No memory or no space: SQLite rolls the transaction back by itself. *)
ExecuteAborts(c) ==
  /\ Executable(c) /\ asked[c].kind \in {"write", "commit"} /\ inTransaction
  /\ working' = committed
  /\ inTransaction' = FALSE
  /\ Executed(c, "failed")
  /\ UNCHANGED committed

-----------------------------------------------------------------------------
(* The worker: a turn of the event loop *)

(* A turn goes on while there is something to do. *)
Continue == turn' = (Scheduled \/ Busy)'

Create(c) ==
  /\ ~Busy /\ stage[c] = "creating"
  /\ \/ connections' = connections + 1 /\ outcome' = [outcome EXCEPT ![c] = "ok"]
     \/ UNCHANGED connections /\ outcome' = [outcome EXCEPT ![c] = "failed"]
  /\ Move(c, "opened")
  /\ UNCHANGED <<clientVars, asked, ready, opening, gateVars, lock, databaseVars>>
  /\ Continue

(* Slip: the lock is released only when the database was opened. *)
OpenedOrNot(c) ==
  /\ ~Busy /\ stage[c] = "opened"
  /\ opening' = IF outcome[c] = "ok" THEN Tail(opening) ELSE opening
  /\ Move(c, "answered")
  /\ UNCHANGED <<clientVars, asked, outcome, ready, connections, gateVars, lock,
                 databaseVars>>
  /\ Continue

Opened(c) ==
  /\ ~Busy /\ stage[c] = "opened"
  /\ opening' = Tail(opening)
  /\ Move(c, "answered")
  /\ UNCHANGED <<clientVars, asked, outcome, ready, connections, gateVars, lock,
                 databaseVars>>
  /\ Continue

Unlock(c) ==
  /\ ~Busy /\ stage[c] = "executed"
  /\ lock' = Tail(lock)
  /\ Move(c, "settling")
  /\ UNCHANGED <<clientVars, asked, outcome, openVars, gateVars, databaseVars>>
  /\ Continue

(* The continuations of a request, up to its answer.  A request inside a   *)
(* transaction looks whether SQLite has ended the transaction, and wakes   *)
(* the queue when the gate is open again.                                  *)
FromQueue(c) == queue # <<>> /\ c = Head(queue)

Wakes(c, after) == asked[c].id # None /\ after = None /\ queue # <<>>

Told(c) ==
  IF asked[c].id # None /\ outcome[c] = "failed" /\ ~inTransaction
  THEN "closed" ELSE outcome[c]

Settle(c) ==
  LET r     == asked[c]
      after == CASE r.kind = "begin" -> IF outcome[c] = "ok" THEN current ELSE None
                 [] r.kind \in Ends /\ outcome[c] = "ok" -> None
                 [] Told(c) = "closed" -> None
                 [] OTHER -> current
  IN  /\ ~Busy /\ stage[c] = "settling"
      /\ current' = after
      /\ asked' = [asked EXCEPT ![c].id = IF r.kind = "begin" THEN after ELSE @]
      /\ outcome' = [outcome EXCEPT ![c] = Told(c)]
      /\ draining' = (draining \/ Wakes(c, after))
      /\ queue' = IF FromQueue(c) THEN Tail(queue) ELSE queue
      /\ Move(c, "answered")
      /\ UNCHANGED <<clientVars, openVars, lock, databaseVars>>
      /\ Continue

RunHead ==
  /\ ~Busy /\ draining
  /\ queue # <<>> /\ stage[Head(queue)] = "queued" /\ current = None
  /\ Pass(Head(queue))
  /\ UNCHANGED <<clientVars, asked, outcome, openVars, queue, draining, databaseVars>>
  /\ Continue

Rest ==
  /\ ~Busy /\ draining
  /\ queue # <<>> => stage[Head(queue)] = "queued" /\ current # None
  /\ draining' = FALSE
  /\ UNCHANGED <<clientVars, asked, stage, outcome, openVars, current, queue, lock,
                 databaseVars>>
  /\ Continue

-----------------------------------------------------------------------------
ClientStep(c) ==
  \/ Load(c) \/ AskBegin(c) \/ AskRead(c) \/ Receive(c)
  \/ \E P \in Changes : AskSingle(c, P) \/ AskWrite(c, P)
  \/ \E kind \in Ends : AskEnd(c, kind)

Serve(c) ==
  \/ Deliver(c) \/ Initialise(c) \/ Lookup(c) \/ Create(c)
  \/ ExecuteBegin(c) \/ ExecuteRead(c) \/ ExecuteWrite(c) \/ ExecuteCommit(c)
  \/ ExecuteRollback(c) \/ ExecuteFails(c) \/ ExecuteAborts(c)

TurnStep == RunHead \/ Rest \/ \E c \in Clients : Opened(c) \/ Unlock(c) \/ Settle(c)

WorkerNext == TurnStep \/ \E c \in Clients : ClientStep(c) \/ Leave(c) \/ Serve(c)

-----------------------------------------------------------------------------
WorkerTypeOK ==
  /\ phase \in [Clients -> Phases]
  /\ works \in [Clients -> 0..MaxWorks]
  /\ owned \in [Clients -> Works \cup {None}]
  /\ asked \in [Clients -> [kind : Kinds, id : Works \cup {None}, pages : SUBSET Pages]]
  /\ stage \in [Clients -> Stages]
  /\ outcome \in [Clients -> {"ok", "failed", "closed"}]
  /\ wrote \in [Works -> SUBSET Pages]
  /\ ready \in BOOLEAN /\ connections \in Nat /\ opening \in Seq(Clients)
  /\ current \in Works \cup {None} /\ queue \in Seq(Clients) /\ draining \in BOOLEAN
  /\ lock \in Seq(Clients) /\ turn \in BOOLEAN /\ inTransaction \in BOOLEAN
  /\ working \in [Pages -> SUBSET Works] /\ committed \in [Pages -> SUBSET Works]

(* There is one connection, however many windows start at the same time,   *)
(* and one gate in front of it.                                            *)
OneConnection == connections <= 1

(* A statement that a window sends inside its transaction finds that       *)
(* transaction open: nobody else has ended it or taken its place.          *)
OwnTransaction ==
  \A c \in Clients :
    stage[c] = "posted" /\ asked[c].id # None => current = asked[c].id /\ inTransaction

(* What is written and not committed is the work of the one transaction    *)
(* that is let in, and outside a transaction nothing is: no window commits *)
(* along with its own work what another one has not committed.             *)
OneWriter ==
  /\ ~inTransaction => working = committed
  /\ inTransaction => \A p \in Pages : working[p] \ committed[p] \subseteq {current}

(* A query outside a transaction finds nothing that is not committed.      *)
ReadsCommitted ==
  \A c \in Clients : Executable(c) /\ asked[c].kind = "read" => working = committed

(* The windows of a browser work on one database as if each had it to      *)
(* itself while its transaction lasts.                                     *)
Isolation == OneConnection /\ OwnTransaction /\ OneWriter /\ ReadsCommitted
=============================================================================
