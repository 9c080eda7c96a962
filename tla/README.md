# Formal model of Syncraft

Syncraft is an offline-first inspection workspace: a Flutter client
(`apps/field`) that keeps all its work in a local SQLite database, and a Go
server (`internal`, `cmd`) that keeps one log of operations per workspace. This
directory holds TLA+ modules translated from that code, the TLC configurations
that check them on small instances, and proofs of the main theorems for
instances of any size, checked by TLAPS.

    tlc -config MCSync_faults.cfg MCSync     # one of the runs below
    tlc -config MCServer_store.cfg MCServer
    tlc -config MCPostgres_calls.cfg MCPostgres
    tlc -config MCWeb.cfg MCWeb
    tlapm SyncProofs.tla       # and the other modules whose names end in Proofs

## 1. The system

### Data

An edit is an immutable *operation*: an identifier (a UUID), the record and
field it belongs to, a value, and the identifiers of its *parents*, the versions
of that field its author had seen. The *frontier* of a field is the set of its
operations that are nobody's parent. Two versions in a frontier are a conflict,
which a later operation resolves by naming both as parents. Nothing is ever
decided by a clock.

### Components

| Component | State | Operations | Correct when |
|---|---|---|---|
| Local store (`data/local_store.dart`) | tables `operations`, `outbox`, `metadata` | `save`, `pending`, `acknowledge`, `applyPage`, each one transaction | rows never change; what leaves the outbox is on the server; the cursor covers only what is in the table |
| Sync engine (`sync/sync_engine.dart`) | `busy`, `paused`, `connected`, token, timer | `login`, `synchronize`, `setPaused`, `logout` | failures and retries do no harm; in the end everything is exchanged |
| Controller and editors (`domain/workspace_controller.dart`, `ui/`) | the last projection read | `create`, `edit`, `archive`, `refresh` | a stale view never loses a version |
| Recovery (`data/recovery.dart`) | none | `export`, `restore` | a restored store synchronizes like any other |
| Demo data (`data/demo_seed.dart`) | none | `loadDemo` | loading it on several devices is one set of operations |
| Attachments (`data/attachment_store.dart`, `api/attachments.go`) | rows with an `uploaded` flag; blobs | `add`, `uploadPending`, `fetch`; `upload`, `download` | uploaded once, never altered |
| Live hints (`sync/live_hints.dart`, `api/events.go`) | subscriptions, one-place channels | `connect`; `Notify`, `events` | no push goes unnoticed; a revoked device is cut off |
| HTTP API and auth (`api/server.go`, `auth/auth.go`) | none | one handler per route, `identity`, `Verify` | only registered, unrevoked devices of the right account |
| Store (`store/memory.go`, `store/postgres.go`) | devices, log, audit, attachments | `Register`, `Revoke`, `Push`, `Pull`, ... | contiguous sequences, idempotent pushes, a faithful audit |
| Merge rules (`domain/merge.go`) | none | `ValidateBatch`, `Frontier` | agree with the client's `Replica` |
| Web database worker (`web/sqflite_sw.js`) | one SQLite connection, the locks and the queue in front of it; files in memory, a queue of changes, IndexedDB | `openDatabase`, `execute`, `query`, `update`, `insert`; `xOpen`, `xRead`, `xWrite`, `xDelete`, ... | every window works as if alone; IndexedDB holds what was committed, in order and whole |
| Its runtime (compiled into the same file) | futures and microtasks | futures, 64-bit integers, UTF-8, messages, maps | each does what its Dart contract says |
| Offline shell (`web/offline.js`, `scripts/package-offline.mjs`) | a cache per release | register, install, activate, fetch | the files of the worker that answers are in its cache |
| Rate limiter (`api/middleware.go`) | counters | one step per request | bounded memory, bounded rate |

The client components share the SQLite file: several windows of one browser may
open the same one, each with an engine of its own. In a browser that file is
kept by the *web database worker*, a shared worker with one thread: every
window sends it requests, of which it lets one transaction in at a time, and it
runs SQLite on files in memory, whose changes it writes to IndexedDB afterwards,
in batches. A service worker, the *offline shell*, answers for the files of the
application itself. Client and server only
exchange HTTP requests, which may be lost, answered late, or handled after the
client has given up. A hint over the WebSocket only makes the client start a
synchronization it could have started anyway. Inside the server, every request
and every socket has a goroutine of its own; they share the store, whose methods
each run under one mutex, and the hub, under another.

What is hard, and hard to test, is in the order of these steps. On the client:
what happens between two awaits of `synchronize()`, what is still under way when
it starts again, two windows on one store, a restore in between, edits from a
stale view, batches and pages cut at their limits. On the server: what happens
between the calls that one handler makes, above all a revocation, between a
socket's check of its device, its subscription and its hints, and, with
PostgreSQL, between the statements of one call. In the browser: what other
windows ask of the worker between two statements of a transaction, what SQLite
does to a transaction by itself, how queued changes of files are merged, and a
worker that ends before its last batches are written. `PROJECT.json` lists each such
place under "hazards", with the properties that watch it.

## 2. The modules

| Module | What it is |
|---|---|
| `Sync` | the replication core: stores, engines, editors, restore, demo data, and the server log |
| `Replication` | abstract specification: operations that devices hold, and one log they agree on |
| `SyncImplements` | the refinement mapping from `Sync` to `Replication` |
| `MCSync` | small instances of `Sync` for TLC |
| `SyncProofs` | theorems about `Sync` for every instance, and that it implements `Replication` |
| `Server` | requests, the store with its audit log, the hub and its sockets |
| `MCServer` | small instances of `Server` for TLC |
| `ServerProofs` | theorems about `Server` for every instance |
| `Store` | abstract specification: what the store's interface promises of each writing method |
| `Postgres` | the PostgreSQL adapter, statement by statement; extends `Store` |
| `MCPostgres` | small instances of `Postgres` for TLC |
| `PostgresProofs` | theorems about `Postgres` for every instance |
| `Attachments` | attachments on the client: rows, uploads, fetches, restore |
| `MCAttachments` | a small instance of `Attachments` for TLC |
| `AttachmentsProofs` | theorems about `Attachments` for every instance |
| `WebWorker` | the web database worker: windows, requests, the gate, the locks and the event loop |
| `BrowserFiles` | the files in memory, the queue of changes and its merging, the batches to IndexedDB |
| `WebDatabase` | both, with SQLite's pager and its rollback journal between them, and the end of the worker |
| `LocalDatabase` | abstract specification: what the application relies on of its database |
| `WebWorkerProofs` | the invariant of the worker, and its isolation |
| `WebDatabaseProofs` | what the items of the queue do to files, and that joining them changes nothing; theorems about files, log and IndexedDB, and the promise of `LocalDatabase` |
| `MCWeb` | a small instance of `WebDatabase` for TLC |
| `Futures` | the worker's futures and its microtask loop |
| `Promises` | abstract specification: what a future promises to those who listen to it |
| `FuturesProofs` | the proof that `Futures` implements `Promises`, for every instance |
| `BigInts`, `Utf8`, `Messages`, `Collections` | algorithms of the worker as operators, with reference definitions |
| `Library` | the trial of `BigInts`, `Utf8` and `Collections`, one sample or one map in a behaviour |
| `LibraryProofs` | that texts are written and read right, for texts and bytes of any length, that sums, differences, products and comparisons of integers of any size are exact, and that maps hold what was put, for any keys and calls |
| `MCRuntime` | a small instance of these six for TLC |
| `OfflineShell` | the service workers of successive releases, their caches, and the windows they answer |

`Sync` and `Server` meet in `Memory.Push`: in `Sync` it takes a whole batch and
its validation matters, and its caller is always trusted; in `Server` it takes
one operation, whose parents do not matter, and the caller's device may have been
revoked since it was identified. What `Sync` relies on, a log that only grows,
`Server` guarantees (`HistoryIsImmutable`).

`Sync` and `Server` take a method of the store as one step. The memory store is
that by its mutex; that the PostgreSQL store is too, is what `Postgres` shows by
implementing `Store`. `Attachments` begins where a synchronization of `Sync`
has exchanged its operations, in the state `upload`.

`Sync` takes every transaction of the local store as one step that lasts. On the
web, `WebDatabase` says how far that is so: transactions are whole and isolated
(`Isolation`, `Implements`), but a transaction is answered when SQLite has
committed it to the files in memory, before IndexedDB has it, so that the end of
the worker may take back the latest ones, in order. `LocalDatabase` has that as
`Restart`. The documents speak of a durable outbox (`docs/architecture.md:5`,
`docs/operations.md:60`); on the web it is durable a moment later than the user
is told. And that is so until the browser refuses a batch for IndexedDB. Nobody
is told, later batches are written without it, and from then on nothing is
promised of what a restart will find (`Refuse`; it may be half a
transaction, see section 3). While the worker lives, its windows see all they have written.

What `Replication` promises: a device's user writes operations nobody had, and
whatever a device holds, it holds the parents of; operations enter the log behind
what it has, without gaps and each after its parents; a device learns the log up
to some entry, all of it. Outboxes, cursors, batches, pages, rounds, retries and
failures are gone.

### How `Sync` corresponds to the code

| In `Sync` | In the code |
|---|---|
| `position[d][o]`, `autoinc[d]` | row `o` of table `operations` of database `d`, its AUTOINCREMENT key, and SQLite's counter; 0 is "no row". Keys have gaps: `applyPage` inserts with `ConflictAlgorithm.ignore`, and a row that is there already uses up a key |
| `outbox[d]`, `cursor[d]` | table `outbox`, metadata key `cursor` |
| `parents[o]` | the parents in `o`'s content; record and field are fixed by the identifier (`RecordOf`, `FieldOf`) |
| `sequence[o]`, `head` | the server's log: `Entry.Sequence`, `len(s.entries)` |
| `pc[e]`, `round[e]`, `sent[e]`, `page[e]` | where `synchronize()` of window `e` stands, and its local variables `i`, `pending`, `page` |
| `connected`, `paused` | the engine's flags; `connected` also stands for the token |
| `seen[e]` | the prefix of the table that the window shows: what an editor opened in it will name as parents |
| `seeding` | windows between `loadDemo`'s check and its `save` |
| `stray` | pushes whose client gave up, which the server may still handle |

A push is `SendPush` (read the outbox, send), `ServerPush` (`Memory.Push` under
its mutex, with `ValidateBatch`), `Acknowledge` (the response arrives, the
outbox shrinks). A pull is `SendPull`, `ServerPull`, `ApplyPage`. Between any
two of these, other windows, other devices and the user take steps. `Fail`,
`Refused` and `Crash` end an attempt at any point; a push that `Fail` or `Crash`
leaves behind may stay in `stray` and reach the server at any later time
(`ServerStray`). After a logout a running synchronization goes on: its next
request carries no token (`Await`, `Denied`).

Abstractions: values of fields are irrelevant and left out; a fresh UUID is any
unused identifier (`Fresh` picks the least of each field, as unused ones are
interchangeable); a bundle is a prefix of some table, as `export` reads it; the
server is the memory store, whose operations are atomic; log-in and device
registration are one step and always succeed; a synchronization that has
exchanged all operations goes through a state `upload`, which stands for the
upload of attachments.

### How `Server` corresponds to the code

| In `Server` | In the code |
|---|---|
| `owner[d]`, `revoked` | `space.devices`: `Device.Actor`, `Device.Revoked` |
| `entry[o]`, `head` | `space.entries` and its length |
| `file[f]` | `space.attachments`, with the user and device it came from, which the store does not keep and the properties need |
| `audit[v]`, `events` | `space.audit`: the place of each event, and its length |
| `at[h]`, `request[h]` | where a handler is between its calls, and its request |
| `listeners`, `signal` | `Hub.listeners`, and which of the channels hold their one signal |
| `socket[s]`, `session[s]`, `expired` | where the goroutine of `events` stands, `hello`, and `claims.ExpiresAt` |
| `told[s]` | history: the length of the audit log when the last hint to `s` set out |

A push or an upload is `Arrive` (`identity()`), `Push` or `Upload` (the store's
method, which asks for the device again), `Notify`. A revocation is `Arrive`,
`Permit` (the handler reads the device), `Revoke`, `Notify`. `Refuse` covers
every answer with an error. A socket is `Hello` (the first check), `Subscribe`
(the channel, and a first hint that starts), `Sent`, then `Receive` or `Tick`,
then `Renew` or `Expel`, and `Drop` at any time.

Abstractions: one workspace, as nothing crosses workspaces; users and roles are
fixed, as they are while the process runs; what an operation or an attachment
says is one value, compared as a whole; a request that `identity()` refuses, and
handlers that only read, change nothing and are left out; a device of another
account is refused without a step of its own.

### How `Postgres` corresponds to the code

| In `Postgres` | In the code |
|---|---|
| `db` | the committed rows of `devices`, `operations`, `attachments`, `audit_events`; `Row` says what each has |
| `created`, `counter` | the row of `workspaces`, and its columns `sequence` and `audit_sequence` |
| `lock` | who holds that row: `SELECT ... FOR UPDATE`, or an update of it not yet committed |
| `at[c]`, `request[c]` | the next statement of a call of `Register`, `Revoke`, `Push` or `PutAttachment`, and its arguments |
| `done[c]` | how many iterations of the loop over the batch are behind it |
| `mine[c]` | what its transaction has inserted and not committed |
| `answer[c]` | the cursor it returns |
| `pull[p]` | a call of `Pull`: which of its two statements it is at, what they read |

`write` is `Begin`, `Create` (the workspace), `Lock`, the callback, and `Commit`
or, through the deferred rollback, `Refuse` and `Fail`. The callback is
`Authorize` (the device), `Plan` (what is stored already, and validation), then
`Write` and `LogAudit` for each row. `Fail` may happen at every statement;
`CommitUnseen` is a commit whose reply is lost. `Pull` is `Look` or `FindNothing`,
then `Read`.

PostgreSQL itself is modelled from the use the code makes of it: READ COMMITTED,
its default; a statement that needs a row somebody else holds waits; two rows
never have the same key or number; a rollback takes back the columns of the
workspace too. Abstractions: one workspace; an operation or attachment is its
identifier and contents together (`Id` gives the identifier, so two of one
identifier contradict each other); the SELECTs that precede validation are one step,
since all of them run under the lock, and so are the last SELECT of the cursor
and the commit; the flag `revoked` is a row of its own.

### How `Attachments` corresponds to the code

| In `Attachments` | In the code |
|---|---|
| `rows[s]`, `uploaded[s]` | table `attachments` in the order of its rowid, and the column `uploaded` |
| `stored` | the server's attachments |
| `at[w]`, `queue[w]` | `uploadPending` of window `w`: where it is, and the files of the rows it has read and not finished (`Pending`), of which `Current` is the first in the table's order |
| `stray` | uploads whose client gave up |
| `panel[p]` | a run of `fetch`: what the server listed, and what is left of it |

`uploadPending` is `Start`, then `Upload` and `Mark` for each row, or `Refuse`;
`fetch` is `List`, then `Check` and `Insert` for each file. `add` is `Add`, and
`restore` is `Restore`. `Refused` are files that `add` accepts and the server
never does: the client limits a name to 200 UTF-16 units
(`attachment_store.dart:21`), the server to 200 bytes (`attachments.go:21`).
Such a file is refused in every synchronization, and the error ends
`uploadPending`, so those behind it stay where they are; the liveness property
therefore speaks of files with none of them in front.

`List` is a listing of either store: the memory store's is complete, PostgreSQL
gives the first 500 (`ListLimit`) in the order of the identifiers, which are
random, so any part of that size.

Abstractions: what a file says never changes, so that checksums compare equal
and a repeated upload is the same one; the download and the row it inserts are
one step; a restore is possible while the table of attachments is empty, where the
code asks for an empty table of operations (`recovery.dart:42`): attachments belong
to records, so that a store without operations has none.

### How `WebWorker`, `BrowserFiles` and `WebDatabase` correspond to the code

`web/sqflite_sw.js` is compiled from Dart, so its names are those of the
compiler; `PROJECT.json` gives the lines of each definition.

| In the modules | In the code |
|---|---|
| `asked[c]`, `stage[c]`, `outcome[c]` | the request of a window, how far the worker is with it, and its answer |
| `current`, `queue` | the transaction that is let in (`b` of a database), and the requests that wait for it to end (`c`) |
| `draining` | a run of the loop that works off the queue |
| `lock`, `opening` | the two locks (class `e9`): around the connection, and around `openDatabase` |
| `turn` | a turn of the event loop with its microtasks |
| `working`, `committed` | what the connection reads, and what it would read after a rollback |
| `files`, `pending`, `inflight`, `disk` | files in memory, queued work items, the batch being written, IndexedDB |
| `log`, `kept` | history: what was committed, in order, and how much of it IndexedDB holds |

A request is posted by the window, delivered (`Deliver`: the gate lets it pass or
queues it), executed by SQLite (`Execute...`), and goes on with `Unlock` and
`Settle`, each after an await. `Gate` compares the transaction that the request
names with the one that is let in; `Settle` notices when SQLite has ended a
transaction by itself, and starts working off the queue (`RunHead`, `Rest`).
`Initialise`, `Lookup`, `Create` and `Opened` are `openDatabase`. The worker has
one thread: windows and IndexedDB act when none of its code is running
(`Quiet`). A transaction's number is `<<window, number>>` here, as it is only
compared for equality. In which order SQLite writes pages that it writes
together (`InOrder`) makes no difference: they are different blocks of one file.

Every change of a file joins the queue (`Join`, with the rules by which writes
and deletions are merged); all that is queued is one batch, written in one IndexedDB
transaction, and the next begins when it ends. It ends in one of two ways.
`BatchDone`: IndexedDB has it. `BatchFails`: IndexedDB has aborted it, for want of
space for instance, and has none of it. The code after it (`hu`, line 9063) is
attached with `whenComplete` and therefore the same for both: items are
taken as written and the next batch starts. `intact` is history and says that
no batch has been refused since the worker started; a batch which cannot be applied
to what IndexedDB holds clears it too. SQLite itself is external: its
pager saves a page in the journal before it changes it, writes the header of the
journal and then the pages, and deletes the journal to commit; a journal that is
found is played back. Which pages it writes early, when its cache is full, is left
open. A commit is answered before its batch is written.

Abstractions: a page is the set of works that have written it; a window has one
request outstanding, as the client library sees to; a query inside a transaction
goes the way of a write and changes nothing, so only queries outside are
requests of their own; `BEGIN` fails only inside a transaction; a block of a
file is written whole; `xSync`, which does nothing, is left out; files go by
their names also in IndexedDB, where the code remembers the numbers of records,
which a refused batch may leave wrong, so that IndexedDB is followed after a refusal in
only one of the ways it may go, enough to refute and not to prove; for the same
reason the model has no end of the worker after a refusal (`Stop`), as what SQLite
would make of such files is not known. A failing `BEGIN` would leave the queue asleep
(the path at line 3471 opens the gate and wakes nobody); SQLite's `BEGIN
IMMEDIATE` on the only connection has no reason to fail.

### How the runtime's modules correspond to the code

`Futures` has the states, the reversed list of listeners, the chains, and the
queue of microtasks of class `x` and the functions around it; `stack` holds the calls that
remain to be made while a future completes. What user callbacks do is left open:
they return a value, an error or a future, and may complete others; a callback of
`whenComplete` returns no future, and none of the worker's does. `Promises` says what
all of it is for: a future is settled once, and those who listen to it are told
once, in the order of their registration.

`BigInts` has the 64-bit integers (in fact of any size) with schoolbook division
by estimated digits; `Utf8` the encoder, and the decoder as the state machine its
two tables are; `Messages` the translation of values that windows and worker
exchange; `Collections` the two kinds of maps, and the sets made of them. Each
is stated as operators and has one property that compares them with a reference
definition.

Abstractions: all zones are the root zone; the flag that ignores an error is
never set here; digits have 3 bits instead of 16, and figures are written two of
base 2 at a time instead of four of base 10; texts are decoded by halves above 2
bytes instead of 1000; the browser's own decoder, which is tried first, is left
out; keys of maps do not look like integers, which JavaScript would put first; the counter
of changes does not wrap at 2^30; left out are the order of keys in a message, and
in the key list of a hash map the order among numbers and among buckets.

### How `OfflineShell` corresponds to the code

A release is a number, as are its worker and its cache. `OpenCache`, `Fetch` and
`Installed` are the install event, `Activate` is the activate event, `Request` the
fetch event, `Register` is `offline.js`. When the browser looks for a new worker,
and when it lets one activate, is external. Abstractions: the files of an installation
are stored at once, as `addAll` does; a browser goes on with an installation
whose cache was deleted, without effect.

## 3. Properties and runs

| Property | What it says |
|---|---|
| `TypeOK` | types |
| `AckedIsStored` | an operation not in the outbox is in the server's log |
| `NothingSkipped` | every entry up to the cursor is in the table, and the cursor is at most `head` |
| `CausalOrder` | each table and the log have an operation's parents before it, in its field |
| `GapFree` | the log has sequences 1, 2, ..., n, each once (proved; in the runs it is part of `Implements`) |
| `PushIsValid` | every batch under way, or left behind, is one `ValidateBatch` accepts |
| `PageIsApplicable` | a page is refused by `applyPage` only when another window has moved the cursor |
| `Agreement` | an empty outbox and a cursor at `head` mean: the table holds exactly the log's operations |
| `EveryVersionIsRepresented` | every version is in the frontier or was replaced, through any number of steps, by one that is |
| `CursorGrows` | no step moves a cursor back |
| `LogIsImmutable` | no step changes an operation's parents, its row, or its sequence |
| `Implements` | every behaviour of `Sync` is one of `Replication` |
| `Convergence` | if every window ends up connected and not paused, all outboxes drain and all tables become the log |

Of `Server`:

| Property | What it says |
|---|---|
| `TypeOK` | types |
| `AuditIsFaithful` | the audit log has places 1, 2, ..., n, one for each registration, revocation, operation and attachment and no other, names the right user, and lists operations in the log's order |
| `AcceptedWhileTrusted` | what the store took from a device, it took from its owner, after its registration and before its revocation |
| `Authorized` | viewers write nothing; a device is revoked by its owner or an admin |
| `HintsArrive` | after a change, a socket that will send nothing by itself has its channel full, or a handler is about to fill it; the hub has exactly the channels of running loops |
| `HistoryIsImmutable` | owners, revocations, entries, attachments and audit lines never change |
| `Disconnected` | a socket whose device is revoked, or whose token has expired, is closed in the end |

Of `Postgres`:

| Property | What it says |
|---|---|
| `TypeOK` | types |
| `GapFree` | committed operations and audit lines are numbered 1, 2, ..., n, n being the counter, whatever was rolled back |
| `PageIsContiguous` | a page is the next piece of the log up to its cursor, although its two statements see different states, and the last page reaches what the first statement saw |
| `AnswerIsTrue` | when a call returns success, all it asked for is committed, at or before the cursor it returns |
| `Implements` | every call takes effect in one step, or not at all: `Store` |
| `EveryCallReturns` | no call waits for the row for ever |

Of `Attachments`:

| Property | What it says |
|---|---|
| `TypeOK` | types |
| `UploadedIsStored` | what a store has marked as uploaded, the server has |
| `FetchIsComplete` | a fetch that ends without an error has brought everything the server listed |
| `EverythingInFrontIsUploaded` | every file with no refused one at or before it is uploaded in the end, if a window is open |

Of `WebDatabase` (the first two of `WebWorker`):

| Property | What it says |
|---|---|
| `WorkerTypeOK` | types |
| `Isolation` | there is one connection however many windows start at once; a statement finds the transaction of its window open; what is written and not committed belongs to the one transaction that is let in; a query outside reads what is committed |
| `FilesHoldTheLog` | what SQLite would recover from the files in memory is what is committed, and that is the works of the log, each whole, whatever becomes of the batches; as long as none is refused, the queued changes lead from IndexedDB to those files |
| `Implements` | `LocalDatabase`: the log grows by whole works; until the browser refuses a batch, IndexedDB holds the result of a prefix of it at every moment, journal included, and that prefix only grows, reaches the end of the log while the worker lives on, and is all that a restart leaves |
| `EveryRequestIsAnswered` | every request is answered, unless a window has gone with its transaction open (`Abandoned`: the worker is not told, and keeps everybody waiting as long as it lives) |

Of the worker's runtime:

| Property | What it says |
|---|---|
| `ArithmeticIsExact` | the integers of class `S` compute, compare, shift and print as integers do |
| `TextsSurvive` | text is the same after writing and reading, but for lone surrogates and a first byte order mark; decoding any bytes gives what the definition of UTF-8 does, or an error exactly when they are malformed, wherever the text is cut |
| `MessagesSurvive` | what is sent arrives as it was, unless it has an integer inside a map that had to be wrapped, which is refused |
| `MapsHoldWhatWasPut` | after any sequence of calls, maps and sets hold what was put last and not removed, in the order of insertion where that is promised, and an iteration shows each key once, or fails if a key came or went |
| `Implements` | `Promises` |
| `EveryListenerIsCalled` | a listener of a settled future is called in the end, whatever other callbacks throw |

Two properties that documents state do not hold without exception, see below:
`WorksOffline` of `OfflineShell` (the files of the active worker are in its cache)
and `TransactionsStayWhole` of `WebDatabase` (IndexedDB holds a transaction whole or
not at all, unless a journal would complete it or take it back), which is true until
the browser refuses a batch.

| Run | Instance | Why it is large enough |
|---|---|---|
| `sync_faults` | 2 devices, demo data and one edit, batches and pages of 1, one failure at any point | the demo operation reaches the log from two devices; a batch or page smaller than the outbox; a failure between any two steps, followed by a complete retry |
| `sync_edits` | 2 devices, 4 operations in 2 fields, batches and pages of 2 | a created record, two concurrent edits of one field and a resolution; two rows per batch give it an order |
| `sync_tabs` | 2 devices, one with 2 windows, 2 operations, batches of 2, pages of 1, loops of 2 iterations | both windows pull, and each can overtake the other, with pages of their own rows and of the other device's; a window may save, or push, while the other waits; either store may be filled from the other's bundle |
| `sync_live` | 2 devices, 2 operations, batches and pages of 1, loops of 1 iteration, one interruption, fairness | pushes and pulls that depend on each other; more rows than one synchronization may exchange, so that the timer has to start another |
| `server_store` | 2 devices, 3 users, one of each role, 2 operations and 1 attachment with 2 contents, 2 handlers | two requests at any of their stages, conflicting contents, an admin and an owner who revoke the same device, own devices and other users' |
| `server_hints` | 2 devices, 1 editor, 1 operation, 2 handlers, 1 socket | a change in each stage of the socket, and a second one before the first is read; sockets do not affect each other |
| `postgres_calls` | 1 device, 2 users, 3 operations under 2 identifiers, 1 attachment, 2 calls, 1 pull, pages of 1 | two transactions at any of their statements, one of which may create the workspace; batches that repeat, contradict or follow each other; a failure at each statement; a commit between the two statements of a pull |
| `postgres_waiting` | 1 user, one batch of two operations, 2 calls, fairness | each call waits for the other, at both places where it can |
| `attachments` | 2 stores, 2 windows on one and a panel on the other, 3 files of which one is refused, 2 rows per synchronization, listings of 1, one failure, fairness | a queue and a listing longer than their limits, two windows that upload the same row, a refused file at any place, a restore and a fetch in between |
| `web` | 2 windows with one work each, 2 pages, one fault: a failing statement, load or open, a batch that the browser refuses, a window that goes, or the end of the worker; fairness | two windows that start at once, a transaction and a single statement, or two transactions, between each other's steps; pages that were there and pages that are new; a batch being written, one queued |
| `runtime` | 5 futures, 2 of which are results of no listener; integers of up to 3 digits, each at or next to a limit; texts of up to 3 units and up to 4 bytes, each at the border of a class; messages nested three deep; 4 calls on a map with 4 keys, two of one hash | chains, listeners added while a future completes, errors nobody handles; digits that are estimated too large by two; every class of bytes on either side of a cut; a removal from the middle of the list and from a shared bucket |
| `offline_shell` | 2 windows, 2 files, 3 releases | one worker active, one waiting and one being installed; with 2 releases the property holds |

`offline_shell` refutes `WorksOffline`: the worker of release 1 answers, that of
release 2 is installed and waits until the last window of release 1 closes, and
that of release 3 is installed while release 2 is activated. The activation
deletes every cache but its own (`package-offline.mjs:23`), that of release 3
too, which is then activated without
files, and until another release comes the application no longer starts without a
network, although "The app works offline immediately after its first successful
load and cache installation" (`README.md:25`).

`TransactionsStayWhole` is not an invariant either: added to `MCWeb.cfg`, TLC violates it.
A transaction that writes two pages is committed in memory, IndexedDB refuses its
batch, and the next transaction, which writes one of these pages, has its batch
accepted. Pages are saved whole, so IndexedDB now has the first transaction in one
page and not in the other. The journals have come and gone within the two batches, so
that nothing repairs that at the next start. An edit and its entry in the outbox are such
a transaction ("Editing and enqueueing are one local transaction",
`docs/architecture.md:7`; "Browser quotas, eviction, and platform restrictions still
apply", `README.md:120`). The refusal is the only cause: `WholeUntilRefused` proves
the property for as long as there is none.

Bounds. `MaxInterruptions` bounds failures, crashes, logouts and pauses, so that
runs are finite; `MaxRounds` is the limit of 100 iterations in the loops, lowered to 1 or 2, so that
the loops do end at their limit; `PendingLimit`, `MaxBatch` and `PageLimit` (100
in the code) are lowered to 1 or 2 so that queues exceed them. The runs of `Sync` without
liveness look at states through a `VIEW` (`UpToGaps`) that has the order of a table's
rows in place of their keys: nothing but the order is ever read, and gaps between keys
only multiply the states. The operations are the finite
set `Ops`. Symmetry exchanges devices (or windows), which differ in nothing; the
runs with liveness use none. In `MCServer`, devices, operations, contents and
handlers are each exchanged among themselves (`Alike`), which differ in nothing;
users are not, because of their roles. `Server` needs no bounds: entries and
audit lines are as many as there are identifiers. `Postgres` needs none
either; its calls return and are called again, with a set of requests to choose
from. `UploadLimit` of `Attachments` (10 in the code) is lowered to 2, `ListLimit` (500) to 1, and
`MaxInterruptions` bounds requests that fail. In `WebDatabase`, `MaxWorks` bounds
the transactions and single statements of each window, and `MaxFaults` failures, refused
batches, windows that go and ends of the worker, together. In `Futures`, `MaxFutures` bounds the futures made,
`MaxPlain` those that result from no listener, and `MaxListened` those after
which none is listened to alone; `Width`, `Radix`, `Group` and `HalfAbove` are smaller than in
the code (`BigInts`, `Utf8`), so that a few digits and bytes reach every limit; `TextUnits`,
`TextBytes` and `Calls` bound the units and bytes of a sample and the calls on a map (`Library`); `MaxReleases` the releases of the shell. The runs of `Server`,
`Attachments`, `WebDatabase` and `Futures` do not check for deadlock: when every device is revoked and no
request is left, all files are where they can get, every work is done, or every
future is settled, nothing can happen any more.

`BigInts`, `Utf8`, `Messages` and `Collections` have no variables: in the run
`runtime`, a behaviour is either one of `Futures`, or its first step chooses one sample for one
of them (`Try` of `Library`, `TryMessage`), and further steps call a map (`CallMap`). Their
properties are parts of their modules (`Exact`, `IsReadBack`, ...), applied to the
sample in `Library` and `MCRuntime`.

Fairness. `Fairness` is weak fairness of `SyncStep(e)` for each window: while
an engine is connected and not paused, its timer calls `synchronize()` again and
again (`_schedule`, `sync_engine.dart:108`), each request is answered or times
out after 20 seconds, and local transactions end. Nothing is assumed of the user
(edits, log-ins) or of the failures. In `Server` it is weak fairness of each
socket's loop (`LoopStep`): its ticker fires every 15 seconds and a write takes 5
seconds at most (`events.go:89`). Nothing is assumed of handlers, users and clients.
In `Postgres` it is weak fairness of the statements that need not wait, and
strong fairness of the two that may (`Create`, `Lock`), as PostgreSQL serves
those who wait for a row in turn. In `Attachments` it is weak fairness of
`UploadStep(w)`: it takes for granted that the synchronizations of `w` get as far as
the upload, which is what `Convergence` of `Sync` is about. In `WebDatabase` it is
weak fairness of the worker's turn, of what it does for each window, of a batch that
ends, of a window that takes its answer, and of a window's end of the transaction it
has begun, as the client library ends every transaction, with `ROLLBACK` after an error; nothing is assumed of windows
that begin something, or go. In `Futures` it is weak fairness of the calls under way and
of the microtask loop, which a zero timer starts.

## 4. Theorems

`SyncProofs` proves for any finite set of operations, any devices and windows,
any assignment of windows to databases, and any limits with
`PendingLimit <= MaxBatch` (the assumptions named in `Sync`) that every property
of the table above holds of `Spec`, with the exception of `Convergence`.

The argument is one inductive invariant, `IInv`:

- `DataInv`: `GapFree`, `CausalOrder`, `AckedIsStored`, `NothingSkipped`,
  `KeysAreUnique` and `Origins`. `KeysAreUnique` is what is true of SQLite's keys: no
  two rows of a table share one, and none is above the counter. `Origins` is what is
  still missing: the log and the
  outboxes only hold operations some device has (so that an identifier found
  fresh is in nobody's log), unused and demo operations have no parents, and
  nobody has more than `MaxParents`.
- `FlightInv`: for every engine that waits for an answer, what the answer will
  rely on: the batch sent is part of the device's table and its parents are in
  the log or earlier in the batch (`Batch`); a batch being acknowledged is in
  the log; a page starts at or before the cursor and ends at or before `head`.
  The same `Batch` holds of every stray push.

Three lemmas carry the proof. `InsertFacts` and `AppendFacts` say what the two
insertions do, to a table whose keys are unique and to the log, which is numbered, from
lemmas about `Rank` that count finite sets. `TableStepInv` shows that any step of one device's tables keeps `DataInv`
under conditions that `save`, `restore` and `applyPage` each meet;
`LogStepInv` does so for the log. `Monotone` collects what no step takes back
(rows, numbers, parents, cursors), and `BatchStays` and `FlightStays` derive
from it that whatever is under way stays good while others take steps, which is
why neither retries nor late arrivals do harm. `NextInv` puts the actions
together. `PendingIsBatch` is the fact behind the cut at 100: with ranks, the first
n of the outbox contain every queued parent of their members.

The invariant properties then follow, and the action properties `CursorGrows`
and `LogIsImmutable` are parts of `Monotone`. `EveryVersionIsRepresented`
follows from the order of a finite table: the last member of a set of versions
has no successor in it.

### `Sync` implements `Replication`

`SyncProofs` also proves `Refinement`, `Spec => Implements`. The mapping is
plain: what a device holds are the rows of its table, the log is the server's.
`Create` and `Edit` are `Write`, `SaveDemo` is `LoadDemo`, `Restore` is `Restore`;
`ServerPush` and `ServerStray` are `Publish`, by any device that holds the batch;
`ApplyPage` is `Learn` up to the page's last entry. A page is only a slice of
the log, so that last step needs `NothingSkipped`; `Publish` needs `CausalOrder`
and `GapFree` of the log, and that somebody holds what is sent (`Origins`, `Batch`). All other
steps, failures included, change nothing that `Replication` has.

### `Server`

`ServerProofs` proves every property of `Server` but `Disconnected`, for any sets
of devices, users, operations, attachments, contents, requests and sockets, from
`RoleAssumption` and `NobodyAssumption`. The invariant `IInv` is `TypeOK`,
`StoreInv` (the properties of store and audit log together), `RequestInv` and
`HintsArrive`. `RequestInv` says what a request under way still knows although
others have run since it was identified: that the caller has the role its kind
needs, and that whoever passed `Permit` may revoke its target, which holds only
because owners never change. It says nothing of the caller's device; that is why
the store has to ask again.
`LogFacts` says what one more line does to the audit log, `LineFacts` what its
lines say; `AcceptStore`,
`KeepStore`, `RevokeStore` and `RegisterStore` use it for the four changes of the
store. `HintsKept` and `LoopHints` carry `HintsArrive` over steps of the store
and of sockets.

### `Postgres` implements `Store`

`PostgresProofs` proves every property of `Postgres` but `EveryCallReturns`, for
any sets of calls, pulls, devices, users and requests, from `BatchAssumption` (a
push carries a non-empty sequence of operations), `NoneAssumption` and
`PageLimitAssumption`. `Store` has the same variable `db`, so the mapping is the
identity, and the theorem `Refinement` says that a commit is `Handle(request[c])`
of the state in which it happens, and every other step leaves `db` alone.

The difficulty is that a call commits what it computed several statements
earlier. The invariant says that its view has not aged (`CallInv`): between the
lock and the end, what it checked of the device and of the batch still holds of
`db` (`Progress`), and `mine[c]` are exactly the rows that `Store` would add for
the part of the request that is behind (`Part`). `Undisturbed` and
`OthersUndisturbed` are the argument about the lock: nobody else has rows of
their own, or can commit, meanwhile. `NextMissing` and `RowInserted` say what one
iteration of the loop adds, with the number it takes from the counter;
`FinishedCall` concludes that after the last one `mine[c]` is `Additions(db,
request[c])`, and `Published` that `GapFree` survives its commit. `ReadStep`
shows that a page is contiguous from `GapFree` alone: a row committed after the
page was begun cannot be numbered below one that was there.

### `Attachments`

`AttachmentsProofs` proves every property of `Attachments` but
`EverythingInFrontIsUploaded`, for any sets of windows, panels, stores and files,
from `StoreOfAssumption` and `LimitAssumption`. Two facts make the properties
inductive. `AnsweredIsStored`: between the answer to an upload and the update of
its row, the file that the window is busy with is on the server. It lasts because
the order of rows that are there never changes (`GrownRows`), whoever adds rows
or marks them meanwhile, so that the answer is still about the first file of the
queue. `FetchInv`: what the server listed is in the table or still on the panel's
list. A server that only gains files and a table that only gains rows keep it.

### `WebWorker`

`WebWorkerProofs` proves `WindowsAreIsolated`, `WebSpec => []Isolation`, for any
windows, pages and numbers of transactions. `WorkerInv` says of each part what
the others count on:

- `RequestInv`: what a request is about fits the state its window is in;
- `GateInv`: the transaction that is let in is that of one window, which knows
  it, has asked for its `BEGIN`, or has gone;
- `LockInv`: the stages `locked` and `executed` are the members of the lock, and
  when a `BEGIN` is let in and not executed yet, it is the last of them, so that
  statements outside transactions that were let in before run before it;
- `TransactionInv`: the connection is in a transaction from the end of that
  `BEGIN` to the statement that ends it, whether it is asked to or SQLite does so
  by itself, and `OneWriter` of the pages;
- `OpeningInv`: one request at a time is opening the database, and who creates
  the connection has found none.

Each of them is needed for another: `LockInv` for what a statement finds when it
is executed, `TransactionInv` for who may change the pages, `GateInv` for
whose they are. `WebStep` carries them over the pager, the batches and
the end of the worker too, as these leave the worker's variables alone or reset
them.

### `BrowserFiles`

The modules define the effect of a queue, the cut of a queue and a stretch of
changes as recursive functions. The induction theorems of the library cannot be
used here, so `WebDatabaseProofs` proves by least counterexample
(`LeastNumber`, `UpTo`) that each of these functions exists and is what its
equation says (`OutcomeUnfolds`, `WithoutUnfolds`, `ChangeUnfolds`). `Reaches`
says that all items of a queue can be applied, and where they lead;
`ReachesConcat` splits it. On this rests `JoiningChangesNothing`: a queue that
the next item has joined leads to the files that the queue and the item lead to.
For a write that is because a merged write has the effect of both (`WritesMerge`),
and no item behind it is of its file, a deletion or a truncation
(`JoinWriteReaches`); for a deletion, because what is left out concerns only a
file that is going to be deleted (`JoinDeleteReaches`).

`Faithful` is the inductive form of `QueueIsFaithful`: there are files to which
the batch being written leads from IndexedDB, and from which the rest of the
queue leads to memory. `ChangeStep`, `BatchStep` and `StopFilesStep` keep it,
and say which files these are: the end of the worker leaves IndexedDB with the
batch or without it. It holds as long as `intact` does. What a change does to the
files in memory does not depend on IndexedDB and is stated by itself
(`ChangeFiles`), so that it can be used after a refusal too.

### `WebDatabase`

`WebDatabaseProofs` proves `FilesKeepTheLog` and `WorkerTypesHold` for any
windows, pages and transactions, and any number of faults, and as
`PromiseIsKept` the part of `Implements` that is not about fairness: `WebSpec`
implies the initial states and steps of `LocalDatabase`. `WholeUntilRefused` says that
`TransactionsStayWhole` holds while no batch has been
refused. All of it needs what
`WebDatabase` assumes: pages are positive numbers, there are finitely many of
them, and the two files have different names. The invariant is `WorkerInv` with
`DatabaseInv`:

- `MemoryInv`: what SQLite would restore from the files in memory, by the journal
  if there is one, is what is committed, and that is the contents of the log;
- `DiskInv`: until the browser refuses a batch (`DiskHolds`), the same of IndexedDB
  and of what the batch will make of it, each with some prefix of the log; the prefix
  of IndexedDB is `kept`, and that of the batch is no shorter;
- `JournalInv`: the journal has a header exactly when the transaction has changed
  pages, its records are what the pages were, and it has a record of every page
  that has changed, but for those that are new. A statement that spills
  the cache early, and a rollback, are correct by this;
- `HistoryInv`: the works of the log are different and each has changed a page,
  so that a prefix of the log is recognised by its contents (`KeptIs`);
- `WindowsInv`: what a window works on is not in the log until it is committed
  (`Logged`), and the pages of a transaction that can be committed are what
  was committed with the marks of what its window has written (`WorkFits`).

The argument about a crash is that of SQLite: among the items of a statement
there is one that decides, the deletion of the journal. A batch starts with the
first item of a change or contains all of it, so what must be shown of each kind
of change is that its first item alone is harmless (`Harmless`: the files restore
the same) and that all of it leads to what is committed then (`FilesStep`).
`SaveReaches`, `StoreReaches` and `RollbackReaches` follow the items of the
three kinds of changes one by one. Memory and IndexedDB are kept apart
(`MemoryChanges`, `HoldsStep`): the first part holds whatever becomes of the
batches, and a batch, applied or refused, touches only the second (`BesideDisk`,
`RefusedDatabase`). `StopDatabase` and `BatchDatabase` conclude
that `kept` never shrinks and `log` is cut to it, `ServePromise` that everything
else commits a new work or leaves the log alone. `WholeUntilRefused` rests on
`PrefixIsWhole`: in the contents of a prefix of the log, each work has all its pages or
none.

### `Futures` implements `Promises`

`FuturesProofs` proves `FuturesKeepPromises`, `Spec => Implements`, for any number
of futures, from `BoundsAssumption` (the bounds are natural numbers, and no
future is listened to alone beyond the last) and `NoneAssumption` (`None` is no
outcome). The outcome that `Promises` has of a future is the computed one,
`Outcome`, at the end of the chain that the future follows.

`Root`, which finds that end, is a recursive function, and it is what its equation
says only if chains end. `Chains` says so: there is a function that satisfies the
equation, and a rank that falls along every chain. From these `RootsOfIs` derives
what `Root` is, by least counterexample, and `LongerChain` says what becomes of it
when one future follows another: both have an end then, and it is the other's.

The difficulty is the order. A listener is put in front of a list, which is turned
round when it is called, moved behind another list when its future follows
another, and becomes a task when its future is settled already; a callback in the
middle of all that may do any of this again. `Waiting` says of every listener
that has not been told that it waits in one place, and of the places:

- `ListsHold`, `StackHolds`, `TasksHold`: what is in a list listens to the future
  at the end of its own chain, which is open; what is on the stack or a task has an
  outcome to be told. What a task will settle is `pending`, what a callback will
  settle `incomplete`, so that nobody else can settle it;
- `AllWait`: there is no listener that waits nowhere, so nothing is lost;
- `ListOrder`, `StackOrder`, `TaskOrder`, `StackFirst`: of two that were
  registered on the same future the first is called first, the stack before
  the tasks. It is said of the same future, and not of futures with the same
  end: across the futures of a chain the order is not kept, and `Promises` does
  not promise it;
- `Unsettled`: the result of a listener that has not been told is open.

There is a lemma for each thing that happens to these places: `SettledInOrder` (a list
becomes calls), `ChainedInOrder` (a list is moved), `LeftForLater`, `ListenedInOrder`,
`Told`, `Entered`, `Left`, `TaskTaken`, `Reported`. They speak of functions and sequences and
not of the module's variables, so that a step that does two of these things, as
a callback that completes what waits for several, takes two lemmas.
`SettledKeeps`, `ChainedKeeps`, `LaterKeeps` and `FollowKeeps` add chains and
outcomes: to settle a future settles, with the same outcome, every future that
follows it, and each of these that results from a call has had it (`Settles`).

### `Utf8`

`LibraryProofs` proves `TextsAreReadBack`, `IsReadBack(us)` for every sequence of
16-bit units, and `BytesAreReadRight`, `IsReadRight(bs)` for every sequence of
bytes, both for any `HalfAbove`; from these `TextsAlwaysSurvive`, that
`TextsSurvive` holds in every behaviour of `Library`, whatever its samples. The
argument has four parts.

- What the automaton does in a sequence of bytes is one step per byte
  (`RunSteps`), so that it can be taken in two parts (`RunJoined`), and cutting
  in halves makes no difference (`HalvesDoNotMatter`): the recursive function of
  `RunByHalves` has the solution that ignores the cuts, and by induction on the
  length no other. This holds because a run carries the unfinished code point
  over the cut, which `RunHalvesAlone` does not.
- Code point by code point: `OneByte` to `FourBytes` say which bytes `WellFormed`
  allows, by arithmetic; `EndOfOne` to `EndOfFour` that the automaton, from any
  state in which it waits, comes to wait again after exactly these, with the code
  point of `Point`. `WellFormedIsRead` and `IllFormedIsNoticed` put them
  together: it never waits after bytes of which no beginning is well formed.
- `FirstTells`: the first byte says how many belong to the code point, so that a
  text has one reading at most (`OneEnd`). `ReadingsAreTold` follows from the last byte to
  the first (`FromTheEnd`): from any byte on, the texts of `Readings` are the one
  that the automaton reads, or none if it ends in an error or within a code point. The byte order mark is in
  the statement (`Joined`), as it is left out only at the start.
- `WellWritten`: what is written for a unit or a pair is well formed and means
  it. With the same induction the bytes of a text are read as its points.

### `BigInts`

`LibraryProofs` proves `SumsAreExact`, `DifferencesAreExact`, `ProductsAreExact`
and `ComparisonsAreExact` for any two integers, whatever their size, in any base.
From `DigitsAssumption` they use that `Base` is a number above 1. That it is a
power of 2 would say as much, but not to the provers, so the assumption says it;
TLC evaluates it. A result has the value that arithmetic says (`Is`), and it is in
its normal form, in which the next operation expects it: no leading zeros, and
zero without a sign.

`ValueOf` is a recursive function of the digits. The proofs speak of the values of
the digits from each place on (`AreValues`: v[i] = d[i] + Base * v[i + 1]), and
every claim about digits is carried from the highest place to the lowest
(`Downwards`), without a power of the base.

- `ValuesAdd`: the values of sums are the sums of values, also if a carry goes
  from each digit to the next, provided that none is left at the top. `CarriedIs`
  and `ValuesOfCarried` say so of the loops of additions and multiplications,
  `BorrowsAre` and `SubtractDigitsIs` of subtractions. That no carry is left is
  what could be wrong. For a sum there is one more digit (`AddDigitsIs`); for a
  difference the larger magnitude is in front; for a row of a product `HasRoom`
  says that what is above the place of the row has no digits yet, and
  `AddMultipleIs` that one more digit is enough, as the carry of a product and two
  digits is a digit (`CarryOfProduct`).
- `CompareDigitsIs`: without leading zeros more digits are a larger value, and
  else the highest digit that differs decides (`HigherIsMore`).
- `ProductsValue`: after each row the sum so far is the product with the digits
  used, and the places above the next row are free, by induction over the rows.
- The signs: `NormalIs`, `NegatedIs`, and a case for each combination.

### `Collections`

`LibraryProofs` also proves `MapsAlwaysHoldWhatWasPut`, that `MapsHoldWhatWasPut`
holds in every behaviour of `Library`, for any number of keys and calls. It needs
`KeysAssumption`: a key is a string, a number or an object, two strings or
numbers with the same name are the same, and `Nothing` is no value; hashes may coincide.

Of the map that keeps the order the invariant, `LinkedKind`, says that there is a
list `o` of the living cells, among all that were ever made, of which the
following holds (`Walked`).

- `Chain`: first, last, next and previous lead through `o` from either end. The
  cells in `o` come in the order of their making, and every cell, living or not,
  is followed by a later one. Removed cells keep their links, so that without this
  `Entries`, a recursive function, would not be known to end.
- `Index`: of every string or number the table of its kind has the cell, or
  nothing; a bucket lists the cells of the objects with its hash, each once
  (`ListOf`). Two objects of one hash are why the place in the bucket is looked
  up for a removal.
- `Holds`: the pairs in the cells, along `o`, are the list of what was put.
- `Shows`: the next cell of a walk that is still good is the first of the keys that
  are left. A walk is good exactly when the counter of changes is what it
  was, and that counter only grows.

`AddCellIs` and `UnlinkIs` say what becomes of the chain, `IndexDirect`,
`IndexObject` and their opposites of the tables and buckets; `PutOver`, `PutLast`
and `DeleteIs` put them together, one for each thing a call may do to the list
(`Leads`). `EntriesAre` follows the chain from its last cell to the first.

Of the map without an order it is `HashedKind` (`HashWalked`).

- `IsHashed`: strings are pairs of different keys (`PairList`), numbers a finite
  function, and in a bucket keys and values alternate, each key once and of its
  hash (`BucketIs`).
- `HashHolds`: each key has the value that the list of what was put has, and
  the list of keys, if one is kept, is that which `MakeKeys` would make. So a put that
  keeps the list must leave the keys where they are (`SameKeysMade`).
- `LeftOf`: a walk that is still good has the keys behind its place left.

`StringIsPut`, `NumberIsPut` and `ObjectIsPut` are the three cases of `HashPut`. That
`MakeKeys` shows each key once is `MakeKeysIs`: its three parts list different keys
(`Enumerates`), and two lists of the same members are equally long (`SameLength`), so
that the size is right.

### What is not proved

Only model-checked are

- `Convergence`, `Disconnected`, `EveryCallReturns`, `EverythingInFrontIsUploaded`,
  `EveryRequestIsAnswered`, `EveryListenerIsCalled` and, in `Implements` of
  `WebDatabase`, that what is committed becomes persistent: liveness under
  fairness, and `ENABLED`, are beyond the prover;
- what `Messages` computes: its definitions are recursive operators, and modules
  with these are beyond its reach;
- of `BigInts`, quotients, shifts, and what is read from and written as texts
  (`ArithmeticIsExact`): they are about powers of two with variable exponents, of which the
  provers know nothing.

## 5. Not modelled, and the plan

Every component and the reason is listed in `PROJECT.json`. In short:

- Layout and dialogs, formatting, JSON, password hashing, metrics,
  configuration, platform shells, development tools: no protocol state.
- Login, account binding and device registration in their steps: `Sync` has them
  as one step, `Server` has the registration. The reconnection of the hints'
  socket makes no difference to `Sync`, where a synchronization may start at any time.
- The rate limiter: one step per request under a mutex, and nothing depends on
  its state.
- Sizes of batches and bundles: whether one side refuses what the other accepts
  depends on the lengths of texts alone.
- Of the web database worker: SQLite itself, closing and deleting databases,
  cursors, batch requests and user functions, none of which the application uses;
  of the runtime compiled into it, types, strings, dates, zones, and the bindings
  to WebAssembly.

What is left to prove:

- `BigInts`: quotients and shifts, from lemmas about powers of two and the proved
  `SubtractDigitsIs` and `AddMultipleIs`, by induction over the places as in
  `ProductsValue`.
