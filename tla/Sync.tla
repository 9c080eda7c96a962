-------------------------------- MODULE Sync --------------------------------
(***************************************************************************)
(* The replication core of the field client: the SQLite store of each      *)
(* device (data/local_store.dart), the sync engine of each open window     *)
(* (sync/sync_engine.dart), the editor that writes operations              *)
(* (domain/workspace_controller.dart) and the server log they push to and  *)
(* pull from (internal/domain/merge.go, internal/store/memory.go).         *)
(*                                                                         *)
(* A table is a function from operation identifiers: position[d][o] is the *)
(* AUTOINCREMENT key of o's row on device d and sequence[o] its number in  *)
(* the server's log; 0 stands for "no row".  A list of operations is a set *)
(* together with the table that orders it.  An identifier is a UUID, so    *)
(* it fixes its operation's record, field and value; its parents are what  *)
(* its author had observed when writing it.                                *)
(***************************************************************************)
EXTENDS Naturals, FiniteSets

CONSTANTS
  Devices,           \* SQLite databases, one per device
  Engines,           \* open windows or tabs, each with its own sync engine
  StoreOf,           \* the database an engine works on; tabs share one
  Ops,               \* operation identifiers, ordered as a batch lists them
  RecordOf,          \* the record of an operation
  FieldOf,           \* the field of an operation
  CreatedFields,     \* the fields that creating an inspection writes
  DemoOps,           \* the fixed identifiers of the demo data
  PendingLimit,      \* operations per push, 100
  MaxBatch,          \* operations the server accepts in a push, 100
  PageLimit,         \* entries per page, 100
  MaxRounds,         \* pushes, and pulls, in one synchronization, 100
  MaxParents,        \* parents of an operation, 100
  MaxInterruptions   \* bound on what goes wrong: see Interrupt

ASSUME StoreAssumption == StoreOf \in [Engines -> Devices]
ASSUME OpsAssumption ==
  /\ IsFiniteSet(Ops) /\ Ops \subseteq Nat \ {0}
  /\ DemoOps \subseteq Ops
  /\ CreatedFields # {}
ASSUME LimitAssumption ==
  /\ {PendingLimit, MaxBatch, PageLimit, MaxRounds, MaxParents} \subseteq Nat \ {0}
  /\ MaxInterruptions \in Nat
  /\ PendingLimit <= MaxBatch

VARIABLES
  parents,        \* parents[o]: the versions o's author had observed
  position,       \* position[d][o]: table operations of device d
  autoinc,        \* autoinc[d]: its last AUTOINCREMENT value
  outbox,         \* outbox[d]: table outbox, operations not acknowledged
  cursor,         \* cursor[d]: metadata "cursor", the log prefix applied
  sequence,       \* sequence[o]: the server's log
  head,           \* the last sequence number the server assigned
  pc,             \* pc[e]: where synchronize() of engine e stands
  round,          \* round[e]: iterations of the running loop
  sent,           \* sent[e]: the batch of the push in progress
  page,           \* page[e]: the pull in progress and its response
  connected,      \* engines logged in
  paused,         \* engines the user paused
  seen,           \* seen[e]: the rows the window's editor shows
  seeding,        \* engines between loadDemo's check and its save
  stray,          \* pushes whose client gave up, still on their way
  interruptions   \* how often something went wrong, bounded

device == <<parents, position, autoinc, outbox, cursor>>
server == <<sequence, head>>
task   == <<pc, round, sent, page>>
window == <<connected, paused, seen, seeding>>
faults == <<stray, interruptions>>
vars   == <<device, server, task, window, faults>>

-----------------------------------------------------------------------------
(* Tables, and the frontier of a field *)

Rows(table) == {o \in Ops : table[o] # 0}
Local(d) == Rows(position[d])
Stored   == Rows(sequence)
Written  == UNION {Local(d) : d \in Devices}

SameSlot(x, y) == RecordOf[x] = RecordOf[y] /\ FieldOf[x] = FieldOf[y]

(* New identifiers are random: those of a field are interchangeable, and   *)
(* one unused identifier for each is all there is to choose from.          *)
Unused == (Ops \ DemoOps) \ Written
Fresh  == {o \in Unused : \A x \in Unused : SameSlot(x, o) => o <= x}

(* Slip: the highest identifier wins, concurrent versions are dropped. *)
HighestWins(S, o) ==
  {x \in S : SameSlot(x, o) /\ \A y \in S : SameSlot(y, o) => y <= x}

(* The versions of o's field that no other operation of S replaces. *)
Frontier(S, o) ==
  {x \in S : SameSlot(x, o) /\ \A y \in S : SameSlot(y, o) => x \notin parents[y]}

(* The place of x among the elements of S, ordered by key. *)
Rank(S, key, x) == Cardinality({y \in S : key[y] <= key[x]})
ById == [o \in Ops |-> o]

(* The rows a window shows: a prefix of the table, as refresh() read it. *)
Visible(e) == {o \in Local(StoreOf[e]) : position[StoreOf[e]][o] <= seen[e]}

(* Slip: newest rows first. *)
NewestPending(d) ==
  {o \in outbox[d] :
     Rank(outbox[d], position[d], o) + PendingLimit > Cardinality(outbox[d])}

(* The first rows of the outbox, in table order. *)
Pending(d) == {o \in outbox[d] : Rank(outbox[d], position[d], o) <= PendingLimit}

(* Replica.addAll and ValidateBatch agree on this: the operations of S, in *)
(* the order of key, each have their parents, in the same field, among the *)
(* operations already known or earlier in S.                               *)
Causal(S, key, known) ==
  \A o \in S \ known : \A p \in parents[o] :
    /\ SameSlot(p, o)
    /\ p \in known \/ (p \in S /\ key[p] < key[o])

(* The server's verdict on a batch that lists its operations as d does. *)
Valid(S, d) ==
  /\ S # {}
  /\ Cardinality(S) <= MaxBatch
  /\ \A o \in S : Cardinality(parents[o]) <= MaxParents
  /\ Causal(S, position[d], Stored)

-----------------------------------------------------------------------------
NoPage == [after |-> 0, end |-> 0, more |-> FALSE]

Init ==
  /\ parents = [o \in Ops |-> {}]
  /\ position = [d \in Devices |-> [o \in Ops |-> 0]]
  /\ autoinc = [d \in Devices |-> 0]
  /\ outbox = [d \in Devices |-> {}]
  /\ cursor = [d \in Devices |-> 0]
  /\ sequence = [o \in Ops |-> 0]
  /\ head = 0
  /\ pc = [e \in Engines |-> "idle"]
  /\ round = [e \in Engines |-> 0]
  /\ sent = [e \in Engines |-> {}]
  /\ page = [e \in Engines |-> NoPage]
  /\ connected = {}
  /\ paused = {}
  /\ seen = [e \in Engines |-> 0]
  /\ seeding = {}
  /\ stray = {}
  /\ interruptions = 0

(* Rows appended to d's table in the order of key.  Rows that exist stay,  *)
(* but the attempt to insert one again uses up a key.                      *)
Insert(d, S, key) ==
  /\ position' = [position EXCEPT ![d] =
       [o \in Ops |-> IF o \in S \ Local(d) THEN autoinc[d] + Rank(S, key, o)
                      ELSE position[d][o]]]
  /\ autoinc' = [autoinc EXCEPT ![d] = @ + Cardinality(S)]

(* LocalStore.save: one transaction looks for each row, writes those that  *)
(* are new and queues them.                                                *)
Save(d, S) ==
  LET new == S \ Local(d)
  IN  /\ Insert(d, new, ById)
      /\ outbox' = [outbox EXCEPT ![d] = @ \cup new]
      /\ UNCHANGED cursor

-----------------------------------------------------------------------------
(* What the user of a window does *)

(* A new inspection: one operation per created field of a new record. *)
Create(e, S) ==
  /\ S \subseteq Fresh
  /\ {FieldOf[o] : o \in S} = CreatedFields
  /\ \A x, y \in S : RecordOf[x] = RecordOf[y] /\ (x # y => FieldOf[x] # FieldOf[y])
  /\ \A x \in S, y \in Written : RecordOf[x] # RecordOf[y]
  /\ Save(StoreOf[e], S)
  /\ UNCHANGED <<parents, server, task, window, faults>>

(* A new version of a field of a record shown.  Its parents are the        *)
(* versions shown, whatever the table holds by now; beyond MaxParents the  *)
(* constructor of Operation throws.  Resolving a conflict and archiving    *)
(* are the same step.                                                      *)
Edit(e, o) ==
  LET observed == Frontier(Visible(e), o)
  IN  /\ o \in Fresh
      /\ \E x \in Visible(e) : RecordOf[x] = RecordOf[o]
      /\ Cardinality(observed) <= MaxParents
      /\ parents' = [parents EXCEPT ![o] = observed]
      /\ Save(StoreOf[e], {o})
      /\ UNCHANGED <<server, task, window, faults>>

(* refresh() shows the table as it was at some moment since the last one:  *)
(* the generation counter drops a result that a later refresh overtook.    *)
Refresh(e) ==
  /\ \E o \in Local(StoreOf[e]) \ Visible(e) :
       seen' = [seen EXCEPT ![e] = position[StoreOf[e]][o]]
  /\ UNCHANGED <<device, server, task, connected, paused, seeding, faults>>

(* loadDemo finds the store empty, and saves in a later transaction. *)
CheckEmpty(e) ==
  /\ DemoOps # {} /\ e \notin seeding
  /\ Local(StoreOf[e]) = {}
  /\ seeding' = seeding \cup {e}
  /\ UNCHANGED <<device, server, task, connected, paused, seen, faults>>

SaveDemo(e) ==
  /\ e \in seeding
  /\ Save(StoreOf[e], DemoOps)
  /\ seeding' = seeding \ {e}
  /\ UNCHANGED <<parents, server, task, connected, paused, seen, faults>>

(* Recovery.restore: the bundle holds the rows device s had at its export. *)
(* The user interface offers it to a window that is not connected; the     *)
(* transaction checks again that the store is empty, queues every row and  *)
(* drops the cursor.                                                       *)
Restore(e, s, n) ==
  LET d == StoreOf[e]
      bundle == {o \in Local(s) : position[s][o] <= n}
  IN  /\ e \notin connected
      /\ Local(d) = {} /\ bundle # {}
      /\ Insert(d, bundle, position[s])
      /\ outbox' = [outbox EXCEPT ![d] = @ \cup bundle]
      /\ cursor' = [cursor EXCEPT ![d] = 0]
      /\ UNCHANGED <<parents, server, task, window, faults>>

Login(e) ==
  /\ e \notin connected
  /\ connected' = connected \cup {e}
  /\ UNCHANGED <<device, server, task, paused, seen, seeding, faults>>

Resume(e) ==
  /\ e \in paused
  /\ paused' = paused \ {e}
  /\ UNCHANGED <<device, server, task, connected, seen, seeding, faults>>

-----------------------------------------------------------------------------
(* SyncEngine.synchronize, and the server's handlers *)

(* The busy, paused and connected guards.  The timer, a hint, a saved edit *)
(* and a login all come here.                                              *)
Start(e) ==
  /\ pc[e] = "idle" /\ e \in connected \ paused
  /\ pc' = [pc EXCEPT ![e] = "push"]
  /\ UNCHANGED <<device, server, round, sent, page, window, faults>>

(* A request carries the token of the moment: an engine that was logged    *)
(* out in the meantime gets a 401, see Denied.                             *)
Await(e, answer) ==
  pc' = [pc EXCEPT ![e] = IF e \in connected THEN answer ELSE "denied"]

SendPush(e) ==
  /\ pc[e] = "push" /\ round[e] < MaxRounds
  /\ outbox[StoreOf[e]] # {}
  /\ sent' = [sent EXCEPT ![e] = Pending(StoreOf[e])]
  /\ Await(e, "pushing")
  /\ UNCHANGED <<device, server, round, page, window, faults>>

EndPush(e) ==
  /\ pc[e] = "push"
  /\ round[e] = MaxRounds \/ outbox[StoreOf[e]] = {}
  /\ round' = [round EXCEPT ![e] = 0]
  /\ pc' = [pc EXCEPT ![e] = "pull"]
  /\ UNCHANGED <<device, server, sent, page, window, faults>>

(* Slips: operations the log has are numbered again; the counter moves for *)
(* them as well; the batch is appended in some other order.                *)
AppendAgain(S, d) ==
  /\ sequence' = [o \in Ops |-> IF o \in S THEN head + Rank(S, position[d], o)
                                ELSE sequence[o]]
  /\ head' = head + Cardinality(S)

AppendLeavingGaps(S, d) ==
  LET new == S \ Stored
  IN  /\ sequence' = [o \in Ops |-> IF o \in new THEN head + Rank(S, position[d], o)
                                    ELSE sequence[o]]
      /\ head' = head + Cardinality(S)

AppendReversed(S, d) ==
  LET new == S \ Stored
  IN  /\ sequence' = [o \in Ops |->
           IF o \in new THEN head + 1 + Cardinality(new) - Rank(new, position[d], o)
           ELSE sequence[o]]
      /\ head' = head + Cardinality(new)

(* The log grows by the operations of S it does not have, in d's order. *)
Append(S, d) ==
  LET new == S \ Stored
  IN  /\ sequence' = [o \in Ops |-> IF o \in new
                                    THEN head + Rank(new, position[d], o)
                                    ELSE sequence[o]]
      /\ head' = head + Cardinality(new)

(* synchronize() leaves its try block: e is free for the next attempt. *)
Idle(e) ==
  /\ pc' = [pc EXCEPT ![e] = "idle"]
  /\ round' = [round EXCEPT ![e] = 0]
  /\ sent' = [sent EXCEPT ![e] = {}]
  /\ page' = [page EXCEPT ![e] = NoPage]

(* The server handles the push; a batch it refuses ends the attempt. *)
ServerPush(e) ==
  /\ pc[e] = "pushing"
  /\ IF Valid(sent[e], StoreOf[e])
     THEN /\ Append(sent[e], StoreOf[e])
          /\ pc' = [pc EXCEPT ![e] = "pushed"]
          /\ UNCHANGED <<round, sent, page>>
     ELSE Idle(e) /\ UNCHANGED server
  /\ UNCHANGED <<device, window, faults>>

(* Slips: the whole outbox is cleared; the cursor takes the push response. *)
AcknowledgeAll(e) ==
  /\ pc[e] = "pushed"
  /\ outbox' = [outbox EXCEPT ![StoreOf[e]] = {}]
  /\ round' = [round EXCEPT ![e] = @ + 1]
  /\ sent' = [sent EXCEPT ![e] = {}]
  /\ pc' = [pc EXCEPT ![e] = "push"]
  /\ UNCHANGED <<parents, position, autoinc, cursor, server, page, window, faults>>

AcknowledgeAndSkip(e) ==
  /\ pc[e] = "pushed"
  /\ outbox' = [outbox EXCEPT ![StoreOf[e]] = @ \ sent[e]]
  /\ cursor' = [cursor EXCEPT ![StoreOf[e]] = head]
  /\ round' = [round EXCEPT ![e] = @ + 1]
  /\ sent' = [sent EXCEPT ![e] = {}]
  /\ pc' = [pc EXCEPT ![e] = "push"]
  /\ UNCHANGED <<parents, position, autoinc, server, page, window, faults>>

(* The response arrived: the identifiers sent, and no others, leave the    *)
(* outbox.                                                                 *)
Acknowledge(e) ==
  /\ pc[e] = "pushed"
  /\ outbox' = [outbox EXCEPT ![StoreOf[e]] = @ \ sent[e]]
  /\ round' = [round EXCEPT ![e] = @ + 1]
  /\ sent' = [sent EXCEPT ![e] = {}]
  /\ pc' = [pc EXCEPT ![e] = "push"]
  /\ UNCHANGED <<parents, position, autoinc, cursor, server, page, window, faults>>

SendPull(e) ==
  /\ pc[e] = "pull"
  /\ page' = [page EXCEPT ![e].after = cursor[StoreOf[e]]]
  /\ Await(e, "pulling")
  /\ UNCHANGED <<device, server, round, sent, window, faults>>

(* The server reads a page.  A cursor beyond its log is refused. *)
ServerPull(e) ==
  LET after == page[e].after
      end == IF after + PageLimit <= head THEN after + PageLimit ELSE head
  IN  /\ pc[e] = "pulling"
      /\ IF after <= head
         THEN /\ page' = [page EXCEPT ![e] =
                            [after |-> after, end |-> end, more |-> end < head]]
              /\ pc' = [pc EXCEPT ![e] = "page"]
              /\ UNCHANGED <<round, sent>>
         ELSE Idle(e)
      /\ UNCHANGED <<device, server, window, faults>>

(* Slip: the page stops one entry short of its cursor. *)
EntriesShort(g) == {o \in Ops : g.after < sequence[o] /\ sequence[o] < g.end}

Entries(g) == {o \in Ops : g.after < sequence[o] /\ sequence[o] <= g.end}

(* Slips: a page is applied wherever the cursor stands; rows that exist    *)
(* fail the insert.                                                        *)
ApplicableAnywhere(d, g) == Causal(Entries(g), sequence, Local(d))
ApplicableOnce(d, g) ==
  /\ g.after = cursor[d]
  /\ Causal(Entries(g), sequence, Local(d))
  /\ Entries(g) \cap Local(d) = {}

(* applyPage accepts a page that continues the cursor it finds in the      *)
(* table, which another window may have moved since the request.           *)
Applicable(d, g) ==
  /\ g.after = cursor[d]
  /\ Causal(Entries(g), sequence, Local(d))

(* One transaction inserts the missing rows and moves the cursor, or       *)
(* nothing changes and the attempt ends.                                   *)
ApplyPage(e) ==
  LET d == StoreOf[e]
      last == ~page[e].more \/ round[e] + 1 = MaxRounds
  IN  /\ pc[e] = "page"
      /\ IF Applicable(d, page[e])
         THEN /\ Insert(d, Entries(page[e]), sequence)
              /\ cursor' = [cursor EXCEPT ![d] = page[e].end]
              /\ pc' = [pc EXCEPT ![e] = IF last THEN "upload" ELSE "pull"]
              /\ round' = [round EXCEPT ![e] = IF last THEN 0 ELSE @ + 1]
              /\ page' = [page EXCEPT ![e] = NoPage]
              /\ UNCHANGED sent
         ELSE Idle(e) /\ UNCHANGED <<position, autoinc, cursor>>
      /\ UNCHANGED <<parents, outbox, server, window, faults>>

(* Slip: busy is never cleared. *)
FinishBusy(e) ==
  /\ pc[e] = "upload"
  /\ pc' = [pc EXCEPT ![e] = "busy"]
  /\ UNCHANGED <<device, server, round, sent, page, window, faults>>

(* uploadPending returned or threw: its tables are no part of this module. *)
Finish(e) ==
  /\ pc[e] = "upload"
  /\ Idle(e)
  /\ UNCHANGED <<device, server, window, faults>>

(* The 401 drops the token, also one that a new login has set since. *)
Denied(e) ==
  /\ pc[e] = "denied"
  /\ Idle(e)
  /\ connected' = connected \ {e}
  /\ UNCHANGED <<device, server, paused, seen, seeding, faults>>

-----------------------------------------------------------------------------
(* What goes wrong, at most MaxInterruptions times *)

Interrupt ==
  /\ interruptions < MaxInterruptions
  /\ interruptions' = interruptions + 1

(* A push that was on its way may be dropped, or still reach the server.   *)
Abandon(e) ==
  \/ UNCHANGED stray
  \/ /\ pc[e] = "pushing"
     /\ stray' = stray \cup {[store |-> StoreOf[e], ops |-> sent[e]]}

(* A request or its response is lost, the client's timeout fires first, or *)
(* the local database fails.                                               *)
Fail(e) ==
  /\ Interrupt
  /\ pc[e] # "idle"
  /\ Abandon(e)
  /\ Idle(e)
  /\ UNCHANGED <<device, server, window>>

(* The server answers 401 or 403: the engine drops its token. *)
Refused(e) ==
  /\ Interrupt
  /\ pc[e] \in {"pushing", "pulling", "upload"}
  /\ Idle(e)
  /\ connected' = connected \ {e}
  /\ UNCHANGED <<device, server, paused, seen, seeding, stray>>

(* The process or the tab ends; the database stays, the token does not. *)
Crash(e) ==
  /\ Interrupt
  /\ Abandon(e)
  /\ Idle(e)
  /\ connected' = connected \ {e}
  /\ paused' = paused \ {e}
  /\ seen' = [seen EXCEPT ![e] = 0]
  /\ seeding' = seeding \ {e}
  /\ UNCHANGED <<device, server>>

(* Neither logging out nor pausing interrupts a synchronization: it goes   *)
(* on, to its next request or to its end.                                  *)
Logout(e) ==
  /\ Interrupt
  /\ e \in connected
  /\ connected' = connected \ {e}
  /\ UNCHANGED <<device, server, task, paused, seen, seeding, stray>>

Pause(e) ==
  /\ Interrupt
  /\ e \notin paused
  /\ paused' = paused \cup {e}
  /\ UNCHANGED <<device, server, task, connected, seen, seeding, stray>>

(* A push nobody waits for any more reaches the server. *)
ServerStray(m) ==
  /\ m \in stray
  /\ stray' = stray \ {m}
  /\ IF Valid(m.ops, m.store) THEN Append(m.ops, m.store) ELSE UNCHANGED server
  /\ UNCHANGED <<device, task, window, interruptions>>

-----------------------------------------------------------------------------
UserStep(e) ==
  \/ \E S \in SUBSET Fresh : Create(e, S)
  \/ \E o \in Fresh : Edit(e, o)
  \/ Refresh(e)
  \/ CheckEmpty(e)
  \/ SaveDemo(e)
  \/ \E s \in Devices : \E n \in 1 .. autoinc[s] : Restore(e, s, n)
  \/ Login(e)
  \/ Resume(e)

SyncStep(e) ==
  \/ Start(e) \/ SendPush(e) \/ EndPush(e) \/ ServerPush(e) \/ Acknowledge(e)
  \/ SendPull(e) \/ ServerPull(e) \/ ApplyPage(e) \/ Finish(e) \/ Denied(e)

FaultStep(e) == Fail(e) \/ Refused(e) \/ Crash(e) \/ Logout(e) \/ Pause(e)

Next ==
  \/ \E e \in Engines : UserStep(e) \/ SyncStep(e) \/ FaultStep(e)
  \/ \E m \in stray : ServerStray(m)

Spec == Init /\ [][Next]_vars

(* The timer starts a synchronization again and again, and one that runs   *)
(* is answered or times out.  Nothing obliges the user to log in.          *)
Fairness == \A e \in Engines : WF_vars(SyncStep(e))

FairSpec == Spec /\ Fairness
-----------------------------------------------------------------------------
(* Properties *)

Places == {"idle", "push", "pushing", "pushed",
           "pull", "pulling", "page", "upload", "denied"}

(* Every variable has its type: tables over the operations, engines in one *)
(* of the states of synchronize() (sync_engine.dart:50).                   *)
TypeOK ==
  /\ parents \in [Ops -> SUBSET Ops]
  /\ position \in [Devices -> [Ops -> Nat]]
  /\ autoinc \in [Devices -> Nat]
  /\ outbox \in [Devices -> SUBSET Ops]
  /\ cursor \in [Devices -> Nat]
  /\ sequence \in [Ops -> Nat]
  /\ head \in Nat
  /\ pc \in [Engines -> Places]
  /\ round \in [Engines -> Nat]
  /\ sent \in [Engines -> SUBSET Ops]
  /\ page \in [Engines -> [after : Nat, end : Nat, more : BOOLEAN]]
  /\ connected \subseteq Engines
  /\ paused \subseteq Engines
  /\ seen \in [Engines -> Nat]
  /\ seeding \subseteq Engines
  /\ stray \subseteq [store : Devices, ops : SUBSET Ops]
  /\ interruptions \in Nat

(* Nothing leaves the outbox before the server has it: an operation of a   *)
(* device that is not queued is in the log, whatever was lost, retried,    *)
(* edited during a push or restored from a bundle (local_store.dart:90).   *)
AckedIsStored == \A d \in Devices : Local(d) \ outbox[d] \subseteq Stored

(* The cursor never runs past what the device holds: every entry up to it  *)
(* was applied, by whichever window (local_store.dart:110).                *)
NothingSkipped ==
  \A d \in Devices :
    /\ cursor[d] <= head
    /\ {o \in Stored : sequence[o] <= cursor[d]} \subseteq Local(d)

(* Every table lists an operation after its parents, all in its field, so  *)
(* a reader of any prefix knows what each version replaced (merge.go:40).  *)
Ordered(S, key) ==
  \A o \in S : \A p \in parents[o] : SameSlot(p, o) /\ p \in S /\ key[p] < key[o]

CausalOrder ==
  /\ \A d \in Devices : Ordered(Local(d), position[d])
  /\ Ordered(Stored, sequence)

(* The server assigns 1, 2, ... head, each once (memory.go:103).           *)
GapFree ==
  /\ {sequence[o] : o \in Stored} = 1 .. head
  /\ \A x, y \in Stored : sequence[x] = sequence[y] => x = y

(* The server accepts every batch a device sends, early or late, however   *)
(* the outbox was cut into batches: nothing a correct client writes blocks *)
(* its queue (sync_engine.dart:59, merge.go:40).                           *)
PushIsValid ==
  /\ \A e \in Engines : pc[e] = "pushing" => Valid(sent[e], StoreOf[e])
  /\ \A m \in stray : Valid(m.ops, m.store)

(* A page is refused only when another window has moved the cursor past    *)
(* its start: one that continues the cursor has every parent in the table  *)
(* or in itself (local_store.dart:122).                                    *)
PageIsApplicable ==
  \A e \in Engines : pc[e] = "page" =>
    /\ page[e].after <= cursor[StoreOf[e]]
    /\ page[e].after = cursor[StoreOf[e]] => Applicable(StoreOf[e], page[e])

(* A device that has sent its queue and read the log to its end holds the  *)
(* log's operations, and so shows the same frontiers as any other such     *)
(* device (docs/architecture.md, deterministic projection).                *)
Agreement ==
  \A d \in Devices : outbox[d] = {} /\ cursor[d] = head => Local(d) = Stored

(* No version disappears: of every set of versions that are not shown, one *)
(* is replaced by a version outside the set.  So each operation is shown   *)
(* or was replaced, in one or more steps, by one that is shown             *)
(* (operation.dart:72).                                                    *)
EveryVersionIsRepresented ==
  \A d \in Devices :
    LET shown == {x \in Local(d) : x \in Frontier(Local(d), x)}
    IN  \A S \in SUBSET (Local(d) \ shown) : S # {} =>
          \E x \in S, y \in Local(d) \ S : x \in parents[y]

(* The cursor of a device only grows, with two windows applying pages and  *)
(* a restore resetting it (local_store.dart:122, recovery.dart:111).       *)
CursorGrows == [][\A d \in Devices : cursor[d] <= cursor'[d]]_vars

(* An operation once written keeps its parents, its row on every device    *)
(* and its number in the log (local_store.dart:59, memory.go:98).          *)
LogIsImmutable ==
  [][/\ \A o \in Written : parents'[o] = parents[o]
     /\ \A d \in Devices : \A o \in Local(d) : position'[d][o] = position[d][o]
     /\ \A o \in Stored : sequence'[o] = sequence[o]]_vars

(* What is written reaches every device, provided that its window is       *)
(* eventually connected and not paused: queues drain and all replicas      *)
(* become the log (README, replay of queued changes).                      *)
Converged == \A d \in Devices : outbox[d] = {} /\ Local(d) = Stored
Convergence ==
  (\A e \in Engines : <>[](e \in connected \ paused)) => <>[]Converged
=============================================================================
