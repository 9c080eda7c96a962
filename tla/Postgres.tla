------------------------------ MODULE Postgres ------------------------------
(***************************************************************************)
(* The PostgreSQL adapter (store/postgres.go, store/postgres_attachments.go):*)
(* every writing method is a transaction of many statements.  Isolation is *)
(* READ COMMITTED: a statement sees what is committed when it starts, and  *)
(* what its own transaction wrote.  Pull is two statements outside any     *)
(* transaction.                                                            *)
(***************************************************************************)
EXTENDS Store

CONSTANTS
  Calls,      \* calls of writing methods
  Pulls,      \* calls of Pull
  PageLimit,  \* rows of a page
  None        \* no call, no request

ASSUME NoneAssumption == None \notin Calls \cup Requests
ASSUME PageLimitAssumption == PageLimit \in Nat

VARIABLES
  created,    \* the row of table workspaces is committed
  counter,    \* its columns sequence and audit_sequence
  lock,       \* the call that holds the lock of that row
  at,         \* at[c]: where call c is
  request,    \* request[c]: what it is to do
  done,       \* done[c]: how many of the rows it wants are there and logged
  mine,       \* mine[c]: rows it has inserted and not committed
  answer,     \* answer[c]: the cursor it returns
  pull        \* pull[p]: a call of Pull

workspace   == <<created, counter>>
transaction == <<at, request, done, mine, answer>>
vars == <<db, workspace, lock, transaction, pull>>

NoPull == [at |-> "idle", after |-> 0, latest |-> 0, page |-> {},
           cursor |-> 0, more |-> FALSE]

Init ==
  /\ StoreInit
  /\ created = FALSE
  /\ counter = [operations |-> 0, audit |-> 0]
  /\ lock = None
  /\ at = [c \in Calls |-> "idle"]
  /\ request = [c \in Calls |-> None]
  /\ done = [c \in Calls |-> 0]
  /\ mine = [c \in Calls |-> {}]
  /\ answer = [c \in Calls |-> 0]
  /\ pull = [p \in Pulls |-> NoPull]

(* What a statement of c sees. *)
View(c) == db \cup mine[c]

Go(c, place) == at' = [at EXCEPT ![c] = place]

-----------------------------------------------------------------------------
(* write() *)

Begin(c, r) ==
  /\ at[c] = "idle"
  /\ Go(c, "begun")
  /\ request' = [request EXCEPT ![c] = r]
  /\ UNCHANGED <<db, workspace, lock, done, mine, answer, pull>>

(* INSERT ... ON CONFLICT DO NOTHING: it waits for a transaction that has  *)
(* inserted the same row, and then finds it, or inserts it after all.      *)
Create(c) ==
  /\ at[c] = "begun"
  /\ IF created THEN UNCHANGED lock ELSE lock = None /\ lock' = c
  /\ Go(c, "created")
  /\ UNCHANGED <<db, workspace, request, done, mine, answer, pull>>

(* Slip: SELECT without FOR UPDATE. *)
LockNothing(c) ==
  /\ at[c] = "created"
  /\ Go(c, "locked")
  /\ UNCHANGED <<db, workspace, lock, request, done, mine, answer, pull>>

(* SELECT ... FOR UPDATE *)
Lock(c) ==
  /\ at[c] = "created"
  /\ lock \in {None, c}
  /\ lock' = c
  /\ Go(c, "locked")
  /\ UNCHANGED <<db, workspace, request, done, mine, answer, pull>>

(* The device, as it is now. *)
Authorize(c) ==
  /\ at[c] = "locked"
  /\ Entitled(View(c), request[c])
  /\ Go(c, "authorized")
  /\ UNCHANGED <<db, workspace, lock, request, done, mine, answer, pull>>

(* What is stored under the identifiers of the request and their parents;  *)
(* the rest of the table does not matter to ValidateBatch.                 *)
Plan(c) ==
  /\ at[c] = "authorized"
  /\ Consistent(View(c), request[c])
  /\ Go(c, "writing")
  /\ UNCHANGED <<db, workspace, lock, request, done, mine, answer, pull>>

(* Numbers come from the columns of the workspace, which the transaction   *)
(* itself has incremented for every row it inserted.  Whoever increments   *)
(* them, or refers to the workspace, needs the row.                        *)
NextNumber(c, table) ==
  IF table \in {"operations", "audit"}
  THEN counter[table] + Cardinality(Table(mine[c], table)) + 1 ELSE 0

Insert(c, row) ==
  /\ lock \in {None, c} /\ lock' = c
  /\ \A x \in Table(View(c), row.table) :
       x.key # row.key /\ (row.number # 0 => x.number # row.number)
  /\ mine' = [mine EXCEPT ![c] = @ \cup {row}]

(* The next row the call wants, unless it is there already. *)
Write(c) ==
  /\ at[c] = "writing" /\ done[c] < Len(Wanted(request[c]))
  /\ LET w == Wanted(request[c])[done[c] + 1]
     IN  \/ /\ w[2] \notin Keys(View(c), w[1])
            /\ Insert(c, Row(w[1], w[2], NextNumber(c, w[1]), By(w[1], request[c])))
            /\ Go(c, "logging")
            /\ UNCHANGED done
         \/ /\ w[2] \in Keys(View(c), w[1])
            /\ done' = [done EXCEPT ![c] = @ + 1]
            /\ UNCHANGED <<lock, at, mine>>
  /\ UNCHANGED <<db, workspace, request, answer, pull>>

LogAudit(c) ==
  /\ at[c] = "logging"
  /\ LET w == Wanted(request[c])[done[c] + 1]
     IN  Insert(c, Row("audit", w, NextNumber(c, "audit"), By("audit", request[c])))
  /\ done' = [done EXCEPT ![c] = @ + 1]
  /\ Go(c, "writing")
  /\ UNCHANGED <<db, workspace, request, answer, pull>>

Release(c) == lock' = IF lock = c THEN None ELSE lock

(* Slip: the next call goes on counting. *)
LeaveCounting(c) ==
  /\ Go(c, "idle")
  /\ request' = [request EXCEPT ![c] = None]
  /\ mine' = [mine EXCEPT ![c] = {}]
  /\ answer' = [answer EXCEPT ![c] = 0]
  /\ UNCHANGED done

(* The call is over: nothing of it is left. *)
Leave(c) ==
  /\ Go(c, "idle")
  /\ request' = [request EXCEPT ![c] = None]
  /\ done' = [done EXCEPT ![c] = 0]
  /\ mine' = [mine EXCEPT ![c] = {}]
  /\ answer' = [answer EXCEPT ![c] = 0]

Taken(c) == [t \in DOMAIN counter |-> counter[t] + Cardinality(Table(mine[c], t))]

Finished(c) == at[c] = "writing" /\ done[c] = Len(Wanted(request[c]))

Publish(c) ==
  /\ db' = db \cup mine[c]
  /\ counter' = Taken(c)
  /\ created' = TRUE

(* Slip: the error of the commit is not looked at. *)
CommitUnchecked(c) ==
  /\ Finished(c)
  /\ Publish(c) \/ UNCHANGED <<db, workspace>>
  /\ Release(c)
  /\ mine' = [mine EXCEPT ![c] = {}]
  /\ answer' = [answer EXCEPT ![c] = Taken(c).operations]
  /\ Go(c, "answered")
  /\ UNCHANGED <<request, done, pull>>

(* The last SELECT and the commit.  Both see what the lock protects.       *)
Commit(c) ==
  /\ Finished(c)
  /\ Publish(c)
  /\ Release(c)
  /\ mine' = [mine EXCEPT ![c] = {}]
  /\ answer' = [answer EXCEPT ![c] = Taken(c).operations]
  /\ Go(c, "answered")
  /\ UNCHANGED <<request, done, pull>>

(* The commit succeeds and the connection is lost before its reply. *)
CommitUnseen(c) ==
  /\ Finished(c)
  /\ Publish(c)
  /\ Release(c)
  /\ Leave(c)
  /\ UNCHANGED pull

Answer(c) ==
  /\ at[c] = "answered"
  /\ Leave(c)
  /\ UNCHANGED <<db, workspace, lock, pull>>

(* Slip: numbers that a rollback does not give back. *)
RollbackKeepingNumbers(c) ==
  /\ Release(c)
  /\ Leave(c)
  /\ counter' = Taken(c)
  /\ UNCHANGED <<db, created, pull>>

(* Slip: no deferred rollback. *)
RollbackNever(c) ==
  /\ Leave(c)
  /\ UNCHANGED <<db, workspace, lock, pull>>

Rollback(c) ==
  /\ Release(c)
  /\ Leave(c)
  /\ UNCHANGED <<db, workspace, pull>>

(* The check of the device, of the batch or of the attachment fails. *)
Refuse(c) ==
  /\ \/ at[c] = "locked" /\ ~Entitled(View(c), request[c])
     \/ at[c] = "authorized" /\ ~Consistent(View(c), request[c])
  /\ Rollback(c)

(* Any statement fails: the client has gone and its context is cancelled,  *)
(* the connection or the server is lost.                                   *)
Fail(c) ==
  /\ at[c] \notin {"idle", "answered"}
  /\ Rollback(c)

-----------------------------------------------------------------------------
(* Pull *)

(* The first statement: a cursor ahead of the log is refused. *)
Look(p, after) ==
  /\ pull[p].at = "idle"
  /\ created /\ after <= counter.operations
  /\ pull' = [pull EXCEPT ![p] = [NoPull EXCEPT !.at = "looking", !.after = after,
                                                !.latest = counter.operations]]
  /\ UNCHANGED <<db, workspace, lock, transaction>>

(* Nobody has written to the workspace yet, and nothing was read of it.    *)
FindNothing(p) ==
  /\ pull[p].at = "idle"
  /\ ~created
  /\ pull' = [pull EXCEPT ![p] = [NoPull EXCEPT !.at = "answered"]]
  /\ UNCHANGED <<db, workspace, lock, transaction>>

(* Slip: the cursor is what the first statement read. *)
ReadToLatest(p) ==
  LET rest == {r \in Table(db, "operations") : r.number > pull[p].after}
      page == {r \in rest : Cardinality({x \in rest : x.number < r.number}) < PageLimit}
  IN  /\ pull[p].at = "looking"
      /\ pull' = [pull EXCEPT ![p].at = "answered", ![p].page = page, ![p].cursor = pull[p].latest,
                                       ![p].more = page # rest]
      /\ UNCHANGED <<db, workspace, lock, transaction>>

(* The second: the next rows, in order.  The cursor is that of the last.   *)
Read(p) ==
  LET rest == {r \in Table(db, "operations") : r.number > pull[p].after}
      page == {r \in rest : Cardinality({x \in rest : x.number < r.number}) < PageLimit}
      last == {r \in page : \A x \in page : x.number <= r.number}
  IN  /\ pull[p].at = "looking"
      /\ \E n \in IF page = {} THEN {pull[p].after} ELSE {r.number : r \in last} :
           pull' = [pull EXCEPT ![p].at = "answered", ![p].page = page, ![p].cursor = n,
                                           ![p].more = page # rest]
      /\ UNCHANGED <<db, workspace, lock, transaction>>

Close(p) ==
  /\ pull[p].at # "idle"
  /\ pull' = [pull EXCEPT ![p] = NoPull]
  /\ UNCHANGED <<db, workspace, lock, transaction>>

-----------------------------------------------------------------------------
Statement(c) == Authorize(c) \/ Plan(c) \/ Write(c) \/ LogAudit(c) \/ Commit(c)
                  \/ Answer(c) \/ Refuse(c)

Next ==
  \/ \E c \in Calls : \/ \E r \in Requests : Begin(c, r)
                      \/ Create(c) \/ Lock(c) \/ Statement(c) \/ CommitUnseen(c) \/ Fail(c)
  \/ \E p \in Pulls : \/ \E after \in 0 .. counter.operations : Look(p, after)
                      \/ FindNothing(p) \/ Read(p) \/ Close(p)

Spec == Init /\ [][Next]_vars

(* A statement that need not wait ends; those that wait for the row get it *)
(* in turn.                                                                *)
Fairness == \A c \in Calls :
  WF_vars(Statement(c)) /\ SF_vars(Create(c)) /\ SF_vars(Lock(c))

FairSpec == Spec /\ Fairness
-----------------------------------------------------------------------------
(* Properties *)

Stages == {"idle", "begun", "created", "locked", "authorized", "writing", "logging", "answered"}

(* Every variable has its type: calls are at one of their statements, and  *)
(* have a request until they return (postgres.go:50).                      *)
TypeOK ==
  /\ IsFiniteSet(db)
  /\ created \in BOOLEAN
  /\ counter \in [{"operations", "audit"} -> Nat]
  /\ lock \in Calls \cup {None}
  /\ at \in [Calls -> Stages]
  /\ request \in [Calls -> Requests \cup {None}]
  /\ \A c \in Calls : at[c] # "idle" => request[c] \in Requests
  /\ done \in [Calls -> Nat]
  /\ \A c \in Calls : request[c] # None => done[c] <= Len(Wanted(request[c]))
  /\ DOMAIN mine = Calls /\ \A c \in Calls : IsFiniteSet(mine[c])
  /\ answer \in [Calls -> Nat]
  /\ pull \in [Pulls -> [at : {"idle", "looking", "answered"}, after : Nat, latest : Nat,
                         page : SUBSET db, cursor : Nat, more : BOOLEAN]]

(* The columns of the workspace say how many rows there are, and the rows  *)
(* are numbered without gaps, whatever is rolled back: a cursor never      *)
(* passes a row that is committed later (postgres.go:182, protocol.md).    *)
Numbers(S, table) == {r.number : r \in Table(S, table)}

GapFree ==
  \A t \in {"operations", "audit"} :
    /\ Numbers(db, t) = 1 .. counter[t]
    /\ Cardinality(Table(db, t)) = counter[t]

(* A page is the next piece of the log, although rows may be committed     *)
(* between the two statements that make it, and the last page reaches at   *)
(* least what the first statement saw (postgres.go:202).                   *)
PageIsContiguous ==
  \A p \in Pulls : pull[p].at = "answered" =>
    /\ pull[p].page \subseteq db
    /\ Numbers(pull[p].page, "operations") = pull[p].after + 1 .. pull[p].cursor
    /\ pull[p].cursor <= counter.operations
    /\ pull[p].more \/ pull[p].latest <= pull[p].cursor

(* What a call answers with success is committed, all of it, at or before  *)
(* the cursor in the answer (postgres.go:65, postgres.go:192).             *)
AnswerIsTrue ==
  \A c \in Calls : at[c] = "answered" =>
    LET w == Wanted(request[c])
    IN  \A n \in DOMAIN w : \E r \in Table(db, w[n][1]) :
          r.key = w[n][2] /\ r.number <= answer[c]

(* The transactions are the atomic methods of Store: whatever statements   *)
(* of others run in between, a call adds all its rows at once or none, and *)
(* what it checked of devices and parents still holds then                 *)
(* (postgres.go:50, architecture.md).                                      *)
Implements == StoreSpec

(* Nobody waits for the row for ever: every call returns (postgres.go:55). *)
EveryCallReturns == \A c \in Calls : at[c] # "idle" ~> at[c] = "idle"
=============================================================================
