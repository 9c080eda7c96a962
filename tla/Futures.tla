------------------------------- MODULE Futures -------------------------------
(***************************************************************************)
(* The futures and the microtask loop that the asynchronous code of the    *)
(* worker runs on (dart:async in web/sqflite_sw.js).                       *)
(*                                                                         *)
(* A future is named by the order in which it is made.  What is registered *)
(* on one, a listener, is the future of its result.  An outcome is a value *)
(* or an error, known by the future it comes from.                         *)
(*                                                                         *)
(* Completing a future calls its listeners at once, each before the next   *)
(* and before the result of the first is settled further down: the stack   *)
(* holds the calls that remain, the innermost first.  What the callbacks   *)
(* do is left open, as is what the code does that host events run.         *)
(***************************************************************************)
EXTENDS Naturals, Sequences, FiniteSets

CONSTANTS
  MaxPlain,     \* bound on futures that are no listener's result
  MaxListened,  \* bound on futures after which none is listened to alone
  MaxFutures,   \* bound on futures made
  None          \* no outcome

Ids == 1..MaxFutures

ASSUME BoundsAssumption ==
  MaxPlain \in Nat /\ MaxFutures \in Nat /\ MaxListened \in 0..MaxFutures

VARIABLES
  made,        \* futures made so far
  status,      \* status[f]: see Statuses (its bits a)
  content,     \* content[f]: where its outcome is from, or the future it follows (c)
  listeners,   \* listeners[f]: the last registered first (the list in c)
  form,        \* form[l]: what the listener hears, "none" for a plain future
  gathers,     \* gathers[l]: the future that waits for several, of which l is one
  source,      \* source[l]: the future that l was registered on
  heard,       \* heard[l]: the outcome that l was called with
  tasks,       \* microtasks
  urgent,      \* how many of the first are reports of errors
  loop,        \* of the microtasks
  stack        \* calls that remain to be made or to return

futureVars == <<made, status, content, listeners, form, gathers, source, heard>>
loopVars   == <<tasks, urgent, loop>>
vars       == <<futureVars, loopVars, stack>>

Completed == {"value", "error"}
Statuses  == {"incomplete", "pending", "chained"} \cup Completed
Forms     == {"value", "both", "always"}

ASSUME NoneAssumption == None \notin [how : Completed, by : Ids]

FuturesInit ==
  /\ made = 0
  /\ status = [f \in Ids |-> "incomplete"]
  /\ content = [f \in Ids |-> 0]
  /\ listeners = [f \in Ids |-> <<>>]
  /\ form = [f \in Ids |-> "none"]
  /\ gathers = [f \in Ids |-> 0]
  /\ source = [f \in Ids |-> 0]
  /\ heard = [f \in Ids |-> None]
  /\ tasks = <<>> /\ urgent = 0 /\ loop = "idle"
  /\ stack = <<>>

(* The future at the end of the chain that f follows. *)
Root(f) ==
  LET root[g \in Ids] == IF status[g] = "chained" THEN root[content[g]] ELSE g
  IN  root[f]

Outcome(f) ==
  LET r == Root(f)
  IN  IF status[r] \in Completed THEN [how |-> status[r], by |-> content[r]] ELSE None

-----------------------------------------------------------------------------
(* Microtasks *)

Task(kind, f, arg) == [kind |-> kind, of |-> f, arg |-> arg]

(* A turn of the loop is asked for with the first task, unless one runs. *)
Enqueue(new) ==
  /\ tasks' = tasks \o new
  /\ loop' = IF tasks = <<>> /\ new # <<>> /\ loop = "idle" THEN "scheduled" ELSE loop
  /\ UNCHANGED urgent

(* An error that nobody listens to is thrown by a task of its own, before  *)
(* all but such tasks.  q and u: the tasks and how many are urgent.        *)
Report(q, u) ==
  /\ tasks' = SubSeq(q, 1, u) \o <<Task("report", 1, 0)>> \o SubSeq(q, u + 1, Len(q))
  /\ urgent' = IF q = <<>> THEN 1 ELSE u + 1
  /\ loop' = IF loop = "idle" THEN "scheduled" ELSE loop

-----------------------------------------------------------------------------
(* Completion.  rest: the stack under it. *)

Call(l) == [at |-> "call", of |-> l]

(* Slip: the listeners are called from the front of the list. *)
CallsInListOrder(ls) == [i \in 1..Len(ls) |-> Call(ls[i])]

CallsOf(ls) == [i \in 1..Len(ls) |-> Call(ls[Len(ls) + 1 - i])]

Settled(f, o, rest, q, u) ==
  /\ status' = [status EXCEPT ![f] = o.how]
  /\ content' = [content EXCEPT ![f] = o.by]
  /\ listeners' = [listeners EXCEPT ![f] = <<>>]
  /\ stack' = CallsOf(listeners[f]) \o rest
  /\ IF o.how = "error" /\ listeners[f] = <<>>
     THEN Report(q, u)
     ELSE tasks' = q /\ urgent' = u /\ UNCHANGED loop

(* What is moved to the future that is followed comes after what is there. *)
Chained(b, n, rest) ==
  /\ status' = [status EXCEPT ![b] = "chained"]
  /\ content' = [content EXCEPT ![b] = n]
  /\ listeners' = [listeners EXCEPT ![n] = listeners[b] \o @, ![b] = <<>>]
  /\ stack' = rest

(* A future is left open until a task. *)
Later(b, task, rest, q) ==
  /\ status' = [status EXCEPT ![b] = "pending"]
  /\ tasks' = Append(q, task)
  /\ loop' = IF loop = "idle" THEN "scheduled" ELSE loop
  /\ stack' = rest
  /\ UNCHANGED <<content, listeners>>

(* Future b takes the outcome of a. *)
Follow(b, a, rest, q, u) ==
  LET n == Root(a)
  IN  \/ /\ n = b
         /\ Later(b, Task("error", b, b), rest, q) /\ urgent' = u
      \/ /\ n # b /\ status[n] \notin Completed
         /\ Chained(b, n, rest)
         /\ tasks' = q /\ urgent' = u /\ UNCHANGED loop
      \/ /\ n # b /\ status[n] \in Completed
         /\ Settled(b, Outcome(n), rest, q, u)

-----------------------------------------------------------------------------
(* What running code may do: an event of the host, or a callback. *)

Running ==
  IF stack = <<>> THEN loop # "running"
  ELSE stack[1].at = "in" /\ gathers[stack[1].of] = 0

New ==
  /\ Running /\ made < MaxListened
  /\ Cardinality({f \in 1..made : form[f] = "none"}) < MaxPlain
  /\ made' = made + 1
  /\ UNCHANGED <<status, content, listeners, form, gathers, source, heard, loopVars, stack>>

(* A listener is put in front of the list; a future that has its outcome   *)
(* calls it in a task.                                                     *)
Listening(ls, l, f) ==
  LET r == Root(f)
  IN  IF status[r] \in Completed THEN ls ELSE [ls EXCEPT ![r] = <<l>> \o @]

LateCall(l, f) ==
  IF status[Root(f)] \in Completed THEN <<Task("call", l, 0)>> ELSE <<>>

Then(f, how) ==
  LET l == made + 1
  IN  /\ Running /\ made < MaxListened
      /\ made' = l
      /\ form' = [form EXCEPT ![l] = how]
      /\ source' = [source EXCEPT ![l] = f]
      /\ listeners' = Listening(listeners, l, f)
      /\ Enqueue(LateCall(l, f))
      /\ UNCHANGED <<status, content, gathers, heard, stack>>

(* One future for the outcomes of two. *)
WaitAll(f, g) ==
  LET w == made + 1
      k == w + 1
      l == w + 2
  IN  /\ Running /\ made + 3 <= MaxFutures
      /\ made' = l
      /\ form' = [form EXCEPT ![k] = "both", ![l] = "both"]
      /\ gathers' = [gathers EXCEPT ![k] = w, ![l] = w]
      /\ source' = [source EXCEPT ![k] = f, ![l] = g]
      /\ listeners' = Listening(Listening(listeners, k, f), l, g)
      /\ Enqueue(LateCall(k, f) \o LateCall(l, g))
      /\ UNCHANGED <<status, content, heard, stack>>

(* A completer may be used once. *)
Completable(f) ==
  /\ Running /\ f <= made /\ status[f] = "incomplete"
  /\ form[f] = "none" /\ \A l \in Ids : gathers[l] # f

Complete(f, how) ==
  /\ Completable(f)
  /\ Settled(f, [how |-> how, by |-> f], stack, tasks, urgent)
  /\ UNCHANGED <<made, form, gathers, source, heard>>

CompleteLater(f, how) ==
  /\ Completable(f)
  /\ Later(f, Task(how, f, f), stack, tasks)
  /\ UNCHANGED <<made, form, gathers, source, heard, urgent>>

CompleteWith(f, g) ==
  /\ Completable(f)
  /\ Follow(f, g, stack, tasks, urgent)
  /\ UNCHANGED <<made, form, gathers, source, heard>>

(* An outcome that is there already is taken at once only when nobody      *)
(* would be told.                                                          *)
CompleteWithLater(f, g) ==
  LET n == Root(g)
  IN  /\ Completable(f)
      /\ IF status[n] \in Completed /\ (listeners[f] # <<>> \/ status[n] = "error")
         THEN Later(f, Task("follow", f, n), stack, tasks) /\ UNCHANGED urgent
         ELSE Follow(f, g, stack, tasks, urgent)
      /\ UNCHANGED <<made, form, gathers, source, heard>>

UserStep ==
  \/ New
  \/ \E f \in 1..made :
       \/ \E how \in Forms : Then(f, how)
       \/ \E how \in Completed : Complete(f, how) \/ CompleteLater(f, how)
       \/ \E g \in 1..made : CompleteWith(f, g) \/ CompleteWithLater(f, g) \/ WaitAll(f, g)

-----------------------------------------------------------------------------
(* The calls *)

Top(at) == stack # <<>> /\ stack[1].at = at

Enter(l) == stack' = <<[at |-> "in", of |-> l]>> \o Tail(stack)

(* A listener for values passes an error on without a call. *)
PassOn ==
  LET l == stack[1].of
      o == Outcome(source[l])
  IN  /\ Top("call") /\ form[l] = "value" /\ o.how = "error"
      /\ heard' = [heard EXCEPT ![l] = o]
      /\ Settled(l, o, Tail(stack), tasks, urgent)
      /\ UNCHANGED <<made, form, gathers, source>>

Callback ==
  LET l == stack[1].of
      o == Outcome(source[l])
  IN  /\ Top("call") /\ ~(form[l] = "value" /\ o.how = "error") /\ gathers[l] = 0
      /\ heard' = [heard EXCEPT ![l] = o]
      /\ Enter(l)
      /\ UNCHANGED <<made, status, content, listeners, form, gathers, source, loopVars>>

(* The last of those that are waited for completes the one that waits,     *)
(* with an error if there was one.                                         *)
Gather ==
  LET l    == stack[1].of
      w    == gathers[l]
      ours == {k \in Ids : gathers[k] = w}
      all  == [k \in ours |-> IF k = l THEN Outcome(source[l]) ELSE heard[k]]
      how  == IF \E k \in ours : all[k].how = "error" THEN "error" ELSE "value"
      back == <<[at |-> "in", of |-> l]>> \o Tail(stack)
  IN  /\ Top("call") /\ w # 0
      /\ heard' = [heard EXCEPT ![l] = Outcome(source[l])]
      /\ IF \A k \in ours : all[k] # None
         THEN Settled(w, [how |-> how, by |-> w], back, tasks, urgent)
         ELSE stack' = back /\ UNCHANGED <<status, content, listeners, loopVars>>
      /\ UNCHANGED <<made, form, gathers, source>>

(* A callback returns or throws; one that is always called, and returns,   *)
(* leaves the outcome as it was.                                           *)
Return(how) ==
  LET l == stack[1].of
      o == IF form[l] = "always" /\ how = "value" THEN heard[l] ELSE [how |-> how, by |-> l]
  IN  /\ Top("in") /\ (gathers[l] # 0 => how = "value")
      /\ Settled(l, o, Tail(stack), tasks, urgent)
      /\ UNCHANGED <<made, form, gathers, source, heard>>

ReturnFuture(g) ==
  LET l == stack[1].of
  IN  /\ Top("in") /\ gathers[l] = 0 /\ form[l] # "always"
      /\ Follow(l, g, Tail(stack), tasks, urgent)
      /\ UNCHANGED <<made, form, gathers, source, heard>>

CallStep ==
  \/ PassOn \/ Callback \/ Gather
  \/ \E how \in Completed : Return(how)
  \/ \E g \in 1..made : ReturnFuture(g)

-----------------------------------------------------------------------------
(* The loop *)

StartLoop ==
  /\ stack = <<>> /\ loop = "scheduled"
  /\ loop' = "running"
  /\ UNCHANGED <<futureVars, tasks, urgent, stack>>

EndLoop ==
  /\ stack = <<>> /\ loop = "running" /\ tasks = <<>>
  /\ loop' = "idle" /\ urgent' = 0
  /\ UNCHANGED <<futureVars, tasks, stack>>

Due(kinds) == stack = <<>> /\ loop = "running" /\ tasks # <<>> /\ tasks[1].kind \in kinds

RunCall ==
  /\ Due({"call"})
  /\ stack' = <<Call(tasks[1].of)>>
  /\ tasks' = Tail(tasks) /\ urgent' = 0
  /\ UNCHANGED <<futureVars, loop>>

RunComplete ==
  LET t == tasks[1]
  IN  /\ Due(Completed)
      /\ Settled(t.of, [how |-> t.kind, by |-> t.arg], <<>>, Tail(tasks), 0)
      /\ UNCHANGED <<made, form, gathers, source, heard>>

RunFollow ==
  /\ Due({"follow"})
  /\ Follow(tasks[1].of, tasks[1].arg, <<>>, Tail(tasks), 0)
  /\ UNCHANGED <<made, form, gathers, source, heard>>

(* Slip: what is left of the tasks is not scheduled again. *)
ThrowAndStop ==
  /\ Due({"report"})
  /\ tasks' = Tail(tasks) /\ urgent' = 0
  /\ loop' = "idle"
  /\ UNCHANGED <<futureVars, stack>>

(* A report leaves the loop; another turn does the rest. *)
Throw ==
  /\ Due({"report"})
  /\ tasks' = Tail(tasks) /\ urgent' = 0
  /\ loop' = IF Len(tasks) > 1 THEN "scheduled" ELSE "idle"
  /\ UNCHANGED <<futureVars, stack>>

LoopStep == StartLoop \/ EndLoop \/ RunCall \/ RunComplete \/ RunFollow \/ Throw

Next == UserStep \/ CallStep \/ LoopStep

(* Host events and timers are served, and callbacks return. *)
Fairness == WF_vars(CallStep \/ LoopStep)

Spec == FuturesInit /\ [][Next]_vars /\ Fairness

-----------------------------------------------------------------------------
P == INSTANCE Promises WITH outcome <- [f \in Ids |-> Outcome(f)]

(* The futures keep what Promises says: they are settled once, and what is *)
(* registered hears its own future's outcome once, in order, before its    *)
(* result is settled, through chains, tasks, nested calls and errors.      *)
Implements == P!PromisesSpec

(* Whatever was registered on a future that has its outcome is called, an  *)
(* error that nobody listens to and that leaves the loop notwithstanding.  *)
EveryListenerIsCalled ==
  \A l \in Ids : (source[l] # 0 /\ Outcome(source[l]) # None) ~> heard[l] # None
=============================================================================
