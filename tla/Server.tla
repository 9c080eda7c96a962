------------------------------- MODULE Server -------------------------------
(***************************************************************************)
(* The server of one workspace: HTTP requests that are identified, carried *)
(* out against the store and announced to the others, all concurrently     *)
(* (api/server.go, api/attachments.go), the store with its audit log       *)
(* (store/memory.go) and the sockets that carry hints (api/events.go).     *)
(*                                                                         *)
(* Every method of the store runs under its mutex: one step.  A handler    *)
(* calls several, and a revocation may come between any two.  What a batch *)
(* must satisfy is Valid in Sync: here a push carries one operation.       *)
(***************************************************************************)
EXTENDS Naturals

CONSTANTS
  Devices,    \* device identifiers
  Users,      \* names in the user file
  RoleOf,     \* their roles
  Ops,        \* operation identifiers
  Files,      \* attachment identifiers
  Contents,   \* what an operation or an attachment can say
  Handlers,   \* requests being served
  Sockets,    \* connections to /events
  Nobody      \* no user, device or content

ASSUME RoleAssumption == RoleOf \in [Users -> {"viewer", "editor", "admin"}]
ASSUME NobodyAssumption == Nobody \notin Users \cup Devices \cup Contents

VARIABLES
  owner,      \* owner[d]: who registered d, Nobody before
  revoked,    \* revoked devices
  entry,      \* entry[o]: o's place in the log
  head,       \* length of the log
  file,       \* file[f]: a stored attachment
  audit,      \* audit[v]: the place of event v in the audit log
  events,     \* length of the audit log
  at,         \* at[h]: where handler h is
  request,    \* request[h]: what it serves
  socket,     \* socket[s]: where the loop of socket s is
  session,    \* session[s]: the user and device of its hello
  expired,    \* sockets whose token has expired
  listeners,  \* sockets with a channel in the hub
  signal,     \* those whose channel is full
  told        \* told[s]: audit log as of the last hint sent to s

devices  == <<owner, revoked>>
contents == <<entry, head, file>>
auditing == <<audit, events>>
serving  == <<at, request>>
hub      == <<listeners, signal>>
looping  == <<socket, session, expired, told>>
vars == <<devices, contents, auditing, serving, hub, looping>>

-----------------------------------------------------------------------------
NoEntry == [sequence |-> 0, device |-> Nobody, actor |-> Nobody, content |-> Nobody]
NoFile  == [device |-> Nobody, actor |-> Nobody, content |-> Nobody]
NoEvent == [sequence |-> 0, actor |-> Nobody]
NoRequest == [kind |-> "none"]
NoSession == [user |-> Nobody, device |-> Nobody]

Pushes  == [kind : {"push"}, user : Users, device : Devices, target : Ops, content : Contents]
Uploads == [kind : {"upload"}, user : Users, device : Devices, target : Files, content : Contents]
Revocations == [kind : {"revoke"}, user : Users, device : Devices, target : Devices]
Requests == Pushes \cup Uploads \cup Revocations

Events == ({"registered", "revoked"} \X Devices) \cup ({"accepted"} \X Ops)
            \cup ({"stored"} \X Files)

Registered == {d \in Devices : owner[d] # Nobody}
Stored     == {o \in Ops : entry[o] # NoEntry}
Kept       == {f \in Files : file[f] # NoFile}
Logged     == {v \in Events : audit[v] # NoEvent}

Init ==
  /\ owner = [d \in Devices |-> Nobody]
  /\ revoked = {}
  /\ entry = [o \in Ops |-> NoEntry]
  /\ head = 0
  /\ file = [f \in Files |-> NoFile]
  /\ audit = [v \in Events |-> NoEvent]
  /\ events = 0
  /\ at = [h \in Handlers |-> "idle"]
  /\ request = [h \in Handlers |-> NoRequest]
  /\ socket = [s \in Sockets |-> "closed"]
  /\ session = [s \in Sockets |-> NoSession]
  /\ expired = {}
  /\ listeners = {}
  /\ signal = {}
  /\ told = [s \in Sockets |-> 0]

(* One more line of the audit log. *)
Log(actor, action, target) ==
  /\ audit' = [audit EXCEPT ![<<action, target>>] =
                 [sequence |-> events + 1, actor |-> actor]]
  /\ events' = events + 1

(* d is registered to u and not revoked: what identity() asks.             *)
Trusted(u, d) == owner[d] = u /\ d \notin revoked

MayEdit(u) == RoleOf[u] \in {"editor", "admin"}

(* Slip: an editor may revoke any device. *)
EditorMayRevoke(u, d) == MayEdit(u) \/ owner[d] = u

MayRevoke(u, d) == RoleOf[u] = "admin" \/ owner[d] = u

(* Slip: the store trusts that identity() has looked. *)
OnlyOwned(r) == owner[r.device] = r.user

(* What Push and PutAttachment ask again, under the mutex. *)
StillTrusted(r) == Trusted(r.user, r.device)

-----------------------------------------------------------------------------
(* Requests.  One that identity() turns away changes nothing. *)

(* Slip: a later registration takes the device over. *)
RegisterAgain(u, d) ==
  /\ owner[d] # u /\ d \notin revoked
  /\ owner' = [owner EXCEPT ![d] = u]
  /\ Log(u, "registered", d)
  /\ UNCHANGED <<revoked, contents, serving, hub, looping>>

(* Registration is one call of the store.  Again, by its owner, it changes *)
(* nothing; anyone else, or a revoked device, is refused.                  *)
Register(u, d) ==
  /\ owner[d] = Nobody
  /\ owner' = [owner EXCEPT ![d] = u]
  /\ Log(u, "registered", d)
  /\ UNCHANGED <<revoked, contents, serving, hub, looping>>

Arrive(h, r) ==
  /\ at[h] = "idle"
  /\ Trusted(r.user, r.device)
  /\ r.kind \in {"push", "upload"} => MayEdit(r.user)
  /\ at' = [at EXCEPT ![h] = "identified"]
  /\ request' = [request EXCEPT ![h] = r]
  /\ UNCHANGED <<devices, contents, auditing, hub, looping>>

(* Slip: the error is written and the handler goes on. *)
RefuseAndStay(h) ==
  /\ at[h] \in {"identified", "permitted"}
  /\ at' = [at EXCEPT ![h] = "refused"]
  /\ UNCHANGED <<devices, contents, auditing, request, hub, looping>>

(* The handler answers with an error: the body, the batch or an identifier *)
(* is invalid, the caller may not do it, or the store fails.               *)
Refuse(h) ==
  /\ at[h] \in {"identified", "permitted"}
  /\ at' = [at EXCEPT ![h] = "idle"]
  /\ request' = [request EXCEPT ![h] = NoRequest]
  /\ UNCHANGED <<devices, contents, auditing, hub, looping>>

Carry(h) ==
  /\ at' = [at EXCEPT ![h] = "carried out"]
  /\ UNCHANGED <<request, hub, looping>>

(* An operation the log has is accepted again if it says the same. *)
Push(h) ==
  LET r == request[h]
  IN  /\ at[h] = "identified" /\ r.kind = "push"
      /\ StillTrusted(r)
      /\ \/ /\ r.target \notin Stored
            /\ entry' = [entry EXCEPT ![r.target] =
                 [sequence |-> head + 1, device |-> r.device,
                  actor |-> r.user, content |-> r.content]]
            /\ head' = head + 1
            /\ Log(r.user, "accepted", r.target)
         \/ /\ r.target \in Stored
            /\ entry[r.target].content = r.content
            /\ UNCHANGED <<entry, head, auditing>>
      /\ Carry(h)
      /\ UNCHANGED <<devices, file>>

(* The same for an attachment.  It does not keep its device: device is     *)
(* there for the properties.                                               *)
Upload(h) ==
  LET r == request[h]
  IN  /\ at[h] = "identified" /\ r.kind = "upload"
      /\ StillTrusted(r)
      /\ \/ /\ r.target \notin Kept
            /\ file' = [file EXCEPT ![r.target] =
                 [device |-> r.device, actor |-> r.user, content |-> r.content]]
            /\ Log(r.user, "stored", r.target)
         \/ /\ r.target \in Kept
            /\ file[r.target].content = r.content
            /\ UNCHANGED <<file, auditing>>
      /\ Carry(h)
      /\ UNCHANGED <<devices, entry, head>>

(* revoke() reads the device to see whether the caller may revoke it ...   *)
Permit(h) ==
  LET r == request[h]
  IN  /\ at[h] = "identified" /\ r.kind = "revoke"
      /\ r.target \in Registered
      /\ MayRevoke(r.user, r.target)
      /\ at' = [at EXCEPT ![h] = "permitted"]
      /\ UNCHANGED <<devices, contents, auditing, request, hub, looping>>

(* Slip: it logs the revocation of a device that is revoked already. *)
RevokeAgain(h) ==
  LET r == request[h]
  IN  /\ at[h] = "permitted"
      /\ revoked' = revoked \cup {r.target}
      /\ Log(r.user, "revoked", r.target)
      /\ Carry(h)
      /\ UNCHANGED <<owner, contents>>

(* ... and revokes it, unless somebody already has. *)
Revoke(h) ==
  LET r == request[h]
  IN  /\ at[h] = "permitted"
      /\ revoked' = revoked \cup {r.target}
      /\ IF r.target \in revoked THEN UNCHANGED auditing
                                 ELSE Log(r.user, "revoked", r.target)
      /\ Carry(h)
      /\ UNCHANGED <<owner, contents>>

(* Slip: channels without a buffer, which only a waiting loop receives.    *)
NotifyWaiting(h) ==
  /\ at[h] = "carried out"
  /\ signal' = signal \cup {s \in listeners : socket[s] = "waiting"}
  /\ at' = [at EXCEPT ![h] = "idle"]
  /\ request' = [request EXCEPT ![h] = NoRequest]
  /\ UNCHANGED <<devices, contents, auditing, listeners, looping>>

(* The handler announces what it did: every channel that is empty is       *)
(* filled.                                                                 *)
Notify(h) ==
  /\ at[h] = "carried out"
  /\ signal' = listeners
  /\ at' = [at EXCEPT ![h] = "idle"]
  /\ request' = [request EXCEPT ![h] = NoRequest]
  /\ UNCHANGED <<devices, contents, auditing, listeners, looping>>

-----------------------------------------------------------------------------
(* Sockets *)

(* valid(): the device as the store has it now, and the token's lifetime.  *)
Entitled(s) == Trusted(session[s].user, session[s].device) /\ s \notin expired

(* The hello of a client whose token and device are good. *)
Hello(s, u, d) ==
  /\ socket[s] = "closed"
  /\ Trusted(u, d)
  /\ socket' = [socket EXCEPT ![s] = "admitted"]
  /\ session' = [session EXCEPT ![s] = [user |-> u, device |-> d]]
  /\ UNCHANGED <<devices, contents, auditing, serving, hub, expired, told>>

(* A hint starts on its way: whatever follows it may come too late for the *)
(* pull that it causes.                                                    *)
Hint(s) ==
  /\ socket' = [socket EXCEPT ![s] = "sending"]
  /\ told' = [told EXCEPT ![s] = events]

(* The socket gets its channel and, whatever happened since the hello, a   *)
(* first hint.                                                             *)
Subscribe(s) ==
  /\ socket[s] = "admitted"
  /\ listeners' = listeners \cup {s}
  /\ Hint(s)
  /\ UNCHANGED <<devices, contents, auditing, serving, signal, session, expired>>

Sent(s) ==
  /\ socket[s] = "sending"
  /\ socket' = [socket EXCEPT ![s] = "waiting"]
  /\ UNCHANGED <<devices, contents, auditing, serving, hub, session, expired, told>>

(* The loop wakes up for a signal, or for its ticker. *)
Receive(s) ==
  /\ socket[s] = "waiting" /\ s \in signal
  /\ signal' = signal \ {s}
  /\ socket' = [socket EXCEPT ![s] = "awake"]
  /\ UNCHANGED <<devices, contents, auditing, serving, listeners, session, expired, told>>

(* Slip: the ticker sends its hint unasked. *)
TickUnchecked(s) ==
  /\ socket[s] = "waiting"
  /\ Hint(s)
  /\ UNCHANGED <<devices, contents, auditing, serving, hub, session, expired>>

Tick(s) ==
  /\ socket[s] = "waiting"
  /\ socket' = [socket EXCEPT ![s] = "awake"]
  /\ UNCHANGED <<devices, contents, auditing, serving, hub, session, expired, told>>

(* The handler returns: its channel is removed from the hub. *)
Close(s) ==
  /\ socket' = [socket EXCEPT ![s] = "closed"]
  /\ session' = [session EXCEPT ![s] = NoSession]
  /\ told' = [told EXCEPT ![s] = 0]
  /\ expired' = expired \ {s}
  /\ listeners' = listeners \ {s}
  /\ signal' = signal \ {s}
  /\ UNCHANGED <<devices, contents, auditing, serving>>

(* Awake, it asks the store again before it sends another hint. *)
Renew(s) ==
  /\ socket[s] = "awake" /\ Entitled(s)
  /\ Hint(s)
  /\ UNCHANGED <<devices, contents, auditing, serving, hub, session, expired>>

Expel(s) == socket[s] = "awake" /\ ~Entitled(s) /\ Close(s)

(* The client goes away, or a hint cannot be written in time. *)
Drop(s) == socket[s] # "closed" /\ Close(s)

(* An hour after the login. *)
Expire(s) ==
  /\ socket[s] # "closed" /\ s \notin expired
  /\ expired' = expired \cup {s}
  /\ UNCHANGED <<devices, contents, auditing, serving, hub, socket, session, told>>

-----------------------------------------------------------------------------
HandlerStep(h) ==
  \/ \E r \in Requests : Arrive(h, r)
  \/ Refuse(h) \/ Push(h) \/ Upload(h) \/ Permit(h) \/ Revoke(h) \/ Notify(h)

LoopStep(s) == Subscribe(s) \/ Sent(s) \/ Receive(s) \/ Tick(s) \/ Renew(s) \/ Expel(s)

Next ==
  \/ \E u \in Users, d \in Devices : Register(u, d)
  \/ \E h \in Handlers : HandlerStep(h)
  \/ \E s \in Sockets : LoopStep(s) \/ Drop(s) \/ Expire(s)
  \/ \E s \in Sockets, u \in Users, d \in Devices : Hello(s, u, d)

Spec == Init /\ [][Next]_vars

(* The ticker fires again and again and a write takes five seconds at      *)
(* most: the loop of a socket never stands still.                          *)
Fairness == \A s \in Sockets : WF_vars(LoopStep(s))

FairSpec == Spec /\ Fairness

-----------------------------------------------------------------------------
(* Properties *)

(* Every variable has its type: tables of the store, and handlers and      *)
(* loops at one of their stages (server.go:180, events.go:46).             *)
TypeOK ==
  /\ owner \in [Devices -> Users \cup {Nobody}]
  /\ revoked \subseteq Devices
  /\ entry \in [Ops -> [sequence : Nat, device : Devices \cup {Nobody},
                        actor : Users \cup {Nobody}, content : Contents \cup {Nobody}]]
  /\ head \in Nat
  /\ file \in [Files -> [device : Devices \cup {Nobody},
                         actor : Users \cup {Nobody}, content : Contents \cup {Nobody}]]
  /\ audit \in [Events -> [sequence : Nat, actor : Users \cup {Nobody}]]
  /\ events \in Nat
  /\ at \in [Handlers -> {"idle", "identified", "permitted", "carried out"}]
  /\ request \in [Handlers -> Requests \cup {NoRequest}]
  /\ socket \in [Sockets -> {"closed", "admitted", "sending", "waiting", "awake"}]
  /\ session \in [Sockets -> [user : Users \cup {Nobody}, device : Devices \cup {Nobody}]]
  /\ expired \subseteq Sockets
  /\ listeners \subseteq Sockets
  /\ signal \subseteq Sockets
  /\ told \in [Sockets -> Nat]

When(action, target) == audit[<<action, target>>].sequence

(* The audit log tells what happened, all of it and nothing else: it has   *)
(* no gaps, one line for each device, operation, attachment and            *)
(* revocation, with the right actor, and the operations in the order of    *)
(* the log (memory.go:31).                                                 *)
AuditIsFaithful ==
  /\ {audit[v].sequence : v \in Logged} = 1 .. events
  /\ \A v, w \in Logged : audit[v].sequence = audit[w].sequence => v = w
  /\ Logged = ({"registered"} \X Registered) \cup ({"revoked"} \X revoked)
                \cup ({"accepted"} \X Stored) \cup ({"stored"} \X Kept)
  /\ \A d \in Registered : audit[<<"registered", d>>].actor = owner[d]
  /\ \A o \in Stored : audit[<<"accepted", o>>].actor = entry[o].actor
  /\ \A f \in Kept : audit[<<"stored", f>>].actor = file[f].actor
  /\ \A x, y \in Stored : entry[x].sequence < entry[y].sequence =>
       When("accepted", x) < When("accepted", y)

(* What the store took from a device it took after the registration of the *)
(* device, from its owner, and before its revocation, also from requests   *)
(* that were identified earlier (memory.go:88, memory.go:136).             *)
During(d, u, n) ==
  /\ owner[d] = u
  /\ When("registered", d) < n
  /\ d \in revoked => n < When("revoked", d)

AcceptedWhileTrusted ==
  /\ \A o \in Stored : During(entry[o].device, entry[o].actor, When("accepted", o))
  /\ \A f \in Kept : During(file[f].device, file[f].actor, When("stored", f))

(* Only editors and admins write, and only admins revoke devices that are  *)
(* not their own (server.go:87, server.go:169).                            *)
Authorized ==
  /\ \A o \in Stored : RoleOf[entry[o].actor] # "viewer"
  /\ \A f \in Kept : RoleOf[file[f].actor] # "viewer"
  /\ \A d \in revoked : LET u == audit[<<"revoked", d>>].actor
                        IN  RoleOf[u] = "admin" \/ owner[d] = u

(* No hint is lost: when something was accepted, stored or revoked after   *)
(* the last hint of a socket set out, the socket's channel is full, or a   *)
(* handler has yet to fill it.  The hub has the channels of the sockets    *)
(* whose loops run, and no others (events.go:22, events.go:86).            *)
News(s) == \E v \in Logged : v[1] # "registered" /\ told[s] < audit[v].sequence

HintsArrive ==
  /\ listeners = {s \in Sockets : socket[s] \in {"sending", "waiting", "awake"}}
  /\ \A s \in Sockets : socket[s] \in {"sending", "waiting"} /\ News(s) =>
       s \in signal \/ \E h \in Handlers : at[h] = "carried out"

(* What the store has it keeps: owners, revocations, entries, attachments  *)
(* and lines of the audit log never change (memory.go:38, memory.go:139).  *)
HistoryIsImmutable ==
  [][/\ \A d \in Registered : owner'[d] = owner[d]
     /\ revoked \subseteq revoked'
     /\ \A o \in Stored : entry'[o] = entry[o]
     /\ \A f \in Kept : file'[f] = file[f]
     /\ \A v \in Logged : audit'[v] = audit[v]]_vars

(* A device that was revoked, or whose token expired, loses its socket,    *)
(* even when the revocation was announced before the socket had subscribed *)
(* (events.go:103).                                                        *)
Disconnected ==
  \A s \in Sockets : socket[s] # "closed" /\ ~Entitled(s) ~> socket[s] = "closed"
=============================================================================
