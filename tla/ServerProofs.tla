---------------------------- MODULE ServerProofs ----------------------------
(* What TLC checks of Server on small instances holds for all values of its *)
(* constants: the invariants of Server, with what they need to be          *)
(* inductive, are kept by every step.                                      *)
EXTENDS Server, TLAPS

(* Devices are registered before they are revoked; places in the log lie   *)
(* within it; what is stored came from somebody.                           *)
WellFormed ==
  /\ revoked \subseteq Registered
  /\ \A o \in Stored : /\ entry[o].sequence \in 1 .. head
                       /\ entry[o].device \in Devices /\ entry[o].actor \in Users
  /\ \A f \in Kept : file[f].device \in Devices /\ file[f].actor \in Users

(* What holds of the store. *)
StoreInv == AuditIsFaithful /\ AcceptedWhileTrusted /\ Authorized /\ WellFormed

(* What a handler relies on: a role, which users keep, and what it has     *)
(* read of an owner, which devices keep.  Whether its device is revoked is *)
(* nothing to rely on.                                                     *)
Asked(h) ==
  /\ at[h] \in {"identified", "permitted"} => request[h] \in Requests
  /\ at[h] = "identified" /\ request[h].kind \in {"push", "upload"} =>
       RoleOf[request[h].user] # "viewer"
  /\ at[h] = "permitted" =>
       /\ request[h].kind = "revoke"
       /\ request[h].target \in Registered
       /\ RoleOf[request[h].user] = "admin" \/ owner[request[h].target] = request[h].user

RequestInv == \A h \in Handlers : Asked(h)

(* The inductive invariant. *)
IInv == TypeOK /\ StoreInv /\ RequestInv /\ HintsArrive

(* What no step takes back. *)
Immutable ==
  /\ \A d \in Registered : owner'[d] = owner[d]
  /\ revoked \subseteq revoked'
  /\ \A o \in Stored : entry'[o] = entry[o]
  /\ \A f \in Kept : file'[f] = file[f]
  /\ \A v \in Logged : audit'[v] = audit[v]

-----------------------------------------------------------------------------
(* The empty store, no requests and no sockets satisfy the invariant. *)
LEMMA InitIInv == Init => IInv
<1> SUFFICES ASSUME Init PROVE IInv
  OBVIOUS
<1> USE DEF Init
<1>1. TypeOK
  BY DEF TypeOK, NoEntry, NoFile, NoEvent, NoSession
<1>2. Registered = {} /\ Stored = {} /\ Kept = {} /\ Logged = {}
  BY DEF Registered, Stored, Kept, Logged
<1>3. StoreInv
  BY <1>2 DEF StoreInv, AuditIsFaithful, AcceptedWhileTrusted, Authorized, WellFormed
<1>4. RequestInv
  BY DEF RequestInv, Asked
<1>5. HintsArrive
  BY DEF HintsArrive
<1> QED
  BY <1>1, <1>3, <1>4, <1>5 DEF IInv

(* A new line of the audit log: it is the last one, the others stay. *)
LEMMA LogFacts ==
  ASSUME TypeOK, AuditIsFaithful, NEW u \in Users, NEW a, NEW t,
         <<a, t>> \in Events, <<a, t>> \notin Logged, Log(u, a, t)
  PROVE  /\ audit' \in [Events -> [sequence : Nat, actor : Users \cup {Nobody}]]
         /\ events' = events + 1 /\ events' \in Nat
         /\ Logged' = Logged \cup {<<a, t>>}
         /\ {audit'[v].sequence : v \in Logged'} = 1 .. events'
         /\ \A v, w \in Logged' : audit'[v].sequence = audit'[w].sequence => v = w
         /\ audit'[<<a, t>>].sequence = events + 1 /\ audit'[<<a, t>>].actor = u
         /\ \A v \in Events \ {<<a, t>>} : audit'[v] = audit[v]
<1> DEFINE new == <<a, t>>
           line == [sequence |-> events + 1, actor |-> u]
<1>1. /\ audit' = [audit EXCEPT ![new] = line] /\ events' = events + 1
      /\ events \in Nat
      /\ audit \in [Events -> [sequence : Nat, actor : Users \cup {Nobody}]]
      /\ new \in Events /\ new \notin Logged
  BY DEF Log, TypeOK
<1>2. line \in [sequence : Nat, actor : Users \cup {Nobody}] /\ line # NoEvent
      /\ line.sequence = events + 1 /\ line.actor = u
  BY <1>1 DEF NoEvent
<1> HIDE DEF new, line
<1>3. /\ audit' \in [Events -> [sequence : Nat, actor : Users \cup {Nobody}]]
      /\ audit'[new] = line
      /\ \A v \in Events \ {new} : audit'[v] = audit[v]
  BY <1>1, <1>2
<1>4. Logged' = Logged \cup {new}
  BY <1>1, <1>2, <1>3 DEF Logged
<1>5. /\ {audit[v].sequence : v \in Logged} = 1 .. events
      /\ \A v, w \in Logged : audit[v].sequence = audit[w].sequence => v = w
      /\ Logged \subseteq Events \ {new}
  BY <1>1 DEF AuditIsFaithful, Logged
<1>6. \A v \in Logged : audit'[v].sequence = audit[v].sequence /\ audit[v].sequence \in 1 .. events
  BY <1>3, <1>5
<1>7. {audit'[v].sequence : v \in Logged'} = 1 .. events'
  <2>1. \A v \in Logged' : audit'[v].sequence \in 1 .. events + 1
    BY <1>1, <1>2, <1>3, <1>4, <1>6
  <2>2. \A n \in 1 .. events : \E v \in Logged' : audit'[v].sequence = n
    BY <1>4, <1>5, <1>6
  <2>3. \A n \in 1 .. events + 1 : \E v \in Logged' : audit'[v].sequence = n
    BY <1>1, <1>2, <1>3, <1>4, <2>2
  <2> QED
    BY <1>1, <2>1, <2>3
<1>8. \A v, w \in Logged' : audit'[v].sequence = audit'[w].sequence => v = w
  BY <1>1, <1>2, <1>3, <1>4, <1>5, <1>6
<1> QED
  BY <1>1, <1>2, <1>3, <1>4, <1>7, <1>8 DEF new

(* Events of different kinds, or of different targets, are different. *)
LEMMA EventFacts ==
  /\ \A d \in Devices : /\ <<"registered", d>> \in Events /\ <<"revoked", d>> \in Events
  /\ \A o \in Ops : <<"accepted", o>> \in Events
  /\ \A f \in Files : <<"stored", f>> \in Events
  BY DEF Events

(* What the lines of the audit log say of those they are about. *)
LEMMA LineFacts ==
  ASSUME StoreInv
  PROVE  /\ \A d \in Registered : d \in Devices /\ audit[<<"registered", d>>].actor = owner[d]
         /\ \A o \in Stored : o \in Ops /\ audit[<<"accepted", o>>].actor = entry[o].actor
         /\ \A f \in Kept : f \in Files /\ audit[<<"stored", f>>].actor = file[f].actor
         /\ \A x, y \in Stored : entry[x].sequence < entry[y].sequence =>
              audit[<<"accepted", x>>].sequence < audit[<<"accepted", y>>].sequence
<1>1. AuditIsFaithful
  BY DEF StoreInv
<1> QED
  BY <1>1 DEF AuditIsFaithful, When, Registered, Stored, Kept

-----------------------------------------------------------------------------
(* Steps of the store *)

(* Steps that leave the store alone. *)
LEMMA StoreKept ==
  ASSUME StoreInv, UNCHANGED <<devices, contents, auditing>>
  PROVE  StoreInv' /\ Immutable
<1>1. /\ owner' = owner /\ revoked' = revoked /\ entry' = entry /\ head' = head
      /\ file' = file /\ audit' = audit /\ events' = events
  BY DEF devices, contents, auditing
<1>2. /\ Registered' = Registered /\ Stored' = Stored /\ Kept' = Kept /\ Logged' = Logged
  BY <1>1 DEF Registered, Stored, Kept, Logged
<1>3. StoreInv'
  BY <1>1, <1>2 DEF StoreInv, AuditIsFaithful, AcceptedWhileTrusted, Authorized, WellFormed,
                    During, When
<1>4. Immutable
  BY <1>1 DEF Immutable
<1> QED
  BY <1>3, <1>4

(* A registration keeps what holds of the store. *)
LEMMA RegisterStore ==
  ASSUME TypeOK, StoreInv, NEW u \in Users, NEW d \in Devices, Register(u, d)
  PROVE  StoreInv' /\ Immutable /\ events' \in Nat
         /\ audit' \in [Events -> [sequence : Nat, actor : Users \cup {Nobody}]]
         /\ Logged' = Logged \cup {<<"registered", d>>}
<1> DEFINE new == <<"registered", d>>
<1>1. /\ owner[d] = Nobody /\ owner' = [owner EXCEPT ![d] = u]
      /\ Log(u, "registered", d)
      /\ revoked' = revoked /\ entry' = entry /\ head' = head /\ file' = file
      /\ owner \in [Devices -> Users \cup {Nobody}] /\ u # Nobody
  BY NobodyAssumption DEF Register, contents, TypeOK
<1>2. Registered' = Registered \cup {d} /\ d \notin Registered
  BY <1>1 DEF Registered
<1>3. Stored' = Stored /\ Kept' = Kept
  BY <1>1 DEF Stored, Kept
<1>4. /\ new \in Events /\ new \notin Logged
  BY <1>2, EventFacts DEF StoreInv, AuditIsFaithful
<1>5. /\ audit' \in [Events -> [sequence : Nat, actor : Users \cup {Nobody}]]
      /\ events' = events + 1 /\ events' \in Nat
      /\ Logged' = Logged \cup {new}
      /\ {audit'[v].sequence : v \in Logged'} = 1 .. events'
      /\ \A v, w \in Logged' : audit'[v].sequence = audit'[w].sequence => v = w
      /\ audit'[new].sequence = events + 1 /\ audit'[new].actor = u
      /\ \A v \in Events \ {new} : audit'[v] = audit[v]
  BY <1>1, <1>4, LogFacts DEF StoreInv
<1>6. \A v \in Logged : audit'[v] = audit[v]
  BY <1>4, <1>5 DEF Logged
<1>7. /\ \A c \in Devices \ {d} : audit'[<<"registered", c>>] = audit[<<"registered", c>>]
      /\ \A c \in Devices : audit'[<<"revoked", c>>] = audit[<<"revoked", c>>]
      /\ \A o \in Ops : audit'[<<"accepted", o>>] = audit[<<"accepted", o>>]
      /\ \A f \in Files : audit'[<<"stored", f>>] = audit[<<"stored", f>>]
  BY <1>5, EventFacts
<1>8. \A c \in Registered : owner'[c] = owner[c] /\ c # d
  BY <1>1, <1>2 DEF Registered
<1>9. revoked \subseteq Registered /\ d \notin revoked
  BY <1>2 DEF StoreInv, WellFormed
<1>10. /\ \A o \in Stored : o \in Ops /\ entry[o].device \in Devices /\ owner[entry[o].device] = entry[o].actor
                            /\ entry[o].actor \in Users
       /\ \A f \in Kept : f \in Files /\ file[f].device \in Devices /\ owner[file[f].device] = file[f].actor
                          /\ file[f].actor \in Users
  BY DEF StoreInv, WellFormed, AcceptedWhileTrusted, During, Stored, Kept
<1>11. /\ \A o \in Stored : entry[o].device \in Registered /\ entry[o].device # d
       /\ \A f \in Kept : file[f].device \in Registered /\ file[f].device # d
  BY <1>2, <1>10, NobodyAssumption DEF Registered
<1>12. AuditIsFaithful'
  <2>0. /\ \A c \in Registered : audit'[<<"registered", c>>].actor = audit[<<"registered", c>>].actor
        /\ \A o \in Stored : audit'[<<"accepted", o>>] = audit[<<"accepted", o>>]
        /\ \A f \in Kept : audit'[<<"stored", f>>] = audit[<<"stored", f>>]
        /\ entry' = entry /\ file' = file /\ \A c \in Registered : owner'[c] = owner[c]
    <3>1. /\ \A c \in Registered : c \in Devices \ {d}
          /\ Stored \subseteq Ops /\ Kept \subseteq Files
      BY <1>8 DEF Registered, Stored, Kept
    <3> QED
      BY <1>1, <1>7, <1>8, <3>1
  <2>1. Logged' = ({"registered"} \X Registered') \cup ({"revoked"} \X revoked')
                    \cup ({"accepted"} \X Stored') \cup ({"stored"} \X Kept')
    BY <1>1, <1>2, <1>3, <1>5 DEF StoreInv, AuditIsFaithful
  <2>2. \A c \in Registered' : audit'[<<"registered", c>>].actor = owner'[c]
    <3>1. owner'[d] = u
      BY <1>1
    <3>2. \A c \in Registered : audit'[<<"registered", c>>].actor = owner'[c]
      BY <2>0, LineFacts
    <3> QED
      BY <1>2, <1>5, <3>1, <3>2
  <2>3. \A o \in Stored' : audit'[<<"accepted", o>>].actor = entry'[o].actor
    BY <1>3, <2>0, LineFacts
  <2>4. \A f \in Kept' : audit'[<<"stored", f>>].actor = file'[f].actor
    BY <1>3, <2>0, LineFacts
  <2>5. \A x, y \in Stored' : entry'[x].sequence < entry'[y].sequence =>
          audit'[<<"accepted", x>>].sequence < audit'[<<"accepted", y>>].sequence
    BY <1>3, <2>0, LineFacts
  <2> QED
    BY <1>5, <2>1, <2>2, <2>3, <2>4, <2>5 DEF AuditIsFaithful, When
<1>13. AcceptedWhileTrusted'
  BY <1>1, <1>3, <1>7, <1>8, <1>10, <1>11
  DEF StoreInv, AcceptedWhileTrusted, During, When
<1>14. Authorized'
  BY <1>1, <1>3, <1>7, <1>8, <1>9 DEF StoreInv, Authorized, Registered
<1>15. WellFormed'
  BY <1>1, <1>2, <1>3 DEF StoreInv, WellFormed
<1>16. Immutable
  BY <1>1, <1>6, <1>8 DEF Immutable
<1> QED
  BY <1>5, <1>12, <1>13, <1>14, <1>15, <1>16 DEF StoreInv

(* So does an operation that is accepted, ... *)
LEMMA AcceptStore ==
  ASSUME TypeOK, StoreInv, NEW u \in Users, NEW d \in Devices, NEW o \in Ops, NEW c \in Contents,
         o \notin Stored, Trusted(u, d), RoleOf[u] # "viewer",
         entry' = [entry EXCEPT ![o] = [sequence |-> head + 1, device |-> d,
                                        actor |-> u, content |-> c]],
         head' = head + 1, Log(u, "accepted", o), UNCHANGED <<devices, file>>
  PROVE  StoreInv' /\ Immutable /\ events' \in Nat /\ head' \in Nat
         /\ audit' \in [Events -> [sequence : Nat, actor : Users \cup {Nobody}]]
         /\ entry' \in [Ops -> [sequence : Nat, device : Devices \cup {Nobody},
                                actor : Users \cup {Nobody}, content : Contents \cup {Nobody}]]
<1> DEFINE new == <<"accepted", o>>
           row == [sequence |-> head + 1, device |-> d, actor |-> u, content |-> c]
<1>1. /\ owner' = owner /\ revoked' = revoked /\ file' = file
      /\ owner[d] = u /\ d \notin revoked /\ head \in Nat
      /\ d \in Registered
  BY NobodyAssumption DEF devices, Trusted, TypeOK, Registered
<1>2. /\ row.sequence = head + 1 /\ row.device = d /\ row.actor = u
      /\ row # NoEntry
      /\ row \in [sequence : Nat, device : Devices \cup {Nobody},
                  actor : Users \cup {Nobody}, content : Contents \cup {Nobody}]
  BY <1>1 DEF NoEntry
<1> HIDE DEF row
<1>3. /\ entry' \in [Ops -> [sequence : Nat, device : Devices \cup {Nobody},
                             actor : Users \cup {Nobody}, content : Contents \cup {Nobody}]]
      /\ entry'[o] = row
      /\ \A x \in Ops \ {o} : entry'[x] = entry[x]
  BY <1>2 DEF TypeOK, row
<1>4. Stored' = Stored \cup {o}
  BY <1>2, <1>3 DEF Stored
<1>5. Registered' = Registered /\ Kept' = Kept
  BY <1>1 DEF Registered, Kept
<1>6. new \in Events /\ new \notin Logged
  BY EventFacts DEF StoreInv, AuditIsFaithful
<1>7. /\ audit' \in [Events -> [sequence : Nat, actor : Users \cup {Nobody}]]
      /\ events' = events + 1 /\ events' \in Nat
      /\ Logged' = Logged \cup {new}
      /\ {audit'[v].sequence : v \in Logged'} = 1 .. events'
      /\ \A v, w \in Logged' : audit'[v].sequence = audit'[w].sequence => v = w
      /\ audit'[new].sequence = events + 1 /\ audit'[new].actor = u
      /\ \A v \in Events \ {new} : audit'[v] = audit[v]
  BY <1>6, LogFacts DEF StoreInv
<1>8. \A v \in Logged : audit'[v] = audit[v] /\ audit[v].sequence \in 1 .. events
  BY <1>6, <1>7 DEF Logged, StoreInv, AuditIsFaithful
<1>9. /\ \A x \in Devices : audit'[<<"registered", x>>] = audit[<<"registered", x>>]
      /\ \A x \in Devices : audit'[<<"revoked", x>>] = audit[<<"revoked", x>>]
      /\ \A x \in Ops \ {o} : audit'[<<"accepted", x>>] = audit[<<"accepted", x>>]
      /\ \A f \in Files : audit'[<<"stored", f>>] = audit[<<"stored", f>>]
  BY <1>7, EventFacts
<1>10. /\ \A x \in Stored : x \in Ops \ {o}
       /\ \A x \in Stored : entry[x].sequence \in 1 .. head /\ entry[x].device \in Devices
                            /\ entry[x].actor \in Users
       /\ \A f \in Kept : f \in Files /\ file[f].device \in Devices /\ file[f].actor \in Users
       /\ revoked \subseteq Registered /\ Registered \subseteq Devices
  BY DEF StoreInv, WellFormed, Stored, Kept, Registered
<1>11. /\ audit[<<"registered", d>>].sequence \in 1 .. events
       /\ \A x \in Stored : audit[<<"accepted", x>>].sequence \in 1 .. events
  <2>1. <<"registered", d>> \in Logged /\ \A x \in Stored : <<"accepted", x>> \in Logged
    BY <1>1 DEF StoreInv, AuditIsFaithful
  <2> QED
    BY <1>8, <2>1
<1>12. events \in Nat
  BY DEF TypeOK
<1>13. AuditIsFaithful'
  <2>1. Logged' = ({"registered"} \X Registered') \cup ({"revoked"} \X revoked')
                    \cup ({"accepted"} \X Stored') \cup ({"stored"} \X Kept')
    BY <1>1, <1>4, <1>5, <1>7 DEF StoreInv, AuditIsFaithful
  <2>2. \A x \in Registered' : audit'[<<"registered", x>>].actor = owner'[x]
    BY <1>1, <1>5, <1>9, <1>10, LineFacts
  <2>3. \A x \in Stored' : audit'[<<"accepted", x>>].actor = entry'[x].actor
    <3>1. entry'[o].actor = u /\ audit'[<<"accepted", o>>].actor = u
      BY <1>2, <1>3, <1>7
    <3>2. ASSUME NEW x \in Stored
          PROVE  audit'[<<"accepted", x>>].actor = entry'[x].actor
      <4>1. audit'[<<"accepted", x>>] = audit[<<"accepted", x>>] /\ entry'[x] = entry[x]
        BY <1>3, <1>9, <1>10
      <4>2. audit[<<"accepted", x>>].actor = entry[x].actor
        BY DEF StoreInv, AuditIsFaithful
      <4> QED
        BY <4>1, <4>2
    <3> QED
      BY <1>4, <3>1, <3>2
  <2>4. \A f \in Kept' : audit'[<<"stored", f>>].actor = file'[f].actor
    BY <1>1, <1>5, <1>9, <1>10, LineFacts
  <2>5. ASSUME NEW x \in Stored', NEW y \in Stored', entry'[x].sequence < entry'[y].sequence
        PROVE  audit'[<<"accepted", x>>].sequence < audit'[<<"accepted", y>>].sequence
    <3>1. CASE x \in Stored /\ y \in Stored
      BY <1>3, <1>9, <1>10, <2>5, <3>1, LineFacts
    <3>2. CASE x \in Stored /\ y = o
      BY <1>7, <1>9, <1>10, <1>11, <1>12, <3>2
    <3>3. CASE x = o
      <4>1. entry'[x].sequence = head + 1
        BY <1>2, <1>3, <3>3
      <4>2. CASE y = o
        BY <1>1, <2>5, <3>3, <4>2, <4>1
      <4>3. CASE y \in Stored
        BY <1>1, <1>3, <1>10, <2>5, <4>1, <4>3
      <4> QED
        BY <1>4, <4>2, <4>3
    <3> QED
      BY <1>4, <3>1, <3>2, <3>3
  <2> QED
    BY <1>7, <2>1, <2>2, <2>3, <2>4, <2>5 DEF AuditIsFaithful, When
<1>14. AcceptedWhileTrusted'
  <2>1. ASSUME NEW x \in Stored'
        PROVE  During(entry[x].device, entry[x].actor, When("accepted", x))'
    <3>1. CASE x \in Stored
      BY <1>1, <1>3, <1>9, <1>10, <3>1 DEF StoreInv, AcceptedWhileTrusted, During, When
    <3>2. CASE x = o
      BY <1>1, <1>2, <1>3, <1>7, <1>9, <1>11, <1>12, <3>2 DEF During, When
    <3> QED
      BY <1>4, <3>1, <3>2
  <2>2. (\A f \in Kept : During(file[f].device, file[f].actor, When("stored", f)))'
    <3>1. \A f \in Kept : During(file[f].device, file[f].actor, When("stored", f))
      BY DEF StoreInv, AcceptedWhileTrusted
    <3>2. ASSUME NEW f \in Kept
          PROVE  During(file[f].device, file[f].actor, When("stored", f))'
      <4>1. file'[f] = file[f] /\ When("stored", f)' = When("stored", f)
        BY <1>1, <1>9, <1>10 DEF When
      <4>2. /\ When("registered", file[f].device)' = When("registered", file[f].device)
            /\ When("revoked", file[f].device)' = When("revoked", file[f].device)
        BY <1>1, <1>9, <1>10 DEF When
      <4> QED
        BY <1>1, <3>1, <4>1, <4>2 DEF During
    <3> QED
      BY <1>5, <3>2
  <2> QED
    BY <2>1, <2>2 DEF AcceptedWhileTrusted
<1>15. Authorized'
  BY <1>1, <1>2, <1>3, <1>4, <1>5, <1>9, <1>10 DEF StoreInv, Authorized
<1>16. WellFormed'
  BY <1>1, <1>2, <1>3, <1>4, <1>5, <1>10 DEF WellFormed
<1>17. Immutable
  BY <1>1, <1>3, <1>8, <1>10 DEF Immutable
<1> QED
  BY <1>1, <1>3, <1>7, <1>13, <1>14, <1>15, <1>16, <1>17 DEF StoreInv

(* ... an attachment that is stored, ... *)
LEMMA KeepStore ==
  ASSUME TypeOK, StoreInv, NEW u \in Users, NEW d \in Devices, NEW f \in Files, NEW c \in Contents,
         f \notin Kept, Trusted(u, d), RoleOf[u] # "viewer",
         file' = [file EXCEPT ![f] = [device |-> d, actor |-> u, content |-> c]],
         Log(u, "stored", f), UNCHANGED <<devices, entry, head>>
  PROVE  StoreInv' /\ Immutable /\ events' \in Nat
         /\ audit' \in [Events -> [sequence : Nat, actor : Users \cup {Nobody}]]
         /\ file' \in [Files -> [device : Devices \cup {Nobody},
                                 actor : Users \cup {Nobody}, content : Contents \cup {Nobody}]]
<1> DEFINE new == <<"stored", f>>
           row == [device |-> d, actor |-> u, content |-> c]
<1>1. /\ owner' = owner /\ revoked' = revoked /\ entry' = entry /\ head' = head
      /\ owner[d] = u /\ d \notin revoked
      /\ d \in Registered
  BY NobodyAssumption DEF devices, Trusted, TypeOK, Registered
<1>2. /\ row.device = d /\ row.actor = u
      /\ row # NoFile
      /\ row \in [device : Devices \cup {Nobody},
                  actor : Users \cup {Nobody}, content : Contents \cup {Nobody}]
  BY NobodyAssumption DEF NoFile
<1> HIDE DEF row
<1>3. /\ file' \in [Files -> [device : Devices \cup {Nobody},
                              actor : Users \cup {Nobody}, content : Contents \cup {Nobody}]]
      /\ file'[f] = row
      /\ \A x \in Files \ {f} : file'[x] = file[x]
  BY <1>2 DEF TypeOK, row
<1>4. Kept' = Kept \cup {f}
  BY <1>2, <1>3 DEF Kept
<1>5. Registered' = Registered /\ Stored' = Stored
  BY <1>1 DEF Registered, Stored
<1>6. new \in Events /\ new \notin Logged
  BY EventFacts DEF StoreInv, AuditIsFaithful
<1>7. /\ audit' \in [Events -> [sequence : Nat, actor : Users \cup {Nobody}]]
      /\ events' = events + 1 /\ events' \in Nat
      /\ Logged' = Logged \cup {new}
      /\ {audit'[v].sequence : v \in Logged'} = 1 .. events'
      /\ \A v, w \in Logged' : audit'[v].sequence = audit'[w].sequence => v = w
      /\ audit'[new].sequence = events + 1 /\ audit'[new].actor = u
      /\ \A v \in Events \ {new} : audit'[v] = audit[v]
  BY <1>6, LogFacts DEF StoreInv
<1>8. \A v \in Logged : audit'[v] = audit[v] /\ audit[v].sequence \in 1 .. events
  BY <1>6, <1>7 DEF Logged, StoreInv, AuditIsFaithful
<1>9. /\ \A x \in Devices : audit'[<<"registered", x>>] = audit[<<"registered", x>>]
      /\ \A x \in Devices : audit'[<<"revoked", x>>] = audit[<<"revoked", x>>]
      /\ \A x \in Ops : audit'[<<"accepted", x>>] = audit[<<"accepted", x>>]
      /\ \A x \in Files \ {f} : audit'[<<"stored", x>>] = audit[<<"stored", x>>]
  BY <1>7, EventFacts
<1>10. /\ \A x \in Kept : /\ x \in Files \ {f} /\ file[x].device \in Devices
                          /\ file[x].actor \in Users
       /\ \A o \in Stored : o \in Ops /\ entry[o].device \in Devices /\ entry[o].actor \in Users
       /\ revoked \subseteq Registered /\ Registered \subseteq Devices
  BY DEF StoreInv, WellFormed, Stored, Kept, Registered
<1>11. audit[<<"registered", d>>].sequence \in 1 .. events
  <2>1. <<"registered", d>> \in Logged
    BY <1>1 DEF StoreInv, AuditIsFaithful
  <2> QED
    BY <1>8, <2>1
<1>12. events \in Nat
  BY DEF TypeOK
<1>13. AuditIsFaithful'
  <2>1. Logged' = ({"registered"} \X Registered') \cup ({"revoked"} \X revoked')
                    \cup ({"accepted"} \X Stored') \cup ({"stored"} \X Kept')
    BY <1>1, <1>4, <1>5, <1>7 DEF StoreInv, AuditIsFaithful
  <2>2. \A x \in Registered' : audit'[<<"registered", x>>].actor = owner'[x]
    BY <1>1, <1>5, <1>9, <1>10, LineFacts
  <2>3. \A x \in Stored' : audit'[<<"accepted", x>>].actor = entry'[x].actor
    BY <1>1, <1>5, <1>9, <1>10, LineFacts
  <2>4. \A x \in Kept' : audit'[<<"stored", x>>].actor = file'[x].actor
    <3>1. file'[f].actor = u /\ audit'[<<"stored", f>>].actor = u
      BY <1>2, <1>3, <1>7
    <3>2. ASSUME NEW x \in Kept
          PROVE  audit'[<<"stored", x>>].actor = file'[x].actor
      <4>1. audit'[<<"stored", x>>] = audit[<<"stored", x>>] /\ file'[x] = file[x]
        BY <1>3, <1>9, <1>10
      <4>2. audit[<<"stored", x>>].actor = file[x].actor
        BY DEF StoreInv, AuditIsFaithful
      <4> QED
        BY <4>1, <4>2
    <3> QED
      BY <1>4, <3>1, <3>2
  <2>5. \A x, y \in Stored' : entry'[x].sequence < entry'[y].sequence =>
          audit'[<<"accepted", x>>].sequence < audit'[<<"accepted", y>>].sequence
    <3>1. \A x, y \in Stored : entry[x].sequence < entry[y].sequence =>
            audit[<<"accepted", x>>].sequence < audit[<<"accepted", y>>].sequence
      BY DEF StoreInv, AuditIsFaithful, When
    <3>2. \A x \in Stored : audit'[<<"accepted", x>>] = audit[<<"accepted", x>>]
      BY <1>9, <1>10
    <3> QED
      BY <1>1, <1>5, <3>1, <3>2
  <2> QED
    BY <1>7, <2>1, <2>2, <2>3, <2>4, <2>5 DEF AuditIsFaithful, When
<1>14. AcceptedWhileTrusted'
  <2>1. ASSUME NEW x \in Kept'
        PROVE  During(file[x].device, file[x].actor, When("stored", x))'
    <3>1. CASE x \in Kept
      BY <1>1, <1>3, <1>9, <1>10, <3>1 DEF StoreInv, AcceptedWhileTrusted, During, When
    <3>2. CASE x = f
      BY <1>1, <1>2, <1>3, <1>7, <1>9, <1>11, <1>12, <3>2 DEF During, When
    <3> QED
      BY <1>4, <3>1, <3>2
  <2>2. ASSUME NEW o \in Stored
        PROVE  During(entry[o].device, entry[o].actor, When("accepted", o))'
    <3>1. During(entry[o].device, entry[o].actor, When("accepted", o))
      BY DEF StoreInv, AcceptedWhileTrusted
    <3>2. /\ When("accepted", o)' = When("accepted", o)
          /\ When("registered", entry[o].device)' = When("registered", entry[o].device)
          /\ When("revoked", entry[o].device)' = When("revoked", entry[o].device)
      BY <1>1, <1>9, <1>10 DEF When
    <3> QED
      BY <1>1, <3>1, <3>2 DEF During
  <2> QED
    BY <1>5, <2>1, <2>2 DEF AcceptedWhileTrusted
<1>15. Authorized'
  BY <1>1, <1>2, <1>3, <1>4, <1>5, <1>9, <1>10 DEF StoreInv, Authorized
<1>16. WellFormed'
  BY <1>1, <1>2, <1>3, <1>4, <1>5, <1>10 DEF StoreInv, WellFormed
<1>17. Immutable
  BY <1>1, <1>3, <1>8, <1>10 DEF Immutable
<1> QED
  BY <1>3, <1>7, <1>13, <1>14, <1>15, <1>16, <1>17 DEF StoreInv

(* ... and the first revocation of a device. *)
LEMMA RevokeStore ==
  ASSUME TypeOK, StoreInv, NEW u \in Users, NEW d \in Registered,
         d \notin revoked, RoleOf[u] = "admin" \/ owner[d] = u,
         revoked' = revoked \cup {d}, Log(u, "revoked", d), UNCHANGED <<owner, contents>>
  PROVE  StoreInv' /\ Immutable /\ events' \in Nat
         /\ audit' \in [Events -> [sequence : Nat, actor : Users \cup {Nobody}]]
<1> DEFINE new == <<"revoked", d>>
<1>1. /\ owner' = owner /\ entry' = entry /\ head' = head /\ file' = file
      /\ d \in Devices
  BY DEF contents, Registered
<1>2. Registered' = Registered /\ Stored' = Stored /\ Kept' = Kept
  BY <1>1 DEF Registered, Stored, Kept
<1>3. new \in Events /\ new \notin Logged
  BY <1>1, EventFacts DEF StoreInv, AuditIsFaithful
<1>4. /\ audit' \in [Events -> [sequence : Nat, actor : Users \cup {Nobody}]]
      /\ events' = events + 1 /\ events' \in Nat
      /\ Logged' = Logged \cup {new}
      /\ {audit'[v].sequence : v \in Logged'} = 1 .. events'
      /\ \A v, w \in Logged' : audit'[v].sequence = audit'[w].sequence => v = w
      /\ audit'[new].sequence = events + 1 /\ audit'[new].actor = u
      /\ \A v \in Events \ {new} : audit'[v] = audit[v]
  BY <1>3, LogFacts DEF StoreInv
<1>5. \A v \in Logged : audit'[v] = audit[v] /\ audit[v].sequence \in 1 .. events
  BY <1>3, <1>4 DEF Logged, StoreInv, AuditIsFaithful
<1>6. /\ \A x \in Devices : audit'[<<"registered", x>>] = audit[<<"registered", x>>]
      /\ \A x \in Devices \ {d} : audit'[<<"revoked", x>>] = audit[<<"revoked", x>>]
      /\ \A x \in Ops : audit'[<<"accepted", x>>] = audit[<<"accepted", x>>]
      /\ \A x \in Files : audit'[<<"stored", x>>] = audit[<<"stored", x>>]
  BY <1>4, EventFacts
<1>7. /\ \A f \in Kept : f \in Files /\ file[f].device \in Devices
      /\ \A o \in Stored : o \in Ops /\ entry[o].device \in Devices
      /\ revoked \subseteq Registered /\ Registered \subseteq Devices
  BY DEF StoreInv, WellFormed, Stored, Kept, Registered
<1>8. /\ \A f \in Kept : audit[<<"stored", f>>].sequence \in 1 .. events
      /\ \A o \in Stored : audit[<<"accepted", o>>].sequence \in 1 .. events
  <2>1. /\ \A f \in Kept : <<"stored", f>> \in Logged
        /\ \A o \in Stored : <<"accepted", o>> \in Logged
    BY DEF StoreInv, AuditIsFaithful
  <2> QED
    BY <1>5, <2>1
<1>9. events \in Nat
  BY DEF TypeOK
<1>10. AuditIsFaithful'
  <2>1. Logged' = ({"registered"} \X Registered') \cup ({"revoked"} \X revoked')
                    \cup ({"accepted"} \X Stored') \cup ({"stored"} \X Kept')
    BY <1>2, <1>4 DEF StoreInv, AuditIsFaithful
  <2>2. \A x \in Registered' : audit'[<<"registered", x>>].actor = owner'[x]
    BY <1>1, <1>2, <1>6, <1>7, LineFacts
  <2>3. \A x \in Stored' : audit'[<<"accepted", x>>].actor = entry'[x].actor
    BY <1>1, <1>2, <1>6, <1>7, LineFacts
  <2>4. \A x \in Kept' : audit'[<<"stored", x>>].actor = file'[x].actor
    BY <1>1, <1>2, <1>6, <1>7, LineFacts
  <2>5. \A x, y \in Stored' : entry'[x].sequence < entry'[y].sequence =>
          audit'[<<"accepted", x>>].sequence < audit'[<<"accepted", y>>].sequence
    BY <1>1, <1>2, <1>6, <1>7, LineFacts
  <2> QED
    BY <1>4, <2>1, <2>2, <2>3, <2>4, <2>5 DEF AuditIsFaithful, When
<1>11. ASSUME NEW c \in Devices, NEW a, NEW n \in 1 .. events, During(c, a, n)
       PROVE  /\ owner'[c] = a
              /\ audit'[<<"registered", c>>].sequence < n
              /\ c \in revoked' => n < audit'[<<"revoked", c>>].sequence
  <2>1. CASE c = d
    BY <1>1, <1>4, <1>6, <1>9, <1>11, <2>1 DEF During, When
  <2>2. CASE c # d
    BY <1>1, <1>6, <1>11, <2>2 DEF During, When
  <2> QED
    BY <2>1, <2>2
<1>12. AcceptedWhileTrusted'
  <2>1. ASSUME NEW o \in Stored
        PROVE  During(entry[o].device, entry[o].actor, When("accepted", o))'
    <3>1. During(entry[o].device, entry[o].actor, When("accepted", o))
      BY DEF StoreInv, AcceptedWhileTrusted
    <3>2. entry[o].device \in Devices /\ When("accepted", o) \in 1 .. events
          /\ When("accepted", o)' = When("accepted", o)
      BY <1>6, <1>7, <1>8 DEF When
    <3> QED
      BY <1>1, <1>11, <3>1, <3>2 DEF During, When
  <2>2. ASSUME NEW f \in Kept
        PROVE  During(file[f].device, file[f].actor, When("stored", f))'
    <3>1. During(file[f].device, file[f].actor, When("stored", f))
      BY DEF StoreInv, AcceptedWhileTrusted
    <3>2. file[f].device \in Devices /\ When("stored", f) \in 1 .. events
          /\ When("stored", f)' = When("stored", f)
      BY <1>6, <1>7, <1>8 DEF When
    <3> QED
      BY <1>1, <1>11, <3>1, <3>2 DEF During, When
  <2> QED
    BY <1>2, <2>1, <2>2 DEF AcceptedWhileTrusted
<1>13. Authorized'
  BY <1>1, <1>2, <1>4, <1>6, <1>7 DEF StoreInv, Authorized
<1>14. WellFormed'
  BY <1>1, <1>2 DEF StoreInv, WellFormed
<1>15. Immutable
  BY <1>1, <1>5 DEF Immutable
<1> QED
  BY <1>4, <1>10, <1>12, <1>13, <1>14, <1>15 DEF StoreInv

-----------------------------------------------------------------------------
(* Hints *)

(* A step that is not one of a socket: either a handler has yet to         *)
(* announce what was logged, or nothing was logged that needs it.          *)
LEMMA HintsKept ==
  ASSUME HintsArrive, UNCHANGED <<hub, looping>>,
         \/ \E h \in Handlers : at'[h] = "carried out"
         \/ /\ \A v \in Logged' : v[1] # "registered" => v \in Logged /\ audit'[v] = audit[v]
            /\ \A h \in Handlers : at[h] = "carried out" => at'[h] = "carried out"
  PROVE  HintsArrive'
<1>1. socket' = socket /\ told' = told /\ listeners' = listeners /\ signal' = signal
  BY DEF hub, looping
<1>2. CASE \E h \in Handlers : at'[h] = "carried out"
  BY <1>1, <1>2 DEF HintsArrive
<1>3. CASE /\ \A v \in Logged' : v[1] # "registered" => v \in Logged /\ audit'[v] = audit[v]
           /\ \A h \in Handlers : at[h] = "carried out" => at'[h] = "carried out"
  <2>1. \A s \in Sockets : News(s)' => News(s)
    BY <1>1, <1>3 DEF News
  <2>2. /\ listeners = {s \in Sockets : socket[s] \in {"sending", "waiting", "awake"}}
        /\ \A s \in Sockets : socket[s] \in {"sending", "waiting"} /\ News(s) =>
             s \in signal \/ \E h \in Handlers : at[h] = "carried out"
    BY DEF HintsArrive
  <2>3. listeners' = {s \in Sockets : socket'[s] \in {"sending", "waiting", "awake"}}
    BY <1>1, <2>2
  <2>4. \A s \in Sockets : socket'[s] \in {"sending", "waiting"} /\ News(s)' =>
             s \in signal' \/ \E h \in Handlers : at'[h] = "carried out"
    BY <1>1, <1>3, <2>1, <2>2
  <2> QED
    BY <2>3, <2>4 DEF HintsArrive
<1> QED
  BY <1>2, <1>3

(* A step of one socket: a hint that sets out covers all that was logged;  *)
(* otherwise what was to be announced still is.                            *)
LEMMA LoopHints ==
  ASSUME TypeOK, AuditIsFaithful, HintsArrive, NEW s \in Sockets,
         UNCHANGED <<auditing, serving>>, listeners' \subseteq Sockets,
         \A x \in Sockets \ {s} :
           /\ socket'[x] = socket[x] /\ told'[x] = told[x]
           /\ x \in listeners' <=> x \in listeners
           /\ x \in signal => x \in signal',
         s \in listeners' <=> socket'[s] \in {"sending", "waiting", "awake"},
         socket'[s] \in {"sending", "waiting"} =>
           \/ told'[s] = events
           \/ /\ socket[s] \in {"sending", "waiting"} /\ told'[s] = told[s]
              /\ s \in signal => s \in signal'
  PROVE  HintsArrive'
<1>1. audit' = audit /\ events' = events /\ at' = at /\ Logged' = Logged
  BY DEF auditing, serving, Logged
<1>2. /\ listeners = {x \in Sockets : socket[x] \in {"sending", "waiting", "awake"}}
      /\ \A x \in Sockets : socket[x] \in {"sending", "waiting"} /\ News(x) =>
           x \in signal \/ \E h \in Handlers : at[h] = "carried out"
  BY DEF HintsArrive
<1>3. listeners' = {x \in Sockets : socket'[x] \in {"sending", "waiting", "awake"}}
  <2>1. \A x \in Sockets \ {s} :
          x \in listeners' <=> socket'[x] \in {"sending", "waiting", "awake"}
    BY <1>2
  <2> QED
    BY <2>1
<1>4. ASSUME NEW x \in Sockets, told'[x] = told[x], News(x)'
      PROVE  News(x)
  BY <1>1, <1>4 DEF News
<1>5. told'[s] = events => ~News(s)'
  <2>1. \A v \in Logged : audit[v].sequence \in 1 .. events
    BY DEF AuditIsFaithful
  <2>2. events \in Nat
    BY DEF TypeOK
  <2> QED
    BY <1>1, <2>1, <2>2 DEF News
<1>6. ASSUME NEW x \in Sockets, socket'[x] \in {"sending", "waiting"}, News(x)'
      PROVE  x \in signal' \/ \E h \in Handlers : at'[h] = "carried out"
  <2>1. CASE x = s
    BY <1>1, <1>2, <1>4, <1>5, <1>6, <2>1
  <2>2. CASE x # s
    BY <1>1, <1>2, <1>4, <1>6, <2>2
  <2> QED
    BY <2>1, <2>2
<1> QED
  BY <1>3, <1>6 DEF HintsArrive

(* What handlers rely on stays while others work. *)
LEMMA RequestsKept ==
  ASSUME RequestInv, Immutable, owner' \in [Devices -> Users \cup {Nobody}],
         \A x \in Handlers : (at'[x] = at[x] /\ request'[x] = request[x]) \/ Asked(x)'
  PROVE  RequestInv'
<1>1. Registered \subseteq Registered' /\ \A d \in Registered : owner'[d] = owner[d]
  BY DEF Immutable, Registered
<1>2. \A x \in Handlers : Asked(x)'
  BY <1>1 DEF RequestInv, Asked
<1> QED
  BY <1>2 DEF RequestInv

-----------------------------------------------------------------------------
(* Steps *)

(* A registration keeps the invariant. *)
LEMMA RegisterStep ==
  ASSUME IInv, NEW u \in Users, NEW d \in Devices, Register(u, d)
  PROVE  IInv' /\ Immutable
<1>1. /\ StoreInv' /\ Immutable /\ events' \in Nat
      /\ audit' \in [Events -> [sequence : Nat, actor : Users \cup {Nobody}]]
      /\ Logged' = Logged \cup {<<"registered", d>>}
  BY RegisterStore DEF IInv
<1>2. /\ owner' = [owner EXCEPT ![d] = u]
      /\ UNCHANGED <<revoked, contents, serving, hub, looping>>
  BY DEF Register
<1>3. TypeOK'
  BY <1>1, <1>2 DEF IInv, TypeOK, contents, serving, hub, looping
<1>4. RequestInv'
  <2>1. \A x \in Handlers : at'[x] = at[x] /\ request'[x] = request[x]
    BY <1>2 DEF serving
  <2> QED
    BY <1>1, <1>3, <2>1, RequestsKept DEF IInv, TypeOK
<1>5. HintsArrive'
  <2>1. \A v \in Logged' : v[1] # "registered" => v \in Logged /\ audit'[v] = audit[v]
    BY <1>1 DEF Immutable
  <2>2. \A h \in Handlers : at'[h] = at[h]
    BY <1>2 DEF serving
  <2> QED
    BY <1>2, <2>1, <2>2, HintsKept DEF IInv
<1> QED
  BY <1>1, <1>3, <1>4, <1>5 DEF IInv

(* A handler takes up a request, gives it up, or is permitted to revoke. *)
LEMMA QuietHandler ==
  ASSUME IInv, NEW h \in Handlers, UNCHANGED <<devices, contents, auditing, hub, looping>>,
         at[h] # "carried out",
         at' \in [Handlers -> {"idle", "identified", "permitted", "carried out"}],
         request' \in [Handlers -> Requests \cup {NoRequest}],
         \A x \in Handlers \ {h} : at'[x] = at[x] /\ request'[x] = request[x],
         Asked(h)'
  PROVE  IInv' /\ Immutable
<1>1. StoreInv' /\ Immutable
  BY StoreKept DEF IInv
<1>2. TypeOK'
  BY DEF IInv, TypeOK, devices, contents, auditing, hub, looping
<1>3. RequestInv'
  BY <1>1, <1>2, RequestsKept DEF IInv, TypeOK
<1>4. HintsArrive'
  <2>1. \A v \in Logged' : v \in Logged /\ audit'[v] = audit[v]
    BY DEF auditing, Logged
  <2> QED
    BY <2>1, HintsKept DEF IInv
<1> QED
  BY <1>1, <1>2, <1>3, <1>4 DEF IInv

(* A handler has carried out its request, which the store's part shows. *)
LEMMA CarryStep ==
  ASSUME IInv, NEW h \in Handlers, at[h] \in {"identified", "permitted"}, Carry(h),
         StoreInv', Immutable, owner' \in [Devices -> Users \cup {Nobody}],
         revoked' \subseteq Devices, head' \in Nat, events' \in Nat,
         entry' \in [Ops -> [sequence : Nat, device : Devices \cup {Nobody},
                             actor : Users \cup {Nobody}, content : Contents \cup {Nobody}]],
         file' \in [Files -> [device : Devices \cup {Nobody},
                              actor : Users \cup {Nobody}, content : Contents \cup {Nobody}]],
         audit' \in [Events -> [sequence : Nat, actor : Users \cup {Nobody}]]
  PROVE  IInv' /\ Immutable
<1>1. /\ at' = [at EXCEPT ![h] = "carried out"]
      /\ UNCHANGED <<request, hub, looping>>
      /\ at \in [Handlers -> {"idle", "identified", "permitted", "carried out"}]
  BY DEF Carry, IInv, TypeOK
<1>2. TypeOK'
  BY <1>1 DEF IInv, TypeOK, hub, looping
<1>3. at'[h] = "carried out" /\ \A x \in Handlers \ {h} : at'[x] = at[x] /\ request'[x] = request[x]
  BY <1>1
<1>4. Asked(h)'
  BY <1>3 DEF Asked
<1>5. RequestInv'
  BY <1>3, <1>4, RequestsKept DEF IInv
<1>6. HintsArrive'
  BY <1>1, <1>3, HintsKept DEF IInv
<1> QED
  BY <1>2, <1>5, <1>6 DEF IInv

(* A push that the store takes keeps the invariant. *)
LEMMA PushStep ==
  ASSUME IInv, NEW h \in Handlers, Push(h)
  PROVE  IInv' /\ Immutable
<1> DEFINE r == request[h]
<1>1. /\ at[h] = "identified" /\ r.kind = "push" /\ Trusted(r.user, r.device)
      /\ Carry(h) /\ UNCHANGED <<devices, file>>
  BY DEF Push, StillTrusted
<1>2. r \in Pushes /\ RoleOf[r.user] # "viewer"
  BY <1>1 DEF IInv, RequestInv, Asked, Requests, Uploads, Revocations
<1>3. r.user \in Users /\ r.device \in Devices /\ r.target \in Ops /\ r.content \in Contents
  BY <1>2 DEF Pushes
<1>4. CASE /\ r.target \notin Stored
           /\ entry' = [entry EXCEPT ![r.target] =
                [sequence |-> head + 1, device |-> r.device,
                 actor |-> r.user, content |-> r.content]]
           /\ head' = head + 1
           /\ Log(r.user, "accepted", r.target)
  <2> HIDE DEF r
  <2>1. /\ StoreInv' /\ Immutable /\ events' \in Nat /\ head' \in Nat
        /\ audit' \in [Events -> [sequence : Nat, actor : Users \cup {Nobody}]]
        /\ entry' \in [Ops -> [sequence : Nat, device : Devices \cup {Nobody},
                               actor : Users \cup {Nobody}, content : Contents \cup {Nobody}]]
    BY <1>1, <1>2, <1>3, <1>4, AcceptStore DEF IInv
  <2> QED
    BY <1>1, <2>1, CarryStep DEF IInv, TypeOK, devices
<1>5. CASE UNCHANGED <<entry, head, auditing>>
  <2>1. StoreInv' /\ Immutable
    BY <1>1, <1>5, StoreKept DEF IInv, contents
  <2> QED
    BY <1>1, <1>5, <2>1, CarryStep DEF IInv, TypeOK, devices, auditing
<1> QED
  BY <1>4, <1>5 DEF Push

(* So does an upload. *)
LEMMA UploadStep ==
  ASSUME IInv, NEW h \in Handlers, Upload(h)
  PROVE  IInv' /\ Immutable
<1> DEFINE r == request[h]
<1>1. /\ at[h] = "identified" /\ r.kind = "upload" /\ Trusted(r.user, r.device)
      /\ Carry(h) /\ UNCHANGED <<devices, entry, head>>
  BY DEF Upload, StillTrusted
<1>2. r \in Uploads /\ RoleOf[r.user] # "viewer"
  BY <1>1 DEF IInv, RequestInv, Asked, Requests, Pushes, Revocations
<1>3. r.user \in Users /\ r.device \in Devices /\ r.target \in Files /\ r.content \in Contents
  BY <1>2 DEF Uploads
<1>4. CASE /\ r.target \notin Kept
           /\ file' = [file EXCEPT ![r.target] =
                [device |-> r.device, actor |-> r.user, content |-> r.content]]
           /\ Log(r.user, "stored", r.target)
  <2> HIDE DEF r
  <2>1. /\ StoreInv' /\ Immutable /\ events' \in Nat
        /\ audit' \in [Events -> [sequence : Nat, actor : Users \cup {Nobody}]]
        /\ file' \in [Files -> [device : Devices \cup {Nobody},
                                actor : Users \cup {Nobody}, content : Contents \cup {Nobody}]]
    BY <1>1, <1>2, <1>3, <1>4, KeepStore DEF IInv
  <2> QED
    BY <1>1, <2>1, CarryStep DEF IInv, TypeOK, devices
<1>5. CASE UNCHANGED <<file, auditing>>
  <2>1. StoreInv' /\ Immutable
    BY <1>1, <1>5, StoreKept DEF IInv, contents
  <2> QED
    BY <1>1, <1>5, <2>1, CarryStep DEF IInv, TypeOK, devices, auditing
<1> QED
  BY <1>4, <1>5 DEF Upload

(* And a revocation. *)
LEMMA RevokeStep ==
  ASSUME IInv, NEW h \in Handlers, Revoke(h)
  PROVE  IInv' /\ Immutable
<1> DEFINE r == request[h]
<1>1. /\ at[h] = "permitted"
      /\ revoked' = revoked \cup {r.target}
      /\ Carry(h) /\ UNCHANGED <<owner, contents>>
  BY DEF Revoke
<1>2. /\ r \in Requests /\ r.kind = "revoke"
      /\ r.target \in Registered
      /\ RoleOf[r.user] = "admin" \/ owner[r.target] = r.user
  BY <1>1 DEF IInv, RequestInv, Asked
<1>3. r.user \in Users /\ r.target \in Devices
  BY <1>2 DEF Requests, Pushes, Uploads, Revocations
<1>4. revoked' \subseteq Devices
  BY <1>1, <1>3 DEF IInv, TypeOK
<1>5. CASE r.target \in revoked
  <2>1. UNCHANGED <<devices, contents, auditing>>
    BY <1>1, <1>5 DEF Revoke, devices
  <2>2. StoreInv' /\ Immutable
    BY <2>1, StoreKept DEF IInv
  <2> QED
    BY <1>1, <1>4, <2>1, <2>2, CarryStep DEF IInv, TypeOK, contents, auditing
<1>6. CASE r.target \notin revoked
  <2>1. Log(r.user, "revoked", r.target)
    BY <1>6 DEF Revoke
  <2> HIDE DEF r
  <2>2. /\ StoreInv' /\ Immutable /\ events' \in Nat
        /\ audit' \in [Events -> [sequence : Nat, actor : Users \cup {Nobody}]]
    BY <1>1, <1>2, <1>3, <1>6, <2>1, RevokeStore DEF IInv
  <2> QED
    BY <1>1, <1>4, <2>2, CarryStep DEF IInv, TypeOK, contents
<1> QED
  BY <1>5, <1>6

(* An announcement reaches every socket whose loop runs. *)
LEMMA NotifyStep ==
  ASSUME IInv, NEW h \in Handlers, Notify(h)
  PROVE  IInv' /\ Immutable
<1>1. /\ signal' = listeners
      /\ at' = [at EXCEPT ![h] = "idle"]
      /\ request' = [request EXCEPT ![h] = NoRequest]
      /\ UNCHANGED <<devices, contents, auditing, listeners, looping>>
  BY DEF Notify
<1>2. StoreInv' /\ Immutable
  BY <1>1, StoreKept DEF IInv
<1>3. TypeOK'
  BY <1>1 DEF IInv, TypeOK, devices, contents, auditing, looping
<1>4. \A x \in Handlers : (at'[x] = at[x] /\ request'[x] = request[x]) \/ Asked(x)'
  <2>1. at'[h] = "idle"
    BY <1>1 DEF IInv, TypeOK
  <2>2. Asked(h)'
    BY <2>1 DEF Asked
  <2> QED
    BY <1>1, <2>2 DEF IInv, TypeOK
<1>5. RequestInv'
  BY <1>2, <1>3, <1>4, RequestsKept DEF IInv, TypeOK
<1>6. HintsArrive'
  BY <1>1 DEF IInv, HintsArrive, looping
<1> QED
  BY <1>2, <1>3, <1>5, <1>6 DEF IInv

(* Each step of a handler keeps the invariant. *)
LEMMA HandlerInv ==
  ASSUME IInv, NEW h \in Handlers, HandlerStep(h)
  PROVE  IInv' /\ Immutable
<1>0. /\ at \in [Handlers -> {"idle", "identified", "permitted", "carried out"}]
      /\ request \in [Handlers -> Requests \cup {NoRequest}]
  BY DEF IInv, TypeOK
<1>1. ASSUME NEW r \in Requests, Arrive(h, r)
      PROVE  IInv' /\ Immutable
  <2>1. at'[h] = "identified" /\ request'[h] = r
    BY <1>0, <1>1 DEF Arrive
  <2>2. Asked(h)'
    BY <1>1, <2>1, RoleAssumption DEF Asked, Arrive, MayEdit
  <2> QED
    BY <1>0, <1>1, <2>2, QuietHandler DEF Arrive
<1>2. CASE Refuse(h)
  <2>1. at'[h] = "idle"
    BY <1>0, <1>2 DEF Refuse
  <2>2. Asked(h)'
    BY <2>1 DEF Asked
  <2> QED
    BY <1>0, <1>2, <2>2, QuietHandler DEF Refuse
<1>3. CASE Permit(h)
  <2>1. /\ at'[h] = "permitted" /\ request' = request /\ at[h] = "identified"
        /\ request[h].kind = "revoke" /\ request[h].target \in Registered
        /\ RoleOf[request[h].user] = "admin" \/ owner[request[h].target] = request[h].user
        /\ owner' = owner
    BY <1>0, <1>3 DEF Permit, MayRevoke, devices
  <2>2. Registered' = Registered
    BY <2>1 DEF Registered
  <2>3. request[h] \in Requests
    BY <2>1 DEF IInv, RequestInv, Asked
  <2>4. Asked(h)'
    BY <2>1, <2>2, <2>3 DEF Asked
  <2> QED
    BY <1>0, <1>3, <2>1, <2>4, QuietHandler DEF Permit
<1> QED
  BY <1>1, <1>2, <1>3, PushStep, UploadStep, RevokeStep, NotifyStep DEF HandlerStep

(* A step of a socket leaves store and requests alone. *)
LEMMA SocketStep ==
  ASSUME IInv, UNCHANGED <<devices, contents, auditing, serving>>, HintsArrive',
         socket' \in [Sockets -> {"closed", "admitted", "sending", "waiting", "awake"}],
         session' \in [Sockets -> [user : Users \cup {Nobody}, device : Devices \cup {Nobody}]],
         expired' \subseteq Sockets, listeners' \subseteq Sockets, signal' \subseteq Sockets,
         told' \in [Sockets -> Nat]
  PROVE  IInv' /\ Immutable
<1>1. StoreInv' /\ Immutable
  BY StoreKept DEF IInv
<1>2. TypeOK'
  BY DEF IInv, TypeOK, devices, contents, auditing, serving
<1>3. RequestInv'
  BY <1>1, <1>2, RequestsKept DEF IInv, TypeOK, serving
<1> QED
  BY <1>1, <1>2, <1>3 DEF IInv

(* Each step of a socket keeps the invariant. *)
LEMMA SocketInv ==
  ASSUME IInv, NEW s \in Sockets,
         LoopStep(s) \/ Drop(s) \/ Expire(s) \/ \E u \in Users, d \in Devices : Hello(s, u, d)
  PROVE  IInv' /\ Immutable
<1>0. /\ socket \in [Sockets -> {"closed", "admitted", "sending", "waiting", "awake"}]
      /\ session \in [Sockets -> [user : Users \cup {Nobody}, device : Devices \cup {Nobody}]]
      /\ expired \subseteq Sockets /\ listeners \subseteq Sockets /\ signal \subseteq Sockets
      /\ told \in [Sockets -> Nat] /\ events \in Nat
      /\ listeners = {x \in Sockets : socket[x] \in {"sending", "waiting", "awake"}}
  BY DEF IInv, TypeOK, HintsArrive
<1>1. CASE Subscribe(s)
  <2>1. /\ socket' = [socket EXCEPT ![s] = "sending"] /\ told' = [told EXCEPT ![s] = events]
        /\ listeners' = listeners \cup {s}
        /\ UNCHANGED <<devices, contents, auditing, serving, signal, session, expired>>
    BY <1>1 DEF Subscribe, Hint
  <2>2. HintsArrive'
    BY <1>0, <2>1, LoopHints DEF IInv, StoreInv
  <2> QED
    BY <1>0, <2>1, <2>2, SocketStep
<1>2. CASE Sent(s)
  <2>1. /\ socket[s] = "sending" /\ socket' = [socket EXCEPT ![s] = "waiting"]
        /\ UNCHANGED <<devices, contents, auditing, serving, hub, session, expired, told>>
    BY <1>2 DEF Sent
  <2>2. HintsArrive'
    BY <1>0, <2>1, LoopHints DEF IInv, StoreInv, hub
  <2> QED
    BY <1>0, <2>1, <2>2, SocketStep DEF hub
<1>3. CASE Receive(s)
  <2>1. /\ socket[s] = "waiting" /\ signal' = signal \ {s}
        /\ socket' = [socket EXCEPT ![s] = "awake"]
        /\ UNCHANGED <<devices, contents, auditing, serving, listeners, session, expired, told>>
    BY <1>3 DEF Receive
  <2>2. HintsArrive'
    BY <1>0, <2>1, LoopHints DEF IInv, StoreInv
  <2> QED
    BY <1>0, <2>1, <2>2, SocketStep
<1>4. CASE Tick(s)
  <2>1. /\ socket[s] = "waiting" /\ socket' = [socket EXCEPT ![s] = "awake"]
        /\ UNCHANGED <<devices, contents, auditing, serving, hub, session, expired, told>>
    BY <1>4 DEF Tick
  <2>2. HintsArrive'
    BY <1>0, <2>1, LoopHints DEF IInv, StoreInv, hub
  <2> QED
    BY <1>0, <2>1, <2>2, SocketStep DEF hub
<1>5. CASE Renew(s)
  <2>1. /\ socket[s] = "awake"
        /\ socket' = [socket EXCEPT ![s] = "sending"] /\ told' = [told EXCEPT ![s] = events]
        /\ UNCHANGED <<devices, contents, auditing, serving, hub, session, expired>>
    BY <1>5 DEF Renew, Hint
  <2>2. HintsArrive'
    BY <1>0, <2>1, LoopHints DEF IInv, StoreInv, hub
  <2> QED
    BY <1>0, <2>1, <2>2, SocketStep DEF hub
<1>6. CASE Close(s)
  <2>1. /\ socket' = [socket EXCEPT ![s] = "closed"] /\ told' = [told EXCEPT ![s] = 0]
        /\ session' = [session EXCEPT ![s] = NoSession] /\ expired' = expired \ {s}
        /\ listeners' = listeners \ {s} /\ signal' = signal \ {s}
        /\ UNCHANGED <<devices, contents, auditing, serving>>
    BY <1>6 DEF Close
  <2>2. HintsArrive'
    BY <1>0, <2>1, LoopHints DEF IInv, StoreInv
  <2>3. NoSession \in [user : Users \cup {Nobody}, device : Devices \cup {Nobody}]
    BY DEF NoSession
  <2> QED
    BY <1>0, <2>1, <2>2, <2>3, SocketStep
<1>7. CASE Expire(s)
  <2>1. /\ expired' = expired \cup {s}
        /\ UNCHANGED <<devices, contents, auditing, serving, hub, socket, session, told>>
    BY <1>7 DEF Expire
  <2>2. HintsArrive'
    BY <1>0, <2>1, LoopHints DEF IInv, StoreInv, hub
  <2> QED
    BY <1>0, <2>1, <2>2, SocketStep DEF hub
<1>8. ASSUME NEW u \in Users, NEW d \in Devices, Hello(s, u, d)
      PROVE  IInv' /\ Immutable
  <2>1. /\ socket[s] = "closed" /\ socket' = [socket EXCEPT ![s] = "admitted"]
        /\ session' = [session EXCEPT ![s] = [user |-> u, device |-> d]]
        /\ UNCHANGED <<devices, contents, auditing, serving, hub, expired, told>>
    BY <1>8 DEF Hello
  <2>2. HintsArrive'
    BY <1>0, <2>1, LoopHints DEF IInv, StoreInv, hub
  <2> QED
    BY <1>0, <2>1, <2>2, SocketStep DEF hub
<1> QED
  BY <1>1, <1>2, <1>3, <1>4, <1>5, <1>6, <1>7, <1>8 DEF LoopStep, Expel, Drop

(* Every step keeps the invariant and takes nothing back. *)
LEMMA NextInv == IInv /\ [Next]_vars => IInv' /\ Immutable
<1> SUFFICES ASSUME IInv, [Next]_vars PROVE IInv' /\ Immutable
  OBVIOUS
<1>1. CASE UNCHANGED vars
  <2>1. UNCHANGED <<devices, contents, auditing, serving, hub, looping>>
    BY <1>1 DEF vars
  <2>2. HintsArrive'
    <3>1. \A v \in Logged' : v \in Logged /\ audit'[v] = audit[v]
      BY <2>1 DEF auditing, Logged
    <3>2. \A h \in Handlers : at'[h] = at[h]
      BY <2>1 DEF serving
    <3> QED
      BY <2>1, <3>1, <3>2, HintsKept DEF IInv
  <2> QED
    BY <2>1, <2>2, SocketStep DEF IInv, TypeOK, hub, looping
<1> QED
  BY <1>1, RegisterStep, HandlerInv, SocketInv DEF Next

(* The invariant holds in every behaviour of the specification. *)
THEOREM Inductive == Spec => []IInv
<1>1. Init => IInv
  BY InitIInv
<1>2. IInv /\ [Next]_vars => IInv'
  BY NextInv
<1> QED
  BY <1>1, <1>2, PTL DEF Spec

-----------------------------------------------------------------------------
(* What TLC checks *)

(* Every variable keeps its type. *)
THEOREM TypeCorrect == Spec => []TypeOK
<1>1. IInv => TypeOK
  BY DEF IInv
<1> QED
  BY <1>1, Inductive, PTL

(* The audit log is complete, without gaps, and in the order of the log    *)
(* (memory.go:31).                                                         *)
THEOREM AuditTellsTheTruth == Spec => []AuditIsFaithful
<1>1. IInv => AuditIsFaithful
  BY DEF IInv, StoreInv
<1> QED
  BY <1>1, Inductive, PTL

(* Nothing enters the store from a device after its revocation, however    *)
(* requests and revocations interleave (memory.go:88, memory.go:136).      *)
THEOREM RevocationIsFinal == Spec => []AcceptedWhileTrusted
<1>1. IInv => AcceptedWhileTrusted
  BY DEF IInv, StoreInv
<1> QED
  BY <1>1, Inductive, PTL

(* Viewers write nothing, and others' devices are revoked by admins only   *)
(* (server.go:87, server.go:169).                                          *)
THEOREM RolesAreKept == Spec => []Authorized
<1>1. IInv => Authorized
  BY DEF IInv, StoreInv
<1> QED
  BY <1>1, Inductive, PTL

(* No hint is lost between the store, the hub and the loop of a socket     *)
(* (events.go:22).                                                         *)
THEOREM NoHintIsLost == Spec => []HintsArrive
<1>1. IInv => HintsArrive
  BY DEF IInv
<1> QED
  BY <1>1, Inductive, PTL

(* Owners, revocations, entries, attachments and audit lines stay          *)
(* (memory.go:38, memory.go:139).                                          *)
THEOREM StoreIsImmutable == Spec => HistoryIsImmutable
<1>1. IInv /\ [Next]_vars => [Immutable]_vars
  BY NextInv
<1> QED
  BY <1>1, Inductive, PTL DEF Spec, HistoryIsImmutable, Immutable
=============================================================================
