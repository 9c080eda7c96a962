---------------------------- MODULE OfflineShell ----------------------------
(***************************************************************************)
(* The offline shell of the web build: the service worker that             *)
(* scripts/package-offline.mjs writes for each release, and its            *)
(* registration by web/offline.js.  A release is a number; so are the      *)
(* worker packaged with it and the cache that it keeps its files in.       *)
(*                                                                         *)
(* What the browser does is external: when it looks for a new worker,      *)
(* installs one and activates it, which worker controls a page, that the   *)
(* files of an installation are stored all at once, and that who holds a   *)
(* cache that is deleted may go on to use it, without effect.              *)
(***************************************************************************)
EXTENDS Naturals

CONSTANTS
  Tabs,          \* windows of the browser
  Files,         \* paths of the shell (ASSETS)
  Index,         \* the one that every navigation asks for
  MaxReleases    \* bound on releases

Releases == 1..MaxReleases

VARIABLES
  released,     \* the release on the server, 0 before the first
  exists,       \* caches that there are
  stored,       \* stored[r]: files in the cache of release r
  installing,   \* the worker that is being installed, or 0
  holds,        \* its cache: "none" yet, "kept" or "deleted"
  fetched,      \* files that it has received
  waiting,      \* the installed worker, or 0
  active,       \* the active worker, or 0
  activating,   \* its activate event is being handled
  page,         \* page[t]: "closed", "loading" or "open"
  worker,       \* worker[t]: the worker that controls the page, or 0
  got           \* got[t]: files that the page has received

cacheVars  == <<exists, stored>>
workerVars == <<installing, holds, fetched, waiting, active, activating>>
pageVars   == <<page, worker, got>>
vars       == <<released, cacheVars, workerVars, pageVars>>

Init ==
  /\ released = 0
  /\ exists = {} /\ stored = [r \in Releases |-> {}]
  /\ installing = 0 /\ holds = "none" /\ fetched = {}
  /\ waiting = 0 /\ active = 0 /\ activating = FALSE
  /\ page = [t \in Tabs |-> "closed"]
  /\ worker = [t \in Tabs |-> 0]
  /\ got = [t \in Tabs |-> {}]

(* A build is packaged and served. *)
Release ==
  /\ released < MaxReleases
  /\ released' = released + 1
  /\ UNCHANGED <<cacheVars, workerVars, pageVars>>

-----------------------------------------------------------------------------
(* The browser installs the worker of the server's release. *)
Installs ==
  /\ installing = 0 /\ released > 0
  /\ installing' = released /\ holds' = "none" /\ fetched' = {}

(* The browser activates the installed worker next as soon as no page is   *)
(* controlled by the one before it.  control: who controls each page.      *)
Activates(next, control, busy) ==
  IF next # 0 /\ ~busy /\ \A t \in Tabs : control[t] = 0
  THEN active' = next /\ waiting' = 0 /\ activating' = TRUE
  ELSE waiting' = next /\ activating' = busy /\ UNCHANGED active

(* Pages.  A navigation goes through the active worker, if there is one.   *)
Open(t) ==
  /\ page[t] = "closed"
  /\ page' = [page EXCEPT ![t] = "loading"]
  /\ worker' = [worker EXCEPT ![t] = active]
  /\ got' = [got EXCEPT ![t] = {}]
  /\ UNCHANGED <<released, cacheVars, workerVars>>

Close(t) ==
  /\ page[t] # "closed"
  /\ page' = [page EXCEPT ![t] = "closed"]
  /\ worker' = [worker EXCEPT ![t] = 0]
  /\ got' = [got EXCEPT ![t] = {}]
  /\ Activates(waiting, worker', activating)
  /\ UNCHANGED <<released, cacheVars, installing, holds, fetched>>

(* The fetch event, after the activation: the worker opens its cache, and  *)
(* asks the network for what is not in it.                                 *)
Request(t, f) ==
  /\ page[t] = "loading" /\ f \notin got[t] /\ (f = Index \/ Index \in got[t])
  /\ worker[t] # 0 => ~activating
  /\ released > 0
  /\ got' = [got EXCEPT ![t] = @ \cup {f}]
  /\ exists' = IF worker[t] = 0 THEN exists ELSE exists \cup {worker[t]}
  /\ UNCHANGED <<released, stored, workerVars, page, worker>>

(* The load event registers the worker.  When there is one already that    *)
(* changes nothing.                                                        *)
Register(t) ==
  /\ page[t] = "loading" /\ got[t] = Files
  /\ page' = [page EXCEPT ![t] = "open"]
  /\ \/ waiting = 0 /\ active = 0 /\ Installs
     \/ UNCHANGED <<installing, holds, fetched>>   \* there is one, or no network
  /\ UNCHANGED <<released, cacheVars, waiting, active, activating, worker, got>>

(* The browser looks for a new worker when a page has asked the old one. *)
Update(t) ==
  /\ worker[t] # 0 /\ got[t] # {}
  /\ released # IF waiting # 0 THEN waiting ELSE active
  /\ Installs
  /\ UNCHANGED <<released, cacheVars, waiting, active, activating, pageVars>>

-----------------------------------------------------------------------------
(* The install event: addAll stores the files when it has all of them. *)

OpenCache ==
  /\ installing # 0 /\ holds = "none"
  /\ holds' = "kept"
  /\ exists' = exists \cup {installing}
  /\ UNCHANGED <<released, stored, installing, fetched, waiting, active, activating, pageVars>>

Fetch(f) ==
  /\ installing # 0 /\ holds # "none" /\ f \notin fetched
  /\ fetched' = fetched \cup {f}
  /\ UNCHANGED <<released, cacheVars, installing, holds, waiting, active, activating, pageVars>>

Installed ==
  /\ installing # 0 /\ fetched = Files
  /\ stored' = [stored EXCEPT ![installing] = IF holds = "kept" THEN Files ELSE @]
  /\ installing' = 0 /\ holds' = "none" /\ fetched' = {}
  /\ Activates(installing, worker, activating)
  /\ UNCHANGED <<released, exists, pageVars>>

InstallFails ==
  /\ installing # 0
  /\ installing' = 0 /\ holds' = "none" /\ fetched' = {}
  /\ UNCHANGED <<released, cacheVars, waiting, active, activating, pageVars>>

(* The activate event: delete the other caches, claim the open pages. *)
Activate ==
  LET others == exists \ {active}
  IN  /\ activating
      /\ exists' = exists \ others
      /\ stored' = [r \in Releases |-> IF r \in others THEN {} ELSE stored[r]]
      /\ holds' = IF holds = "kept" /\ installing \in others THEN "deleted" ELSE holds
      /\ worker' = [t \in Tabs |-> IF page[t] = "closed" THEN 0 ELSE active]
      /\ Activates(waiting, worker', FALSE)
      /\ UNCHANGED <<released, installing, fetched, page, got>>

Next ==
  \/ Release \/ OpenCache \/ Installed \/ InstallFails \/ Activate
  \/ \E f \in Files : Fetch(f)
  \/ \E t \in Tabs : Open(t) \/ Close(t) \/ Register(t) \/ Update(t) \/ \E f \in Files : Request(t, f)

Spec == Init /\ [][Next]_vars

-----------------------------------------------------------------------------
(* The app works offline once its shell has been installed: the files of   *)
(* the worker that answers are in its cache (README.md:25).  They are not  *)
(* when the activation of one worker deletes the cache of the next one,    *)
(* which is installed, or being installed, at that time.                   *)
WorksOffline == active # 0 => stored[active] = Files
=============================================================================
