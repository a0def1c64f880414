----------------------------- MODULE Readiness -----------------------------
(***************************************************************************)
(* The readiness of an SDK with a main and shared clients, from the        *)
(* creation of the factory to its destruction and perhaps a new init: what *)
(* the synchronisation delivers (src/sync), what the managers of           *)
(* src/readiness make of it, and what the user's listeners and promises    *)
(* are told.                                                               *)
(***************************************************************************)
EXTENDS ReadinessState, FiniteSets

CONSTANTS
  Clients, Main,
  Side,      \* "client", or "server", where no client is shared
  Cache,     \* what the storage may hold at first: "none", "stored", "preloaded"
  ReadyAsked,     \* clients whose promise whenReady the user may ask for
  FromCacheAsked, \* clients whose promise whenReadyFromCache the user may ask for
  Kills,     \* whether the streaming service sends SPLIT_KILL notifications
  MaxLives   \* bound on the calls of init that start the SDK

ASSUME ClientsAssumption ==
  /\ Main \in Clients
  /\ "definitions" \notin Clients
  /\ Side \subseteq {"client", "server"}
  /\ Cache \subseteq {"none", "stored", "preloaded"}
  /\ ReadyAsked \subseteq Clients
  /\ FromCacheAsked \subseteq Clients
  /\ Kills \in BOOLEAN
  /\ MaxLives \in Nat \ {0}

\* The promises asked for, once each.
Asked == (ReadyAsked \X {"whenReady"}) \cup (FromCacheAsked \X {"whenReadyFromCache"})

VARIABLES
  side,         \* what the factory was configured for
  definitions,  \* the emitter of definitions and its flags
  manager,      \* the readiness manager of each client created so far
  cache,        \* what the storage held when the factory was created
  firstStart,   \* startFirstTime of the sync manager
  requests,     \* fetches in flight, of definitions or a client's memberships
  removed,      \* shared clients whose synchronisation was stopped
  fetched,      \* clients, and "definitions", synchronised with the backend once
  lives         \* calls of init that started the SDK

vars == <<side, definitions, manager, cache, firstStart, requests, removed, fetched, lives>>

created == DOMAIN manager

TypeOK ==
  /\ side \in Side
  /\ definitions \in Definitions
  /\ created \subseteq Clients
  /\ manager \in [created -> Managers]
  /\ cache \in Cache
  /\ firstStart \in BOOLEAN
  /\ requests \subseteq Clients \cup {"definitions"}
  /\ removed \subseteq Clients \ {Main}
  /\ fetched \subseteq Clients \cup {"definitions"}
  /\ lives \in 0..MaxLives

\* An initial rollout plan is loaded before the user can listen.
Init ==
  /\ side \in Side
  /\ cache \in Cache
  /\ LET fresh == [arrived |-> FALSE, cacheLoaded |-> FALSE, hasInit |-> FALSE]
         main  == NewManager(fresh)
     IN /\ definitions = [fresh EXCEPT !.cacheLoaded = (cache = "preloaded")]
        /\ manager = [c \in {Main} |-> IF cache = "preloaded"
                                       THEN CheckIsReadyFromCache(main) ELSE main]
  /\ firstStart = TRUE
  /\ requests = {}
  /\ removed = {}
  /\ fetched = {}
  /\ lives = 0
----------------------------------------------------------------------------
\* Mutant: an exception of a listener of the main client ends the emission.
EmitUncaught(isSplitKill) ==
  LET d    == [definitions EXCEPT !.arrived = @ \/ ~isSplitKill]
      main == CheckIsReadyOrUpdate(d, manager[Main])
      ends == \E e \in Range(main.heard) \ Range(manager[Main].heard) : Throws(main, e)
  IN /\ definitions' = d
     /\ manager' = [c \in created |-> IF ends /\ c # Main THEN manager[c]
                                      ELSE CheckIsReadyOrUpdate(d, manager[c])]

\* definitions.emit(SDK_DEFINITIONS_ARRIVED, metadata, isSplitKill)
EmitDefinitionsArrived(isSplitKill) ==
  LET d == [definitions EXCEPT !.arrived = @ \/ ~isSplitKill]
  IN /\ definitions' = d
     /\ manager' = [c \in created |-> CheckIsReadyOrUpdate(d, manager[c])]

EmitSegmentsArrived(c) ==
  /\ manager' = [manager EXCEPT ![c] = SegmentsArrived(definitions, @)]
  /\ UNCHANGED definitions

\* sdkLifecycle.init of the main client.
InitSdk ==
  /\ ~definitions.hasInit
  /\ lives < MaxLives
  /\ lives' = lives + 1
  /\ definitions' = [definitions EXCEPT !.hasInit = TRUE]
  /\ manager' = [c \in created |-> Init_(manager[c])]
  /\ UNCHANGED <<side, cache, firstStart, requests, removed, fetched>>

\* The first start of the sync manager has validated the cache.
CacheValidated ==
  /\ definitions.hasInit
  /\ firstStart
  /\ firstStart' = FALSE
  /\ IF cache = "stored"
     THEN /\ definitions' = [definitions EXCEPT !.cacheLoaded = TRUE]
          /\ manager' = [c \in created |-> CheckIsReadyFromCache(manager[c])]
     ELSE UNCHANGED <<definitions, manager>>
  /\ UNCHANGED <<side, cache, requests, removed, fetched, lives>>

Share(c) ==
  /\ side = "client"
  /\ c \notin created
  /\ manager' = [x \in created \cup {c} |->
                   IF x = c THEN NewManager(definitions) ELSE manager[x]]
  /\ UNCHANGED <<side, definitions, cache, firstStart, requests, removed, fetched, lives>>

\* sdkLifecycle.destroy; a shared client leaves the polling manager.
DestroyClient(c) ==
  /\ c \in created
  /\ manager' = [manager EXCEPT ![c] = Destroy(@)]
  /\ IF c = Main
     THEN /\ definitions' = [definitions EXCEPT !.hasInit = FALSE]
          /\ UNCHANGED removed
     ELSE /\ removed' = removed \cup {c}
          /\ UNCHANGED definitions
  /\ UNCHANGED <<side, cache, firstStart, requests, fetched, lives>>
----------------------------------------------------------------------------
\* What a running SDK fetches, again and again.
Fetch(x) ==
  /\ definitions.hasInit
  /\ ~firstStart
  /\ x \in {"definitions"} \cup (created \ removed)
  /\ x \notin requests
  /\ requests' = requests \cup {x}
  /\ UNCHANGED <<side, definitions, manager, cache, firstStart, removed, fetched, lives>>

\* Answers may come after a destroy, which cancels no request.
Answered(x) ==
  /\ x \in requests
  /\ requests' = requests \ {x}
  /\ UNCHANGED <<side, cache, firstStart, removed, lives>>

DefinitionsFetched(changed) ==
  /\ Answered("definitions")
  /\ fetched' = fetched \cup {"definitions"}
  /\ IF ~definitions.arrived \/ changed
     THEN EmitDefinitionsArrived(FALSE)
     ELSE UNCHANGED <<definitions, manager>>

MembershipsFetched(c, changed) ==
  /\ Answered(c)
  /\ fetched' = fetched \cup {c}
  /\ IF c \notin fetched \/ changed
     THEN EmitSegmentsArrived(c)
     ELSE UNCHANGED <<definitions, manager>>

FetchFails(x) ==
  /\ Answered(x)
  /\ UNCHANGED <<definitions, manager, fetched>>

\* Server side, a fetch of segments answered with 403: readiness.setDestroyed().
Forbidden ==
  /\ side = "server"
  /\ Answered(Main)
  /\ manager' = [manager EXCEPT ![Main].isDestroyed = TRUE]
  /\ UNCHANGED <<definitions, fetched>>

\* A SPLIT_KILL of a stored definition. killDefinition passes its flag in the
\* place of the metadata, so that the listeners take isSplitKill as undefined.
KillDefinition ==
  /\ Kills
  /\ definitions.hasInit
  /\ ~firstStart
  /\ cache # "none" \/ "definitions" \in fetched
  /\ EmitDefinitionsArrived(FALSE)
  /\ UNCHANGED <<side, cache, firstStart, requests, removed, fetched, lives>>

TimerFires(c) ==
  /\ c \in created
  /\ manager[c].armed
  /\ manager' = [manager EXCEPT ![c] = Timeout([@ EXCEPT !.armed = FALSE])]
  /\ UNCHANGED <<side, definitions, cache, firstStart, requests, removed, fetched, lives>>

LeakedTimerFires(c) ==
  /\ c \in created
  /\ manager[c].leaked
  /\ manager' = [manager EXCEPT ![c] = Timeout([@ EXCEPT !.leaked = FALSE])]
  /\ UNCHANGED <<side, definitions, cache, firstStart, requests, removed, fetched, lives>>
----------------------------------------------------------------------------
\* The user adds a listener that throws, or asks for a promise.
Listen(c, e) ==
  /\ c \in created
  /\ ~Throws(manager[c], e)
  /\ manager' = [manager EXCEPT ![c].listeners[e] = Append(@, Bad)]
  /\ UNCHANGED <<side, definitions, cache, firstStart, requests, removed, fetched, lives>>

When(c, p) ==
  /\ c \in created
  /\ manager[c].promise[p] = "none"
  /\ manager' = [manager EXCEPT ![c] = WhenCalled(@, p)]
  /\ UNCHANGED <<side, definitions, cache, firstStart, requests, removed, fetched, lives>>

Next ==
  \/ InitSdk
  \/ CacheValidated
  \/ \E x \in Clients \cup {"definitions"} : Fetch(x) \/ FetchFails(x)
  \/ \E changed \in BOOLEAN : DefinitionsFetched(changed)
  \/ \E c \in Clients, changed \in BOOLEAN : MembershipsFetched(c, changed)
  \/ Forbidden
  \/ KillDefinition
  \/ \E c \in Clients :
       \/ Share(c)
       \/ DestroyClient(c)
       \/ TimerFires(c)
       \/ LeakedTimerFires(c)
       \/ \E e \in Throwing : Listen(c, e)
       \/ \E p \in Promises : <<c, p>> \in Asked /\ When(c, p)

Spec == Init /\ [][Next]_vars

----------------------------------------------------------------------------
heard(c) == manager[c].heard

Before(s, a, b) ==
  \A i, j \in DOMAIN s : s[i] = a /\ s[j] = b => i < j

\* Each client hears an event at most once, updates apart: first that it is
\* ready from cache, then that it is ready, then updates; and never that it
\* timed out after it was ready (checkIsReadyOrUpdate, timeout).
EventsInOrder ==
  \A c \in created :
    /\ IsInjective(heard(c))
    /\ Before(heard(c), SdkFromCache, SdkReady)
    /\ Before(heard(c), SdkReady, SdkUpdate)
    /\ Before(heard(c), SdkTimedOut, SdkReady)

\* A client is ready only when definitions and its own memberships were both
\* fetched from the backend, in this order or the other, cached or not, in the
\* first life of the SDK or a later one; but for a SPLIT_KILL of a cached
\* definition, which is taken for the first fetch of the definitions, although
\* readinessManager.ts means to tell it apart by `isSplitKill`.
ReadyIsSynced ==
  \A c \in created : manager[c].isReady =>
    /\ c \in fetched
    /\ "definitions" \in fetched \/ (Kills /\ cache # "none")

\* A client alive is ready as soon as both have arrived, whoever fetched the
\* definitions and whatever the listeners of other clients do; not so in a later
\* life of the SDK, for what arrived while it was destroyed is not looked at by
\* the next init.
ReadyWhenArrived ==
  \A c \in created :
    definitions.arrived /\ manager[c].segmentsArrived /\ ~manager[c].isDestroyed
      => manager[c].isReady \/ lives > 1

\* The promises of a client alive agree with its flags: none is left pending
\* by what it waits for, or resolved before it, unless a listener of the user
\* throws before its own is called, or the SDK was destroyed meanwhile, when the
\* flags change without an event, and initialised again.
PromisesKept ==
  \A c \in created : \A p \in Promises :
    LET m == manager[c]
        outcome == IF p = "ready" THEN ReadyCalled(m) ELSE m.promise[p]
        isDone == IF p = "whenReadyFromCache" THEN m.isReadyFromCache ELSE m.isReady
    IN ~m.isDestroyed =>
         /\ outcome = "resolved" => isDone
         /\ outcome = "rejected" => m.hasTimedout
         /\ outcome = "pending" =>
              \/ ~isDone /\ ~m.hasTimedout
              \/ \E e \in Throwing : Throws(m, e)
              \/ lives > 1
=============================================================================
