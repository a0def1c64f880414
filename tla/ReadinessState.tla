--------------------------- MODULE ReadinessState ---------------------------
(***************************************************************************)
(* The readiness managers of src/readiness/readinessManager.ts, with the   *)
(* promises of the status API that wait for them, as functions of their    *)
(* state. Emitters call their listeners at once and in order of            *)
(* registration, so an emission is a function too: it returns the state in *)
(* which the last listener has returned.                                   *)
(***************************************************************************)
EXTENDS Naturals, Sequences, SequencesExt

CONSTANTS
  ReadyTimeout,  \* whether settings.startup.readyTimeout is positive
  Throwing       \* events for which listeners of the user may throw

SdkReady     == "init::ready"
SdkFromCache == "init::cache-ready"
SdkTimedOut  == "init::timeout"
SdkUpdate    == "state::update"
Events       == {SdkReady, SdkFromCache, SdkTimedOut, SdkUpdate}

ASSUME ReadinessAssumption ==
  /\ ReadyTimeout \in BOOLEAN
  /\ Throwing \subseteq Events \ {SdkTimedOut}

\* What the user can wait for: ready(), whenReady() and whenReadyFromCache().
Promises == {"ready", "whenReady", "whenReadyFromCache"}
Outcome  == {"none", "pending", "resolved", "rejected"}
Bad      == "throws"

\* The emitter of definitions shared by the managers of all clients.
Definitions == [arrived : BOOLEAN, cacheLoaded : BOOLEAN, hasInit : BOOLEAN]

\* armed, leaked: the timer readyTimeoutId holds, and an older one it held
\* heard: the events emitted on gate, repeated updates left out
\* listeners: on gate, the promises that wait and the user's that throw
Managers == [segmentsArrived : BOOLEAN, isReady : BOOLEAN,
             isReadyFromCache : BOOLEAN, hasTimedout : BOOLEAN,
             isDestroyed : BOOLEAN, armed : BOOLEAN, leaked : BOOLEAN,
             heard : Seq(Events),
             listeners : [Events -> Seq(Promises \cup {Bad})],
             promise : [Promises -> Outcome]]

\* generateReadyPromise: the promise that ready() answers with waits from the start.
ReadyPromise == [e \in Events |-> IF e \in {SdkReady, SdkTimedOut} THEN <<"ready">> ELSE << >>]

NewManager(d) ==
  [segmentsArrived |-> FALSE, isReady |-> FALSE,
   isReadyFromCache |-> d.cacheLoaded, hasTimedout |-> FALSE,
   isDestroyed |-> FALSE, armed |-> ReadyTimeout /\ d.hasInit, leaked |-> FALSE,
   heard |-> << >>,
   listeners |-> ReadyPromise,
   promise |-> [p \in Promises |-> IF p = "ready" THEN "pending" ELSE "none"]]

Throws(m, e) == Bad \in Range(m.listeners[e])

\* gate.emit: an exception ends the emission, later listeners are not called.
Emit(m, e) ==
  LET called == {p \in Promises : \E i \in DOMAIN m.listeners[e] :
                   /\ m.listeners[e][i] = p
                   /\ \A j \in 1..i : m.listeners[e][j] # Bad}
      outcome == IF e = SdkTimedOut THEN "rejected" ELSE "resolved"
  IN [m EXCEPT
        !.heard = IF e = SdkUpdate /\ SdkUpdate \in Range(@) THEN @ ELSE Append(@, e),
        !.promise = [p \in Promises |->
                       IF p \in called /\ @[p] = "pending" THEN outcome ELSE @[p]]]

Init_(m) ==
  [m EXCEPT !.isDestroyed = FALSE,
            !.leaked = @ \/ (m.armed /\ ReadyTimeout /\ ~m.isReady),
            !.armed = @ \/ (ReadyTimeout /\ ~m.isReady)]

\* Mutant: the timeout is announced to a client that is ready.
TimeoutAlways(m) ==
  IF m.hasTimedout THEN m ELSE Emit([m EXCEPT !.hasTimedout = TRUE], SdkTimedOut)

Timeout(m) ==
  IF m.hasTimedout \/ m.isReady
  THEN m
  ELSE Emit([m EXCEPT !.hasTimedout = TRUE], SdkTimedOut)

CheckIsReadyFromCache(m) ==
  LET cached == [m EXCEPT !.isReadyFromCache = TRUE]
  IN IF m.isReady \/ m.isDestroyed THEN cached ELSE Emit(cached, SdkFromCache)

BecomeReady(m) ==
  LET ready == [m EXCEPT !.armed = FALSE, !.isReady = TRUE, !.isReadyFromCache = TRUE]
      first == IF m.isReadyFromCache THEN ready ELSE Emit(ready, SdkFromCache)
  IN IF ~m.isReadyFromCache /\ Throws(m, SdkFromCache)
     THEN first
     ELSE Emit(first, SdkReady)

\* Mutant: one of the two arrivals is enough.
CheckIsReadyEagerly(d, m) ==
  CASE m.isDestroyed -> m
    [] ~m.isDestroyed /\ m.isReady -> Emit(m, SdkUpdate)
    [] ~m.isDestroyed /\ ~m.isReady /\ m.segmentsArrived -> BecomeReady(m)
    [] OTHER -> m
CheckIsReadyOrUpdate(d, m) ==
  CASE m.isDestroyed -> m
    [] ~m.isDestroyed /\ m.isReady -> Emit(m, SdkUpdate)
    [] ~m.isDestroyed /\ ~m.isReady /\ d.arrived /\ m.segmentsArrived -> BecomeReady(m)
    [] OTHER -> m

SegmentsArrived(d, m) ==
  CheckIsReadyOrUpdate(d, [m EXCEPT !.segmentsArrived = TRUE])

\* destroy() clears readyTimeoutId only.
Destroy(m) == [m EXCEPT !.isDestroyed = TRUE, !.armed = FALSE]

\* ready(): once timed out, the answer is that of the flags and not of the promise,
\* which is rejected for good.
ReadyCalled(m) ==
  IF m.hasTimedout THEN (IF m.isReady THEN "resolved" ELSE "rejected")
  ELSE m.promise["ready"]

\* Mutant: a past timeout is not looked at.
WhenCalledAnew(m, p) ==
  LET isDone == IF p = "whenReady" THEN m.isReady ELSE m.isReadyFromCache
      event  == IF p = "whenReady" THEN SdkReady ELSE SdkFromCache
  IN IF isDone
     THEN [m EXCEPT !.promise[p] = "resolved"]
     ELSE [m EXCEPT !.promise[p] = "pending",
                    !.listeners[event] = Append(@, p),
                    !.listeners[SdkTimedOut] = Append(@, p)]

\* whenReady() and whenReadyFromCache(): the flag they look at first, the event
\* they wait for.
WhenCalled(m, p) ==
  LET isDone == IF p = "whenReady" THEN m.isReady ELSE m.isReadyFromCache
      event  == IF p = "whenReady" THEN SdkReady ELSE SdkFromCache
  IN CASE isDone -> [m EXCEPT !.promise[p] = "resolved"]
       [] ~isDone /\ m.hasTimedout -> [m EXCEPT !.promise[p] = "rejected"]
       [] ~isDone /\ ~m.hasTimedout ->
            [m EXCEPT !.promise[p] = "pending",
                      !.listeners[event] = Append(@, p),
                      !.listeners[SdkTimedOut] = Append(@, p)]
=============================================================================
