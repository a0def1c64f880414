------------------------- MODULE DefinitionsFetcher -------------------------
(***************************************************************************)
(* The definitions fetcher (src/sync/polling/fetchers/                     *)
(* splitChangesFetcher.ts) with the HTTP client under it, called by the    *)
(* executions of the definitions task (updaters/definitionChangesUpdater.  *)
(* ts), one after another. The SDK may reach the backend through a Split   *)
(* Proxy, which may be too old for version 1.3 of the specification and be *)
(* upgraded, or downgraded, at any time: the fetcher falls back to version *)
(* 1.2, tries 1.3 again now and then, and once that works replaces all it  *)
(* holds. One feature flag and one rule-based segment; change numbers      *)
(* count from 1, and 0 stands for -1.                                      *)
(***************************************************************************)
EXTENDS Naturals, Sequences, FiniteSets

CONSTANTS
  MaxReleases,   \* bound: changes of the flag and of the rule-based segment
  StartRetries,  \* retriesOnFailureBeforeReady
  MaxTimedOut    \* bound: requests in flight whose time is over

ASSUME DefinitionsFetcherAssumption == {MaxReleases, StartRetries, MaxTimedOut} \subseteq Nat

Kind == {"flag", "rbs"}
Status == {"none", "400", "500"}   \* of a failure; "none" if no answer came

VARIABLES
  proxy,     \* what settings.urls.sdk leads to: "direct", an "old" or a "new" proxy
  releases,  \* the changes of each kind: whether each one archives it
  spec,      \* settings.sync.flagSpecVersion
  lastCheck, \* lastProxyCheckTimestamp: "none", "recent" or "due"
  held,      \* change number and item of each kind cached: the change it is of,
             \* 0 if there is none, and whether it came by specification 1.2
  atStart,   \* `startingUp` of the updater
  attempt,   \* `retry` of the execution running
  requests,  \* the requests in flight
  missed     \* history: whether a recovery failed, or one was made in vain (below)

fetcherVars == <<proxy, releases, spec, lastCheck, held, atStart, attempt, requests, missed>>

Nothing == [cn |-> 0, item |-> 0, legacy |-> FALSE]

\* stage: the first request of a call of the fetcher or its "retry" with 1.2, and
\* the same two of the call by which it recovers; `awaited` unless it timed out.
Request(stage, since, version) ==
  [stage |-> stage, since |-> since, spec |-> version, awaited |-> TRUE]

Cleared == [k \in Kind |-> Nothing]
FromScratch == [k \in Kind |-> 0]
CachedSince == [k \in Kind |-> held[k].cn]

FetcherInit ==
  /\ proxy \in {"direct", "old", "new"}
  /\ releases = [k \in Kind |-> << >>]
  /\ spec = "1.3"
  /\ lastCheck = "none"
  /\ held = Cleared
  /\ atStart = TRUE
  /\ attempt = 0
  /\ requests = {}
  /\ missed = FALSE

-----------------------------------------------------------------------------
(* The backend, the proxy and the clock                                     *)

Release(k, archived) ==
  /\ Len(releases["flag"]) + Len(releases["rbs"]) < MaxReleases
  /\ releases' = [releases EXCEPT ![k] = Append(@, archived)]
  /\ UNCHANGED <<proxy, spec, lastCheck, held, atStart, attempt, requests, missed>>

ProxyReplaced ==
  /\ proxy # "direct"
  /\ proxy' \in {"old", "new"} \ {proxy}
  /\ UNCHANGED <<releases, spec, lastCheck, held, atStart, attempt, requests, missed>>

IntervalPasses ==
  /\ lastCheck = "recent"
  /\ lastCheck' = "due"
  /\ UNCHANGED <<proxy, releases, spec, held, atStart, attempt, requests, missed>>

\* Which change the item of kind k is of when n changes were made.
ItemAt(k, n) == IF n = 0 \/ releases[k][n] THEN 0 ELSE n

-----------------------------------------------------------------------------
(* The calls of the fetcher                                                 *)

Rechecked == IF lastCheck = "due" THEN "1.3" ELSE spec

\* A call of the fetcher from the cached change numbers, in place of request q.
Call(others) ==
  /\ spec' = Rechecked
  /\ requests' = others \cup {Request("first", CachedSince, Rechecked)}

\* An execution of the definitions task begins.
FetchDefinitions ==
  /\ \A q \in requests : ~q.awaited
  /\ Call(requests)
  /\ UNCHANGED <<proxy, releases, lastCheck, held, atStart, attempt, missed>>

\* What an answer with the releases seen does to what is held. The backend leaves
\* archived items out of an answer from scratch.
Update(q, seen, before) ==
  [k \in Kind |->
     IF k = "rbs" /\ q.spec = "1.2" THEN before[k]
     ELSE IF seen[k] > q.since[k] /\ ~(q.since[k] = 0 /\ ItemAt(k, seen[k]) = 0)
     THEN [cn |-> seen[k], item |-> ItemAt(k, seen[k]), legacy |-> q.spec = "1.2"]
     ELSE [before[k] EXCEPT !.cn = seen[k]]]

Recovers(q) == q.stage \in {"recovery", "recoveryRetry"}

\* Mutant: what was fetched from scratch is added to what is held.
StoreOver(q, seen) == held' = Update(q, seen, held)

\* A recovery clears both caches first.
Store(q, seen) == held' = Update(q, seen, IF Recovers(q) THEN Cleared ELSE held)

\* A request is answered; it is not by an old proxy asked with 1.3. If it was
\* awaited, either the fetcher finds that the proxy has recovered and calls itself
\* for everything, or the updater stores what came.
RequestAnswered(q, seen) ==
  /\ q \in requests
  /\ ~(proxy = "old" /\ q.spec = "1.3")
  /\ \A k \in Kind : seen[k] \in q.since[k]..Len(releases[k])
  /\ IF ~q.awaited
     THEN requests' = requests \ {q} /\ UNCHANGED <<lastCheck, held, atStart, attempt>>
     ELSE IF q.spec = "1.3" /\ lastCheck # "none"
     THEN /\ lastCheck' = "none"
          /\ requests' = (requests \ {q}) \cup {Request("recovery", FromScratch, spec)}
          /\ UNCHANGED <<held, atStart, attempt>>
     ELSE /\ Store(q, seen)
          /\ atStart' = FALSE
          /\ attempt' = 0
          /\ requests' = requests \ {q}
          /\ UNCHANGED lastCheck
  /\ UNCHANGED <<proxy, releases, spec, missed>>

\* The promise of the fetcher is rejected: the updater retries, or gives up.
Rejected(q) ==
  IF atStart /\ attempt < StartRetries
  THEN Call(requests \ {q}) /\ attempt' = attempt + 1 /\ UNCHANGED atStart
  ELSE /\ atStart' = FALSE
       /\ attempt' = 0
       /\ requests' = requests \ {q}
       /\ UNCHANGED spec

FallsBack(q, status) ==
  /\ status # "500"
  /\ proxy # "direct"
  /\ spec = "1.3"
  /\ q.stage \in {"first", "recovery"}

\* A request fails: the specification is taken for too new, or the call is over.
RequestFails(q, status) ==
  /\ q \in requests
  /\ status = "400" => proxy = "old" /\ q.spec = "1.3"
  /\ IF FallsBack(q, status)
     THEN /\ lastCheck' = "recent"
          /\ spec' = "1.2"
          /\ requests' = (requests \ {q}) \cup
               {[q EXCEPT !.spec = "1.2",
                          !.stage = IF q.stage = "first" THEN "retry" ELSE "recoveryRetry"]}
          /\ UNCHANGED <<atStart, attempt>>
     ELSE /\ UNCHANGED lastCheck
          /\ IF q.awaited THEN Rejected(q)
             ELSE requests' = requests \ {q} /\ UNCHANGED <<spec, atStart, attempt>>
  /\ missed' = (missed \/ IF FallsBack(q, status) THEN ~q.awaited ELSE q.stage = "recovery")
  /\ UNCHANGED <<proxy, releases, held>>

\* The updater's timeout, which it sets while starting up around a request and its
\* retry but not around a recovery: the updater goes on, and so does the request.
TimedOut(q) ==
  /\ q \in requests
  /\ q.awaited /\ atStart /\ ~Recovers(q)
  /\ Cardinality(requests) <= MaxTimedOut
  /\ LET left == {[r EXCEPT !.awaited = FALSE] : r \in requests}
     IN IF attempt < StartRetries
        THEN Call(left) /\ attempt' = attempt + 1 /\ UNCHANGED atStart
        ELSE requests' = left /\ atStart' = FALSE /\ attempt' = 0 /\ UNCHANGED spec
  /\ UNCHANGED <<proxy, releases, lastCheck, held, missed>>

-----------------------------------------------------------------------------
\* However the proxy is replaced and requests fail, a fallback to version 1.2 is
\* followed by another try of 1.3, and once version 1.3 is back for good what is
\* held is what the backend has at its change numbers, with nothing left of what
\* came by 1.2. Unless a recovery failed, since it is not tried again, or a request
\* fell back after its time was over, since the recovery under way then ends at
\* version 1.2 with no further try.
ProxyIsRecovered ==
  missed \/
    /\ spec = "1.2" => lastCheck # "none"
    /\ (spec = "1.3" /\ lastCheck = "none" /\ \A q \in requests : ~q.awaited) =>
         \A k \in Kind :
           held[k] = [cn |-> held[k].cn, item |-> ItemAt(k, held[k].cn), legacy |-> FALSE]
=============================================================================
