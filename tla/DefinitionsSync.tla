--------------------------- MODULE DefinitionsSync ---------------------------
(***************************************************************************)
(* Feature flags and rule-based segments kept in step with the backend by  *)
(* periodic fetches and by notifications with or without a payload         *)
(* (src/sync/polling/updaters/definitionChangesUpdater.ts, the workers of  *)
(* module DefinitionsWorker, in-memory caches of src/storages).            *)
(*                                                                         *)
(* The backend keeps a log of changes. A CDN answers with the state after  *)
(* any prefix of it that is not older than what was asked for. Only        *)
(* requests and timers interrupt the code: what follows an answer, up to   *)
(* the next request, runs in microtasks before anything else.              *)
(***************************************************************************)
EXTENDS DefinitionsWorker, FiniteSets, FiniteSetsExt

CONSTANTS
  Flags, RBSegments,
  Uses,          \* the rule-based segments the conditions of a flag refer to
  RetriesBeforeReady, \* retriesOnFailureBeforeReady
  MayStop,       \* whether streaming is stopped
  MaxChanges,    \* bound: changes on the backend
  MaxQueue,      \* bound: executions queued when one more is due by polling
  MaxFailures    \* bound: requests that fail

Names == Flags \cup RBSegments

ASSUME DefinitionsAssumption ==
  /\ Flags \cap RBSegments = {}
  /\ Uses \in [Flags -> SUBSET RBSegments]
  /\ {RetriesBeforeReady, MaxChanges, MaxQueue, MaxFailures} \subseteq Nat
  /\ MayStop \in BOOLEAN

VARIABLES
  log,        \* the names that changed on the backend, in order
  cn,         \* the change number of each cache
  version,    \* the change each cached definition comes from, 0 if not cached
  worker,     \* of each kind
  chain,      \* executions of the sync task: the first runs, the others wait
  request,    \* the fetch in flight, if any
  startingUp, \* the flag of the updater
  failures,   \* requests that failed
  setBack     \* history: whether a payload has set a change number back

vars == <<log, cn, version, worker, chain, request, startingUp, failures, setBack>>

NoRequest == [since |-> [k \in Kinds |-> 0], floor |-> 0, retry |-> MaxFailures + 1]
Requests  == [since : [Kinds -> 0..MaxChanges], floor : 0..MaxChanges,
              retry : 0..MaxFailures]

TypeOK ==
  /\ log \in Seq(Names) /\ Len(log) <= MaxChanges
  /\ cn \in [Kinds -> 0..MaxChanges]
  /\ version \in [Names -> 0..MaxChanges]
  /\ worker \in [Kinds -> Workers]
  /\ chain \in Seq(Tasks)
  /\ request \in Requests \cup {NoRequest}
  /\ startingUp \in BOOLEAN
  /\ failures \in 0..MaxFailures
  /\ setBack \in BOOLEAN

Init ==
  /\ log = << >>
  /\ cn = [k \in Kinds |-> 0]
  /\ version = [x \in Names |-> 0]
  /\ worker = [k \in Kinds |-> NewWorker]
  /\ chain = << >>
  /\ request = NoRequest
  /\ startingUp = TRUE
  /\ failures = 0
  /\ setBack = FALSE

KindOf(x) == IF x \in Flags THEN "ff" ELSE "rbs"

\* The last change of a kind, or of a name, among the first v.
LastOf(k, v)   == Max({0} \cup {i \in 1..v : KindOf(log[i]) = k})
LatestOf(x, v) == Max({0} \cup {i \in 1..v : log[i] = x})

IsFetching == request # NoRequest

\* Neither code nor microtasks run: something else may happen.
Idle == chain = << >> \/ IsFetching
----------------------------------------------------------------------------
\* The head of the chain ends with the caches given: the worker that asked for
\* it goes on, and the next execution may begin.
Complete(cn2, version2) ==
  LET k == Head(chain).by
      h == Continue(k, worker[k], cn2[k], \A j \in Kinds : IsSync(worker[j], cn2[j]))
  IN /\ cn' = cn2
     /\ version' = version2
     /\ request' = NoRequest
     /\ IF k = "poll"
        THEN chain' = Tail(chain) /\ UNCHANGED worker
        ELSE /\ chain' = Tail(chain) \o h.calls
             /\ worker' = [worker EXCEPT ![k] = h.worker]

\* Mutant: the flags of a payload may refer to anything.
AlwaysContained(n) == TRUE

\* rbSegments.contains: a flag of a payload refers to nothing that is missing.
IsContained(n) ==
  log[n] \in Flags => \A r \in Uses[log[n]] : version[r] > 0

\* The execution at the head begins: a payload is applied, or a request is made.
Begin ==
  /\ ~Idle
  /\ LET n == Head(chain).instant IN
     IF n # 0 /\ IsContained(n)
     THEN /\ Complete([cn EXCEPT ![KindOf(log[n])] = n], [version EXCEPT ![log[n]] = n])
          /\ setBack' = (setBack \/ cn[KindOf(log[n])] > n)
          /\ startingUp' = FALSE
     ELSE /\ request' = [since |-> cn, floor |-> Len(log), retry |-> 0]
          /\ UNCHANGED <<cn, version, worker, chain, startingUp, setBack>>
  /\ UNCHANGED <<log, failures>>

\* The answer holds the state of the backend after v changes. With `till` it
\* cannot come from the CDN.
Answer(v) ==
  /\ IsFetching
  /\ IF Head(chain).till # 0
     THEN v >= request.floor
     ELSE \A k \in Kinds : LastOf(k, v) >= request.since[k]
  /\ Complete([k \in Kinds |-> LastOf(k, v)],
              [x \in Names |-> IF LatestOf(x, v) > request.since[KindOf(x)]
                               THEN LatestOf(x, v) ELSE version[x]])
  /\ startingUp' = FALSE
  /\ UNCHANGED <<log, failures, setBack>>

\* The request fails or, while starting up, times out.
Fail ==
  /\ IsFetching
  /\ failures < MaxFailures
  /\ failures' = failures + 1
  /\ IF startingUp /\ request.retry < RetriesBeforeReady
     THEN /\ request' = [request EXCEPT !.retry = @ + 1]
          /\ UNCHANGED <<cn, version, worker, chain, startingUp>>
     ELSE Complete(cn, version) /\ startingUp' = FALSE
  /\ UNCHANGED <<log, setBack>>
----------------------------------------------------------------------------
\* What the worker k does, with the executions it asks for.
Works(k, h) ==
  /\ worker' = [worker EXCEPT ![k] = h.worker]
  /\ chain' = chain \o h.calls
  /\ UNCHANGED <<log, cn, version, request, startingUp, failures, setBack>>

\* A notification of change n, perhaps late or repeated: pcn is the previous
\* change of its kind.
Notified(n, payload) ==
  /\ Idle
  /\ LET k == KindOf(log[n]) IN
     Works(k, Put(k, worker[k], cn[k], n, payload /\ cn[k] = LastOf(k, n - 1)))

BackoffFires(k) ==
  /\ Idle
  /\ worker[k].timer
  /\ Works(k, Retry(k, worker[k], cn[k]))

\* pushManager stops its workers.
StopWorkers ==
  /\ Idle
  /\ MayStop
  /\ worker' = [k \in Kinds |-> Stop(worker[k])]
  /\ UNCHANGED <<log, cn, version, chain, request, startingUp, failures, setBack>>

\* Periodic polling, or syncAll.
Poll ==
  /\ Idle
  /\ Len(chain) < MaxQueue
  /\ chain' = Append(chain, Periodic)
  /\ UNCHANGED <<log, cn, version, worker, request, startingUp, failures, setBack>>

\* Something changes on the backend, where flags use existing segments only.
ServerChanges(x) ==
  /\ Len(log) < MaxChanges
  /\ x \in Flags => \A r \in Uses[x] : LatestOf(r, Len(log)) > 0
  /\ log' = Append(log, x)
  /\ UNCHANGED <<cn, version, worker, chain, request, startingUp, failures, setBack>>

Next ==
  \/ Begin
  \/ \E v \in 0..Len(log) : Answer(v)
  \/ Fail
  \/ \E n \in 1..Len(log), payload \in BOOLEAN : Notified(n, payload)
  \/ \E k \in Kinds : BackoffFires(k)
  \/ StopWorkers
  \/ Poll
  \/ \E x \in Names : ServerChanges(x)

Spec == Init /\ [][Next]_vars

\* Code runs, requests end one way or the other, and timers fire; strongly, as
\* a timer that is due waits for the code that runs and for no more.
Fairness ==
  /\ WF_vars(Begin)
  /\ WF_vars(Fail \/ \E v \in 0..Len(log) : Answer(v))
  /\ \A k \in Kinds : SF_vars(BackoffFires(k))

FairSpec == Spec /\ Fairness
----------------------------------------------------------------------------
\* The test of put says of a payload that does not follow the change number of the
\* cache "Something was missed -> fetch split changes", and of one that does "In order
\* consecutive notifications arrived, apply updates normaly"
\* (DefinitionsUpdateWorker.spec.ts): no change that the change number covers is
\* missing from the cache. One is when a payload is applied, without a second look,
\* after fetches that were queued before it and brought the next change.
NothingWasMissed ==
  \A n \in 1..Len(log) : n <= cn[KindOf(log[n])] => version[log[n]] >= n

\* Nothing else makes the SDK miss a change, whatever the order of fetches, payloads
\* and stale answers, retries and stops: it takes a payload that comes so late that it
\* sets the change number back.
NoLostChange == setBack \/ NothingWasMissed

\* A cached flag refers to cached rule-based segments only, although flags and
\* segments are updated by different workers.
RefsResolved ==
  \A x \in Flags : version[x] > 0 => \A r \in Uses[x] : version[r] > 0

\* A worker that is done has what it was notified of, unless it was stopped. It
\* does not give up while fewer requests fail than it retries; only when it shares
\* its attempts with executions from before a stop may it take itself to be done
\* while it retries or while a request that bypasses the CDN is still to come.
DoneMeansSynced ==
  [][\A k \in Kinds :
       worker[k].handling /\ ~worker'[k].handling =>
         \/ IsSync(worker'[k], cn'[k])
         \/ worker'[k].timer
         \/ \E i \in DOMAIN chain' :
              chain'[i].by = k /\ chain'[i].till = worker'[k].max
         \/ StopWorkers]_vars

\* A busy worker is done in the end, however stale the answers of the CDN.
WorkEnds == \A k \in Kinds : worker[k].handling ~> ~worker[k].handling
=============================================================================
