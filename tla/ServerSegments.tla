--------------------------- MODULE ServerSegments ---------------------------
(***************************************************************************)
(* The segments of a server-side SDK: the polling manager                  *)
(* (src/sync/polling/pollingManagerSS.ts), the segments updater            *)
(* (updaters/segmentChangesUpdater.ts), whose executions fetch all         *)
(* registered segments at once, and the update worker of each segment      *)
(* (src/sync/streaming/UpdateWorkers/SegmentsUpdateWorker.ts). A change of *)
(* a segment adds or removes one key. Change numbers count from 1, and 0   *)
(* stands for -1 or undefined.                                             *)
(***************************************************************************)
EXTENDS Integers, Sequences, FiniteSetsExt

CONSTANTS
  Segment,     \* the segments the definitions use
  Member,      \* the keys that come and go
  MaxChanges,  \* bound: changes of all segments
  MaxRetries,  \* FETCH_BACKOFF_MAX_RETRIES
  MaxTasks,    \* bound: executions that wait when polling or definitions ask for one
  MaxLeft      \* bound: fetches in flight nobody waits for

ASSUME ServerSegmentsAssumption == {MaxChanges, MaxRetries, MaxTasks, MaxLeft} \subseteq Nat

VARIABLES
  log,         \* the changes of each segment: the key each one adds or removes
  cache,       \* change number and keys of each segment
  defsRunning, \* definitionsSyncTask.isRunning()
  starting,    \* whether the first execution of the definitions task has not ended
  segsRunning, \* segmentsSyncTask.isRunning()
  chain,       \* the executions of the segments task, the first one running
  fetches,     \* the fetches in flight
  abandoned,   \* history: whether an execution ever ended before its fetches
  worker       \* the update worker of each segment

serverVars == <<log, cache, defsRunning, starting, segsRunning, chain,
                fetches, abandoned, worker>>

NewWorker == [max |-> 0, newEvent |-> FALSE, handling |-> FALSE, bypass |-> FALSE,
              attempts |-> 0, timer |-> FALSE]

\* An execution by the worker of a segment, for all ("all") or for the new
\* segments ("new"), and whether its fetches were begun.
Execution(by, till) == [by |-> by, till |-> till, begun |-> FALSE]

\* A fetch: since which change, at least up to which, and whether the execution
\* that began it still waits for it.
Fetch(s, execution) ==
  [segment |-> s, since |-> cache[s].cn, till |-> execution.till, awaited |-> TRUE]

Latest(s) == Len(log[s])

\* The keys of a segment at a change: each change of a key adds or removes it.
Odd(n) == n % 2 = 1
KeysAt(s, n) == {m \in Member : Odd(Cardinality({i \in 1..n : log[s][i] = m}))}

ServerInit ==
  /\ log = [s \in Segment |-> << >>]
  /\ cache = [s \in Segment |-> [cn |-> 0, keys |-> {}]]
  /\ defsRunning = FALSE
  /\ starting = FALSE
  /\ segsRunning = FALSE
  /\ chain = << >>
  /\ fetches = {}
  /\ abandoned = FALSE
  /\ worker = [s \in Segment |-> NewWorker]

-----------------------------------------------------------------------------
(* The polling manager                                                      *)

fetching == <<log, cache, fetches, abandoned, worker>>

Execute(by, till) == chain' = Append(chain, Execution(by, till))

StartDefinitions ==
  /\ ~defsRunning
  /\ Len(chain) < MaxTasks
  /\ defsRunning' = TRUE
  /\ starting' = TRUE
  /\ UNCHANGED <<fetching, segsRunning, chain>>

StartSegments ==
  IF segsRunning THEN UNCHANGED <<segsRunning, chain>>
  ELSE segsRunning' = TRUE /\ Execute("all", 0)

\* The definitions task has executed for the first time since it was started.
DefinitionsStarted ==
  IF defsRunning THEN StartSegments ELSE UNCHANGED <<segsRunning, chain>>

\* An execution of the definitions task ends.
DefinitionsExecuted ==
  /\ starting
  /\ starting' = FALSE
  /\ DefinitionsStarted
  /\ UNCHANGED <<fetching, defsRunning>>

StopAllTasks ==
  /\ defsRunning
  /\ defsRunning' = FALSE
  /\ segsRunning' = FALSE
  /\ UNCHANGED <<fetching, starting, chain>>

\* A periodic execution, or the second half of syncAll.
PollSegments ==
  /\ Len(chain) < MaxTasks
  /\ Execute("all", 0)
  /\ UNCHANGED <<fetching, defsRunning, starting, segsRunning>>

\* Definitions updated by a notification: the segments not fetched yet are.
FetchNew ==
  /\ Len(chain) < MaxTasks
  /\ Execute("new", 0)
  /\ UNCHANGED <<fetching, defsRunning, starting, segsRunning>>

-----------------------------------------------------------------------------
(* The update worker of a segment                                           *)

ResetBackoff(w) == [w EXCEPT !.timer = FALSE, !.attempts = 0]
Idle(w) == [worker |-> w, calls |-> << >>]

\* __handleSegmentUpdateCall
Handle(s, w, cn) ==
  IF w.max <= cn THEN Idle([w EXCEPT !.handling = FALSE])
  ELSE [worker |-> [w EXCEPT !.handling = TRUE, !.newEvent = FALSE],
        calls |-> <<Execution(s, IF w.bypass THEN w.max ELSE 0)>>]

GoOn(s, w, cn) ==
  IF w.bypass THEN Idle([w EXCEPT !.handling = FALSE])
  ELSE Handle(s, [ResetBackoff(w) EXCEPT !.bypass = TRUE], cn)

Continue(s, w, cn) ==
  CASE ~w.handling -> Idle(w)
    [] w.handling /\ w.newEvent -> Handle(s, w, cn)
    [] w.handling /\ ~w.newEvent /\ w.max <= cn -> Idle([w EXCEPT !.handling = FALSE])
    [] w.handling /\ ~w.newEvent /\ w.max > cn /\ w.attempts + 1 < MaxRetries ->
         Idle([w EXCEPT !.timer = TRUE, !.attempts = @ + 1])
    [] OTHER -> GoOn(s, w, cn)

Put(s, w, n, cn) ==
  LET q == [w EXCEPT !.max = n, !.newEvent = TRUE, !.bypass = FALSE]
      h == IF w.timer \/ ~w.handling THEN Handle(s, q, cn) ELSE Idle(q)
  IN IF n <= cn \/ n <= w.max THEN Idle(w) ELSE [h EXCEPT !.worker = ResetBackoff(@)]

Apply(s, result) ==
  /\ worker' = [worker EXCEPT ![s] = result.worker]
  /\ chain' = chain \o result.calls

control == <<defsRunning, starting, segsRunning>>

\* A segment changes; the notification comes, or is lost.
SegmentChanges(s, m, heard) ==
  /\ FoldSet(LAMBDA x, n : n + Latest(x), 0, Segment) < MaxChanges
  /\ log' = [log EXCEPT ![s] = Append(@, m)]
  /\ IF heard THEN Apply(s, Put(s, worker[s], Latest(s) + 1, cache[s].cn))
     ELSE UNCHANGED <<worker, chain>>
  /\ UNCHANGED <<control, cache, fetches, abandoned>>

BackoffFires(s) ==
  /\ worker[s].timer
  /\ Apply(s, Handle(s, [worker[s] EXCEPT !.timer = FALSE], cache[s].cn))
  /\ UNCHANGED <<control, log, cache, fetches, abandoned>>

StopWorkers ==
  /\ worker' = [s \in Segment |-> ResetBackoff([worker[s] EXCEPT !.handling = FALSE])]
  /\ UNCHANGED <<control, log, cache, chain, fetches, abandoned>>

-----------------------------------------------------------------------------
(* The updater                                                              *)

Named(execution) ==
  CASE execution.by = "all" -> Segment
    [] execution.by = "new" -> {s \in Segment : cache[s].cn = 0}
    [] OTHER -> {execution.by}

Awaited == {f \in fetches : f.awaited}

\* Mutant: executions begin without waiting for the one before.
BeginAny ==
  \E i \in 1..Len(chain) :
    /\ ~chain[i].begun
    /\ chain' = [chain EXCEPT ![i].begun = TRUE]
    /\ fetches' = fetches \cup {Fetch(s, chain[i]) : s \in Named(chain[i])}
    /\ UNCHANGED <<control, log, cache, abandoned, worker>>

\* The first execution is begun: one fetch for each segment it names.
Begin ==
  /\ chain # << >> /\ ~Head(chain).begun
  /\ chain' = [chain EXCEPT ![1].begun = TRUE]
  /\ fetches' = fetches \cup {Fetch(s, Head(chain)) : s \in Named(Head(chain))}
  /\ UNCHANGED <<control, log, cache, abandoned, worker>>

\* The first execution ends and its caller goes on.
ExecutionEnds(stored) ==
  LET by == Head(chain).by
      result == IF by \in Segment THEN Continue(by, worker[by], stored[by].cn)
                ELSE Idle(NewWorker)
  IN /\ chain' = Tail(chain) \o result.calls
     /\ worker' = IF by \in Segment THEN [worker EXCEPT ![by] = result.worker] ELSE worker

\* Nothing to fetch.
EndsAtOnce ==
  /\ chain # << >> /\ Head(chain).begun /\ Awaited = {}
  /\ ExecutionEnds(cache)
  /\ UNCHANGED <<control, log, cache, fetches, abandoned>>

\* What the pages of an answer, up to change v, do to the segment.
Stored(f, v) ==
  LET touched == {log[f.segment][i] : i \in (f.since + 1)..v}
      added == touched \cap KeysAt(f.segment, v)
  IN [cn |-> v, keys |-> (cache[f.segment].keys \ touched) \cup added]

\* All pages of a fetch were received, from the CDN, which may lag behind.
FetchAnswered(f, v) ==
  /\ f \in fetches
  /\ {f.since, f.till} \subseteq 0..v
  /\ cache' = [cache EXCEPT ![f.segment] = Stored(f, v)]
  /\ fetches' = fetches \ {f}
  /\ IF Awaited = {f} THEN ExecutionEnds(cache') ELSE UNCHANGED <<chain, worker>>
  /\ UNCHANGED <<control, log, abandoned>>

\* A fetch fails and, if it was awaited, the execution with it: the other fetches
\* of the execution go on, and nobody waits for them.
SegmentFails(f) ==
  /\ f \in fetches
  /\ IF f.awaited
     THEN /\ fetches' = {[g EXCEPT !.awaited = FALSE] : g \in fetches \ {f}}
          /\ Cardinality(fetches) <= MaxLeft + 1
          /\ abandoned' = (abandoned \/ fetches # {f})
          /\ ExecutionEnds(cache)
     ELSE /\ fetches' = fetches \ {f}
          /\ UNCHANGED <<chain, worker, abandoned>>
  /\ UNCHANGED <<control, log, cache>>

-----------------------------------------------------------------------------
\* As long as no execution has ended before its fetches, the keys of a segment
\* are those of its change number: no two executions, whoever asked for them, work
\* on one segment at a time.
SegmentIsExact ==
  abandoned \/ \A s \in Segment : cache[s].keys = KeysAt(s, cache[s].cn)
=============================================================================
