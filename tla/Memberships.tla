----------------------------- MODULE Memberships -----------------------------
(***************************************************************************)
(* The memberships of the clients of a factory: the notifications of       *)
(* src/sync/streaming/pushManager.ts, the workers of every client, its     *)
(* sync task, which runs executions one after the other, its updater and   *)
(* its two caches. The segments a client is in are the changes, numbered   *)
(* from 1, that were applied to it. Server, CDN and timers are external.   *)
(***************************************************************************)
EXTENDS MembershipsWorker, SequencesExt

CONSTANTS
  Key,        \* the matching keys, one client each
  Main,       \* the one of the factory's own client
  MaxChanges  \* bound: changes of the server

ASSUME MembershipsAssumption == Main \in Key /\ MaxChanges \in Nat

VARIABLES
  changes,  \* how many changes there were
  truth,    \* the changes of each kind that concern each client
  workers,  \* their pairs of workers
  tasks,    \* the executions of their sync tasks, the first one running
  cache     \* the two caches of each: change number and changes applied

membershipsVars == <<changes, truth, workers, tasks, cache>>

MembershipsTypeOK ==
  /\ changes \in 0..MaxChanges
  /\ truth \in [Key -> [Kinds -> SUBSET (1..MaxChanges)]]
  /\ \A k \in Key :
       /\ workers[k].work \in [Kinds -> Workers]
       /\ workers[k].armed \in Timers \cup {NoTimer}
       /\ workers[k].orphans \subseteq Timers
       /\ tasks[k] \in Seq(Tasks)
  /\ cache \in [Key -> [Kinds -> [cn : 0..MaxChanges, has : SUBSET (1..MaxChanges)]]]

MembershipsInit ==
  /\ changes = 0
  /\ truth = [k \in Key |-> [t \in Kinds |-> {}]]
  /\ workers = [k \in Key |-> NewClient]
  /\ tasks = [k \in Key |-> << >>]
  /\ cache = [k \in Key |-> [t \in Kinds |-> [cn |-> 0, has |-> {}]]]

-----------------------------------------------------------------------------
Running(k) == tasks[k] # << >>
RunsPayload(queue) == queue # << >> /\ Head(queue).payload # 0

\* A payload needs no request: its execution ends before anything else happens.
NothingToSettle == \A k \in Key : ~RunsPayload(tasks[k])

\* The cache after an execution with a payload is begun (resetSegments with what
\* was added and removed).
Instantly(stored, task) ==
  [stored EXCEPT ![task.by] = [cn |-> task.payload, has |-> @.has \cup {task.payload}]]

\* The first of the executions that wait, if any, is begun.
Begin(stored, was, queue) ==
  IF was # queue /\ RunsPayload(queue) THEN Instantly(stored, Head(queue)) ELSE stored

\* execute, on the sync task of a client whose executions are `was`.
Enqueue(was, calls) == was \o calls
AfterCalls(stored, was, calls) ==
  IF was = << >> THEN Begin(stored, was, calls) ELSE stored

\* The workers of every client look at the caches of the main one.
LookedAt(stored, t) == stored[Main][t].cn

\* What a function of the workers of client k does to the whole.
Apply(k, result) ==
  /\ workers' = [workers EXCEPT ![k] = result.client]
  /\ tasks' = [tasks EXCEPT ![k] = Enqueue(@, result.calls)]
  /\ cache' = [cache EXCEPT ![k] = AfterCalls(@, tasks[k], result.calls)]

-----------------------------------------------------------------------------
(* handleMySegmentsUpdate                                                   *)

\* Change n of kind t is put to the clients R, those of D with a delay: first to
\* the main client, whose cache may change at once, then to the others.
Dispatch(t, n, R, payload, D) ==
  LET first == Put(workers[Main], t, n, payload, Main \in D, LookedAt(cache, t))
      main  == IF Main \in R THEN first ELSE Idle(workers[Main])
      stored == [cache EXCEPT ![Main] = AfterCalls(@, tasks[Main], main.calls)]
      result == [k \in Key |->
        CASE k = Main -> main
          [] k # Main /\ k \in R ->
               Put(workers[k], t, n, payload, k \in D, LookedAt(stored, t))
          [] OTHER -> Idle(workers[k])]
  IN /\ workers' = [k \in Key |-> result[k].client]
     /\ tasks' = [k \in Key |-> Enqueue(tasks[k], result[k].calls)]
     /\ cache' = [k \in Key |-> AfterCalls(cache[k], tasks[k], result[k].calls)]

Changed(t, S) ==
  /\ NothingToSettle
  /\ changes < MaxChanges
  /\ changes' = changes + 1
  /\ truth' = [k \in Key |-> [truth[k] EXCEPT ![t] = IF k \in S THEN @ \cup {changes + 1} ELSE @]]

\* KeyList, to the keys it lists, and SegmentRemoval, to all.
InstantUpdate(t, S) ==
  /\ Changed(t, S)
  /\ Dispatch(t, changes + 1, S, TRUE, {})

\* BoundedFetchRequest, to the keys of its bitmap.
BoundedFetchRequest(t, S, D) ==
  /\ Changed(t, S)
  /\ D \subseteq S
  /\ Dispatch(t, changes + 1, S, FALSE, D)

\* UnboundedFetchRequest, and what cannot be parsed: to all.
UnboundedFetchRequest(t, S, D) ==
  /\ Changed(t, S)
  /\ Dispatch(t, changes + 1, Key, FALSE, D)

\* A change whose notification is lost.
Unheard(t, S) ==
  /\ Changed(t, S)
  /\ UNCHANGED <<workers, tasks, cache>>

-----------------------------------------------------------------------------
(* Executions, timers and the rest of the SDK.                              *)

\* The first execution ends, with result ok, and the next one begins.
Done(k, ok, stored) ==
  LET task == Head(tasks[k])
      cn == LookedAt([cache EXCEPT ![k] = stored], task.by)
      result == IF task.by = "poll" THEN Idle(workers[k])
                ELSE Continue(workers[k], task.by, ok, task.target, cn)
      queue == Tail(tasks[k]) \o result.calls
  IN /\ workers' = [workers EXCEPT ![k] = result.client]
     /\ tasks' = [tasks EXCEPT ![k] = queue]
     /\ cache' = [cache EXCEPT ![k] = Begin(stored, << >>, queue)]
     /\ UNCHANGED <<changes, truth>>

PayloadSettles(k) == RunsPayload(tasks[k]) /\ Done(k, TRUE, cache[k])

\* An answer of the CDN may be old, but not older than what was asked for.
Version(k, t, v) ==
  LET has == truth[k][t] \cap (1..v) IN [cn |-> Max(has \cup {0}), has |-> has]

Answered(k, v) ==
  /\ Running(k) /\ NothingToSettle
  /\ Head(tasks[k]).till <= v
  /\ Done(k, TRUE, [t \in Kinds |-> Version(k, t, v)])

Failed(k) ==
  /\ Running(k) /\ NothingToSettle
  /\ Done(k, FALSE, cache[k])

Delays(k) == (workers[k].orphans \cup {workers[k].armed}) \ {NoTimer}

DelayPasses(k, d) ==
  /\ NothingToSettle
  /\ Apply(k, DelayElapses(workers[k], d))
  /\ UNCHANGED <<changes, truth>>

BackoffPasses(k, t) ==
  /\ NothingToSettle
  /\ workers[k].work[t].timer
  /\ Apply(k, Retry(workers[k], t, LookedAt(cache, t)))
  /\ UNCHANGED <<changes, truth>>

\* Polling, syncAll and the first fetch of a shared client.
Poll(k) ==
  /\ NothingToSettle
  /\ Periodic \notin ToSet(tasks[k])
  /\ tasks' = [tasks EXCEPT ![k] = Append(@, Periodic)]
  /\ UNCHANGED <<changes, truth, workers, cache>>

\* stopWorkers, when streaming goes down or is disconnected.
StopWorkers ==
  /\ NothingToSettle
  /\ workers' = [k \in Key |-> Stop(workers[k])]
  /\ UNCHANGED <<changes, truth, tasks, cache>>

Responds(k) ==
  \/ PayloadSettles(k)
  \/ Failed(k)
  \/ \E v \in 0..changes : Answered(k, v)

TimerFires(k) ==
  \/ \E d \in Delays(k) : DelayPasses(k, d)
  \/ \E t \in Kinds : BackoffPasses(k, t)

-----------------------------------------------------------------------------
Work(k, t) == workers[k].work[t]

Queued(k, t) == \E i \in 1..Len(tasks[k]) : tasks[k][i].by = t

\* An event that was taken on, by a worker nothing has stopped since, is being
\* executed, waits for a delay or waits for a retry, until it is done or given up:
\* whatever else the other worker of the client, polling or a late answer do.
TargetIsPursued ==
  \A k \in Key, t \in Kinds :
    Work(k, t).owed # 0 =>
      /\ Work(k, t).handling
      /\ Queued(k, t) \/ Work(k, t).timer \/ (\E d \in Delays(k) : d.by = t)

\* A worker of the main client that is done with an event has its change, or a
\* later one, in the cache: what was fetched, not what was asked for, decides,
\* unless the answer has no change number or an instant update from before a stop
\* is applied on top of it.
GaveUp(k, t) == Work(k, t).bypass /\ Work(k, t).attempts + 1 >= MaxRetries
DoneMeansFresh ==
  [][\A t \in Kinds :
       Work(Main, t).owed # 0 /\ Work(Main, t)'.owed = 0 =>
         \/ cache'[Main][t].cn >= Work(Main, t).owed
         \/ cache'[Main][t].cn = 0
         \/ RunsPayload(tasks'[Main])
         \/ GaveUp(Main, t)
         \/ StopWorkers]_membershipsVars

\* No retry or delayed fetch is for ever: every event is done with in the end.
EventsAreDone ==
  \A k \in Key, t \in Kinds : (Work(k, t).owed # 0) ~> (Work(k, t).owed = 0)
=============================================================================
