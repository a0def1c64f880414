---------------------------- MODULE ClientPolling ----------------------------
(***************************************************************************)
(* The polling manager of a client-side SDK                                *)
(* (src/sync/polling/pollingManagerCS.ts): one task for the definitions,   *)
(* one per client for its memberships, which are only polled while some    *)
(* definition uses segments ("smart pausing"), and clients that need none  *)
(* are made ready without them ("smart ready"). With the updaters of the   *)
(* memberships (updaters/mySegmentsUpdater.ts) and what the sync manager   *)
(* does with them. Definitions are reduced to whether they use segments.   *)
(***************************************************************************)
EXTENDS Naturals

CONSTANTS
  Key,       \* the matching keys, one client each
  Main,      \* the one of the factory's own client
  Retries,   \* retriesOnFailureBeforeReady
  MaxQueue   \* bound: executions of one sync task that wait

ASSUME ClientPollingAssumption ==
  /\ Main \in Key
  /\ {Retries, MaxQueue} \subseteq Nat

VARIABLES
  tasks,      \* mySegmentsSyncTasks, by matching key
  polling,    \* definitionsSyncTask.isRunning()
  running,    \* isRunning() of the memberships tasks
  uses,       \* usesSegmentsSync(storage)
  announced,  \* whether SDK_DEFINITIONS_ARRIVED followed the last change of uses
  defsArrived,\* whether it was emitted ever
  queue,      \* the executions of each memberships task that have not ended
  retry,      \* the attempts of the first of them that failed
  startingUp, \* of each memberships updater
  smart,      \* how smartReady of each client is to be called
  arrived     \* the clients whose SDK_SEGMENTS_ARRIVED was emitted

clientVars == <<tasks, polling, running, uses, announced, defsArrived, queue, retry,
                startingUp, smart, arrived>>

ClientTypeOK ==
  /\ tasks \in SUBSET Key
  /\ {polling, uses, announced, defsArrived} \subseteq BOOLEAN
  /\ running \in [Key -> BOOLEAN]
  /\ queue \in [Key -> Nat]
  /\ retry \in [Key -> 0..Retries]
  /\ startingUp \in [Key -> BOOLEAN]
  /\ smart \in [Key -> {"none", "timer", "once"}]
  /\ arrived \in SUBSET Key

\* Mutant: a client added before there are definitions does not wait for them.
ScheduledNow == "timer"

\* How smartReady is scheduled when a client is added.
Scheduled == IF uses THEN "once" ELSE "timer"

\* With nothing stored the change number is -1, and segments count as used.
ClientInit ==
  /\ tasks = {Main}
  /\ polling = FALSE
  /\ running = [k \in Key |-> FALSE]
  /\ uses = TRUE
  /\ announced = TRUE
  /\ defsArrived = FALSE
  /\ queue = [k \in Key |-> 0]
  /\ retry = [k \in Key |-> 0]
  /\ startingUp = [k \in Key |-> TRUE]
  /\ smart = [k \in Key |-> IF k = Main THEN "once" ELSE "none"]
  /\ arrived = {}

-----------------------------------------------------------------------------
\* start of the memberships tasks of S: those not running execute at once.
Start(S) ==
  /\ running' = [k \in Key |-> running[k] \/ k \in S]
  /\ queue' = [k \in Key |-> IF k \in S /\ ~running[k] THEN queue[k] + 1 ELSE queue[k]]

StopAll ==
  /\ running' = [k \in Key |-> running[k] /\ k \notin tasks]
  /\ UNCHANGED queue

Still == UNCHANGED <<running, queue>>

Bounded == \A k \in Key : queue'[k] <= MaxQueue

\* pollingManager.start. The execution of the definitions task is StoreDefinitions.
StartPolling ==
  /\ ~polling
  /\ polling' = TRUE
  /\ IF uses THEN Start(tasks) ELSE Still
  /\ Bounded
  /\ UNCHANGED <<tasks, uses, announced, defsArrived, retry, startingUp, smart, arrived>>

StopPolling ==
  /\ polling
  /\ polling' = FALSE
  /\ StopAll
  /\ UNCHANGED <<tasks, uses, announced, defsArrived, retry, startingUp, smart, arrived>>

SyncAll ==
  /\ queue' = [k \in Key |-> IF k \in tasks THEN queue[k] + 1 ELSE queue[k]]
  /\ Bounded
  /\ UNCHANGED <<tasks, polling, running, uses, announced, defsArrived, retry, startingUp, smart, arrived>>

\* A periodic execution of the task of client k.
Poll(k) ==
  /\ running[k] /\ queue[k] = 0
  /\ queue' = [queue EXCEPT ![k] = 1]
  /\ UNCHANGED <<tasks, polling, running, uses, announced, defsArrived, retry, startingUp, smart, arrived>>

\* `shared` of the sync manager: the client's task is added, and started if
\* polling, or executed if streaming.
AddClient(k) ==
  /\ k \notin tasks /\ queue[k] = 0
  /\ tasks' = tasks \cup {k}
  /\ smart' = [smart EXCEPT ![k] = Scheduled]
  /\ startingUp' = [startingUp EXCEPT ![k] = TRUE]
  /\ arrived' = arrived \ {k}
  /\ running' = [running EXCEPT ![k] = polling /\ uses]
  /\ queue' = [queue EXCEPT ![k] = IF polling /\ ~uses THEN 0 ELSE 1]
  /\ UNCHANGED <<polling, uses, announced, defsArrived, retry>>

\* `stop` of what shared returns; its listeners and executions are left.
RemoveClient(k) ==
  /\ k \in tasks \ {Main}
  /\ tasks' = tasks \ {k}
  /\ running' = [running EXCEPT ![k] = FALSE]
  /\ UNCHANGED <<polling, uses, announced, defsArrived, queue, retry, startingUp, smart, arrived>>

-----------------------------------------------------------------------------
(* Definitions                                                              *)

\* An execution of the definitions task stores definitions; when what they use
\* changes, the event follows in a later turn.
StoreDefinitions(u) ==
  /\ announced
  /\ uses' = u
  /\ announced' = (u = uses /\ defsArrived)
  /\ UNCHANGED <<tasks, polling, running, defsArrived, queue, retry, startingUp, smart, arrived>>

\* smartReady of the clients S.
SmartReady(S) == arrived' = IF uses THEN arrived ELSE arrived \cup S

Waiting(how) == {k \in Key : smart[k] = how}

\* Mutant: smart pausing does not look at what is running.
SmartPausingOnce ==
  IF polling /\ ~uses THEN StopAll ELSE Still

SmartPausingListener ==
  CASE polling /\ uses # running[Main] /\ uses -> Start(tasks)
    [] polling /\ uses # running[Main] /\ ~uses -> StopAll
    [] OTHER -> Still

\* SDK_DEFINITIONS_ARRIVED
AnnounceDefinitions ==
  /\ ~announced
  /\ announced' = TRUE
  /\ defsArrived' = TRUE
  /\ SmartReady(Waiting("once"))
  /\ smart' = [k \in Key |-> IF smart[k] = "once" THEN "none" ELSE smart[k]]
  /\ SmartPausingListener
  /\ Bounded
  /\ UNCHANGED <<tasks, polling, uses, retry, startingUp>>

SmartReadyTimer(k) ==
  /\ smart[k] = "timer"
  /\ smart' = [smart EXCEPT ![k] = "none"]
  /\ SmartReady({k})
  /\ UNCHANGED <<tasks, polling, running, uses, announced, defsArrived, queue, retry, startingUp>>

-----------------------------------------------------------------------------
(* Memberships                                                              *)

Ends(k) ==
  /\ queue' = [queue EXCEPT ![k] = @ - 1]
  /\ retry' = [retry EXCEPT ![k] = 0]
  /\ startingUp' = [startingUp EXCEPT ![k] = FALSE]
  /\ UNCHANGED <<tasks, polling, running, uses, announced, defsArrived, smart>>

\* The memberships were fetched: the first ones stored are announced, if used.
Fetched(k) ==
  /\ queue[k] > 0
  /\ Ends(k)
  /\ arrived' = IF uses THEN arrived \cup {k} ELSE arrived

\* They were not; before the first success or surrender, the fetch is retried.
FetchFails(k) ==
  /\ queue[k] > 0
  /\ IF startingUp[k] /\ retry[k] < Retries
     THEN /\ retry' = [retry EXCEPT ![k] = @ + 1]
          /\ UNCHANGED <<tasks, polling, running, uses, announced, defsArrived, queue, startingUp, smart, arrived>>
     ELSE Ends(k) /\ UNCHANGED arrived

-----------------------------------------------------------------------------
\* With the last change of the definitions announced, the memberships of every
\* client are polled exactly when definitions are and they use segments, however
\* clients came and went and polling was started and stopped in between.
PolledWhenUsed ==
  announced => \A k \in tasks : running[k] = (polling /\ uses)

\* A client that stays is given its memberships if polling and the use of segments
\* go on, and is told that it needs none if the definitions never use any. (If
\* they stop using them before its memberships were fetched, it may not be.)
ClientsArrive ==
  \A k \in Key :
    /\ <>[](k \in tasks /\ polling /\ uses) => <>[](k \in arrived)
    /\ [](defsArrived => ~uses) /\ <>[](k \in tasks /\ defsArrived) => <>[](k \in arrived)
=============================================================================
