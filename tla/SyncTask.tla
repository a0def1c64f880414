------------------------------ MODULE SyncTask ------------------------------
(***************************************************************************)
(* syncTaskFactory of src/sync/syncTask.ts: the engine under every poller  *)
(* and submitter of the SDK. Calls to `execute` are serialised by chaining *)
(* promises; `start` issues one call and, when it resolves, arms a timer   *)
(* that issues the next; `stop` clears the timer, and a counter of runs    *)
(* tells the continuation of an old run from that of the current one.      *)
(*                                                                         *)
(* One action per piece of code the event loop runs without interruption:  *)
(* a user call, a promise reaction, a timer callback. The task itself is   *)
(* external: it takes a while and, by its contract, never rejects.         *)
(***************************************************************************)
EXTENDS Naturals, Sequences, FiniteSets

CONSTANTS
  TimerId,   \* identifiers setTimeout may return
  NoTimer,   \* `undefined`
  MaxRuns,   \* bound: calls of start that take effect
  MaxQueue   \* bound: length of the chain at which explicit calls cease

ASSUME SyncTaskAssumption ==
  /\ NoTimer \notin TimerId
  /\ MaxRuns \in Nat
  /\ MaxQueue \in Nat

VARIABLES
  running,    \* the flag `running`
  runningId,  \* the counter `runningId`
  timeoutID,  \* the timer `timeoutID` names, pending or not
  executing,  \* the counter `executing`
  chained,    \* whether `promiseChain` is defined
  chain,      \* the calls not resolved yet, oldest first: the run that issued
              \* each, 0 for an explicit call of `execute`
  phase,      \* of the oldest call: "queued", "inFlight" or "settled"
  pending     \* timers set and neither fired nor cleared, each with its run

syncTaskVars == <<running, runningId, timeoutID, executing, chained, chain, phase, pending>>

Phase == {"queued", "inFlight", "settled"}

SyncTaskTypeOK ==
  /\ running \in BOOLEAN
  /\ runningId \in Nat
  /\ timeoutID \in TimerId \cup {NoTimer}
  /\ executing \in Nat
  /\ chained \in BOOLEAN
  /\ chain \in Seq(Nat)
  /\ phase \in Phase
  /\ pending \subseteq [id : TimerId, run : Nat]

SyncTaskInit ==
  /\ running = FALSE
  /\ runningId = 0
  /\ timeoutID = NoTimer
  /\ executing = 0
  /\ chained = FALSE
  /\ chain = <<>>
  /\ phase = "queued"
  /\ pending = {}

-----------------------------------------------------------------------------
(* Operations of the object.                                               *)

\* Body of `execute`: the first call ever runs the task synchronously; any
\* later one is a reaction of the chain, even when the chain has resolved.
Issue(run) ==
  /\ executing' = executing + 1
  /\ chain' = Append(chain, run)
  /\ phase' = IF chained THEN phase ELSE "inFlight"
  /\ chained' = TRUE

Execute ==
  /\ Len(chain) < MaxQueue
  /\ Issue(0)
  /\ UNCHANGED <<running, runningId, timeoutID, pending>>

\* Mutant: the first turn carries the id of the previous run.
StartWithOldId ==
  /\ ~running
  /\ runningId < MaxRuns
  /\ running' = TRUE
  /\ runningId' = runningId + 1
  /\ Issue(runningId)
  /\ UNCHANGED <<timeoutID, pending>>

Start ==
  /\ ~running
  /\ runningId < MaxRuns
  /\ running' = TRUE
  /\ runningId' = runningId + 1
  /\ Issue(runningId + 1)
  /\ UNCHANGED <<timeoutID, pending>>

Stop ==
  /\ running
  /\ running' = FALSE
  /\ pending' = {p \in pending : p.id # timeoutID}
  /\ timeoutID' = NoTimer
  /\ UNCHANGED <<runningId, executing, chained, chain, phase>>

-----------------------------------------------------------------------------
(* The event loop.                                                         *)

\* The reaction `promiseChain.then(() => task(...args))`.
Begin ==
  /\ phase = "queued"
  /\ chain # <<>>
  /\ phase' = "inFlight"
  /\ UNCHANGED <<running, runningId, timeoutID, executing, chained, chain, pending>>

\* The task's promise resolves, and `executing--` runs.
Settle ==
  /\ phase = "inFlight"
  /\ phase' = "settled"
  /\ executing' = executing - 1
  /\ UNCHANGED <<running, runningId, timeoutID, chained, chain, pending>>

\* setTimeout returns an identifier that nothing refers to any more.
Fresh == TimerId \ ({p.id : p \in pending} \cup {timeoutID})

\* Mutant: the continuation checks only one half of its condition.
RearmsAnyRun(run) == running
\* When a run is still current as its call resolves.
Rearms(run) == running /\ run = runningId

\* The reaction of periodicExecute, or of the caller of `execute`, which were
\* registered before the one that begins the next call of the chain.
Resolve ==
  /\ phase = "settled"
  /\ phase' = "queued"
  /\ chain' = Tail(chain)
  /\ IF Rearms(Head(chain))
     THEN \E t \in Fresh : /\ timeoutID' = t
                           /\ pending' = pending \cup {[id |-> t, run |-> Head(chain)]}
     ELSE UNCHANGED <<timeoutID, pending>>
  /\ UNCHANGED <<running, runningId, executing, chained>>

\* A timer fires: periodicExecute(currentRunningId), which checks no flag.
Elapse(p) ==
  /\ pending' = pending \ {p}
  /\ Issue(p.run)
  /\ UNCHANGED <<running, runningId, timeoutID>>

-----------------------------------------------------------------------------
(* Safety.                                                                 *)

\* A run has exactly one call in the chain.
HasTurn(run) ==
  \E i \in 1..Len(chain) : \A j \in 1..Len(chain) : chain[j] = run <=> j = i

\* isExecuting() is true exactly while some call has not settled: the counter
\* is neither lost by a restart nor counted twice by a timer.
ExecutingIsExact ==
  executing = Len(chain) - (IF phase = "settled" THEN 1 ELSE 0)

\* A started task neither dies nor doubles: its current run has exactly one
\* pending timer or exactly one call in the chain, whatever the sequence of
\* start, stop and start while older calls are still unresolved.
OneTurnPerRun ==
  running => \/ /\ \E p \in pending : pending = {p} /\ p.run = runningId
                /\ \A i \in 1..Len(chain) : chain[i] # runningId
             \/ pending = {} /\ HasTurn(runningId)

\* `stop` can always reach the timer: the pending one, if any, is that of the
\* current run and the one `timeoutID` names.
TimersAreReachable ==
  \A p \in pending : running /\ p.run = runningId /\ p.id = timeoutID

\* After `stop`, no timer is armed and no turn issued until the next `start`:
\* only explicit calls can join the chain.
StoppedMeansQuiet ==
  [][~running /\ ~running' =>
       /\ pending' = {}
       /\ Len(chain') > Len(chain) => chain'[Len(chain')] = 0]_syncTaskVars

(* Liveness.                                                               *)

\* A task left running is executed by its current run again and again.
KeepsPolling ==
  []<>(~running \/ (phase = "inFlight" /\ Head(chain) = runningId))

(* Refinement.                                                             *)

\* What the current run waits for.
Obligation ==
  IF ~running THEN "none" ELSE IF pending # {} THEN "period" ELSE "turn"

Abstract == INSTANCE PeriodicTask WITH obligation <- Obligation

\* A sync task keeps the promise of ISyncTask.
ImplementsPeriodicTask == Abstract!Spec
=============================================================================
