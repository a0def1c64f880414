----------------------------- MODULE TasksProofs -----------------------------
(***************************************************************************)
(* Proofs about module Tasks. SyncTask, for any number of timers, runs and  *)
(* queued calls: its invariants, and that it implements PeriodicTask.       *)
(* Submitter, for every kind of submitter, every queue size and every      *)
(* number of items, calls and stray timers.                                *)
(***************************************************************************)
EXTENDS Tasks, SequenceTheorems, TLAPS

\* The steps of each part, of which a step of a behaviour is one or none.
SyncTaskNext ==
  \/ Execute \/ Start \/ Stop \/ Begin \/ Settle \/ Resolve
  \/ \E p \in pending : Elapse(p)

SubmitterNext ==
  \/ PeriodElapses \/ WindowElapses \/ Skip \/ Post \/ Accept \/ Fail \/ Track
  \/ SyncStart \/ SyncStop \/ Grant \/ Decline \/ Flush \/ HidePage \/ Destroy

LEMMA SyncTaskStarts == Init => SyncTaskInit
  BY DEF Init

LEMMA SubmitterStarts == Init => SubmitterInit
  BY DEF Init

LEMMA SyncTaskStep == [Next]_vars => [SyncTaskNext]_syncTaskVars
  BY DEF Next, vars, SyncTaskNext, Task, Submits, syncTaskVars

LEMMA SubmitterStep == [Next]_vars => [SubmitterNext]_submitterVars
  BY DEF Next, vars, SubmitterNext, Task, Submits, submitterVars

-----------------------------------------------------------------------------
(* SyncTask                                                                 *)


\* An oldest call that was begun is in the chain, and only the first call ever
\* finds no chain to join.
ChainShape ==
  /\ phase # "queued" => chain # <<>>
  /\ ~chained => chain = <<>> /\ phase = "queued"

\* Every call in the chain was issued by a run that has been started.
RunsAreStarted == \A i \in 1..Len(chain) : chain[i] <= runningId

\* The inductive invariant. OneTurnPerRun alone is not inductive: a stale timer
\* could issue a turn, and a call of a future run could double it.
SyncTaskInv ==
  /\ SyncTaskTypeOK
  /\ ChainShape
  /\ RunsAreStarted
  /\ running => runningId > 0
  /\ ExecutingIsExact
  /\ TimersAreReachable
  /\ OneTurnPerRun

(* What Append and Tail do to the entries of a chain.                      *)
LEMMA AppendFacts ==
  ASSUME NEW c \in Seq(Nat), NEW r \in Nat
  PROVE  /\ Append(c, r) \in Seq(Nat)
         /\ Len(Append(c, r)) = Len(c) + 1
         /\ Append(c, r) # <<>>
         /\ \A i \in 1..Len(c) : Append(c, r)[i] = c[i]
         /\ Append(c, r)[Len(c) + 1] = r
  OBVIOUS

LEMMA TailFacts ==
  ASSUME NEW c \in Seq(Nat), c # <<>>
  PROVE  /\ Tail(c) \in Seq(Nat)
         /\ Head(c) \in Nat
         /\ Head(c) = c[1]
         /\ Len(c) \in Nat /\ Len(c) >= 1
         /\ Len(Tail(c)) = Len(c) - 1
         /\ \A i \in 1..Len(Tail(c)) : Tail(c)[i] = c[i + 1]
  OBVIOUS

-----------------------------------------------------------------------------
(* The inductive invariant holds initially.                                *)
LEMMA SyncTaskInitInv == SyncTaskInit => SyncTaskInv
<1> SUFFICES ASSUME SyncTaskInit PROVE SyncTaskInv
  OBVIOUS
<1>1. chain = <<>> /\ Len(chain) = 0 /\ chain \in Seq(Nat)
  BY DEF SyncTaskInit
<1>2. SyncTaskTypeOK
  BY <1>1 DEF SyncTaskInit, SyncTaskTypeOK, Phase
<1>3. RunsAreStarted
  BY <1>1 DEF RunsAreStarted
<1>4. ExecutingIsExact
  BY <1>1 DEF SyncTaskInit, ExecutingIsExact
<1>. QED
  BY <1>1, <1>2, <1>3, <1>4
  DEF SyncTaskInit, SyncTaskInv, ChainShape, TimersAreReachable, OneTurnPerRun

(* What a step that issues a call does to the chain and its counters.      *)
Joins(run) ==
  /\ chain' \in Seq(Nat)
  /\ Len(chain) \in Nat
  /\ Len(chain') = Len(chain) + 1
  /\ \A i \in 1..Len(chain) : chain'[i] = chain[i]
  /\ chain'[Len(chain) + 1] = run
  /\ executing' \in Nat
  /\ chained' = TRUE
  /\ phase' \in Phase
  /\ ChainShape'
  /\ ExecutingIsExact'

LEMMA IssueFacts ==
  ASSUME SyncTaskInv, NEW run \in Nat, Issue(run)
  PROVE  Joins(run)
<1>1. chain \in Seq(Nat) /\ chain' = Append(chain, run) /\ Len(chain) \in Nat
  BY DEF SyncTaskInv, SyncTaskTypeOK, Issue
<1>2. /\ chain' \in Seq(Nat)
      /\ Len(chain') = Len(chain) + 1
      /\ chain' # <<>>
      /\ \A i \in 1..Len(chain) : chain'[i] = chain[i]
      /\ chain'[Len(chain) + 1] = run
  BY <1>1, AppendFacts
<1>3. executing' = executing + 1 /\ executing \in Nat /\ phase \in Phase
      /\ executing' \in Nat
  BY DEF SyncTaskInv, SyncTaskTypeOK, Issue
<1>4. phase' = (IF chained THEN phase ELSE "inFlight") /\ chained' = TRUE
  BY DEF Issue
<1>5. ~chained => phase = "queued"
  BY DEF SyncTaskInv, ChainShape
<1>6. (phase' = "settled") <=> (phase = "settled")
  BY <1>4, <1>5
<1>7. executing = Len(chain) - (IF phase = "settled" THEN 1 ELSE 0)
  BY DEF SyncTaskInv, ExecutingIsExact
<1>8. executing' = Len(chain') - (IF phase' = "settled" THEN 1 ELSE 0)
  BY <1>1, <1>2, <1>3, <1>6, <1>7
<1>9. ChainShape'
  BY <1>2, <1>4 DEF ChainShape
<1>10. phase' \in Phase
  BY <1>3, <1>4 DEF Phase
<1>11. executing' \in Nat
  BY <1>3
<1>. QED
  BY <1>1, <1>2, <1>4, <1>8, <1>9, <1>10, <1>11 DEF ExecutingIsExact, Joins

(* The turn of a run that had none in the chain is the call just issued.   *)
LEMMA NewTurn ==
  ASSUME NEW run \in Nat, Joins(run), \A i \in 1..Len(chain) : chain[i] # run
  PROVE  \E i \in 1..Len(chain') : \A j \in 1..Len(chain') : chain'[j] = run <=> j = i
<1>1. Len(chain) + 1 \in 1..Len(chain')
  BY DEF Joins
<1>2. \A j \in 1..Len(chain') : chain'[j] = run <=> j = Len(chain) + 1
  <2>1. SUFFICES ASSUME NEW j \in 1..Len(chain')
                 PROVE  chain'[j] = run <=> j = Len(chain) + 1
    OBVIOUS
  <2>2. j \in 1..Len(chain) \/ j = Len(chain) + 1
    <3>1. Len(chain) \in Nat /\ Len(chain') = Len(chain) + 1
      BY DEF Joins
    <3>. QED
      BY <3>1
  <2>3. CASE j \in 1..Len(chain)
    BY <2>3 DEF Joins
  <2>4. CASE j = Len(chain) + 1
    BY <2>4 DEF Joins
  <2>. QED
    BY <2>2, <2>3, <2>4
<1>. QED
  BY <1>1, <1>2

(* The turn of a run stays where it is when another call joins.            *)
LEMMA OldTurn ==
  ASSUME NEW run \in Nat, NEW other \in Nat, other # run, Joins(other), HasTurn(run)
  PROVE  \E i \in 1..Len(chain') : \A j \in 1..Len(chain') : chain'[j] = run <=> j = i
<1>1. PICK i \in 1..Len(chain) : \A j \in 1..Len(chain) : chain[j] = run <=> j = i
  BY DEF HasTurn
<1>2. i \in 1..Len(chain')
  BY DEF Joins
<1>3. \A j \in 1..Len(chain') : chain'[j] = run <=> j = i
  <2>1. SUFFICES ASSUME NEW j \in 1..Len(chain')
                 PROVE  chain'[j] = run <=> j = i
    OBVIOUS
  <2>2. j \in 1..Len(chain) \/ j = Len(chain) + 1
    <3>1. Len(chain) \in Nat /\ Len(chain') = Len(chain) + 1
      BY DEF Joins
    <3>. QED
      BY <3>1
  <2>3. CASE j \in 1..Len(chain)
    BY <1>1, <2>3 DEF Joins
  <2>4. CASE j = Len(chain) + 1
    BY <2>4 DEF Joins
  <2>. QED
    BY <2>2, <2>3, <2>4
<1>. QED
  BY <1>2, <1>3

-----------------------------------------------------------------------------
(* One lemma per operation.                                                *)
LEMMA ExecuteKeeps == SyncTaskInv /\ Execute => SyncTaskInv'
<1> SUFFICES ASSUME SyncTaskInv, Execute PROVE SyncTaskInv'
  OBVIOUS
<1>1. Issue(0) /\ UNCHANGED <<running, runningId, timeoutID, pending>>
  BY DEF Execute
<1>2. Joins(0) /\ runningId \in Nat
  BY <1>1, IssueFacts DEF SyncTaskInv, SyncTaskTypeOK
<1>6. SyncTaskTypeOK'
  BY <1>1, <1>2 DEF SyncTaskInv, SyncTaskTypeOK, Joins
<1>3. RunsAreStarted'
  BY <1>1, <1>2 DEF SyncTaskInv, RunsAreStarted, Joins
<1>4. TimersAreReachable'
  BY <1>1 DEF SyncTaskInv, TimersAreReachable
<1>5. OneTurnPerRun'
  <2>1. running => runningId # 0
    BY <1>2 DEF SyncTaskInv
  <2>2. HasTurn(runningId) /\ running => HasTurn(runningId)'
    <3>1. SUFFICES ASSUME HasTurn(runningId), running PROVE HasTurn(runningId)'
      OBVIOUS
    <3>2. \E i \in 1..Len(chain') :
            \A j \in 1..Len(chain') : chain'[j] = runningId <=> j = i
      BY <1>2, <2>1, <3>1, OldTurn
    <3>. QED
      BY <1>1, <3>2 DEF HasTurn
  <2>3. (\A i \in 1..Len(chain) : chain[i] # runningId) /\ running
          => (\A i \in 1..Len(chain) : chain[i] # runningId)'
    BY <1>1, <1>2, <2>1 DEF Joins
  <2>. QED
    BY <1>1, <2>2, <2>3 DEF SyncTaskInv, OneTurnPerRun
<1>. QED
  BY <1>1, <1>2, <1>3, <1>4, <1>5, <1>6 DEF SyncTaskInv, Joins

LEMMA StartKeeps == SyncTaskInv /\ Start => SyncTaskInv'
<1> SUFFICES ASSUME SyncTaskInv, Start PROVE SyncTaskInv'
  OBVIOUS
<1> DEFINE run == runningId + 1
<1>1. /\ ~running /\ running' = TRUE
      /\ runningId' = run /\ Issue(run)
      /\ UNCHANGED <<timeoutID, pending>>
  BY DEF Start
<1>2. runningId \in Nat /\ run \in Nat /\ run > 0
  BY DEF SyncTaskInv, SyncTaskTypeOK
<1>3. Joins(run)
  BY <1>1, <1>2, IssueFacts
<1>4. \A i \in 1..Len(chain) : chain[i] \in Nat /\ chain[i] <= runningId
  BY DEF SyncTaskInv, RunsAreStarted, SyncTaskTypeOK
<1>5. SyncTaskTypeOK'
  BY <1>1, <1>2, <1>3 DEF SyncTaskInv, SyncTaskTypeOK, Joins
<1>6. RunsAreStarted'
  BY <1>1, <1>2, <1>3, <1>4 DEF RunsAreStarted, Joins
<1>7. pending' = {}
  BY <1>1 DEF SyncTaskInv, TimersAreReachable
<1>8. HasTurn(runningId)'
  <2>1. \A i \in 1..Len(chain) : chain[i] # run
    BY <1>2, <1>4
  <2>2. \E i \in 1..Len(chain') : \A j \in 1..Len(chain') : chain'[j] = run <=> j = i
    BY <1>2, <1>3, <2>1, NewTurn
  <2>. QED
    BY <1>1, <2>2 DEF HasTurn
<1>9. TimersAreReachable' /\ OneTurnPerRun'
  BY <1>7, <1>8 DEF TimersAreReachable, OneTurnPerRun
<1>. QED
  BY <1>1, <1>2, <1>3, <1>5, <1>6, <1>9 DEF SyncTaskInv, Joins

LEMMA StopKeeps == SyncTaskInv /\ Stop => SyncTaskInv'
<1> SUFFICES ASSUME SyncTaskInv, Stop PROVE SyncTaskInv'
  OBVIOUS
<1>1. pending' = {} /\ running' = FALSE
  BY DEF SyncTaskInv, TimersAreReachable, Stop
<1>. QED
  BY <1>1 DEF SyncTaskInv, SyncTaskTypeOK, ChainShape, RunsAreStarted, ExecutingIsExact,
              TimersAreReachable, OneTurnPerRun, Stop

LEMMA BeginKeeps == SyncTaskInv /\ Begin => SyncTaskInv'
  BY DEF SyncTaskInv, Begin, SyncTaskTypeOK, ChainShape, RunsAreStarted, ExecutingIsExact,
         TimersAreReachable, OneTurnPerRun, HasTurn, Phase

LEMMA SettleKeeps == SyncTaskInv /\ Settle => SyncTaskInv'
<1> SUFFICES ASSUME SyncTaskInv, Settle PROVE SyncTaskInv'
  OBVIOUS
<1>1. Len(chain) >= 1 /\ Len(chain) \in Nat
  BY TailFacts DEF SyncTaskInv, SyncTaskTypeOK, ChainShape, Settle
<1>2. executing = Len(chain) /\ executing' = Len(chain) - 1
  BY <1>1 DEF SyncTaskInv, ExecutingIsExact, Settle
<1>3. ExecutingIsExact'
  BY <1>2 DEF ExecutingIsExact, Settle
<1>4. SyncTaskTypeOK'
  BY <1>1, <1>2 DEF SyncTaskInv, SyncTaskTypeOK, Phase, Settle
<1>. QED
  BY <1>1, <1>3, <1>4
  DEF SyncTaskInv, ChainShape, RunsAreStarted, TimersAreReachable, OneTurnPerRun,
      HasTurn, Settle

LEMMA ResolveKeeps == SyncTaskInv /\ Resolve => SyncTaskInv'
<1> SUFFICES ASSUME SyncTaskInv, Resolve PROVE SyncTaskInv'
  OBVIOUS
<1> DEFINE run == Head(chain)
<1>1. /\ phase = "settled" /\ phase' = "queued" /\ chain' = Tail(chain)
      /\ UNCHANGED <<running, runningId, executing, chained>>
  BY DEF Resolve
<1>2. chain \in Seq(Nat) /\ chain # <<>> /\ runningId \in Nat /\ chained
  BY <1>1 DEF SyncTaskInv, SyncTaskTypeOK, ChainShape
<1>3. /\ chain' \in Seq(Nat)
      /\ run \in Nat /\ run = chain[1]
      /\ Len(chain) \in Nat /\ Len(chain) >= 1
      /\ Len(chain') = Len(chain) - 1
      /\ \A i \in 1..Len(chain') : chain'[i] = chain[i + 1]
  BY <1>1, <1>2, TailFacts
<1>4. ChainShape'
  BY <1>1, <1>2 DEF ChainShape
<1>5. RunsAreStarted'
  BY <1>1, <1>3 DEF SyncTaskInv, RunsAreStarted
<1>6. ExecutingIsExact'
  BY <1>1, <1>3 DEF SyncTaskInv, ExecutingIsExact
<1>7. CASE Rearms(run)
  <2>1. PICK t \in TimerId : /\ timeoutID' = t
                             /\ pending' = pending \cup {[id |-> t, run |-> run]}
    BY <1>7 DEF Resolve, Fresh
  <2>2. running /\ run = runningId
    BY <1>7 DEF Rearms
  <2>3. pending = {} /\ HasTurn(runningId)
    BY <1>3, <2>2 DEF SyncTaskInv, OneTurnPerRun
  <2>4. \A j \in 1..Len(chain) : chain[j] = runningId => j = 1
    BY <1>3, <2>2, <2>3 DEF HasTurn
  <2>5. ASSUME NEW i \in 1..Len(chain')
        PROVE  chain'[i] # runningId
    <3>1. i + 1 \in 1..Len(chain) /\ i + 1 # 1
      BY <1>3
    <3>2. chain[i + 1] # runningId
      BY <2>4, <3>1
    <3>. QED
      BY <1>3, <3>2
  <2>6. pending' = {[id |-> t, run |-> run]}
    BY <2>1, <2>3
  <2>7. SyncTaskTypeOK'
    BY <1>1, <1>3, <2>1, <2>6 DEF SyncTaskInv, SyncTaskTypeOK, Phase
  <2>8. TimersAreReachable' /\ OneTurnPerRun'
    <3> DEFINE p == [id |-> t, run |-> run]
    <3>1. p.id = t /\ p.run = run /\ pending' = {p}
      BY <2>6
    <3>. QED
      BY <1>1, <2>1, <2>2, <2>5, <3>1 DEF TimersAreReachable, OneTurnPerRun
  <2>. QED
    BY <1>1, <1>4, <1>5, <1>6, <2>7, <2>8 DEF SyncTaskInv
<1>8. CASE ~Rearms(run)
  <2>1. UNCHANGED <<timeoutID, pending>>
    BY <1>8 DEF Resolve
  <2>2. running => run # runningId
    BY <1>8 DEF Rearms
  <2>3. SyncTaskTypeOK'
    BY <1>1, <1>3, <2>1 DEF SyncTaskInv, SyncTaskTypeOK, Phase
  <2>4. TimersAreReachable'
    BY <1>1, <2>1 DEF SyncTaskInv, TimersAreReachable
  <2>5. running /\ HasTurn(runningId) => HasTurn(runningId)'
    <3>1. SUFFICES ASSUME running, HasTurn(runningId) PROVE HasTurn(runningId)'
      OBVIOUS
    <3>2. PICK i \in 1..Len(chain) :
                 \A j \in 1..Len(chain) : chain[j] = runningId <=> j = i
      BY <3>1 DEF HasTurn
    <3>3. i # 1
      BY <1>3, <2>2, <3>1, <3>2
    <3>4. i - 1 \in 1..Len(chain')
      BY <1>3, <3>2, <3>3
    <3>5. \A j \in 1..Len(chain') : chain'[j] = runningId <=> j = i - 1
      BY <1>3, <3>2
    <3>. QED
      BY <1>1, <3>4, <3>5 DEF HasTurn
  <2>6. OneTurnPerRun'
    BY <1>1, <1>3, <2>1, <2>5 DEF SyncTaskInv, OneTurnPerRun
  <2>. QED
    BY <1>1, <1>4, <1>5, <1>6, <2>3, <2>4, <2>6 DEF SyncTaskInv
<1>. QED
  BY <1>7, <1>8

LEMMA ElapseKeeps ==
  ASSUME SyncTaskInv, NEW p \in pending, Elapse(p)
  PROVE  SyncTaskInv'
<1>1. /\ pending' = pending \ {p} /\ Issue(p.run)
      /\ UNCHANGED <<running, runningId, timeoutID>>
  BY DEF Elapse
<1>2. running /\ p.run = runningId /\ runningId \in Nat
  BY DEF SyncTaskInv, TimersAreReachable, SyncTaskTypeOK
<1>3. Joins(runningId)
  BY <1>1, <1>2, IssueFacts
<1>4. pending = {p} /\ \A i \in 1..Len(chain) : chain[i] # runningId
  BY <1>2 DEF SyncTaskInv, OneTurnPerRun
<1>5. pending' = {}
  BY <1>1, <1>4
<1>6. SyncTaskTypeOK'
  BY <1>1, <1>2, <1>3, <1>5 DEF SyncTaskInv, SyncTaskTypeOK, Joins
<1>7. RunsAreStarted'
  BY <1>1, <1>2, <1>3 DEF SyncTaskInv, RunsAreStarted, Joins
<1>8. HasTurn(runningId)'
  BY <1>1, <1>2, <1>3, <1>4, NewTurn DEF HasTurn
<1>9. TimersAreReachable' /\ OneTurnPerRun'
  BY <1>5, <1>8 DEF TimersAreReachable, OneTurnPerRun
<1>. QED
  BY <1>1, <1>2, <1>3, <1>6, <1>7, <1>9 DEF SyncTaskInv, Joins

(* Every step keeps the inductive invariant.                               *)
LEMMA SyncTaskNextInv == SyncTaskInv /\ [SyncTaskNext]_syncTaskVars => SyncTaskInv'
<1> SUFFICES ASSUME SyncTaskInv, [SyncTaskNext]_syncTaskVars PROVE SyncTaskInv'
  OBVIOUS
<1>1. CASE UNCHANGED syncTaskVars
  BY <1>1 DEF syncTaskVars, SyncTaskInv, SyncTaskTypeOK, ChainShape, RunsAreStarted, ExecutingIsExact,
              TimersAreReachable, OneTurnPerRun, HasTurn
<1>. QED
  BY <1>1, ExecuteKeeps, StartKeeps, StopKeeps, BeginKeeps, SettleKeeps,
     ResolveKeeps, ElapseKeeps DEF SyncTaskNext

LEMMA SyncTaskInvHolds == Spec => []SyncTaskInv
  BY SyncTaskInitInv, SyncTaskNextInv, SyncTaskStarts, SyncTaskStep, PTL DEF Spec

-----------------------------------------------------------------------------
(* Type correctness of the sync task.                                      *)
THEOREM SyncTaskTypeCorrect == Spec => []SyncTaskTypeOK
<1>1. SyncTaskInv => SyncTaskTypeOK
  BY DEF SyncTaskInv
<1>. QED
  BY <1>1, SyncTaskInvHolds, PTL

(* isExecuting() never lies: `executing` counts the calls not settled.     *)
THEOREM ExecutingCorrect == Spec => []ExecutingIsExact
<1>1. SyncTaskInv => ExecutingIsExact
  BY DEF SyncTaskInv
<1>. QED
  BY <1>1, SyncTaskInvHolds, PTL

(* Periodic execution neither dies nor doubles while the task is started.  *)
THEOREM PollingCorrect == Spec => []OneTurnPerRun
<1>1. SyncTaskInv => OneTurnPerRun
  BY DEF SyncTaskInv
<1>. QED
  BY <1>1, SyncTaskInvHolds, PTL

(* No timer escapes the reach of `stop`.                                   *)
THEOREM TimersCorrect == Spec => []TimersAreReachable
<1>1. SyncTaskInv => TimersAreReachable
  BY DEF SyncTaskInv
<1>. QED
  BY <1>1, SyncTaskInvHolds, PTL

(* After `stop`, nothing runs by itself until the next `start`.            *)
THEOREM StopCorrect == Spec => StoppedMeansQuiet
<1> DEFINE Quiet == ~running /\ ~running' =>
                      /\ pending' = {}
                      /\ Len(chain') > Len(chain) => chain'[Len(chain')] = 0
<1>1. SyncTaskInv /\ SyncTaskInv' /\ [SyncTaskNext]_syncTaskVars => [Quiet]_syncTaskVars
  <2>1. SUFFICES ASSUME SyncTaskInv, SyncTaskInv', SyncTaskNext, ~running, ~running'
                 PROVE  /\ pending' = {}
                        /\ Len(chain') > Len(chain) => chain'[Len(chain')] = 0
    OBVIOUS
  <2>2. pending' = {} /\ pending = {}
    BY <2>1 DEF SyncTaskInv, TimersAreReachable
  <2>3. CASE Execute
    <3>1. Joins(0)
      BY <2>1, <2>3, IssueFacts DEF Execute
    <3>. QED
      BY <2>2, <3>1 DEF Joins
  <2>4. CASE Start \/ Stop \/ Begin \/ Settle
    <3>1. chain' = chain /\ Len(chain) \in Nat
      BY <2>1, <2>4 DEF Start, Stop, Begin, Settle, SyncTaskInv, SyncTaskTypeOK
    <3>. QED
      BY <2>2, <3>1
  <2>5. CASE Resolve
    <3>1. chain \in Seq(Nat) /\ chain # <<>> /\ chain' = Tail(chain)
      BY <2>1, <2>5 DEF Resolve, SyncTaskInv, SyncTaskTypeOK, ChainShape
    <3>2. Len(chain) \in Nat /\ Len(chain') = Len(chain) - 1
      BY <3>1, TailFacts
    <3>. QED
      BY <2>2, <3>2
  <2>. QED
    BY <2>1, <2>2, <2>3, <2>4, <2>5 DEF SyncTaskNext
<1>. QED
  BY <1>1, SyncTaskInvHolds, SyncTaskStarts, SyncTaskStep, PTL DEF Spec, StoppedMeansQuiet

-----------------------------------------------------------------------------
(* A sync task implements PeriodicTask: its initial state maps to that of  *)
(* the abstract task, and every step to a step of it or to a stutter.      *)
THEOREM Refinement == Spec => ImplementsPeriodicTask
<1>1. SyncTaskInit => Abstract!Init
  BY DEF SyncTaskInit, Abstract!Init, Obligation
<1>2. SyncTaskInv /\ SyncTaskInv' /\ [SyncTaskNext]_syncTaskVars => [Abstract!Next]_(Abstract!pvars)
  <2> SUFFICES ASSUME SyncTaskInv, SyncTaskInv', [SyncTaskNext]_syncTaskVars
               PROVE  [Abstract!Next]_(Abstract!pvars)
    OBVIOUS
  <2>1. CASE UNCHANGED syncTaskVars
    BY <2>1 DEF syncTaskVars, Abstract!pvars, Obligation
  <2>2. CASE Execute
    BY <2>2 DEF Execute, Issue, Abstract!Next, Abstract!Call, Obligation
  <2>3. CASE Start
    <3>1. pending' = {}
      BY <2>3 DEF SyncTaskInv, TimersAreReachable, Start
    <3>. QED
      BY <2>3, <3>1 DEF Start, Issue, Abstract!Next, Abstract!Start, Obligation
  <2>4. CASE Stop
    BY <2>4 DEF Stop, Abstract!Next, Abstract!Stop, Obligation
  <2>5. CASE Begin
    BY <2>5 DEF Begin, Abstract!pvars, Obligation
  <2>6. CASE Settle
    <3>1. executing > 0
      <4>1. chain \in Seq(Nat) /\ chain # <<>>
        BY <2>6 DEF Settle, SyncTaskInv, SyncTaskTypeOK, ChainShape
      <4>2. Len(chain) \in Nat /\ Len(chain) >= 1
        BY <4>1, TailFacts
      <4>. QED
        BY <2>6, <4>2 DEF Settle, SyncTaskInv, ExecutingIsExact
    <3>. QED
      BY <2>6, <3>1 DEF Settle, Abstract!Next, Abstract!Settle, Obligation
  <2>7. CASE Resolve
    <3>1. CASE Rearms(Head(chain))
      <4>1. running /\ Head(chain) = runningId
        BY <3>1 DEF Rearms
      <4>2. chain \in Seq(Nat) /\ chain # <<>>
        BY <2>7 DEF Resolve, SyncTaskInv, SyncTaskTypeOK, ChainShape
      <4>3. pending = {}
        BY <4>1, <4>2, TailFacts DEF SyncTaskInv, OneTurnPerRun
      <4>4. pending' # {}
        BY <2>7, <3>1 DEF Resolve
      <4>. QED
        BY <2>7, <4>1, <4>3, <4>4
        DEF Resolve, Abstract!Next, Abstract!EndTurn, Obligation
    <3>2. CASE ~Rearms(Head(chain))
      BY <2>7, <3>2 DEF Resolve, Abstract!pvars, Obligation
    <3>. QED
      BY <3>1, <3>2
  <2>8. ASSUME NEW p \in pending, Elapse(p)
        PROVE  Abstract!Next
    <3>1. running /\ running' = running
      BY <2>8 DEF SyncTaskInv, TimersAreReachable, Elapse
    <3>2. pending = {p}
      BY <2>8, <3>1 DEF SyncTaskInv, OneTurnPerRun
    <3>3. pending' = {}
      BY <2>8, <3>2 DEF Elapse
    <3>. QED
      BY <2>8, <3>1, <3>2, <3>3
      DEF Elapse, Issue, Abstract!Next, Abstract!Elapse, Obligation
  <2>. QED
    BY <2>1, <2>2, <2>3, <2>4, <2>5, <2>6, <2>7, <2>8 DEF SyncTaskNext
<1>. QED
  BY <1>1, <1>2, SyncTaskInvHolds, SyncTaskStarts, SyncTaskStep, PTL
  DEF Spec, ImplementsPeriodicTask, Abstract!Spec

-----------------------------------------------------------------------------
(* Submitter                                                                *)

Call == {"turn", "call", "last"}

\* What is retained is exactly what is in flight, when anything is and a retry is
\* allowed; the cache holds items nothing else has seen.
Items ==
  /\ queue \cup data \cup posting \subseteq 1..tracked
  /\ kind.maxRetries = 0 => data = {}
  /\ posting # {} /\ kind.maxRetries > 0 => data = posting
  /\ queue \cap (data \cup posting \cup accepted) = {}
  /\ accepted \subseteq 1..tracked

\* The posts of an item, by where it is.
Attempts ==
  /\ \A i \in Item : i \in queue \/ i > tracked => attempts[i] = 0
  /\ \A i \in Item : i \in posting => attempts[i] <= retries + 1
  /\ \A i \in Item : i \in data /\ posting = {} => attempts[i] <= retries

\* A post is the work of the oldest call; only destroy makes the last call, once,
\* and nothing is tracked after it.
Calls ==
  /\ posting # {} => taskCalls # <<>>
  /\ \A n \in 1..Len(taskCalls) : taskCalls[n] = "last" => sdk = "destroying"
  /\ \A m, n \in 1..Len(taskCalls) : taskCalls[m] = "last" /\ taskCalls[n] = "last" => m = n
  /\ posting # {} /\ taskCalls[1] = "last" => queue = {}

\* Nothing of a submitter that needs consent moves before the user answers, and
\* its cache is empty once the user declined.
Consent ==
  /\ kind.optional /\ consent = "UNKNOWN" =>
       /\ ~started /\ ~window /\ strays = 0 /\ ~taskRunning /\ ~timer
       /\ taskCalls = <<>> /\ data = {}
       /\ sdk \notin {"destroying", "flushed"}
  /\ kind.optional /\ consent = "DECLINED" => queue = {}

SubmitterInv ==
  /\ SubmitterTypeOK
  /\ Items /\ NothingVanishes /\ SentOnce
  /\ Attempts /\ RetriesAreBounded
  /\ Calls /\ DestroyFlushes
  /\ Consent /\ UnknownOnlyQueues

-----------------------------------------------------------------------------
(* Types, the flags apart.                                                 *)

Flags == started \in BOOLEAN /\ window \in BOOLEAN /\ taskRunning \in BOOLEAN
           /\ timer \in BOOLEAN /\ taskCalled \in BOOLEAN /\ sync \in BOOLEAN

Sets ==
  /\ queue \subseteq Item /\ data \subseteq Item /\ posting \subseteq Item
  /\ accepted \subseteq Item /\ dropped \subseteq Item /\ doubtful \subseteq Item

Rest ==
  /\ kind \in Kinds
  /\ consent \in {"UNKNOWN", "GRANTED", "DECLINED"}
  /\ sdk \in {"idle", "running", "stopped", "destroying", "flushed", "closed"}
  /\ strays \in 0..MaxStrays
  /\ retries \in 0..kind.maxRetries
  /\ tracked \in 0..MaxTracked
  /\ attempts \in [Item -> Nat]

ChainOK == taskCalls \in Seq(Call)

LEMMA TypeParts == SubmitterTypeOK <=> Flags /\ Sets /\ Rest /\ ChainOK
BY DEF SubmitterTypeOK, Flags, Sets, Rest, ChainOK, Call

LEMMA FlagsPreserved ==
  ASSUME Flags, [SubmitterNext]_submitterVars
  PROVE  Flags'
<1> USE DEF Flags
<1>1. CASE PeriodElapses
  BY <1>1 DEF PeriodElapses, ByEvent, windowVars
<1>2. CASE WindowElapses
  BY <1>2 DEF WindowElapses, StartTask, ByEvent
<1>3. CASE Skip
  BY <1>3 DEF Skip, ResolveCall, ByReaction, windowVars
<1>4. CASE Post
  BY <1>4 DEF Post, ByReaction, windowVars, taskVars
<1>5. CASE Accept \/ Fail
  BY <1>5 DEF Accept, Fail, ResolveCall, ByEvent, windowVars
<1>7. CASE Track
  BY <1>7 DEF Track, ByUser, windowVars
<1>8. CASE SyncStart \/ Grant
  BY <1>8 DEF SyncStart, Grant, StartSubmitter, StartTask, ByUser, windowVars, taskVars
<1>9. CASE SyncStop \/ Decline \/ Destroy
  BY <1>9 DEF SyncStop, Decline, Destroy, StopSubmitter, StopTimers, ByUser, windowVars, taskVars
<1>12. CASE Flush
  BY <1>12 DEF Flush, ByUser, windowVars
<1>13. CASE HidePage
  BY <1>13 DEF HidePage, ByEvent, windowVars, taskVars
<1>15. CASE UNCHANGED submitterVars
  BY <1>15 DEF submitterVars, windowVars, taskVars, loopVars
<1>16. QED
  BY <1>1, <1>2, <1>3, <1>4, <1>5, <1>7, <1>8, <1>9, <1>12,
     <1>13, <1>15 DEF SubmitterNext

LEMMA SetsPreserved ==
  ASSUME Sets, Rest, [SubmitterNext]_submitterVars
  PROVE  Sets'
<1> USE DEF Sets
<1>1. CASE PeriodElapses \/ WindowElapses \/ Flush
  BY <1>1 DEF PeriodElapses, WindowElapses, Flush, history
<1>2. CASE Skip \/ Post
  BY <1>2 DEF Skip, Post, Payload, history
<1>3. CASE Accept
  BY <1>3 DEF Accept
<1>4. CASE Fail
  BY <1>4 DEF Fail
<1>5. CASE Track
  <2>1. tracked' \in Item
    BY <1>5, SubmitterAssumption DEF Track, Rest, Item
  <2>2. QED
    BY <1>5, <2>1 DEF Track
<1>6. CASE SyncStart \/ SyncStop \/ Grant \/ Destroy
  BY <1>6 DEF SyncStart, SyncStop, Grant, Destroy, history
<1>7. CASE Decline
  BY <1>7 DEF Decline
<1>8. CASE HidePage
  BY <1>8 DEF HidePage
<1>9. CASE UNCHANGED submitterVars
  BY <1>9 DEF submitterVars, history
<1>10. QED
  BY <1>1, <1>2, <1>3, <1>4, <1>5, <1>6, <1>7, <1>8, <1>9 DEF SubmitterNext

LEMMA RestPreserved ==
  ASSUME Rest, [SubmitterNext]_submitterVars
  PROVE  Rest'
<1> USE DEF Rest
<1>1. kind.maxRetries \in Nat /\ MaxTracked \in Nat /\ MaxStrays \in Nat
  BY SubmitterAssumption DEF KindType
<1>2. CASE PeriodElapses \/ Flush
  BY <1>2 DEF PeriodElapses, Flush, windowVars, history
<1>3. CASE WindowElapses
  BY <1>1, <1>3 DEF WindowElapses, history
<1>4. CASE Skip
  BY <1>4 DEF Skip, ResolveCall, windowVars, history
<1>5. CASE Post
  BY <1>5 DEF Post, windowVars
<1>6. CASE Accept
  BY <1>1, <1>6 DEF Accept, ResolveCall, windowVars
<1>7. CASE Fail
  BY <1>1, <1>7 DEF Fail, ResolveCall, Exhausted, windowVars
<1>8. CASE Track
  BY <1>1, <1>8 DEF Track, windowVars
<1>9. CASE SyncStart \/ Grant
  BY <1>1, <1>9 DEF SyncStart, Grant, StartSubmitter, windowVars, history
<1>10. CASE SyncStop \/ Destroy \/ Decline
  BY <1>10 DEF SyncStop, Destroy, Decline, StopSubmitter, StopTimers, windowVars, history
<1>11. CASE HidePage
  BY <1>11 DEF HidePage, windowVars
<1>12. CASE UNCHANGED submitterVars
  BY <1>12 DEF submitterVars, windowVars, history
<1>13. QED
  BY <1>2, <1>3, <1>4, <1>5, <1>6, <1>7, <1>8, <1>9, <1>10, <1>11, <1>12 DEF SubmitterNext

-----------------------------------------------------------------------------
(* What a step does to the chain of calls.                                 *)

\* `stop` keeps the calls of the chain, and destroy's last call among them.
LEMMA AbandonCalls ==
  ASSUME NEW calls \in Seq(Call)
  PROVE  /\ Abandon(calls) \in Seq(Call)
         /\ Len(Abandon(calls)) = Len(calls)
         /\ \A n \in 1..Len(calls) : Abandon(calls)[n] = "last" <=> calls[n] = "last"
<1>1. Len(calls) \in Nat /\ DOMAIN calls = 1..Len(calls)
  OBVIOUS
<1>2. \A n \in 1..Len(calls) : calls[n] \in Call
  OBVIOUS
<1>3. Abandon(calls) \in [1..Len(calls) -> Call]
  BY <1>1, <1>2 DEF Abandon, Call
<1>4. Abandon(calls) \in Seq(Call)
  BY <1>1, <1>3
<1>5. Len(Abandon(calls)) = Len(calls)
  BY <1>1, <1>3, <1>4
<1>6. \A n \in 1..Len(calls) : Abandon(calls)[n] = "last" <=> calls[n] = "last"
  BY <1>1 DEF Abandon
<1>7. QED
  BY <1>4, <1>5, <1>6

\* How the chain of calls may change, "last" being all that matters of a call.
SameCalls == \A n \in 1..Len(taskCalls) : taskCalls'[n] = "last" <=> taskCalls[n] = "last"
Keeps == Len(taskCalls') = Len(taskCalls) /\ SameCalls
Grows == Len(taskCalls') = Len(taskCalls) + 1 /\ SameCalls
Shrinks ==
  /\ taskCalls # <<>>
  /\ Len(taskCalls') = Len(taskCalls) - 1
  /\ \A n \in 1..Len(taskCalls') : taskCalls'[n] = taskCalls[n + 1]

LEMMA OneMoreCall ==
  ASSUME ChainOK, NEW call \in Call, taskCalls' = Append(taskCalls, call)
  PROVE  ChainOK' /\ Grows /\ taskCalls'[Len(taskCalls')] = call
BY AppendProperties DEF ChainOK, Grows, SameCalls

LEMMA CallsKept ==
  ASSUME ChainOK, UNCHANGED taskCalls \/ taskCalls' = Abandon(taskCalls)
  PROVE  ChainOK' /\ Keeps
BY AbandonCalls DEF ChainOK, Keeps, SameCalls

LEMMA OldestCallEnds ==
  ASSUME ChainOK, taskCalls # <<>>, taskCalls' = Tail(taskCalls)
  PROVE  ChainOK' /\ Shrinks
BY HeadTailProperties DEF ChainOK, Shrinks

\* Only a destruction makes a last call, and it is the last of the chain.
LEMMA DestroyCalls ==
  ASSUME ChainOK, Destroy
  PROVE  /\ ChainOK'
         /\ \/ Keeps
            \/ Grows /\ sdk' = "destroying"
<1>1. CASE taskCalls' = Abandon(taskCalls)
  BY <1>1, CallsKept
<1>2. CASE taskCalls' = Append(Abandon(taskCalls), "last") /\ sdk' = "destroying"
  <2>1. /\ Abandon(taskCalls) \in Seq(Call)
        /\ Len(Abandon(taskCalls)) = Len(taskCalls)
        /\ \A n \in 1..Len(taskCalls) : Abandon(taskCalls)[n] = "last" <=> taskCalls[n] = "last"
    BY AbandonCalls DEF ChainOK
  <2>2. "last" \in Call
    BY DEF Call
  <2>3. /\ taskCalls' \in Seq(Call)
        /\ Len(taskCalls') = Len(taskCalls) + 1
        /\ \A n \in 1..Len(taskCalls) : taskCalls'[n] = Abandon(taskCalls)[n]
    BY <1>2, <2>1, <2>2, AppendProperties
  <2>4. QED
    BY <1>2, <2>1, <2>3 DEF ChainOK, Grows, SameCalls
<1>3. QED
  BY <1>1, <1>2 DEF Destroy, ExecuteCall

\* Every other step ends the oldest call, keeps the calls or adds another one.
LEMMA OtherCalls ==
  ASSUME ChainOK, posting # {} => taskCalls # <<>>, [SubmitterNext]_submitterVars, ~Destroy
  PROVE  /\ ChainOK'
         /\ \/ Keeps
            \/ Grows /\ taskCalls'[Len(taskCalls')] # "last"
            \/ Shrinks /\ (Skip \/ Accept \/ Fail)
<1> DEFINE Adds == \E call \in {"turn", "call"} : taskCalls' = Append(taskCalls, call)
           Same == UNCHANGED taskCalls \/ taskCalls' = Abandon(taskCalls)
<1>1. Adds => ChainOK' /\ Grows /\ taskCalls'[Len(taskCalls')] # "last"
  <2> SUFFICES ASSUME NEW call \in {"turn", "call"}, taskCalls' = Append(taskCalls, call)
               PROVE  ChainOK' /\ Grows /\ taskCalls'[Len(taskCalls')] # "last"
    OBVIOUS
  <2>1. call \in Call /\ call # "last"
    BY DEF Call
  <2>2. QED
    BY <2>1, OneMoreCall
<1>2. Same => ChainOK' /\ Keeps
  BY CallsKept
<1>3. CASE PeriodElapses \/ Flush
  <2>1. Adds
    BY <1>3 DEF PeriodElapses, Flush, ExecuteCall
  <2>2. QED
    BY <1>1, <2>1
<1>4. CASE WindowElapses \/ Track \/ SyncStart \/ Grant
  <2>1. Adds \/ UNCHANGED taskCalls
    BY <1>4 DEF WindowElapses, Track, SyncStart, Grant, StartSubmitter, StartTask, ExecuteCall, taskVars
  <2>2. QED
    BY <1>1, <1>2, <2>1
<1>5. CASE Skip \/ Accept \/ Fail
  <2>1. taskCalls # <<>> /\ taskCalls' = Tail(taskCalls)
    BY <1>5 DEF Skip, Accept, Fail, ResolveCall, ByReaction, Due
  <2>2. QED
    BY <1>5, <2>1, OldestCallEnds
<1>6. CASE Post \/ HidePage \/ UNCHANGED submitterVars
  <2>1. UNCHANGED taskCalls
    BY <1>6 DEF Post, HidePage, taskVars, submitterVars
  <2>2. QED
    BY <1>2, <2>1
<1>7. CASE SyncStop \/ Decline
  <2>1. Same
    BY <1>7 DEF SyncStop, Decline, StopSubmitter, taskVars
  <2>2. QED
    BY <1>2, <2>1
<1>8. QED
  BY <1>3, <1>4, <1>5, <1>6, <1>7 DEF SubmitterNext

-----------------------------------------------------------------------------
(* The items and their posts.                                              *)

Stays == UNCHANGED <<kind, retries, queue, data, posting, history>>

\* The steps that only move calls, timers and flags.
LEMMA StayingSteps ==
  ASSUME PeriodElapses \/ WindowElapses \/ Skip \/ SyncStart \/ SyncStop \/ Grant \/ Flush
           \/ Destroy \/ UNCHANGED submitterVars
  PROVE  Stays
BY DEF PeriodElapses, WindowElapses, Skip, SyncStart, SyncStop, Grant, Flush, Destroy, submitterVars, Stays

Accounted == Items /\ NothingVanishes /\ SentOnce

LEMMA ItemsPreserved ==
  ASSUME Sets, Rest, Accounted, [SubmitterNext]_submitterVars
  PROVE  Accounted'
<1> USE DEF Accounted, Items, NothingVanishes, SentOnce
<1>1. tracked \in Nat /\ kind.maxRetries \in Nat /\ retries \in 0..kind.maxRetries
  BY SubmitterAssumption DEF Rest, KindType
<1>2. CASE Stays
  BY <1>2 DEF Stays, history
<1>3. CASE Post
  BY <1>1, <1>3 DEF Post, Payload, ByReaction, Due
<1>1a. posting # {} => data \subseteq posting
  BY <1>1
<1>4. CASE Accept
  <2>1. /\ queue' = queue /\ data' = {} /\ posting' = {} /\ dropped' = dropped
        /\ accepted' = accepted \cup posting /\ doubtful' = doubtful
        /\ tracked' = tracked /\ kind' = kind /\ posting # {}
    BY <1>4 DEF Accept
  <2>2. queue \cap accepted' = {}
    BY <2>1
  <2>3. QED
    BY <1>1a, <2>1, <2>2
<1>5. CASE Fail
  <2>1. /\ queue' = queue /\ posting' = {} /\ tracked' = tracked /\ kind' = kind
        /\ posting # {}
        /\ \/ accepted' = accepted /\ doubtful' = doubtful
           \/ accepted' = accepted \cup posting /\ doubtful' = doubtful \cup posting
    BY <1>5 DEF Fail
  <2>2. CASE Exhausted
    <3>1. data' = {} /\ dropped' = dropped \cup posting
      BY <1>5, <2>2 DEF Fail
    <3>2. QED
      BY <1>1a, <2>1, <3>1
  <2>3. CASE ~Exhausted
    <3>1. data' = posting /\ data = posting /\ dropped' = dropped
      BY <1>1, <1>5, <2>3 DEF Fail, Exhausted
    <3>2. QED
      BY <1>1, <2>1, <3>1
  <2>4. QED
    BY <2>2, <2>3
<1>6. CASE Track
  <2>1. 1..tracked' = (1..tracked) \cup {tracked'} /\ tracked' \notin 1..tracked
    BY <1>1, <1>6 DEF Track
  <2>2. QED
    BY <1>6, <2>1 DEF Track
<1>7. CASE Decline
  BY <1>7 DEF Decline
<1>8. CASE HidePage
  BY <1>8 DEF HidePage
<1>9. QED
  BY <1>2, <1>3, <1>4, <1>5, <1>6, <1>7, <1>8, StayingSteps DEF SubmitterNext

Counted == Attempts /\ RetriesAreBounded

LEMMA AttemptsPreserved ==
  ASSUME Sets, Rest, Items, Counted, [SubmitterNext]_submitterVars
  PROVE  Counted'
<1> USE DEF Counted, Attempts, RetriesAreBounded
<1>1. /\ tracked \in Nat /\ kind.maxRetries \in Nat /\ retries \in 0..kind.maxRetries
      /\ attempts \in [Item -> Nat]
      /\ Item \subseteq Nat
  BY SubmitterAssumption DEF Rest, KindType, Item
<1>2. CASE Stays
  BY <1>2 DEF Stays, history
<1>3. CASE Post
  <2>1. posting = {} /\ posting' = data \cup queue /\ queue' = {}
    BY <1>3 DEF Post, Payload, ByReaction, Due
  <2>2. \A i \in Item : attempts'[i] = IF i \in posting' THEN attempts[i] + 1 ELSE attempts[i]
    BY <1>1, <1>3 DEF Post
  <2>3. UNCHANGED <<kind, retries, tracked>> /\ posting' # {}
    BY <1>3 DEF Post
  <2>4. \A i \in Item : i \in posting' => attempts[i] <= retries
    BY <1>1, <2>1
  <2>5. QED
    BY <1>1, <2>1, <2>2, <2>3, <2>4 DEF Items
<1>4. CASE Accept
  BY <1>1, <1>4 DEF Accept
<1>5. CASE Fail
  <2>1. CASE Exhausted
    BY <1>1, <1>5, <2>1 DEF Fail
  <2>2. CASE ~Exhausted
    BY <1>1, <1>5, <2>2 DEF Fail, Exhausted, Items
  <2>3. QED
    BY <2>1, <2>2
<1>6. CASE Track
  BY <1>1, <1>6 DEF Track, Items
<1>7. CASE Decline
  BY <1>7 DEF Decline
<1>8. CASE HidePage
  <2>1. \A i \in Item : attempts'[i] = IF i \in queue THEN attempts[i] + 1 ELSE attempts[i]
    BY <1>1, <1>8 DEF HidePage
  <2>2. queue' = {} /\ UNCHANGED <<kind, retries, data, posting, tracked>>
    BY <1>8 DEF HidePage
  <2>3. QED
    BY <1>1, <2>1, <2>2 DEF Items
<1>9. QED
  BY <1>2, <1>3, <1>4, <1>5, <1>6, <1>7, <1>8, StayingSteps DEF SubmitterNext

-----------------------------------------------------------------------------
(* The calls and the last flush.                                           *)

Flushed == Calls /\ DestroyFlushes

\* The steps that neither end a call nor destroy.
LEMMA StepsBeside ==
  ASSUME [SubmitterNext]_submitterVars, ~Destroy, ~Skip, ~Accept, ~Fail
  PROVE  /\ sdk' = sdk \/ (sdk \in {"idle", "running", "stopped"} /\ sdk' \in {"running", "stopped"})
         /\ queue' = {} \/ queue' = queue
              \/ (sdk \in {"idle", "running", "stopped"} /\ UNCHANGED sdk)
         /\ posting' = posting \/ (posting = {} /\ taskCalls # <<>> /\ queue' = {})
<1>1. CASE SyncStart \/ SyncStop
  BY <1>1 DEF SyncStart, SyncStop
<1>2. CASE PeriodElapses \/ WindowElapses \/ Grant \/ Flush \/ UNCHANGED submitterVars
  BY <1>2 DEF PeriodElapses, WindowElapses, Grant, Flush, submitterVars
<1>3. CASE Track \/ Decline \/ HidePage
  BY <1>3 DEF Track, Decline, HidePage
<1>4. CASE Post
  BY <1>4 DEF Post, ByReaction, Due
<1>5. QED
  BY <1>1, <1>2, <1>3, <1>4 DEF SubmitterNext

LEMMA CallsPreserved ==
  ASSUME ChainOK, Flushed, [SubmitterNext]_submitterVars
  PROVE  Flushed'
<1> USE DEF Flushed, Calls, DestroyFlushes
<1>1. Len(taskCalls) \in Nat /\ (taskCalls = <<>> <=> Len(taskCalls) = 0)
  BY DEF ChainOK
<1>2. Len(taskCalls') \in Nat /\ (taskCalls' = <<>> <=> Len(taskCalls') = 0)
  <2>1. ChainOK'
    BY OtherCalls, DestroyCalls
  <2>2. QED
    BY <2>1 DEF ChainOK
<1>3. sdk = "destroying" => ~(Track \/ SyncStart \/ SyncStop \/ Destroy)
  BY DEF Track, SyncStart, SyncStop, Destroy
<1>4. CASE Destroy
  <2>1. /\ sdk \notin {"destroying", "flushed"} /\ sdk' # "flushed"
        /\ UNCHANGED <<posting, queue>>
    BY <1>4 DEF Destroy
  <2>2. \A n \in 1..Len(taskCalls) : taskCalls[n] # "last"
    BY <2>1
  <2>3. CASE Keeps
    BY <1>1, <1>2, <2>1, <2>2, <2>3 DEF Keeps, SameCalls
  <2>4. CASE Grows /\ sdk' = "destroying"
    BY <1>1, <1>2, <2>1, <2>2, <2>4 DEF Grows, SameCalls
  <2>5. QED
    BY <1>4, <2>3, <2>4, DestroyCalls
<1>5. CASE Skip \/ Accept \/ Fail
  <2>1. Shrinks
    BY <1>5, OldestCallEnds DEF Skip, Accept, Fail, ResolveCall, ByReaction, Due
  <2>2. posting' = {} /\ UNCHANGED queue
    BY <1>5 DEF Skip, Accept, Fail, ByReaction, Due
  <2>3. sdk' = IF taskCalls[1] = "last" THEN "flushed" ELSE sdk
    BY <1>1, <1>5, <2>1 DEF Skip, Accept, Fail, ResolveCall, Shrinks
  <2>4. \A n \in 1..Len(taskCalls') : taskCalls'[n] = taskCalls[n + 1] /\ n + 1 \in 1..Len(taskCalls) /\ n + 1 # 1
    BY <1>1, <1>2, <2>1 DEF Shrinks
  <2>5. 1 \in 1..Len(taskCalls)
    BY <1>1, <2>1 DEF Shrinks
  <2>6. \A n \in 1..Len(taskCalls') : taskCalls'[n] = "last" => sdk' = "destroying"
    BY <2>3, <2>4, <2>5
  <2>7. \A m, n \in 1..Len(taskCalls') : taskCalls'[m] = "last" /\ taskCalls'[n] = "last" => m = n
    <3>1. SUFFICES ASSUME NEW m \in 1..Len(taskCalls'), NEW n \in 1..Len(taskCalls'),
                          taskCalls'[m] = "last", taskCalls'[n] = "last"
                   PROVE  m = n
      OBVIOUS
    <3>2. m + 1 = n + 1
      BY <2>4, <3>1
    <3>3. QED
      BY <1>2, <3>2
  <2>8. sdk' = "flushed" => queue = {}
    <3>1. CASE posting # {}
      BY <2>3, <3>1
    <3>2. CASE posting = {}
      BY <1>5, <2>3, <3>2 DEF Skip, Payload, Accept, Fail
    <3>3. QED
      BY <3>1, <3>2
  <2>9. QED
    BY <2>2, <2>6, <2>7, <2>8
<1>6. CASE ~Destroy /\ ~(Skip \/ Accept \/ Fail)
  <2>1. Keeps \/ (Grows /\ taskCalls'[Len(taskCalls')] # "last")
    <3>1. posting # {} => taskCalls # <<>>
      OBVIOUS
    <3>2. QED
      BY <1>6, <3>1, OtherCalls
  <2>2. sdk' = sdk \/ (sdk \in {"idle", "running", "stopped"} /\ sdk' \in {"running", "stopped"})
    BY <1>6, StepsBeside
  <2>3. /\ \A n \in 1..Len(taskCalls') : taskCalls'[n] = "last" => n \in 1..Len(taskCalls) /\ taskCalls[n] = "last"
        /\ Len(taskCalls') >= Len(taskCalls)
        /\ \A n \in 1..Len(taskCalls) : taskCalls[n] = "last" <=> taskCalls'[n] = "last"
    BY <1>1, <1>2, <2>1 DEF Keeps, Grows, SameCalls
  <2>4. /\ \A n \in 1..Len(taskCalls') : taskCalls'[n] = "last" => sdk' = "destroying"
        /\ \A m, n \in 1..Len(taskCalls') : taskCalls'[m] = "last" /\ taskCalls'[n] = "last" => m = n
    BY <2>2, <2>3
  <2>5. queue' = {} \/ queue' = queue \/ (sdk \in {"idle", "running", "stopped"} /\ UNCHANGED sdk)
    BY <1>6, StepsBeside
  <2>6. posting' = posting \/ (posting = {} /\ taskCalls # <<>> /\ queue' = {})
    BY <1>6, StepsBeside
  <2>7. posting' # {} => taskCalls' # <<>>
    BY <1>1, <1>2, <2>3, <2>6
  <2>8. posting' # {} /\ taskCalls'[1] = "last" => queue' = {}
    <3>1. SUFFICES ASSUME posting' # {}, taskCalls'[1] = "last", queue' # {}
                   PROVE  FALSE
      OBVIOUS
    <3>2. posting # {} /\ 1 \in 1..Len(taskCalls)
      BY <1>1, <2>6, <3>1
    <3>3. taskCalls[1] = "last" /\ sdk = "destroying" /\ queue = {}
      BY <2>3, <3>1, <3>2
    <3>4. QED
      BY <2>5, <3>1, <3>3
  <2>9. sdk' = "flushed" => queue' = {}
    BY <2>2, <2>5
  <2>10. QED
    BY <2>4, <2>7, <2>8, <2>9
<1>7. QED
  BY <1>4, <1>5, <1>6

-----------------------------------------------------------------------------
(* User consent.                                                           *)

Consented == Consent /\ UnknownOnlyQueues

\* Before the user answers, only these steps may be taken.
LEMMA UnknownSteps ==
  ASSUME Consented, kind.optional, consent = "UNKNOWN", [SubmitterNext]_submitterVars
  PROVE  Track \/ SyncStart \/ SyncStop \/ Grant \/ Decline \/ Destroy \/ UNCHANGED submitterVars
<1>1. /\ ~timer /\ ~window /\ strays = 0 /\ taskCalls = <<>> /\ posting = {} /\ ~MaySend
  BY DEF Consented, Consent, UnknownOnlyQueues, MaySend
<1>2. ~PeriodElapses /\ ~WindowElapses
  BY <1>1 DEF PeriodElapses, WindowElapses
<1>3. ~Skip /\ ~Post /\ ~Accept /\ ~Fail
  BY <1>1 DEF Skip, Post, Accept, Fail, ByReaction, Due
<1>4. ~Flush /\ ~HidePage
  BY <1>1 DEF Flush, HidePage
<1>5. QED
  BY <1>2, <1>3, <1>4 DEF SubmitterNext

LEMMA ConsentPreserved ==
  ASSUME Flags, Sets, Rest, ChainOK, Consented, [SubmitterNext]_submitterVars
  PROVE  Consented'
<1>1. tracked \in Nat /\ kind' = kind
  BY SubmitterAssumption
  DEF Rest, SubmitterNext, submitterVars, PeriodElapses, WindowElapses, Skip, Post, Accept, Fail, Track,
     SyncStart, SyncStop, Grant, Decline, Flush, HidePage, Destroy
<1>2. ASSUME kind.optional, consent' = "UNKNOWN"
      PROVE  /\ ~started' /\ ~window' /\ strays' = 0 /\ ~taskRunning' /\ ~timer'
             /\ taskCalls' = <<>> /\ data' = {}
             /\ sdk' \notin {"destroying", "flushed"}
             /\ queue' = 1..tracked' /\ posting' = {}
  <2>1. consent = "UNKNOWN" /\ ~Grant /\ ~Decline
    BY <1>2 DEF SubmitterNext, submitterVars, PeriodElapses, WindowElapses, Skip, Post, Accept, Fail, Track,
       SyncStart, SyncStop, Grant, Decline, Flush, HidePage, Destroy
  <2>2. /\ ~started /\ ~window /\ strays = 0 /\ ~taskRunning /\ ~timer
        /\ taskCalls = <<>> /\ data = {} /\ sdk \notin {"destroying", "flushed"}
        /\ queue = 1..tracked /\ posting = {} /\ ~MaySend /\ ~IsRunning
    BY <1>2, <2>1 DEF Consented, Consent, UnknownOnlyQueues, MaySend, IsRunning
  <2>3. Abandon(taskCalls) = <<>>
    <3>1. Abandon(taskCalls) \in Seq(Call) /\ Len(Abandon(taskCalls)) = Len(taskCalls)
      BY AbandonCalls DEF ChainOK
    <3>2. Len(taskCalls) = 0
      BY <2>2
    <3>3. QED
      BY <3>1, <3>2, EmptySeq
  <2>4. Track \/ SyncStart \/ SyncStop \/ Destroy \/ UNCHANGED submitterVars
    BY <1>2, <2>1, UnknownSteps
  <2>5. CASE Track
    <3>1. queue' = (1..tracked) \cup {tracked + 1} /\ tracked' = tracked + 1 /\ taskCalls' = taskCalls
      BY <2>2, <2>5 DEF Track, Overflows
    <3>2. queue' = 1..tracked'
      BY <1>1, <3>1
    <3>3. QED
      BY <2>2, <2>5, <3>1, <3>2 DEF Track, windowVars
  <2>6. CASE SyncStart
    BY <2>2, <2>6 DEF SyncStart, windowVars, taskVars, history
  <2>7. CASE SyncStop
    BY <2>2, <2>3, <2>7 DEF SyncStop, StopSubmitter, StopTimers, history
  <2>8. CASE Destroy
    BY <2>2, <2>3, <2>8 DEF Destroy, StopTimers, history
  <2>9. CASE UNCHANGED submitterVars
    BY <2>2, <2>9 DEF submitterVars, windowVars, taskVars, history
  <2>10. QED
    BY <2>4, <2>5, <2>6, <2>7, <2>8, <2>9
<1>3. ASSUME kind.optional, consent' = "DECLINED"
      PROVE  queue' = {}
  <2>1. CASE Decline
    BY <1>3, <2>1 DEF Decline, Consented, Consent
  <2>2. CASE ~Decline
    <3>1. consent = "DECLINED"
      BY <1>3, <2>2 DEF SubmitterNext, submitterVars, PeriodElapses, WindowElapses, Skip, Post, Accept, Fail, Track,
         SyncStart, SyncStop, Grant, Flush, HidePage, Destroy
    <3>2. queue = {} /\ ~Track
      BY <1>3, <3>1 DEF Consented, Consent, Track
    <3>3. QED
      BY <2>2, <3>2 DEF SubmitterNext, submitterVars, history, PeriodElapses, WindowElapses, Skip, Post, Accept, Fail,
         SyncStart, SyncStop, Grant, Flush, HidePage, Destroy
  <2>3. QED
    BY <2>1, <2>2
<1>4. QED
  BY <1>1, <1>2, <1>3 DEF Consented, Consent, UnknownOnlyQueues

-----------------------------------------------------------------------------
(* The theorems.                                                           *)

LEMMA InvParts ==
  SubmitterInv <=> Flags /\ Sets /\ Rest /\ ChainOK /\ Accounted /\ Counted /\ Flushed /\ Consented
BY TypeParts DEF SubmitterInv, Accounted, Counted, Flushed, Consented

LEMMA SubmitterInitInv == SubmitterInit => SubmitterInv
<1> SUFFICES ASSUME SubmitterInit
             PROVE  SubmitterInv
  OBVIOUS
<1>1. Flags /\ Sets
  BY DEF SubmitterInit, Flags, Sets
<1>2. Rest
  BY SubmitterAssumption DEF SubmitterInit, Rest, KindType
<1>3. Accounted
  BY DEF SubmitterInit, Accounted, Items, NothingVanishes, SentOnce
<1>4. Counted
  BY SubmitterAssumption DEF SubmitterInit, Counted, Attempts, RetriesAreBounded, KindType
<1>5. Flushed
  BY DEF SubmitterInit, Flushed, Calls, DestroyFlushes
<1>6. Consented
  BY DEF SubmitterInit, Consented, Consent, UnknownOnlyQueues
<1>7. ChainOK
  BY DEF SubmitterInit, ChainOK
<1>8. QED
  BY <1>1, <1>2, <1>3, <1>4, <1>5, <1>6, <1>7, InvParts

LEMMA SubmitterNextInv == SubmitterInv /\ [SubmitterNext]_submitterVars => SubmitterInv'
<1> SUFFICES ASSUME Flags, Sets, Rest, ChainOK, Accounted, Counted, Flushed, Consented, [SubmitterNext]_submitterVars
             PROVE  SubmitterInv'
  BY InvParts
<1>1. Flags' /\ Sets' /\ Rest'
  BY FlagsPreserved, SetsPreserved, RestPreserved
<1>2. ChainOK'
  BY OtherCalls, DestroyCalls DEF Flushed, Calls
<1>3. Accounted' /\ Counted'
  BY ItemsPreserved, AttemptsPreserved DEF Accounted
<1>4. Flushed' /\ Consented'
  BY CallsPreserved, ConsentPreserved
<1>5. SubmitterTypeOK'
  BY <1>1, <1>2 DEF SubmitterTypeOK, Flags, Sets, Rest, ChainOK, Call
<1>6. QED
  BY <1>3, <1>4, <1>5 DEF SubmitterInv, Accounted, Counted, Flushed, Consented

\* The inductive invariant holds of every reachable state.
THEOREM SubmitterInvHolds == Spec => []SubmitterInv
BY SubmitterInitInv, SubmitterNextInv, SubmitterStarts, SubmitterStep, PTL DEF Spec

\* Every variable of a submitter and its cache keeps its type.
THEOREM SubmitterTypeCorrect == Spec => []SubmitterTypeOK
<1>1. SubmitterInv => SubmitterTypeOK
  BY DEF SubmitterInv
<1>2. QED
  BY <1>1, SubmitterInvHolds, PTL

\* No tracked item disappears, whatever the retries and the order of the calls.
THEOREM NothingIsLost == Spec => []NothingVanishes
<1>1. SubmitterInv => NothingVanishes
  BY DEF SubmitterInv
<1>2. QED
  BY <1>1, SubmitterInvHolds, PTL

\* No item is sent again once the server has it, unless its answer was lost.
THEOREM NothingIsSentTwice == Spec => []SentOnce
<1>1. SubmitterInv => SentOnce
  BY DEF SubmitterInv
<1>2. QED
  BY <1>1, SubmitterInvHolds, PTL

\* No item is posted more than once beyond the retries of its submitter.
THEOREM PostsAreBounded == Spec => []RetriesAreBounded
<1>1. SubmitterInv => RetriesAreBounded
  BY DEF SubmitterInv
<1>2. QED
  BY <1>1, SubmitterInvHolds, PTL

\* Without an answer from the user, what is tracked is only kept.
THEOREM UnknownIsSilent == Spec => []UnknownOnlyQueues
<1>1. SubmitterInv => UnknownOnlyQueues
  BY DEF SubmitterInv
<1>2. QED
  BY <1>1, SubmitterInvHolds, PTL

\* The promise of `destroy` resolves with an empty cache.
THEOREM DestroyIsAFlush == Spec => []DestroyFlushes
<1>1. SubmitterInv => DestroyFlushes
  BY DEF SubmitterInv
<1>2. QED
  BY <1>1, SubmitterInvHolds, PTL

\* Once the user declined, a post carries only what was retained for a retry.
THEOREM DeclinedPosts == Spec => DeclinedSendsOnlyRetained
<1>1. ASSUME SubmitterInv, [SubmitterNext]_submitterVars, kind.optional, consent = "DECLINED"
      PROVE  posting' \subseteq posting \cup data
  <2>1. queue = {}
    BY <1>1 DEF SubmitterInv, Consent
  <2>2. CASE Post
    BY <2>1, <2>2 DEF Post, Payload
  <2>3. CASE ~Post
    BY <1>1, <2>3 DEF SubmitterNext, submitterVars, PeriodElapses, WindowElapses, Skip, Accept, Fail, Track,
       SyncStart, SyncStop, Grant, Decline, Flush, HidePage, Destroy
  <2>4. QED
    BY <2>2, <2>3
<1>2. SubmitterInv /\ [SubmitterNext]_submitterVars =>
        [kind.optional /\ consent = "DECLINED" /\ consent' = "DECLINED"
           => posting' \subseteq posting \cup data]_submitterVars
  BY <1>1
<1>3. QED
  BY <1>2, SubmitterInvHolds, SubmitterStarts, SubmitterStep, PTL DEF Spec, DeclinedSendsOnlyRetained
=============================================================================
