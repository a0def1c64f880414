---------------------------- MODULE PeriodicTask ----------------------------
(***************************************************************************)
(* What a sync task promises to the managers that own it (ISyncTask in     *)
(* src/sync/types.ts): while it is started, it alternates between waiting  *)
(* for its period and taking a turn; once stopped, nothing brings a turn   *)
(* back but a new start; and isExecuting() tells whether calls are left.   *)
(* How calls are queued, which timers exist and how a restart is told from *)
(* the run before it are left to the implementation, module SyncTask.      *)
(***************************************************************************)
EXTENDS Naturals

VARIABLES
  running,    \* what isRunning() answers
  executing,  \* the calls not settled yet; isExecuting() is executing > 0
  obligation  \* what the current run waits for: "none" when stopped

pvars == <<running, executing, obligation>>

Init == /\ running = FALSE
        /\ executing = 0
        /\ obligation = "none"

Start == /\ ~running
         /\ running' = TRUE
         /\ obligation' = "turn"
         /\ executing' = executing + 1

Stop == /\ running
        /\ running' = FALSE
        /\ obligation' = "none"
        /\ UNCHANGED executing

Call == /\ executing' = executing + 1
        /\ UNCHANGED <<running, obligation>>

Settle == /\ executing > 0
          /\ executing' = executing - 1
          /\ UNCHANGED <<running, obligation>>

EndTurn == /\ obligation = "turn"
           /\ obligation' = "period"
           /\ UNCHANGED <<running, executing>>

Elapse == /\ obligation = "period"
          /\ obligation' = "turn"
          /\ executing' = executing + 1
          /\ UNCHANGED running

Next == Start \/ Stop \/ Call \/ Settle \/ EndTurn \/ Elapse

Spec == Init /\ [][Next]_pvars
=============================================================================
