-------------------------------- MODULE Tasks --------------------------------
(***************************************************************************)
(* What runs in periods, each by itself: a behaviour is one of SyncTask,    *)
(* the engine under every poller and submitter, or one of Submitter, which  *)
(* takes of that engine what is proved of it.                               *)
(***************************************************************************)
EXTENDS SyncTask, Submitter

VARIABLE part

vars == <<part, syncTaskVars, submitterVars>>

Init ==
  /\ part \in {"task", "submitter"}
  /\ SyncTaskInit
  /\ SubmitterInit
  /\ part = "task" => kind = CHOOSE k \in Kinds : TRUE

Task == part = "task" /\ UNCHANGED <<part, submitterVars>>
Submits == part = "submitter" /\ UNCHANGED <<part, syncTaskVars>>

Next ==
  \/ Task /\ Execute
  \/ Task /\ Start
  \/ Task /\ Stop
  \/ Task /\ Begin
  \/ Task /\ Settle
  \/ Task /\ Resolve
  \/ \E p \in pending : Task /\ Elapse(p)
  \/ Submits /\ PeriodElapses
  \/ Submits /\ WindowElapses
  \/ Submits /\ Skip
  \/ Submits /\ Post
  \/ Submits /\ Accept
  \/ Submits /\ Fail
  \/ Submits /\ Track
  \/ Submits /\ SyncStart
  \/ Submits /\ SyncStop
  \/ Submits /\ Grant
  \/ Submits /\ Decline
  \/ Submits /\ Flush
  \/ Submits /\ HidePage
  \/ Submits /\ Destroy

Spec == Init /\ [][Next]_vars

\* The event loop starves no reaction and no timer of the task, and what it runs
\* settles: every request of the SDK ends by a response, an error or a timeout.
\* Nobody has to call the object.
Fairness ==
  /\ WF_vars(Task /\ Begin)
  /\ WF_vars(Task /\ Settle)
  /\ WF_vars(Task /\ Resolve)
  /\ WF_vars(\E p \in pending : Task /\ Elapse(p))

FairSpec == Spec /\ Fairness
=============================================================================
