---------------------------- MODULE Notifications ----------------------------
(***************************************************************************)
(* What becomes of the notifications of the streaming connection, each by   *)
(* itself: a behaviour is one of NotificationKeeper, which takes the         *)
(* messages of the control channels, or one of Memberships, whose workers    *)
(* take the updates of the memberships. SyncManager says when workers run.   *)
(***************************************************************************)
EXTENDS NotificationKeeper, Memberships

VARIABLE part

vars == <<part, keeperVars, membershipsVars>>

Init ==
  /\ part \in {"keeper", "workers"}
  /\ KeeperInit
  /\ MembershipsInit
  /\ part = "workers" =>
       /\ occupancies = [c \in Channel |-> [t \in 1..MaxTime |-> 0]]
       /\ controls = [c \in Channel |-> [t \in 1..MaxTime |-> "STREAMING_PAUSED"]]

OfKeeper  == part = "keeper" /\ UNCHANGED <<part, membershipsVars>>
OfWorkers == part = "workers" /\ UNCHANGED <<part, keeperVars>>

Next ==
  \/ OfKeeper /\ HandleOpen
  \/ \E c \in Channel, t \in 1..MaxTime : OfKeeper /\ HandleOccupancyEvent(c, t)
  \/ \E c \in Channel, t \in 1..MaxTime : OfKeeper /\ HandleControlEvent(c, t)
  \/ \E t \in Kinds, S \in SUBSET Key \ {{}} :
       \/ OfWorkers /\ InstantUpdate(t, S)
       \/ OfWorkers /\ Unheard(t, S)
       \/ \E D \in SUBSET Key : OfWorkers /\ BoundedFetchRequest(t, S, D)
       \/ \E D \in SUBSET Key : OfWorkers /\ UnboundedFetchRequest(t, S, D)
  \/ \E k \in Key :
       \/ OfWorkers /\ PayloadSettles(k)
       \/ \E v \in 0..changes : OfWorkers /\ Answered(k, v)
       \/ OfWorkers /\ Failed(k)
       \/ \E d \in Delays(k) : OfWorkers /\ DelayPasses(k, d)
       \/ \E t \in Kinds : OfWorkers /\ BackoffPasses(k, t)
       \/ OfWorkers /\ Poll(k)
  \/ OfWorkers /\ StopWorkers

Spec == Init /\ [][Next]_vars

\* Promises settle, requests end, one way or another, and timers fire. The timers
\* of a client are few at any time, and none is set for ever.
Fairness ==
  \A k \in Key : WF_vars(OfWorkers /\ Responds(k)) /\ WF_vars(OfWorkers /\ TimerFires(k))

FairSpec == Spec /\ Fairness
=============================================================================
