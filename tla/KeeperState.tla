---------------------------- MODULE KeeperState ----------------------------
(***************************************************************************)
(* The state of the notification keeper (src/sync/streaming/SSEHandler/    *)
(* NotificationKeeper.ts) and its two handlers, as functions that return   *)
(* the next state and the event emitted to the push manager. Which         *)
(* messages are recent enough to be handled is left to the callers.        *)
(***************************************************************************)
EXTENDS Naturals

CONSTANT Channel  \* the control channels, control_pri and control_sec

ASSUME ChannelAssumption == Channel # {}

Control == {"STREAMING_PAUSED", "STREAMING_RESUMED", "STREAMING_DISABLED"}

\* What the keeper emits to the push manager, if anything.
Event == {"PUSH_SUBSYSTEM_UP", "PUSH_SUBSYSTEM_DOWN", "PUSH_NONRETRYABLE_ERROR", "none"}

\* Presence of publishers per channel and in any channel, and whether the last
\* control event was a resumption.
Keeper == [publishers : [Channel -> BOOLEAN], hasPublishers : BOOLEAN, hasResumed : BOOLEAN]

InitKeeper == [publishers    |-> [c \in Channel |-> TRUE],
               hasPublishers |-> TRUE,
               hasResumed    |-> TRUE]

IsStreamingUp(k) == k.hasResumed /\ k.hasPublishers

\* Mutant: every presence change is announced, also while paused.
OccupancyWhilePaused(k, c, n) ==
  LET publishers == [k.publishers EXCEPT ![c] = n # 0]
      now == \E d \in Channel : publishers[d] IN
  [next  |-> [k EXCEPT !.publishers = publishers, !.hasPublishers = now],
   event |-> CASE k.hasPublishers /\ ~now -> "PUSH_SUBSYSTEM_DOWN"
               [] ~k.hasPublishers /\ now -> "PUSH_SUBSYSTEM_UP"
               [] OTHER -> "none"]

Occupancy(k, c, n) ==
  LET publishers == [k.publishers EXCEPT ![c] = n # 0]
      now == \E d \in Channel : publishers[d] IN
  [next  |-> [k EXCEPT !.publishers = publishers, !.hasPublishers = now],
   event |-> CASE k.hasResumed /\ k.hasPublishers /\ ~now -> "PUSH_SUBSYSTEM_DOWN"
               [] k.hasResumed /\ ~k.hasPublishers /\ now -> "PUSH_SUBSYSTEM_UP"
               [] OTHER -> "none"]

ControlEvent(k, ctl) ==
  [next  |-> [k EXCEPT !.hasResumed = ctl = "STREAMING_RESUMED"],
   event |-> CASE ctl = "STREAMING_DISABLED" -> "PUSH_NONRETRYABLE_ERROR"
               [] ctl = "STREAMING_PAUSED" /\ k.hasPublishers /\ k.hasResumed
                    -> "PUSH_SUBSYSTEM_DOWN"
               [] ctl = "STREAMING_RESUMED" /\ k.hasPublishers /\ ~k.hasResumed
                    -> "PUSH_SUBSYSTEM_UP"
               [] OTHER -> "none"]
=============================================================================
