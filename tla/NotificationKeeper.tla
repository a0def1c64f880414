------------------------- MODULE NotificationKeeper -------------------------
(***************************************************************************)
(* The notification keeper of src/sync/streaming/SSEHandler: it follows    *)
(* the OCCUPANCY and CONTROL messages of the two control channels and      *)
(* tells the push manager when streaming is up or down. Messages carry     *)
(* the time of their channel and may arrive late, twice or never.          *)
(***************************************************************************)
EXTENDS KeeperState, FiniteSetsExt

CONSTANTS
  MaxTime,   \* bound: messages of each type sent on a channel
  MaxOpens   \* bound: times the SSE connection opens

ASSUME KeeperAssumption ==
  /\ MaxTime \in Nat
  /\ MaxOpens \in Nat

-----------------------------------------------------------------------------
(* The keeper fed by the messages of one or several connections.           *)

VARIABLES
  occupancies,  \* the number of publishers each channel reports at each time
  controls,     \* the control event each channel carries at each time
  keeper,       \* the state of the keeper
  delivered,    \* the times of the OCCUPANCY messages each channel delivered
  oTime, cTime, \* per channel, the time of the last message taken in account
  opens,        \* how many times the connection has opened
  subsystem     \* the last event emitted

keeperVars == <<occupancies, controls, delivered, keeper, oTime, cTime, opens, subsystem>>

KeeperInit ==
  /\ occupancies \in [Channel -> [1..MaxTime -> 0..1]]
  /\ controls \in [Channel -> [1..MaxTime -> Control]]
  /\ delivered = [c \in Channel |-> {}]
  /\ keeper = InitKeeper
  /\ oTime = [c \in Channel |-> 0]
  /\ cTime = [c \in Channel |-> 0]
  /\ opens = 0
  /\ subsystem = "none"

\* A connection delivers messages once open, and none once streaming was disabled.
Connected == opens > 0 /\ subsystem # "PUSH_NONRETRYABLE_ERROR"

Emit(event) == subsystem' = IF event = "none" THEN subsystem ELSE event

HandleOpen ==
  /\ opens < MaxOpens
  /\ subsystem # "PUSH_NONRETRYABLE_ERROR"
  /\ opens' = opens + 1
  /\ Emit("PUSH_SUBSYSTEM_UP")
  /\ UNCHANGED <<occupancies, controls, delivered, keeper, oTime, cTime>>

\* Mutant: late and repeated messages are taken in account.
IsNews(time, c, t) == t # time[c]

IsNewer(time, c, t) == t > time[c]

HandleOccupancyEvent(c, t) ==
  /\ Connected
  /\ delivered' = [delivered EXCEPT ![c] = @ \cup {t}]
  /\ IF IsNewer(oTime, c, t)
     THEN LET o == Occupancy(keeper, c, occupancies[c][t]) IN
          /\ oTime' = [oTime EXCEPT ![c] = t]
          /\ keeper' = o.next
          /\ Emit(o.event)
     ELSE UNCHANGED <<oTime, keeper, subsystem>>
  /\ UNCHANGED <<occupancies, controls, cTime, opens>>

HandleControlEvent(c, t) ==
  /\ Connected
  /\ IF IsNewer(cTime, c, t)
     THEN LET o == ControlEvent(keeper, controls[c][t]) IN
          /\ cTime' = [cTime EXCEPT ![c] = t]
          /\ keeper' = o.next
          /\ Emit(o.event)
     ELSE UNCHANGED <<cTime, keeper, subsystem>>
  /\ UNCHANGED <<occupancies, controls, delivered, oTime, opens>>

-----------------------------------------------------------------------------
\* The presence kept for a channel is that of its latest message, in whatever
\* order the messages came and however often each was repeated, and presence in
\* general is presence in some channel.
PresenceIsLatest ==
  /\ \A c \in Channel :
       keeper.publishers[c] = \/ delivered[c] = {}
                              \/ occupancies[c][Max(delivered[c])] # 0
  /\ keeper.hasPublishers = \E c \in Channel : keeper.publishers[c]

\* What was announced is what update notifications are filtered by: on its first
\* connection, the last event was UP exactly when isStreamingUp(). "nothing to do
\* when hasResumed === false: streaming is already down ..., and cannot be up"
\* (NotificationKeeper.ts, both handlers). Not so on a later connection, which
\* announces UP by itself while the keeper remembers a pause.
AnnouncedAsFiltered ==
  Connected /\ opens = 1 => (subsystem = "PUSH_SUBSYSTEM_UP" <=> IsStreamingUp(keeper))
=============================================================================
