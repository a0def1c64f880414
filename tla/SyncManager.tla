---------------------------- MODULE SyncManager ----------------------------
(***************************************************************************)
(* The sync manager of src/sync/syncManagerOnline.ts with its push manager *)
(* and the switch between streaming and polling: authentication, token     *)
(* refresh, connection, retries, the events of the SSE handler, pausing    *)
(* and resuming, and clients that come and go.                             *)
(*                                                                         *)
(* The server of the authentication, the SSE connection and timers are     *)
(* external: they act in any order and at any time.                        *)
(***************************************************************************)
EXTENDS PushState, SequencesExt

CONSTANTS
  Channel,
  AuthOutcome,  \* what authentication may end in
  ErrorKind,    \* errors the connection may report
  ControlSent,  \* control events the connection may carry
  MayRemove,    \* whether shared clients are destroyed
  MaxStarts,    \* bound: calls of start
  MaxAuths,     \* bound: authentications in flight
  MaxKicks      \* bound: pending reconnections

INSTANCE KeeperState

ASSUME SyncManagerAssumption ==
  /\ AuthOutcome \subseteq {"granted", "pushDisabled", "rejected", "failed"}
  /\ ErrorKind \subseteq {"retryable", "fatal"}
  /\ ControlSent \subseteq Control \cup {"STREAMING_RESET"}
  /\ MayRemove \in BOOLEAN
  /\ {MaxStarts, MaxAuths, MaxKicks} \subseteq Nat

VARIABLES
  running,    \* the flag `running` of the sync manager
  startFirstTime,
  starts,     \* calls of start
  validating, \* starts that wait for storage.validateCache
  polling,    \* pollingManager.isRunning()
  push,       \* the push manager
  keeper,     \* the notification keeper of its SSE handler
  stale       \* whether the server changed and nothing has told the SDK yet

vars == <<running, startFirstTime, starts, validating, polling, push, keeper, stale>>

TypeOK ==
  /\ running \in BOOLEAN
  /\ startFirstTime \in BOOLEAN
  /\ starts \in 0..MaxStarts
  /\ validating \in 0..MaxStarts
  /\ polling \in BOOLEAN
  /\ push \in Push
  /\ keeper \in Keeper
  /\ stale \in BOOLEAN

Init ==
  /\ running = FALSE
  /\ startFirstTime = TRUE
  /\ starts = 0
  /\ validating = 0
  /\ polling = FALSE
  /\ push \in {InitPush(side) : side \in Side}
  /\ keeper = InitKeeper
  /\ stale = TRUE

\* The bounds on what accumulates.
Bounded(p) == Len(p.auths) <= MaxAuths /\ p.kicks <= MaxKicks

-----------------------------------------------------------------------------
(* What the events of the push manager do, its own listeners first.        *)

\* stopPollingAndSyncAll
Up(p) ==
  /\ push' = HandleUp(p)
  /\ polling' = FALSE
  /\ stale' = FALSE

\* startPolling; stopWorkers concerns the update workers.
Down(p) ==
  /\ push' = p
  /\ polling' = TRUE
  /\ UNCHANGED stale

Silent(p) ==
  /\ push' = p
  /\ UNCHANGED <<polling, stale>>

\* Mutant: polling is not started when streaming is disabled.
NonRetryableSilently(p) == Silent(HandleNonRetryableError(p))

NonRetryable(p) == Down(HandleNonRetryableError(p))

\* Mutant: polling is not started while streaming is retried.
RetryableSilently(p) == Silent(HandleRetryableError(p))

Retryable(p) == Down(HandleRetryableError(p))

Dispatch(event, p) ==
  CASE event = "PUSH_SUBSYSTEM_UP" -> Up(p)
    [] event = "PUSH_SUBSYSTEM_DOWN" -> Down(p)
    [] event = "PUSH_NONRETRYABLE_ERROR" -> NonRetryable(p)
    [] OTHER -> Silent(p)

-----------------------------------------------------------------------------
(* Operations of the sync manager.                                         *)

SyncStart ==
  /\ starts < MaxStarts
  /\ starts' = starts + 1
  /\ running' = TRUE
  /\ validating' = validating + 1
  /\ UNCHANGED <<startFirstTime, polling, push, keeper, stale>>

\* Mutant: the flag is not looked at when validateCache resolves.
CacheValidatedRegardless ==
  /\ validating > 0
  /\ validating' = validating - 1
  /\ startFirstTime' = FALSE
  /\ push' = StartPush(push)
  /\ UNCHANGED <<running, starts, polling, keeper, stale>>

\* The continuation of `start`: syncAll the first time, and pushManager.start.
CacheValidated ==
  /\ validating > 0
  /\ validating' = validating - 1
  /\ IF running
     THEN /\ startFirstTime' = FALSE
          /\ push' = StartPush(push)
          /\ stale' = (stale /\ ~startFirstTime)
          /\ Bounded(push')
     ELSE UNCHANGED <<startFirstTime, push, stale>>
  /\ UNCHANGED <<running, starts, polling, keeper>>

SyncStop ==
  /\ running' = FALSE
  /\ push' = StopPush(push)
  /\ polling' = FALSE
  /\ UNCHANGED <<startFirstTime, starts, validating, keeper, stale>>

\* `shared` and the `stop` of what it returns: a client created or destroyed.
AddClient(k) ==
  /\ ~ServerSide(push) /\ k \notin push.clients
  /\ push' = AddKey(push, k)
  /\ Bounded(push')
  /\ UNCHANGED <<running, startFirstTime, starts, validating, polling, keeper, stale>>

RemoveClient(k) ==
  /\ MayRemove
  /\ k \in push.clients
  /\ push' = RemoveKey(push, k)
  /\ UNCHANGED <<running, startFirstTime, starts, validating, polling, keeper, stale>>

-----------------------------------------------------------------------------
(* Timers, responses and messages.                                         *)

sync == <<running, startFirstTime, starts, validating>>

Reconnect ==
  /\ push.kicks > 0
  /\ Silent(Kick(push))
  /\ Bounded(push')
  /\ UNCHANGED <<sync, keeper>>

RefreshToken ==
  /\ push.refresh
  /\ Silent(ConnectPush([push EXCEPT !.refresh = FALSE]))
  /\ Bounded(push')
  /\ UNCHANGED <<sync, keeper>>

Retry ==
  /\ push.backoff
  /\ Silent(ConnectPush([push EXCEPT !.backoff = FALSE]))
  /\ Bounded(push')
  /\ UNCHANGED <<sync, keeper>>

OpenConnection ==
  /\ push.sseOpen # NoToken
  /\ LET p == [push EXCEPT !.sseOpen = NoToken] IN
     Silent(IF push.disconnected = "yes" THEN p ELSE OpenSse(p, push.sseOpen))
  /\ UNCHANGED <<sync, keeper>>

\* The response to an authentication, or its failure, in any order.
Authenticated(i, outcome) ==
  /\ LET p == [push EXCEPT !.auths = RemoveAt(push.auths, i)]
         keys == push.auths[i] IN
     CASE p.disconnected = "yes" -> Silent(p)
       [] p.disconnected # "yes" /\ outcome \in {"pushDisabled", "rejected"} -> NonRetryable(p)
       [] p.disconnected # "yes" /\ outcome = "failed" -> Retryable(p)
       [] p.disconnected # "yes" /\ outcome = "granted" ->
            Silent(IF LacksNewClient(p, keys) THEN p ELSE ScheduleTokenRefreshAndSse(p, keys))
  /\ UNCHANGED <<sync, keeper>>

SseOpens ==
  /\ push.conn = "connecting"
  /\ Up([push EXCEPT !.conn = "open"])
  /\ UNCHANGED <<sync, keeper>>

SseError(kind) ==
  /\ push.conn # "closed"
  /\ IF kind = "retryable" THEN Retryable(push) ELSE NonRetryable(push)
  /\ UNCHANGED <<sync, keeper>>

SseOccupancy(c, n) ==
  /\ push.conn = "open"
  /\ LET o == Occupancy(keeper, c, n) IN
     keeper' = o.next /\ Dispatch(o.event, push)
  /\ UNCHANGED sync

SseControl(ctl) ==
  /\ push.conn = "open"
  /\ IF ctl = "STREAMING_RESET"
     THEN Silent(HandleStreamingReset(push)) /\ UNCHANGED keeper
     ELSE LET o == ControlEvent(keeper, ctl) IN
          keeper' = o.next /\ Dispatch(o.event, push)
  /\ Bounded(push')
  /\ UNCHANGED sync

\* The server changes something. An update notification is handled only when
\* the connection is open and the keeper says that streaming is up.
ServerChanges ==
  /\ ~(push.conn = "open" /\ IsStreamingUp(keeper))
  /\ stale' = TRUE
  /\ UNCHANGED <<sync, polling, push, keeper>>

\* A periodic fetch.
Poll ==
  /\ polling
  /\ stale' = FALSE
  /\ UNCHANGED <<sync, polling, push, keeper>>

-----------------------------------------------------------------------------
Responds ==
  \E i \in 1..Len(push.auths), outcome \in AuthOutcome : Authenticated(i, outcome)

ConnectionSettles ==
  /\ push.conn = "connecting"
  /\ SseOpens \/ \E kind \in ErrorKind : SseError(kind)

\* The server ends a connection whose token has expired.
TokenExpires == push.conn = "open" /\ SseError("retryable")

Next ==
  \/ SyncStart
  \/ CacheValidated
  \/ SyncStop
  \/ \E k \in Key \ {Main} : AddClient(k) \/ RemoveClient(k)
  \/ Reconnect
  \/ RefreshToken
  \/ Retry
  \/ OpenConnection
  \/ Responds
  \/ SseOpens
  \/ \E kind \in ErrorKind : SseError(kind)
  \/ \E c \in Channel, n \in 0..1 : SseOccupancy(c, n)
  \/ \E ctl \in ControlSent : SseControl(ctl)
  \/ ServerChanges
  \/ Poll

Spec == Init /\ [][Next]_vars

\* Timers fire, promises settle, a connection attempt ends, no connection outlives
\* its token, and polling polls. Nothing is assumed of the user, of the messages,
\* or of how requests end.
Fairness ==
  /\ WF_vars(CacheValidated)
  /\ WF_vars(Reconnect)
  /\ WF_vars(RefreshToken)
  /\ WF_vars(Retry)
  /\ WF_vars(OpenConnection)
  /\ WF_vars(Responds)
  /\ WF_vars(ConnectionSettles)
  /\ WF_vars(TokenExpires)
  /\ WF_vars(Poll)

FairSpec == Spec /\ Fairness

-----------------------------------------------------------------------------
\* A stopped sync manager neither polls nor streams, and a push manager that was
\* stopped or disabled has no connection and no timer that could open one,
\* whatever starts, responses and timers from before are still to come.
DisconnectedIsQuiet ==
  /\ ~running => ~polling /\ ~IsRunning(push)
  /\ push.disconnected = "yes" =>
       /\ push.conn = "closed"
       /\ ~push.refresh /\ push.sseOpen = NoToken
       /\ ~push.backoff /\ push.attempts = 0

\* What an SDK whose streaming was disabled does when it is paused and resumed is
\* left out of the next two properties: see StaleIsTemporary.
DisabledBefore == push.disabled /\ starts > 1

OnItsWay ==
  \/ polling
  \/ push.conn # "closed"
  \/ push.auths # <<>>
  \/ push.sseOpen # NoToken
  \/ push.kicks > 0
  \/ push.backoff

\* A sync manager that is running, and is not about to start, polls, streams or is
\* on its way to it, and it does not poll while it is connected and streaming is
\* up: every failure ends in polling, and every connection in one of the two.
OneSource ==
  /\ running /\ validating = 0 /\ ~DisabledBefore => OnItsWay
  /\ push.conn = "open" /\ IsStreamingUp(keeper) => ~polling

\* What changed while the SDK was not told is fetched in the end, in this life or
\* in a resumed one, if it keeps running and clients are not destroyed for ever,
\* each one outdating an authentication.
CatchesUp ==
  \/ []<><<\E k \in Key \ {Main} : RemoveClient(k)>>_vars
  \/ stale ~> (~stale \/ ~running \/ DisabledBefore)

\* "It eventually emits PUSH_SUBSYSTEM_DOWN, that starts polling, or
\* PUSH_SUBSYSTEM_UP, that executes a syncAll" (pushManager.ts, of `start`): what
\* changed while the SDK was not told is fetched in the end. It is not when the SDK
\* is resumed after streaming was disabled, for then `start` emits nothing.
StaleIsTemporary == stale ~> (~stale \/ ~running)
=============================================================================
