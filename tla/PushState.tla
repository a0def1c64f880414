----------------------------- MODULE PushState -----------------------------
(***************************************************************************)
(* The push manager of src/sync/streaming/pushManager.ts, with its SSE     *)
(* client and its retry backoff, as functions of its state. A function     *)
(* stands for code that runs without interruption, so that the actions of  *)
(* module SyncManager compose a handler and every listener it triggers.    *)
(***************************************************************************)
EXTENDS Naturals, Sequences, FiniteSets

CONSTANTS
  Side,         \* "client", where keys are given, or "server"
  Key,          \* user keys of client-side clients
  Main,         \* the key of the main client
  MaxAttempts   \* attempts after which the backoff delay stays at its maximum

ASSUME PushAssumption ==
  /\ Side \subseteq {"client", "server"}
  /\ Main \in Key
  /\ MaxAttempts \in Nat
  /\ "none" \notin Key

\* No token at hand; a token is known by the keys it was granted for.
NoToken == {"none"}

Token == SUBSET Key

\* side: whether the factory was given a user key
\* disconnected: undefined until the first start or stop
\* refresh, sseOpen, backoff: the timers timeoutIdTokenRefresh, timeoutIdSseOpen
\*   (with the token it opens) and the one of connectPushRetryBackoff
\* conn, token: the SSE connection and the token it was opened with
\* auths: the requests to authenticate in flight, each for some keys
\* kicks: setTimeout(connectPush) or setTimeout(checkForReconnect) still pending
Push == [side         : Side,
         disconnected : {"undefined", "no", "yes"},
         disabled     : BOOLEAN,
         refresh      : BOOLEAN,
         sseOpen      : Token \cup {NoToken},
         backoff      : BOOLEAN,
         attempts     : 0..MaxAttempts,
         conn         : {"closed", "connecting", "open"},
         token        : Token \cup {NoToken},
         auths        : Seq(Token),
         clients      : Token,
         newClient    : BOOLEAN,
         kicks        : Nat]

InitPush(side) ==
            [side         |-> side,
             disconnected |-> "undefined",
             disabled     |-> FALSE,
             refresh      |-> FALSE,
             sseOpen      |-> NoToken,
             backoff      |-> FALSE,
             attempts     |-> 0,
             conn         |-> "closed",
             token        |-> NoToken,
             auths        |-> <<>>,
             clients      |-> {},
             newClient    |-> FALSE,
             kicks        |-> 0]

ServerSide(p) == p.side = "server"

IsRunning(p) == p.disconnected = "no"

-----------------------------------------------------------------------------
(* SSEClient and Backoff.                                                  *)

CloseSse(p) == [p EXCEPT !.conn = "closed"]

OpenSse(p, token) == [p EXCEPT !.conn = "connecting", !.token = token]

ScheduleCall(p) ==
  [p EXCEPT !.backoff = TRUE,
            !.attempts = IF p.attempts < MaxAttempts THEN @ + 1 ELSE @]

ResetBackoff(p) == [p EXCEPT !.backoff = FALSE, !.attempts = 0]

-----------------------------------------------------------------------------
(* Connection.                                                             *)

ConnectPush(p) ==
  IF p.disconnected = "yes" THEN p
  ELSE [p EXCEPT !.disconnected = "no", !.auths = Append(@, p.clients)]

DisconnectPush(p) ==
  IF p.disconnected = "yes" THEN p
  ELSE [CloseSse(ResetBackoff(p)) EXCEPT !.disconnected = "yes",
                                         !.refresh = FALSE,
                                         !.sseOpen = NoToken]

\* Listeners of the events of the SSE handler and of connectPush.

HandleUp(p) == ResetBackoff(p)

HandleNonRetryableError(p) == [DisconnectPush(p) EXCEPT !.disabled = TRUE]

HandleRetryableError(p) == ScheduleCall(CloseSse(p))

HandleStreamingReset(p) ==
  IF p.disconnected = "yes" THEN p ELSE ConnectPush([p EXCEPT !.refresh = FALSE])

\* Whether an authentication was made stale by a client added since.
LacksNewClient(p, keys) == ~ServerSide(p) /\ Cardinality(keys) < Cardinality(p.clients)

ScheduleTokenRefreshAndSse(p, keys) == [p EXCEPT !.refresh = TRUE, !.sseOpen = keys]

-----------------------------------------------------------------------------
(* Operations.                                                             *)

AddKey(p, k) ==
  IF k \in p.clients THEN p
  ELSE [p EXCEPT !.clients = @ \cup {k}, !.newClient = TRUE,
                 !.kicks = IF IsRunning(p) THEN @ + 1 ELSE @]

RemoveKey(p, k) == [p EXCEPT !.clients = @ \ {k}]

StartPush(p) ==
  IF p.disabled \/ IsRunning(p) THEN p
  ELSE LET q == [p EXCEPT !.disconnected = "no"] IN
       IF ServerSide(p) THEN [q EXCEPT !.kicks = @ + 1] ELSE AddKey(q, Main)

StopPush(p) ==
  IF ServerSide(p) THEN DisconnectPush(p) ELSE RemoveKey(DisconnectPush(p), Main)

\* A pending setTimeout of `start` or `add` fires.
Kick(p) ==
  LET q == [p EXCEPT !.kicks = @ - 1] IN
  IF ServerSide(p) THEN ConnectPush(q)
  ELSE IF q.newClient THEN ConnectPush([q EXCEPT !.newClient = FALSE])
  ELSE q
=============================================================================
