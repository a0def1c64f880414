---------------------------- MODULE Authenticator ----------------------------
(***************************************************************************)
(* The HTTP client of the endpoints that require a token                   *)
(* (src/services/secureSplitHttpClient.ts), and the provider of its        *)
(* credentials (authProvider.ts) with its Backoff: a credential is fetched *)
(* when a call needs one, the calls that come meanwhile share the promise, *)
(* and a request refused with status 401 is made once more with another    *)
(* credential. Tokens are numbered as they are issued; 0 stands for none.  *)
(***************************************************************************)
EXTENDS Naturals, FiniteSets

CONSTANTS
  Caller,      \* the calls of the HTTP client
  MaxTokens    \* bound: tokens issued

ASSUME AuthenticatorAssumption == MaxTokens \in Nat /\ IsFiniteSet(Caller)

None == 0
Promise == 1 .. 2 * Cardinality(Caller)   \* of a credential: no call asks for more than two

VARIABLES
  issued,     \* the tokens issued
  expired,    \* those up to this one have expired, by the clock of the SDK,
  refused,    \* and those up to this one are refused by the server
  credential, \* cachedCredential
  inFlight,   \* inFlightPromise
  promise,    \* of each promise, whether its credential is being fetched, waits for
              \* the backoff, waits for a timer that was cleared, or has its value; or
              \* it is "new", which it is again when nobody can ask for it any more
  timer,      \* the promise that waits for the timer of the backoff
  call,       \* of each call its stage, the token sent last, the promise it waits
              \* for, and the token it was refused for
  stopped

authVars == <<issued, expired, refused, credential, inFlight, promise, timer, call, stopped>>

NewPromise == [state |-> "new", value |-> None]
Ended == [stage |-> "ended", token |-> None, promise |-> None, refused |-> None]

AuthInit ==
  /\ issued = 0 /\ expired = 0 /\ refused = 0
  /\ credential = None
  /\ inFlight = None
  /\ promise = [p \in Promise |-> NewPromise]
  /\ timer = None
  /\ call = [c \in Caller |-> [Ended EXCEPT !.stage = "new"]]
  /\ stopped = FALSE

-----------------------------------------------------------------------------
(* credential() of the provider, called by call c                           *)

\* A call goes on with a credential; with none, after a stop, it is rejected.
GoesOn(d, token) ==
  IF token = None THEN Ended ELSE [d EXCEPT !.stage = "sent", !.token = token, !.promise = None]

Usable(cached) == cached # None /\ cached > expired

Fresh == CHOOSE p \in Promise :
  promise[p].state = "new" /\ \A q \in 1 .. p - 1 : promise[q].state # "new"

FetchCredential(c, d) ==
  /\ promise' = [promise EXCEPT ![Fresh].state = "fetching"]
  /\ inFlight' = Fresh
  /\ call' = [call EXCEPT ![c] = [d EXCEPT !.stage = "waits", !.promise = Fresh]]

\* Mutant: a call that needs a credential fetches one.
CredentialAlone(c, d, cached) ==
  IF Usable(cached)
  THEN call' = [call EXCEPT ![c] = GoesOn(d, cached)] /\ UNCHANGED <<inFlight, promise>>
  ELSE FetchCredential(c, d)

\* The credential cached, the promise in flight, or a new promise.
Credential(c, d, cached) ==
  CASE Usable(cached) ->
         call' = [call EXCEPT ![c] = GoesOn(d, cached)] /\ UNCHANGED <<inFlight, promise>>
    [] ~Usable(cached) /\ inFlight = None -> FetchCredential(c, d)
    [] OTHER ->
         /\ call' = [call EXCEPT ![c] =
                       IF promise[inFlight].state = "settled" THEN GoesOn(d, promise[inFlight].value)
                       ELSE [d EXCEPT !.stage = "waits", !.promise = inFlight]]
         /\ UNCHANGED <<inFlight, promise>>

StartCall(c) ==
  /\ call[c].stage = "new"
  /\ Credential(c, call[c], credential)
  /\ UNCHANGED <<issued, expired, refused, credential, timer, stopped>>

-----------------------------------------------------------------------------
(* The credentials                                                          *)

\* Promise p is settled, and what waits for it goes on.
Settle(p, value) ==
  call' = [c \in Caller |-> IF call[c].stage = "waits" /\ call[c].promise = p
                            THEN GoesOn(call[c], value) ELSE call[c]]

\* The promises once the timer of the backoff is cleared.
TimerCleared == IF timer = None THEN promise ELSE [promise EXCEPT ![timer].state = "cleared"]

Authenticated(p) ==
  /\ promise[p].state = "fetching"
  /\ issued < MaxTokens
  /\ issued' = issued + 1
  /\ credential' = issued'
  /\ inFlight' = None
  /\ timer' = None
  /\ promise' = [TimerCleared EXCEPT ![p] = NewPromise]
  /\ Settle(p, issued')
  /\ UNCHANGED <<expired, refused, stopped>>

\* Authentication fails: stopped, what is cached will do; a status 4xx rejects; any
\* other error is retried, for ever.
AuthenticationFails(p, final) ==
  /\ promise[p].state = "fetching"
  /\ CASE stopped ->
            /\ promise' = [promise EXCEPT ![p] = IF p # inFlight THEN NewPromise
                                                ELSE [state |-> "settled", value |-> credential]]
            /\ Settle(p, credential)
            /\ UNCHANGED <<inFlight, timer>>
       [] ~stopped /\ final ->
            /\ promise' = [promise EXCEPT ![p] = NewPromise]
            /\ inFlight' = None
            /\ Settle(p, None)
            /\ UNCHANGED timer
       [] OTHER ->
            /\ promise' = [TimerCleared EXCEPT ![p].state = "backoff"]
            /\ timer' = p
            /\ UNCHANGED <<inFlight, call>>
  /\ UNCHANGED <<issued, expired, refused, credential, stopped>>

BackoffEnds ==
  /\ timer # None
  /\ timer' = None
  /\ promise' = [promise EXCEPT ![timer].state = "fetching"]
  /\ UNCHANGED <<issued, expired, refused, credential, inFlight, call, stopped>>

CredentialExpires ==
  /\ expired < issued
  /\ expired' = expired + 1
  /\ UNCHANGED <<issued, refused, credential, inFlight, promise, timer, call, stopped>>

CredentialRefused ==
  /\ refused < issued
  /\ refused' = refused + 1
  /\ UNCHANGED <<issued, expired, credential, inFlight, promise, timer, call, stopped>>

StopProvider ==
  /\ stopped' = TRUE
  /\ credential' = None
  /\ inFlight' = None
  /\ timer' = None
  /\ promise' = [p \in Promise |-> IF promise[p].state = "settled" THEN NewPromise
                                   ELSE TimerCleared[p]]
  /\ UNCHANGED <<issued, expired, refused, call>>

-----------------------------------------------------------------------------
(* The requests                                                             *)

\* The request is answered, or fails with a status other than 401.
CallEnds(c) ==
  /\ call[c].stage = "sent"
  /\ call' = [call EXCEPT ![c] = Ended]
  /\ UNCHANGED <<issued, expired, refused, credential, inFlight, promise, timer, stopped>>

\* Status 401: the first time, whatever credential is cached is dropped.
Unauthorized(c) ==
  /\ call[c].stage = "sent"
  /\ call[c].token <= refused
  /\ IF call[c].refused = None
     THEN /\ credential' = None
          /\ Credential(c, [call[c] EXCEPT !.refused = call[c].token], None)
     ELSE /\ call' = [call EXCEPT ![c] = Ended]
          /\ UNCHANGED <<credential, inFlight, promise>>
  /\ UNCHANGED <<issued, expired, refused, timer, stopped>>

-----------------------------------------------------------------------------
\* As long as the provider is not stopped one credential at most is on its way,
\* being fetched or waiting for the backoff, and it is what all calls that wait,
\* wait for, however tokens expire, are refused and fail to be fetched: no call is
\* left behind and no two authenticate. And no call is made again with the token it
\* was refused for. (Stopped, it may be: see what a failure then settles.)
OneAuthentication ==
  ~stopped =>
    /\ \A p \in Promise :
         /\ promise[p].state \in {"fetching", "backoff"} <=> p = inFlight
         /\ promise[p].state = "backoff" <=> p = timer
    /\ \A c \in Caller :
         /\ call[c].stage = "waits" => call[c].promise = inFlight
         /\ call[c].stage = "sent" => call[c].token # call[c].refused
=============================================================================
