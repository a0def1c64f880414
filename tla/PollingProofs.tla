---------------------------- MODULE PollingProofs ----------------------------
(***************************************************************************)
(* The properties of the parts of Polling, for every value of their        *)
(* constants. Each part has its own inductive invariant, since a step of   *)
(* Polling is a step of one part and leaves the others alone.              *)
(***************************************************************************)
EXTENDS Polling, FiniteSetTheorems, TLAPS

ClientNext ==
  \/ StartPolling \/ StopPolling \/ SyncAll \/ AnnounceDefinitions
  \/ \E u \in BOOLEAN : StoreDefinitions(u)
  \/ \E k \in Key : \/ Poll(k) \/ AddClient(k) \/ RemoveClient(k) \/ SmartReadyTimer(k)
                    \/ Fetched(k) \/ FetchFails(k)

AuthNext ==
  \/ BackoffEnds \/ CredentialExpires \/ CredentialRefused \/ StopProvider
  \/ \E c \in Caller : StartCall(c) \/ CallEnds(c) \/ Unauthorized(c)
  \/ \E p \in Promise : Authenticated(p) \/ \E final \in BOOLEAN : AuthenticationFails(p, final)

ServerNext ==
  \/ StartDefinitions \/ DefinitionsExecuted \/ StopAllTasks \/ PollSegments \/ FetchNew
  \/ StopWorkers \/ Begin \/ EndsAtOnce
  \/ \E s \in Segment, m \in Member, heard \in BOOLEAN : SegmentChanges(s, m, heard)
  \/ \E s \in Segment : BackoffFires(s)
  \/ \E f \in fetches : SegmentFails(f) \/ \E v \in 0..Latest(f.segment) : FetchAnswered(f, v)

FetcherNext ==
  \/ FetchDefinitions \/ ProxyReplaced \/ IntervalPasses
  \/ \E k \in Kind, archived \in BOOLEAN : Release(k, archived)
  \/ \E q \in requests, f, r \in 0..MaxReleases : RequestAnswered(q, [flag |-> f, rbs |-> r])
  \/ \E q \in requests : TimedOut(q) \/ \E status \in Status : RequestFails(q, status)

LEMMA ClientStep == ASSUME [Next]_vars PROVE [ClientNext]_clientVars
  BY DEF Next, vars, ClientNext, Client, Server, Fetcher, Auth, Localhost, clientVars

LEMMA AuthStep == ASSUME [Next]_vars PROVE [AuthNext]_authVars
  BY DEF Next, vars, AuthNext, Client, Server, Fetcher, Auth, Localhost, authVars

LEMMA ServerStep == ASSUME [Next]_vars PROVE [ServerNext]_serverVars
  BY DEF Next, vars, ServerNext, Client, Server, Fetcher, Auth, Localhost, serverVars

LEMMA FetcherStep == ASSUME [Next]_vars PROVE [FetcherNext]_fetcherVars
  BY DEF Next, vars, FetcherNext, Client, Server, Fetcher, Auth, Localhost, fetcherVars

-----------------------------------------------------------------------------
(* ClientPolling                                                            *)

\* Only the tasks of clients that are there run, and only while polling.
OnlyTasksRun == \A k \in Key : running[k] => polling /\ k \in tasks

\* Before a change of the definitions is announced, the memberships of the main
\* client may be polled as they were: if not, none are out of step with it.
MainLeads == running[Main] = uses => \A k \in tasks : running[k] = uses

\* The inductive invariant. PolledWhenUsed says nothing of the tasks while a change
\* waits to be announced, when clients are still added and polling stops and starts;
\* and the announcement looks at the task of the main client only.
ClientInv ==
  /\ ClientTypeOK
  /\ Main \in tasks
  /\ OnlyTasksRun
  /\ polling => MainLeads
  /\ PolledWhenUsed

LEMMA ClientInitInv == Init => ClientInv
<1>. SUFFICES ASSUME ClientInit PROVE ClientInv
  BY DEF Init
<1>. Main \in Key /\ Retries \in Nat
  BY ClientPollingAssumption
<1>1. ClientTypeOK
  <2>1. tasks \in SUBSET Key /\ {polling, uses, announced, defsArrived} \subseteq BOOLEAN
    BY DEF ClientInit
  <2>2. running \in [Key -> BOOLEAN] /\ queue \in [Key -> Nat] /\ startingUp \in [Key -> BOOLEAN]
    BY DEF ClientInit
  <2>3. retry \in [Key -> 0..Retries]
    BY DEF ClientInit
  <2>4. smart \in [Key -> {"none", "timer", "once"}] /\ arrived \in SUBSET Key
    BY DEF ClientInit
  <2>. QED
    BY <2>1, <2>2, <2>3, <2>4 DEF ClientTypeOK
<1>2. Main \in tasks /\ ~polling /\ (\A k \in Key : running[k] = FALSE)
  BY DEF ClientInit
<1>. QED
  BY <1>1, <1>2 DEF ClientInv, ClientTypeOK, OnlyTasksRun, PolledWhenUsed

LEMMA ClientKeeps == ASSUME ClientInv, [ClientNext]_clientVars PROVE ClientInv'
<1>. Main \in Key /\ MaxQueue \in Nat /\ Retries \in Nat
  BY ClientPollingAssumption
<1>1. CASE StartPolling
  BY <1>1 DEF ClientInv, ClientTypeOK, OnlyTasksRun, MainLeads, PolledWhenUsed,
    StartPolling, Start, Still, Bounded
<1>2. CASE StopPolling
  BY <1>2 DEF ClientInv, ClientTypeOK, OnlyTasksRun, MainLeads, PolledWhenUsed,
    StopPolling, StopAll
<1>3. CASE SyncAll
  BY <1>3 DEF ClientInv, ClientTypeOK, OnlyTasksRun, MainLeads, PolledWhenUsed,
    SyncAll, Bounded
<1>4. CASE AnnounceDefinitions
  BY <1>4 DEF ClientInv, ClientTypeOK, OnlyTasksRun, MainLeads, PolledWhenUsed,
    AnnounceDefinitions, SmartReady, Waiting, SmartPausingListener, Start, StopAll, Still, Bounded
<1>5. ASSUME NEW u \in BOOLEAN, StoreDefinitions(u) PROVE ClientInv'
  BY <1>5 DEF ClientInv, ClientTypeOK, OnlyTasksRun, MainLeads, PolledWhenUsed,
    StoreDefinitions
<1>6. ASSUME NEW k \in Key, Poll(k) PROVE ClientInv'
  BY <1>6 DEF ClientInv, ClientTypeOK, OnlyTasksRun, MainLeads, PolledWhenUsed, Poll
<1>7. ASSUME NEW k \in Key, AddClient(k) PROVE ClientInv'
  BY <1>7 DEF ClientInv, ClientTypeOK, OnlyTasksRun, MainLeads, PolledWhenUsed,
    AddClient, Scheduled
<1>8. ASSUME NEW k \in Key, RemoveClient(k) PROVE ClientInv'
  BY <1>8 DEF ClientInv, ClientTypeOK, OnlyTasksRun, MainLeads, PolledWhenUsed, RemoveClient
<1>9. ASSUME NEW k \in Key, SmartReadyTimer(k) PROVE ClientInv'
  BY <1>9 DEF ClientInv, ClientTypeOK, OnlyTasksRun, MainLeads, PolledWhenUsed,
    SmartReadyTimer, SmartReady
<1>10. ASSUME NEW k \in Key, Fetched(k) PROVE ClientInv'
  BY <1>10 DEF ClientInv, ClientTypeOK, OnlyTasksRun, MainLeads, PolledWhenUsed, Fetched, Ends
<1>11. ASSUME NEW k \in Key, FetchFails(k) PROVE ClientInv'
  <2>1. UNCHANGED <<tasks, polling, running, uses, announced, defsArrived, smart, arrived>>
    BY <1>11 DEF FetchFails, Ends
  <2>2. ClientTypeOK'
    <3>1. CASE startingUp[k] /\ retry[k] < Retries
      BY <1>11, <2>1, <3>1 DEF ClientInv, ClientTypeOK, FetchFails
    <3>2. CASE ~(startingUp[k] /\ retry[k] < Retries)
      <4>1. /\ queue' = [queue EXCEPT ![k] = @ - 1]
            /\ retry' = [retry EXCEPT ![k] = 0]
            /\ startingUp' = [startingUp EXCEPT ![k] = FALSE]
            /\ queue[k] > 0
        BY <1>11, <3>2 DEF FetchFails, Ends
      <4>. QED
        BY <2>1, <4>1 DEF ClientInv, ClientTypeOK
    <3>. QED
      BY <3>1, <3>2
  <2>. QED
    BY <2>1, <2>2 DEF ClientInv, OnlyTasksRun, MainLeads, PolledWhenUsed
<1>12. CASE UNCHANGED clientVars
  BY <1>12 DEF ClientInv, ClientTypeOK, OnlyTasksRun, MainLeads, PolledWhenUsed, clientVars
<1>. QED
  BY <1>1, <1>2, <1>3, <1>4, <1>5, <1>6, <1>7, <1>8, <1>9, <1>10, <1>11, <1>12 DEF ClientNext

(* Whatever clients come and go and however often polling starts and stops *)
(* between the announcements of the definitions, memberships are polled    *)
(* exactly while they are used.                                            *)
THEOREM PollingCorrect == Spec => []PolledWhenUsed
<1>1. ClientInv /\ [Next]_vars => ClientInv'
  BY ClientStep, ClientKeeps
<1>2. ClientInv => PolledWhenUsed
  BY DEF ClientInv
<1>. QED
  BY ClientInitInv, <1>1, <1>2, PTL DEF Spec

-----------------------------------------------------------------------------
(* Authenticator                                                            *)

PromiseState == [state : {"new", "fetching", "backoff"}, value : {None}]
CallState ==
  [stage : {"new", "waits", "sent", "ended"}, token : Nat, promise : Promise \cup {None},
   refused : Nat]

\* Types of a provider not stopped, none of whose promises has a value to keep.
AuthTypeOK ==
  /\ issued \in Nat
  /\ credential \in 0..issued
  /\ {inFlight, timer} \subseteq Promise \cup {None}
  /\ promise \in [Promise -> PromiseState]
  /\ call \in [Caller -> CallState]

\* What a call was sent or refused with has been issued before.
CallIsOld(c) ==
  /\ call[c].token <= issued
  /\ call[c].refused <= issued
  /\ call[c].stage = "new" => call[c].refused = None
  /\ call[c].stage = "waits" => call[c].promise # None

OnePromise ==
  \A p \in Promise :
    /\ promise[p].state \in {"fetching", "backoff"} <=> p = inFlight
    /\ promise[p].state = "backoff" <=> p = timer

NoCallBehind(c) ==
  /\ call[c].stage = "waits" => call[c].promise = inFlight
  /\ call[c].stage = "sent" => call[c].token # call[c].refused

\* The inductive invariant. That a call is not made again with the token it was
\* refused for rests on tokens being issued after all that were refused.
AuthInv ==
  /\ stopped \in BOOLEAN
  /\ ~stopped =>
       /\ AuthTypeOK
       /\ OnePromise
       /\ \A c \in Caller : CallIsOld(c) /\ NoCallBehind(c)

LEMMA PromiseFacts ==
  /\ Promise \subseteq Nat \ {None}
  /\ Caller # {} => 1 \in Promise
<1>1. Cardinality(Caller) \in Nat /\ (Cardinality(Caller) = 0 <=> Caller = {})
  BY AuthenticatorAssumption, FS_CardinalityType, FS_EmptySet
<1>. QED
  BY <1>1 DEF Promise, None

(* With nothing in flight every promise is free, and the first is taken.   *)
LEMMA FreshFacts ==
  ASSUME AuthTypeOK, OnePromise, inFlight = None, Caller # {}
  PROVE  Fresh \in Promise /\ promise[Fresh].state = "new"
<1>1. 1 \in Promise /\ promise[1].state = "new"
  BY PromiseFacts DEF AuthTypeOK, PromiseState, OnePromise
<1>2. \A q \in 1 .. 1 - 1 : promise[q].state # "new"
  OBVIOUS
<1>. QED
  BY <1>1, <1>2 DEF Fresh

LEMMA AuthInitInv == Init => AuthInv
<1>. SUFFICES ASSUME AuthInit PROVE AuthInv
  BY DEF Init
<1>1. AuthTypeOK
  BY AuthenticatorAssumption DEF AuthInit, AuthTypeOK, PromiseState, CallState, NewPromise, Ended, None
<1>2. OnePromise
  BY PromiseFacts DEF AuthInit, OnePromise, NewPromise
<1>3. \A c \in Caller : CallIsOld(c) /\ NoCallBehind(c)
  BY DEF AuthInit, CallIsOld, NoCallBehind, Ended, None
<1>. QED
  BY <1>1, <1>2, <1>3 DEF AuthInv, AuthInit

(* A call that asks for a credential shares the promise in flight.         *)
LEMMA CredentialKeeps ==
  ASSUME AuthInv, ~stopped, NEW c \in Caller, NEW d \in CallState, NEW cached \in 0..issued,
         d.token <= issued, d.refused <= issued, d.stage \in {"new", "sent"},
         cached # None => cached # d.refused, credential' \in 0..issued,
         Credential(c, d, cached), UNCHANGED <<issued, timer, stopped>>
  PROVE  AuthInv'
<1>0. AuthTypeOK /\ OnePromise /\ (\A b \in Caller : CallIsOld(b) /\ NoCallBehind(b)) /\ issued \in Nat
  BY DEF AuthInv, AuthTypeOK
<1>1. CASE Usable(cached)
  <2>1. UNCHANGED <<inFlight, promise>> /\ cached # None
        /\ call' = [call EXCEPT ![c] = [d EXCEPT !.stage = "sent", !.token = cached, !.promise = None]]
    BY <1>1 DEF Credential, Usable, GoesOn
  <2>. PICK e : e = [d EXCEPT !.stage = "sent", !.token = cached, !.promise = None]
    OBVIOUS
  <2>1a. cached \in Nat
    BY <1>0
  <2>2. e \in CallState /\ e.stage = "sent" /\ e.token = cached /\ e.refused = d.refused
    BY <2>1a DEF CallState
  <2>3. call' = [call EXCEPT ![c] = e]
    BY <2>1
  <2>4. AuthTypeOK' /\ OnePromise'
    BY <1>0, <2>1, <2>2, <2>3 DEF AuthTypeOK, OnePromise
  <2>5. ASSUME NEW b \in Caller PROVE CallIsOld(b)' /\ NoCallBehind(b)'
    <3>1. call'[b] = IF b = c THEN e ELSE call[b]
      BY <1>0, <2>3 DEF AuthTypeOK
    <3>. QED
      BY <1>0, <2>1, <2>2, <3>1 DEF CallIsOld, NoCallBehind
  <2>. QED
    BY <2>4, <2>5 DEF AuthInv
<1>2. CASE ~Usable(cached) /\ inFlight = None
  <2>1. Fresh \in Promise /\ promise[Fresh].state = "new" /\ Fresh # None
    BY <1>0, <1>2, FreshFacts, PromiseFacts
  <2>. PICK p \in Promise : p = Fresh
    BY <2>1
  <2>2. /\ promise' = [promise EXCEPT ![p].state = "fetching"]
        /\ inFlight' = p
        /\ call' = [call EXCEPT ![c] = [d EXCEPT !.stage = "waits", !.promise = p]]
    BY <1>2 DEF Credential, FetchCredential
  <2>3. AuthTypeOK'
    BY <1>0, <2>2 DEF AuthTypeOK, PromiseState, CallState
  <2>4. OnePromise'
    <3>1. timer \notin Promise /\ timer' = timer
      BY <1>0, <1>2, PromiseFacts DEF OnePromise
    <3>2. ASSUME NEW q \in Promise
          PROVE  promise'[q].state = IF q = p THEN "fetching" ELSE promise[q].state
      BY <1>0, <2>2 DEF AuthTypeOK, PromiseState
    <3>3. ASSUME NEW q \in Promise PROVE promise[q].state \notin {"fetching", "backoff"}
      BY <1>0, <1>2, PromiseFacts DEF OnePromise
    <3>. QED
      BY <2>2, <3>1, <3>2, <3>3 DEF OnePromise
  <2>. PICK e : e = [d EXCEPT !.stage = "waits", !.promise = p]
    OBVIOUS
  <2>5. e.stage = "waits" /\ e.promise = p /\ e.token = d.token /\ e.refused = d.refused
    BY DEF CallState
  <2>6. ASSUME NEW b \in Caller PROVE CallIsOld(b)' /\ NoCallBehind(b)'
    <3>1. call'[b] = IF b = c THEN e ELSE call[b]
      BY <1>0, <2>2 DEF AuthTypeOK
    <3>2. call[b].stage # "waits"
      BY <1>0, <1>2 DEF NoCallBehind, CallIsOld
    <3>. QED
      BY <1>0, <2>1, <2>2, <2>5, <3>1, <3>2 DEF CallIsOld, NoCallBehind
  <2>. QED
    BY <2>3, <2>4, <2>6 DEF AuthInv
<1>3. CASE ~Usable(cached) /\ inFlight # None
  <2>1. inFlight \in Promise /\ promise[inFlight].state # "settled"
    BY <1>0, <1>3 DEF AuthTypeOK, PromiseState
  <2>2. /\ UNCHANGED <<inFlight, promise>>
        /\ call' = [call EXCEPT ![c] = [d EXCEPT !.stage = "waits", !.promise = inFlight]]
    BY <1>3, <2>1 DEF Credential
  <2>. PICK e : e = [d EXCEPT !.stage = "waits", !.promise = inFlight]
    OBVIOUS
  <2>3. e \in CallState /\ e.stage = "waits" /\ e.promise = inFlight /\ e.token = d.token
        /\ e.refused = d.refused
    BY <2>1 DEF CallState
  <2>4. AuthTypeOK' /\ OnePromise'
    BY <1>0, <2>2, <2>3 DEF AuthTypeOK, OnePromise
  <2>5. ASSUME NEW b \in Caller PROVE CallIsOld(b)' /\ NoCallBehind(b)'
    <3>1. call'[b] = IF b = c THEN e ELSE call[b]
      BY <1>0, <2>2 DEF AuthTypeOK
    <3>. QED
      BY <1>0, <1>3, <2>2, <2>3, <3>1 DEF CallIsOld, NoCallBehind
  <2>. QED
    BY <2>4, <2>5 DEF AuthInv
<1>. QED
  BY <1>1, <1>2, <1>3

(* When a promise is settled all that waits goes on, with a token newer    *)
(* than any refused so far or with none.                                   *)
LEMMA SettleKeeps ==
  ASSUME AuthInv, ~stopped, NEW p \in Promise, p = inFlight, NEW value, value \in {None, issued'},
         issued' \in Nat, value = None \/ issued < value, issued <= issued', Settle(p, value)
  PROVE  /\ call' \in [Caller -> CallState]
         /\ \A c \in Caller : CallIsOld(c)' /\ call'[c].stage # "waits"
                              /\ (call'[c].stage = "sent" => call'[c].token # call'[c].refused)
<1>0. AuthTypeOK /\ (\A c \in Caller : CallIsOld(c) /\ NoCallBehind(c)) /\ issued \in Nat
  BY DEF AuthInv, AuthTypeOK
<1>1. ASSUME NEW c \in Caller
      PROVE  /\ call'[c] \in CallState
             /\ CallIsOld(c)' /\ call'[c].stage # "waits"
             /\ (call'[c].stage = "sent" => call'[c].token # call'[c].refused)
  <2>1. call[c] \in CallState
    BY <1>0 DEF AuthTypeOK
  <2>2. CASE call[c].stage # "waits"
    <3>1. call'[c] = call[c]
      BY <2>2 DEF Settle
    <3>. QED
      BY <1>0, <2>1, <2>2, <3>1 DEF CallIsOld, NoCallBehind, CallState
  <2>3. CASE call[c].stage = "waits" /\ value = None
    <3>1. call'[c] = Ended
      BY <1>0, <2>3 DEF Settle, GoesOn, NoCallBehind
    <3>. QED
      BY <3>1 DEF Ended, CallIsOld, CallState, None
  <2>4. CASE call[c].stage = "waits" /\ value # None
    <3>1. call'[c] = [call[c] EXCEPT !.stage = "sent", !.token = value, !.promise = None]
      BY <1>0, <2>4 DEF Settle, GoesOn, NoCallBehind
    <3>2. value \in Nat /\ value = issued' /\ call[c].refused <= issued
      BY <1>0, <2>4 DEF CallIsOld
    <3>3. call'[c] \in CallState /\ call'[c].stage = "sent" /\ call'[c].token = value
          /\ call'[c].refused = call[c].refused
      BY <2>1, <3>1, <3>2 DEF CallState
    <3>4. call'[c].refused \in Nat
      BY <3>3 DEF CallState
    <3>. QED
      BY <1>0, <2>4, <3>2, <3>3, <3>4 DEF CallIsOld
  <2>. QED
    BY <2>2, <2>3, <2>4
<1>2. call' = [c \in Caller |-> call'[c]]
  BY DEF Settle
<1>. QED
  BY <1>1, <1>2

LEMMA AuthKeeps == ASSUME AuthInv, [AuthNext]_authVars PROVE AuthInv'
<1>1. CASE stopped
  BY <1>1 DEF AuthInv, AuthNext, authVars, BackoffEnds, CredentialExpires, CredentialRefused,
    StopProvider, StartCall, CallEnds, Unauthorized, Authenticated, AuthenticationFails
<1>2. CASE ~stopped
  <2>0. AuthTypeOK /\ OnePromise /\ (\A b \in Caller : CallIsOld(b) /\ NoCallBehind(b)) /\ issued \in Nat
    BY <1>2 DEF AuthInv, AuthTypeOK
  <2>1. CASE BackoffEnds
    <3>1. timer \in Promise /\ promise[timer].state = "backoff" /\ timer = inFlight
      BY <2>0, <2>1 DEF BackoffEnds, AuthTypeOK, OnePromise
    <3>2. promise' = [promise EXCEPT ![timer].state = "fetching"] /\ timer' = None
          /\ UNCHANGED <<issued, credential, inFlight, call, stopped>>
      BY <2>1 DEF BackoffEnds
    <3>3. AuthTypeOK'
      BY <2>0, <3>1, <3>2 DEF AuthTypeOK, PromiseState
    <3>4. OnePromise'
      BY <2>0, <3>1, <3>2, PromiseFacts DEF AuthTypeOK, PromiseState, OnePromise
    <3>. QED
      BY <1>2, <2>0, <3>2, <3>3, <3>4 DEF AuthInv, CallIsOld, NoCallBehind
  <2>2. CASE CredentialExpires \/ CredentialRefused \/ UNCHANGED authVars
    BY <2>2 DEF AuthInv, CredentialExpires, CredentialRefused, authVars, AuthTypeOK, OnePromise,
      CallIsOld, NoCallBehind
  <2>3. CASE StopProvider
    BY <2>3 DEF StopProvider, AuthInv
  <2>4. ASSUME NEW c \in Caller, StartCall(c) PROVE AuthInv'
    <3>1. call[c] \in CallState /\ call[c].stage = "new" /\ call[c].refused = None
          /\ call[c].token <= issued /\ credential \in 0..issued
      BY <2>0, <2>4 DEF StartCall, AuthTypeOK, CallIsOld
    <3>2. Credential(c, call[c], credential) /\ UNCHANGED <<issued, timer, stopped, credential>>
      BY <2>4 DEF StartCall
    <3>. QED
      <4>1. credential # None => credential # call[c].refused
        BY <3>1
      <4>2. credential' \in 0..issued
        BY <3>1, <3>2
      <4>3. call[c].refused <= issued
        BY <2>0 DEF CallIsOld
      <4>. QED
        BY <1>2, <3>1, <3>2, <4>1, <4>2, <4>3, CredentialKeeps
  <2>5. ASSUME NEW c \in Caller, CallEnds(c) PROVE AuthInv'
    BY <1>2, <2>0, <2>5 DEF CallEnds, AuthInv, AuthTypeOK, OnePromise, CallIsOld, NoCallBehind,
      CallState, Ended, None
  <2>6. ASSUME NEW c \in Caller, Unauthorized(c) PROVE AuthInv'
    <3>1. CASE call[c].refused = None
      <4>. PICK d : d = [call[c] EXCEPT !.refused = call[c].token]
        OBVIOUS
      <4>1. d \in CallState /\ d.token <= issued /\ d.refused <= issued /\ d.stage = "sent"
        BY <2>0, <2>6 DEF Unauthorized, AuthTypeOK, CallState, CallIsOld
      <4>2. Credential(c, d, None) /\ UNCHANGED <<issued, timer, stopped>> /\ credential' = None
        BY <2>6, <3>1 DEF Unauthorized
      <4>3. None \in 0..issued
        BY <2>0 DEF None
      <4>. QED
        BY <1>2, <4>1, <4>2, <4>3, CredentialKeeps
    <3>2. CASE call[c].refused # None
      BY <1>2, <2>0, <2>6, <3>2 DEF Unauthorized, AuthInv, AuthTypeOK, OnePromise, CallIsOld,
        NoCallBehind, CallState, Ended, None
    <3>. QED
      BY <3>1, <3>2
  <2>7. ASSUME NEW p \in Promise, Authenticated(p) PROVE AuthInv'
    <3>1. p = inFlight /\ timer = None
      BY <2>0, <2>7 DEF Authenticated, AuthTypeOK, OnePromise
    <3>2. /\ issued' = issued + 1 /\ credential' = issued' /\ inFlight' = None /\ timer' = None
          /\ promise' = [promise EXCEPT ![p] = NewPromise] /\ UNCHANGED stopped
          /\ Settle(p, issued')
      BY <2>7, <3>1 DEF Authenticated, TimerCleared
    <3>3. /\ call' \in [Caller -> CallState]
          /\ \A c \in Caller : CallIsOld(c)' /\ NoCallBehind(c)'
      BY <1>2, <2>0, <3>1, <3>2, SettleKeeps DEF NoCallBehind
    <3>4. AuthTypeOK'
      BY <2>0, <3>2, <3>3 DEF AuthTypeOK, PromiseState, NewPromise
    <3>5. OnePromise'
      BY <2>0, <3>1, <3>2, PromiseFacts DEF AuthTypeOK, PromiseState, NewPromise, OnePromise
    <3>. QED
      BY <1>2, <3>2, <3>3, <3>4, <3>5 DEF AuthInv
  <2>8. ASSUME NEW p \in Promise, NEW final \in BOOLEAN, AuthenticationFails(p, final) PROVE AuthInv'
    <3>1. p = inFlight /\ timer = None /\ promise[p].state = "fetching"
          /\ UNCHANGED <<issued, credential, stopped>>
      BY <2>0, <2>8 DEF AuthenticationFails, AuthTypeOK, OnePromise
    <3>2. CASE final
      <4>1. /\ promise' = [promise EXCEPT ![p] = NewPromise] /\ inFlight' = None /\ timer' = None
            /\ Settle(p, None)
        BY <1>2, <2>8, <3>1, <3>2 DEF AuthenticationFails
      <4>2. /\ call' \in [Caller -> CallState]
            /\ \A c \in Caller : CallIsOld(c)' /\ NoCallBehind(c)'
        BY <1>2, <2>0, <3>1, <4>1, SettleKeeps DEF NoCallBehind
      <4>3. AuthTypeOK'
        BY <2>0, <3>1, <4>1, <4>2 DEF AuthTypeOK, PromiseState, NewPromise
      <4>4. OnePromise'
        BY <2>0, <3>1, <4>1, PromiseFacts DEF AuthTypeOK, PromiseState, NewPromise, OnePromise
      <4>. QED
        BY <1>2, <3>1, <4>2, <4>3, <4>4 DEF AuthInv
    <3>3. CASE ~final
      <4>1. /\ promise' = [promise EXCEPT ![p].state = "backoff"] /\ timer' = p
            /\ UNCHANGED <<inFlight, call>>
        BY <1>2, <2>8, <3>1, <3>3 DEF AuthenticationFails, TimerCleared
      <4>2. AuthTypeOK'
        BY <2>0, <3>1, <4>1 DEF AuthTypeOK, PromiseState
      <4>3. OnePromise'
        BY <2>0, <3>1, <4>1 DEF AuthTypeOK, PromiseState, OnePromise
      <4>. QED
        BY <1>2, <2>0, <3>1, <4>1, <4>2, <4>3 DEF AuthInv, CallIsOld, NoCallBehind
    <3>. QED
      BY <3>2, <3>3
  <2>. QED
    BY <2>1, <2>2, <2>3, <2>4, <2>5, <2>6, <2>7, <2>8 DEF AuthNext
<1>. QED
  BY <1>1, <1>2 DEF AuthInv

(* For any number of calls and tokens: until the provider is stopped, one  *)
(* credential at most is on its way, all that waits waits for it, and no   *)
(* call is repeated with the token it was refused for.                     *)
THEOREM AuthenticationCorrect == Spec => []OneAuthentication
<1>1. AuthInv /\ [Next]_vars => AuthInv'
  BY AuthStep, AuthKeeps
<1>2. AuthInv => OneAuthentication
  BY DEF AuthInv, OnePromise, NoCallBehind, OneAuthentication
<1>. QED
  BY AuthInitInv, <1>1, <1>2, PTL DEF Spec

-----------------------------------------------------------------------------
(* ServerSegments                                                           *)

WorkerState ==
  [max : Nat, newEvent : BOOLEAN, handling : BOOLEAN, bypass : BOOLEAN, attempts : Nat,
   timer : BOOLEAN]
Executions == [by : Segment \cup {"all", "new"}, till : Nat, begun : BOOLEAN]
NotBegun == {e \in Executions : ~e.begun}
Calls == {<< >>} \cup {<<e>> : e \in NotBegun}

ServerTypeOK ==
  /\ log \in [Segment -> Seq(Member)]
  /\ cache \in [Segment -> [cn : Nat, keys : SUBSET Member]]
  /\ chain \in Seq(Executions)
  /\ fetches \in SUBSET [segment : Segment, since : Nat, till : Nat, awaited : BOOLEAN]
  /\ worker \in [Segment -> WorkerState]
  /\ abandoned \in BOOLEAN

OthersWait(executions) == \A i \in 2..Len(executions) : ~executions[i].begun

AwaitedByFirst == Awaited # {} => chain # << >> /\ chain[1].begun

\* The fetches in flight are those of the execution that runs, from the change
\* numbers there are, and one for each segment.
FetchesAreOfFirst ==
  /\ \A f \in fetches : f.awaited /\ f.since = cache[f.segment].cn
  /\ \A f, g \in fetches : f.segment = g.segment => f = g

\* The inductive invariant. SegmentIsExact does not tell whether an answer that comes
\* starts where the segment is: no other fetch may have moved it meanwhile.
ServerInv ==
  /\ ServerTypeOK
  /\ OthersWait(chain)
  /\ AwaitedByFirst
  /\ \A s \in Segment : cache[s].cn <= Latest(s)
  /\ ~abandoned => FetchesAreOfFirst
  /\ SegmentIsExact

LEMMA ServerInitInv == Init => ServerInv
<1>. SUFFICES ASSUME ServerInit PROVE ServerInv
  BY DEF Init
<1>1. ServerTypeOK
  <2>1. NewWorker \in WorkerState
    BY DEF NewWorker, WorkerState
  <2>2. log \in [Segment -> Seq(Member)] /\ chain \in Seq(Executions)
    BY DEF ServerInit
  <2>3. cache \in [Segment -> [cn : Nat, keys : SUBSET Member]]
    BY DEF ServerInit
  <2>4. worker \in [Segment -> WorkerState]
    BY <2>1 DEF ServerInit
  <2>. QED
    BY <2>2, <2>3, <2>4 DEF ServerInit, ServerTypeOK
<1>2. OthersWait(chain) /\ AwaitedByFirst /\ FetchesAreOfFirst
  BY DEF ServerInit, OthersWait, AwaitedByFirst, Awaited, FetchesAreOfFirst
<1>3. \A s \in Segment : cache[s].cn = 0 /\ cache[s].keys = {} /\ Latest(s) = 0
  BY DEF ServerInit, Latest
<1>4. ASSUME NEW s \in Segment PROVE KeysAt(s, 0) = {}
  <2>1. \A m \in Member : {i \in 1..0 : log[s][i] = m} = {}
    OBVIOUS
  <2>2. Cardinality({}) = 0
    BY FS_EmptySet
  <2>. QED
    BY <2>1, <2>2 DEF KeysAt, Odd
<1>. QED
  <2>1. ASSUME NEW s \in Segment
        PROVE  cache[s].cn <= Latest(s) /\ cache[s].keys = KeysAt(s, cache[s].cn)
    <3>1. cache[s].cn = 0 /\ cache[s].keys = {} /\ Latest(s) = 0
      BY <1>3
    <3>2. KeysAt(s, cache[s].cn) = KeysAt(s, 0)
      BY <3>1
    <3>. QED
      BY <1>4, <3>1, <3>2
  <2>. QED
    BY <1>1, <1>2, <2>1 DEF ServerInv, SegmentIsExact

(* A change of a segment leaves its keys at earlier changes what they were. *)
LEMMA KeysArePast ==
  ASSUME log \in [Segment -> Seq(Member)], NEW z \in Segment, NEW m \in Member,
         log' = [log EXCEPT ![z] = Append(@, m)],
         NEW s \in Segment, NEW n \in Nat, n <= Latest(s)
  PROVE  KeysAt(s, n)' = KeysAt(s, n) /\ n <= Latest(s)'
<1>1. log[s] \in Seq(Member) /\ Len(log[s]) \in Nat
  OBVIOUS
<1>2. log'[s] = IF s = z THEN Append(log[s], m) ELSE log[s]
  OBVIOUS
<1>3. (\A i \in 1..n : log'[s][i] = log[s][i]) /\ n <= Len(log'[s])
  BY <1>1, <1>2 DEF Latest
<1>4. \A x \in Member : {i \in 1..n : log'[s][i] = x} = {i \in 1..n : log[s][i] = x}
  BY <1>3
<1>. QED
  BY <1>3, <1>4 DEF KeysAt, Latest

\* The keys that the changes after a up to v add or remove.
Touched(s, a, v) == {log[s][i] : i \in (a + 1)..v}

(* An answer from change a to change v makes the keys at a those at v.     *)
LEMMA AnswerIsExact ==
  ASSUME NEW s \in Segment, NEW a \in Nat, NEW v \in Nat, a <= v
  PROVE  (KeysAt(s, a) \ Touched(s, a, v)) \cup (Touched(s, a, v) \cap KeysAt(s, v)) = KeysAt(s, v)
<1>1. ASSUME NEW m \in Member, m \notin Touched(s, a, v)
      PROVE  m \in KeysAt(s, a) <=> m \in KeysAt(s, v)
  <2>1. {i \in 1..v : log[s][i] = m} = {i \in 1..a : log[s][i] = m}
    BY <1>1 DEF Touched
  <2>. QED
    BY <2>1 DEF KeysAt
<1>2. KeysAt(s, a) \subseteq Member /\ KeysAt(s, v) \subseteq Member
  BY DEF KeysAt
<1>. QED
  BY <1>1, <1>2

(* A worker asks for one execution more, or for none.                      *)
LEMMA WorkerFacts ==
  ASSUME NEW s \in Segment, NEW w \in WorkerState, NEW cn \in Nat
  PROVE  /\ Handle(s, w, cn).worker \in WorkerState /\ Handle(s, w, cn).calls \in Calls
         /\ Continue(s, w, cn).worker \in WorkerState /\ Continue(s, w, cn).calls \in Calls
         /\ \A n \in Nat : /\ Put(s, w, n, cn).worker \in WorkerState
                           /\ Put(s, w, n, cn).calls \in Calls
<1>1. ASSUME NEW x \in WorkerState
      PROVE  Handle(s, x, cn).worker \in WorkerState /\ Handle(s, x, cn).calls \in Calls
  <2>1. Execution(s, IF x.bypass THEN x.max ELSE 0) \in NotBegun
    BY DEF Execution, NotBegun, Executions, WorkerState
  <2>2. [x EXCEPT !.handling = FALSE] \in WorkerState
        /\ [x EXCEPT !.handling = TRUE, !.newEvent = FALSE] \in WorkerState
    BY DEF WorkerState
  <2>. QED
    BY <2>1, <2>2 DEF Handle, Idle, Calls
<1>2. ASSUME NEW x \in WorkerState
      PROVE  /\ ResetBackoff(x) \in WorkerState
             /\ [x EXCEPT !.handling = FALSE] \in WorkerState
             /\ [x EXCEPT !.timer = TRUE, !.attempts = @ + 1] \in WorkerState
             /\ [ResetBackoff(x) EXCEPT !.bypass = TRUE] \in WorkerState
             /\ \A n \in Nat : [x EXCEPT !.max = n, !.newEvent = TRUE, !.bypass = FALSE] \in WorkerState
  <2>1. ResetBackoff(x) \in WorkerState /\ [x EXCEPT !.handling = FALSE] \in WorkerState
    BY DEF ResetBackoff, WorkerState
  <2>2. x.attempts + 1 \in Nat
    BY DEF WorkerState
  <2>3. [x EXCEPT !.timer = TRUE, !.attempts = @ + 1] \in WorkerState
    BY <2>2 DEF WorkerState
  <2>4. \A y \in WorkerState : [y EXCEPT !.bypass = TRUE] \in WorkerState
    BY DEF WorkerState
  <2>5. \A n \in Nat : [x EXCEPT !.max = n, !.newEvent = TRUE, !.bypass = FALSE] \in WorkerState
    BY DEF WorkerState
  <2>. QED
    BY <2>1, <2>3, <2>4, <2>5
<1>3. \A x \in WorkerState : Idle(x).worker = x /\ Idle(x).calls \in Calls
  BY DEF Idle, Calls
<1>4. GoOn(s, w, cn).worker \in WorkerState /\ GoOn(s, w, cn).calls \in Calls
  BY <1>1, <1>2, <1>3 DEF GoOn
<1>5. Continue(s, w, cn).worker \in WorkerState /\ Continue(s, w, cn).calls \in Calls
  BY <1>1, <1>2, <1>3, <1>4 DEF Continue
<1>6. ASSUME NEW n \in Nat
      PROVE  Put(s, w, n, cn).worker \in WorkerState /\ Put(s, w, n, cn).calls \in Calls
  <2>. PICK q : q = [w EXCEPT !.max = n, !.newEvent = TRUE, !.bypass = FALSE]
    OBVIOUS
  <2>. PICK h : h = IF w.timer \/ ~w.handling THEN Handle(s, q, cn) ELSE Idle(q)
    OBVIOUS
  <2>1. h.worker \in WorkerState /\ h.calls \in Calls
    BY <1>1, <1>2, <1>3
  <2>2. Put(s, w, n, cn) = IF n <= cn \/ n <= w.max THEN Idle(w)
                           ELSE [h EXCEPT !.worker = ResetBackoff(@)]
    BY DEF Put
  <2>3. h = [worker |-> h.worker, calls |-> h.calls]
    BY DEF Handle, Idle
  <2>4. [h EXCEPT !.worker = ResetBackoff(@)] = [worker |-> ResetBackoff(h.worker), calls |-> h.calls]
    BY <2>3
  <2>. QED
    <3>1. CASE n <= cn \/ n <= w.max
      BY <1>3, <2>2, <3>1
    <3>2. CASE ~(n <= cn \/ n <= w.max)
      <4>1. Put(s, w, n, cn) = [worker |-> ResetBackoff(h.worker), calls |-> h.calls]
        BY <2>2, <2>4, <3>2
      <4>2. ResetBackoff(h.worker) \in WorkerState
        BY <1>2, <2>1
      <4>. QED
        BY <2>1, <4>1, <4>2
    <3>. QED
      BY <3>1, <3>2
<1>. QED
  BY <1>1, <1>5, <1>6

(* Executions are added at the end, and the first one leaves.              *)
LEMMA ChainFacts ==
  ASSUME NEW ch \in Seq(Executions), OthersWait(ch), NEW calls \in Calls
  PROVE  /\ ch \o calls \in Seq(Executions)
         /\ OthersWait(ch \o calls)
         /\ ch # << >> => ch \o calls # << >> /\ (ch \o calls)[1] = ch[1]
         /\ ch # << >> => /\ Tail(ch) \o calls \in Seq(Executions)
                          /\ OthersWait(Tail(ch) \o calls)
<1>1. CASE calls = << >>
  BY <1>1 DEF OthersWait
<1>2. CASE calls # << >>
  <2>. PICK e \in NotBegun : calls = <<e>>
    BY <1>2 DEF Calls
  <2>1. e \in Executions /\ ~e.begun /\ calls \in Seq(Executions) /\ Len(calls) = 1 /\ calls[1] = e
    BY DEF NotBegun
  <2>2. ch \o calls = Append(ch, e) /\ (ch # << >> => Tail(ch) \o calls = Append(Tail(ch), e))
    OBVIOUS
  <2>. QED
    BY <2>1, <2>2 DEF OthersWait
<1>. QED
  BY <1>1, <1>2

(* Only executions are added and workers told.                             *)
LEMMA ChainGrows ==
  ASSUME ServerInv, NEW calls \in Calls, chain' = chain \o calls,
         worker' \in [Segment -> WorkerState], UNCHANGED <<log, cache, fetches, abandoned>>
  PROVE  ServerInv'
<1>1. chain \in Seq(Executions) /\ OthersWait(chain)
  BY DEF ServerInv, ServerTypeOK
<1>2. /\ chain' \in Seq(Executions) /\ OthersWait(chain')
      /\ chain # << >> => chain' # << >> /\ chain'[1] = chain[1]
  BY <1>1, ChainFacts
<1>3. ServerTypeOK'
  BY <1>2 DEF ServerInv, ServerTypeOK
<1>. QED
  BY <1>2, <1>3 DEF ServerInv, AwaitedByFirst, Awaited, FetchesAreOfFirst, SegmentIsExact,
    KeysAt, Latest

(* The first execution leaves, and its worker may ask for another one.     *)
LEMMA EndFacts ==
  ASSUME ServerTypeOK, OthersWait(chain), chain # << >>,
         NEW stored \in [Segment -> [cn : Nat, keys : SUBSET Member]], ExecutionEnds(stored)
  PROVE  /\ chain' \in Seq(Executions) /\ OthersWait(chain')
         /\ worker' \in [Segment -> WorkerState]
<1>. PICK by : by = Head(chain).by
  OBVIOUS
<1>. PICK r : r = IF by \in Segment THEN Continue(by, worker[by], stored[by].cn) ELSE Idle(NewWorker)
  OBVIOUS
<1>1. chain \in Seq(Executions) /\ worker \in [Segment -> WorkerState]
  BY DEF ServerTypeOK
<1>2. chain' = Tail(chain) \o r.calls
      /\ worker' = IF by \in Segment THEN [worker EXCEPT ![by] = r.worker] ELSE worker
  BY DEF ExecutionEnds
<1>3. CASE by \in Segment
  <2>1. worker[by] \in WorkerState /\ stored[by].cn \in Nat
    BY <1>1, <1>3
  <2>2. r.worker \in WorkerState /\ r.calls \in Calls
    BY <1>3, <2>1, WorkerFacts
  <2>. QED
    BY <1>1, <1>2, <1>3, <2>2, ChainFacts
<1>4. CASE by \notin Segment
  <2>1. r.calls \in Calls
    BY <1>4 DEF Idle, Calls
  <2>. QED
    BY <1>1, <1>2, <1>4, <2>1, ChainFacts
<1>. QED
  BY <1>3, <1>4

LEMMA ManagerKeeps ==
  ASSUME ServerInv,
         \/ StartDefinitions \/ DefinitionsExecuted \/ StopAllTasks \/ PollSegments \/ FetchNew
         \/ StopWorkers
  PROVE  ServerInv'
<1>1. chain \in Seq(Executions) /\ worker \in [Segment -> WorkerState]
  BY DEF ServerInv, ServerTypeOK
<1>2. << >> \in Calls /\ chain \o << >> = chain
  BY <1>1 DEF Calls
<1>3. ASSUME NEW by \in {"all", "new"}
      PROVE  <<Execution(by, 0)>> \in Calls
             /\ Append(chain, Execution(by, 0)) = chain \o <<Execution(by, 0)>>
  <2>1. Execution(by, 0) \in NotBegun
    BY DEF Execution, NotBegun, Executions
  <2>2. Execution(by, 0) \in Executions
    BY <2>1 DEF NotBegun
  <2>. QED
    BY <1>1, <2>1, <2>2 DEF Calls
<1>4. CASE StartDefinitions \/ StopAllTasks
  BY <1>1, <1>2, <1>4, ChainGrows DEF StartDefinitions, StopAllTasks, fetching
<1>5. CASE DefinitionsExecuted
  <2>1. UNCHANGED <<log, cache, fetches, abandoned, worker>>
        /\ (chain' = chain \/ chain' = Append(chain, Execution("all", 0)))
    BY <1>5 DEF DefinitionsExecuted, DefinitionsStarted, StartSegments, Execute, fetching
  <2>. QED
    BY <1>1, <1>2, <1>3, <2>1, ChainGrows
<1>6. CASE PollSegments \/ FetchNew
  <2>1. UNCHANGED <<log, cache, fetches, abandoned, worker>>
        /\ \E by \in {"all", "new"} : chain' = Append(chain, Execution(by, 0))
    BY <1>6 DEF PollSegments, FetchNew, Execute, fetching
  <2>. QED
    BY <1>1, <1>3, <2>1, ChainGrows
<1>7. CASE StopWorkers
  <2>1. \A s \in Segment : ResetBackoff([worker[s] EXCEPT !.handling = FALSE]) \in WorkerState
    BY <1>1 DEF ResetBackoff, WorkerState
  <2>. QED
    BY <1>1, <1>2, <1>7, <2>1, ChainGrows DEF StopWorkers
<1>. QED
  BY <1>4, <1>5, <1>6, <1>7

LEMMA ChangeKeeps ==
  ASSUME ServerInv, NEW s \in Segment, NEW m \in Member, NEW heard \in BOOLEAN,
         SegmentChanges(s, m, heard)
  PROVE  ServerInv'
<1>1. ServerTypeOK /\ OthersWait(chain)
  BY DEF ServerInv
<1>2. log' = [log EXCEPT ![s] = Append(@, m)] /\ UNCHANGED <<cache, fetches, abandoned>>
  BY DEF SegmentChanges
<1>3. PICK calls \in Calls : chain' = chain \o calls /\ worker' \in [Segment -> WorkerState]
  <2>1. chain \in Seq(Executions) /\ worker \in [Segment -> WorkerState]
        /\ log[s] \in Seq(Member) /\ cache[s].cn \in Nat
    BY <1>1 DEF ServerTypeOK
  <2>2. CASE ~heard
    <3>1. << >> \in Calls /\ chain = chain \o << >>
      BY <2>1 DEF Calls
    <3>. QED
      BY <2>1, <2>2, <3>1 DEF SegmentChanges
  <2>3. CASE heard
    <3>. PICK r : r = Put(s, worker[s], Latest(s) + 1, cache[s].cn)
      OBVIOUS
    <3>1. r.worker \in WorkerState /\ r.calls \in Calls
      <4>1. Latest(s) + 1 \in Nat /\ worker[s] \in WorkerState
        BY <2>1 DEF Latest
      <4>. QED
        BY <2>1, <4>1, WorkerFacts
    <3>2. worker' = [worker EXCEPT ![s] = r.worker] /\ chain' = chain \o r.calls
      BY <2>3 DEF SegmentChanges, Apply
    <3>. QED
      BY <2>1, <3>1, <3>2
  <2>. QED
    BY <2>2, <2>3
<1>4. /\ chain' \in Seq(Executions) /\ OthersWait(chain')
      /\ chain # << >> => chain' # << >> /\ chain'[1] = chain[1]
  BY <1>1, <1>3, ChainFacts DEF ServerTypeOK
<1>5. ServerTypeOK'
  <2>1. log \in [Segment -> Seq(Member)]
    BY <1>1 DEF ServerTypeOK
  <2>2. Append(log[s], m) \in Seq(Member)
    BY <2>1
  <2>3. log' \in [Segment -> Seq(Member)]
    BY <1>2, <2>1, <2>2
  <2>. QED
    BY <1>1, <1>2, <1>3, <1>4, <2>3 DEF ServerTypeOK
<1>6. ASSUME NEW z \in Segment
      PROVE  /\ (cache[z].cn <= Latest(z))'
             /\ (cache[z].keys = KeysAt(z, cache[z].cn)) => (cache[z].keys = KeysAt(z, cache[z].cn))'
  <2>. PICK n : n = cache[z].cn
    OBVIOUS
  <2>1. n \in Nat /\ n <= Latest(z) /\ log \in [Segment -> Seq(Member)] /\ cache'[z] = cache[z]
    BY <1>1, <1>2 DEF ServerInv, ServerTypeOK
  <2>2. KeysAt(z, n)' = KeysAt(z, n) /\ n <= Latest(z)'
    BY <1>2, <2>1, KeysArePast
  <2>3. KeysAt(z, cache[z].cn)' = KeysAt(z, n)'
    BY <2>1 DEF KeysAt
  <2>4. KeysAt(z, cache[z].cn) = KeysAt(z, n)
    OBVIOUS
  <2>. QED
    BY <2>1, <2>2, <2>3, <2>4
<1>7. SegmentIsExact'
  BY <1>2, <1>6 DEF ServerInv, SegmentIsExact
<1>. QED
  BY <1>2, <1>4, <1>5, <1>6, <1>7 DEF ServerInv, AwaitedByFirst, Awaited, FetchesAreOfFirst

LEMMA BackoffKeeps == ASSUME ServerInv, NEW s \in Segment, BackoffFires(s) PROVE ServerInv'
<1>. PICK r : r = Handle(s, [worker[s] EXCEPT !.timer = FALSE], cache[s].cn)
  OBVIOUS
<1>1. worker \in [Segment -> WorkerState] /\ cache[s].cn \in Nat
  BY DEF ServerInv, ServerTypeOK
<1>2. [worker[s] EXCEPT !.timer = FALSE] \in WorkerState
  BY <1>1 DEF WorkerState
<1>3. r.worker \in WorkerState /\ r.calls \in Calls
  BY <1>1, <1>2, WorkerFacts
<1>4. worker' = [worker EXCEPT ![s] = r.worker] /\ chain' = chain \o r.calls
      /\ UNCHANGED <<log, cache, fetches, abandoned>>
  BY DEF BackoffFires, Apply
<1>. QED
  BY <1>1, <1>3, <1>4, ChainGrows

LEMMA BeginKeeps == ASSUME ServerInv, Begin PROVE ServerInv'
<1>. PICK e : e = Head(chain)
  OBVIOUS
<1>1. chain \in Seq(Executions) /\ chain # << >> /\ e = chain[1] /\ e \in Executions /\ ~e.begun
  BY DEF ServerInv, ServerTypeOK, Begin
<1>2. /\ chain' = [chain EXCEPT ![1].begun = TRUE]
      /\ fetches' = fetches \cup {Fetch(s, e) : s \in Named(e)}
      /\ UNCHANGED <<log, cache, abandoned, worker>>
  BY DEF Begin
<1>3. chain' \in Seq(Executions) /\ chain' # << >> /\ chain'[1].begun /\ OthersWait(chain')
  <2>. PICK b : b = [e EXCEPT !.begun = TRUE]
    OBVIOUS
  <2>1. b \in Executions /\ b.begun
    BY <1>1 DEF Executions
  <2>2. 1 \in 1..Len(chain) /\ chain' = [chain EXCEPT ![1] = b]
    BY <1>1, <1>2
  <2>3. chain' \in Seq(Executions) /\ Len(chain') = Len(chain) /\ chain'[1] = b
        /\ \A i \in 2..Len(chain) : chain'[i] = chain[i]
    <3>1. chain' \in [1..Len(chain) -> Executions]
      BY <1>1, <2>1, <2>2
    <3>2. chain' \in Seq(Executions) /\ Len(chain') = Len(chain)
      BY <1>1, <3>1
    <3>. QED
      BY <1>1, <2>1, <2>2, <3>2
  <2>. QED
    BY <1>1, <2>1, <2>3 DEF ServerInv, OthersWait
<1>4. Named(e) \subseteq Segment
  BY <1>1 DEF Named, Executions
<1>5. ASSUME NEW s \in Segment
      PROVE  /\ Fetch(s, e) \in [segment : Segment, since : Nat, till : Nat, awaited : BOOLEAN]
             /\ Fetch(s, e).segment = s /\ Fetch(s, e).since = cache[s].cn /\ Fetch(s, e).awaited
  BY <1>1 DEF ServerInv, ServerTypeOK, Fetch, Executions
<1>6. ServerTypeOK'
  BY <1>2, <1>3, <1>4, <1>5 DEF ServerInv, ServerTypeOK
<1>7. ASSUME ~abandoned PROVE FetchesAreOfFirst'
  <2>1. fetches = {}
    BY <1>1, <1>7 DEF ServerInv, FetchesAreOfFirst, AwaitedByFirst, Awaited
  <2>. QED
    BY <1>2, <1>4, <1>5, <2>1 DEF FetchesAreOfFirst
<1>. QED
  BY <1>2, <1>3, <1>6, <1>7 DEF ServerInv, AwaitedByFirst, SegmentIsExact, KeysAt, Latest

LEMMA AtOnceKeeps == ASSUME ServerInv, EndsAtOnce PROVE ServerInv'
<1>1. chain' \in Seq(Executions) /\ OthersWait(chain') /\ worker' \in [Segment -> WorkerState]
  BY EndFacts DEF ServerInv, ServerTypeOK, EndsAtOnce
<1>2. UNCHANGED <<log, cache, fetches, abandoned>> /\ Awaited = {} /\ Awaited' = {}
  BY DEF EndsAtOnce, Awaited
<1>3. ServerTypeOK'
  BY <1>1, <1>2 DEF ServerInv, ServerTypeOK
<1>. QED
  BY <1>1, <1>2, <1>3 DEF ServerInv, AwaitedByFirst, FetchesAreOfFirst, SegmentIsExact, KeysAt, Latest

LEMMA AnswerKeeps ==
  ASSUME ServerInv, NEW f \in fetches, NEW v \in 0..Latest(f.segment), FetchAnswered(f, v)
  PROVE  ServerInv'
<1>. PICK s : s = f.segment
  OBVIOUS
<1>. PICK a : a = f.since
  OBVIOUS
<1>. PICK touched : touched = Touched(s, a, v)
  OBVIOUS
<1>1. ServerTypeOK /\ s \in Segment /\ a \in Nat /\ f.awaited \in BOOLEAN
      /\ cache[s].keys \in SUBSET Member /\ cache[s].cn \in Nat /\ log[s] \in Seq(Member)
      /\ Latest(s) \in Nat
  BY DEF ServerInv, ServerTypeOK, Latest
<1>2. v \in Nat /\ a <= v /\ v <= Latest(s)
  BY <1>1 DEF FetchAnswered
<1>. PICK new : new = [cn |-> v, keys |-> (cache[s].keys \ touched) \cup (touched \cap KeysAt(s, v))]
  OBVIOUS
<1>3. /\ cache' = [cache EXCEPT ![s] = new]
      /\ fetches' = fetches \ {f}
      /\ UNCHANGED <<log, abandoned>>
  BY DEF FetchAnswered, Stored, Touched
<1>4. new \in [cn : Nat, keys : SUBSET Member]
  BY <1>1, <1>2 DEF KeysAt
<1>5. cache' \in [Segment -> [cn : Nat, keys : SUBSET Member]]
  BY <1>1, <1>3, <1>4 DEF ServerTypeOK
<1>6. /\ chain' \in Seq(Executions) /\ OthersWait(chain') /\ worker' \in [Segment -> WorkerState]
      /\ AwaitedByFirst'
  <2>1. CASE Awaited = {f}
    <3>1. chain # << >> /\ ExecutionEnds(cache')
      BY <2>1 DEF ServerInv, AwaitedByFirst, FetchAnswered
    <3>2. Awaited' = {}
      BY <1>3, <2>1 DEF Awaited
    <3>. QED
      BY <1>1, <1>5, <3>1, <3>2, EndFacts DEF ServerInv, AwaitedByFirst
  <2>2. CASE Awaited # {f}
    BY <1>1, <1>3, <2>2 DEF ServerInv, ServerTypeOK, FetchAnswered, AwaitedByFirst, Awaited
  <2>. QED
    BY <2>1, <2>2
<1>7. ServerTypeOK'
  BY <1>1, <1>3, <1>5, <1>6 DEF ServerTypeOK
<1>8. \A z \in Segment : cache'[z].cn <= Latest(z)'
  BY <1>1, <1>2, <1>3 DEF ServerInv, ServerTypeOK, Latest
<1>9. ASSUME ~abandoned PROVE FetchesAreOfFirst' /\ SegmentIsExact'
  <2>1. /\ \A g \in fetches : g.awaited /\ g.since = cache[g.segment].cn
        /\ \A g, h \in fetches : g.segment = h.segment => g = h
        /\ \A z \in Segment : cache[z].keys = KeysAt(z, cache[z].cn)
    BY <1>9 DEF ServerInv, FetchesAreOfFirst, SegmentIsExact
  <2>2. FetchesAreOfFirst'
    <3>1. ASSUME NEW g \in fetches' PROVE g.awaited /\ g.since = cache'[g.segment].cn
      <4>1. g \in fetches /\ g.segment # s /\ g.segment \in Segment
        BY <1>1, <1>3, <2>1 DEF ServerTypeOK
      <4>. QED
        BY <1>1, <1>3, <2>1, <4>1 DEF ServerTypeOK
    <3>. QED
      BY <1>3, <2>1, <3>1 DEF FetchesAreOfFirst
  <2>3. new.keys = KeysAt(s, v)
    <3>1. cache[s].keys = KeysAt(s, a)
      BY <1>1, <2>1
    <3>2. (KeysAt(s, a) \ touched) \cup (touched \cap KeysAt(s, v)) = KeysAt(s, v)
      <4>1. s \in Segment /\ a \in Nat /\ v \in Nat /\ a <= v
        BY <1>1, <1>2
      <4>. QED
        BY <4>1, AnswerIsExact
    <3>. QED
      BY <3>1, <3>2
  <2>4. ASSUME NEW z \in Segment PROVE (cache[z].keys = KeysAt(z, cache[z].cn))'
    <3>. PICK n : n = cache'[z].cn
      OBVIOUS
    <3>1. KeysAt(z, cache[z].cn)' = KeysAt(z, n)
      BY <1>3 DEF KeysAt
    <3>2. CASE z = s
      <4>1. cache'[z] = new /\ n = v
        BY <1>1, <1>3, <3>2 DEF ServerTypeOK
      <4>. QED
        BY <2>3, <3>1, <3>2, <4>1
    <3>3. CASE z # s
      <4>1. cache'[z] = cache[z]
        BY <1>1, <1>3, <3>3 DEF ServerTypeOK
      <4>2. KeysAt(z, n) = KeysAt(z, cache[z].cn)
        BY <4>1
      <4>. QED
        BY <2>1, <3>1, <4>1, <4>2
    <3>. QED
      BY <3>2, <3>3
  <2>. QED
    BY <2>2, <2>4 DEF SegmentIsExact
<1>. QED
  BY <1>3, <1>6, <1>7, <1>8, <1>9 DEF ServerInv, SegmentIsExact

LEMMA FailureKeeps == ASSUME ServerInv, NEW f \in fetches, SegmentFails(f) PROVE ServerInv'
<1>1. ServerTypeOK /\ OthersWait(chain) /\ UNCHANGED <<log, cache>>
  BY DEF ServerInv, SegmentFails
<1>2. CASE f.awaited
  <2>1. /\ fetches' = {[g EXCEPT !.awaited = FALSE] : g \in fetches \ {f}}
        /\ abandoned' = (abandoned \/ fetches # {f})
        /\ ExecutionEnds(cache)
    BY <1>2 DEF SegmentFails
  <2>2. chain # << >>
    BY <1>2 DEF ServerInv, AwaitedByFirst, Awaited
  <2>3. chain' \in Seq(Executions) /\ OthersWait(chain') /\ worker' \in [Segment -> WorkerState]
    BY <1>1, <2>1, <2>2, EndFacts DEF ServerTypeOK
  <2>4. \A g \in fetches : /\ [g EXCEPT !.awaited = FALSE]
                                \in [segment : Segment, since : Nat, till : Nat, awaited : BOOLEAN]
                           /\ ~[g EXCEPT !.awaited = FALSE].awaited
    BY <1>1 DEF ServerTypeOK
  <2>5. ServerTypeOK' /\ Awaited' = {}
    BY <1>1, <2>1, <2>3, <2>4 DEF ServerTypeOK, Awaited
  <2>6. ~abandoned' => ~abandoned /\ fetches' = {}
    BY <2>1
  <2>. QED
    BY <1>1, <2>3, <2>5, <2>6 DEF ServerInv, AwaitedByFirst, FetchesAreOfFirst, SegmentIsExact, KeysAt, Latest
<1>3. CASE ~f.awaited
  <2>1. fetches' = fetches \ {f} /\ UNCHANGED <<chain, worker, abandoned>>
    BY <1>3 DEF SegmentFails
  <2>. QED
    BY <1>1, <2>1 DEF ServerInv, ServerTypeOK, AwaitedByFirst, Awaited, FetchesAreOfFirst,
      SegmentIsExact, KeysAt, Latest
<1>. QED
  BY <1>2, <1>3

LEMMA ServerKeeps == ASSUME ServerInv, [ServerNext]_serverVars PROVE ServerInv'
<1>1. CASE UNCHANGED serverVars
  BY <1>1 DEF serverVars, ServerInv, ServerTypeOK, AwaitedByFirst, Awaited, FetchesAreOfFirst,
    SegmentIsExact, KeysAt, Latest
<1>. QED
  BY <1>1, ManagerKeeps, ChangeKeeps, BackoffKeeps, BeginKeeps, AtOnceKeeps, AnswerKeeps,
    FailureKeeps DEF ServerNext

(* Whoever asks for executions, and whatever the CDN answers: as long as   *)
(* none ended before its fetches, each segment has the keys of its change  *)
(* number.                                                                 *)
THEOREM SegmentsCorrect == Spec => []SegmentIsExact
<1>1. ServerInv /\ [Next]_vars => ServerInv'
  BY ServerStep, ServerKeeps
<1>2. ServerInv => SegmentIsExact
  BY DEF ServerInv
<1>. QED
  BY ServerInitInv, <1>1, <1>2, PTL DEF Spec

-----------------------------------------------------------------------------
(* DefinitionsFetcher                                                       *)

Requests ==
  [stage : {"first", "retry", "recovery", "recoveryRetry"}, since : [Kind -> Nat],
   spec : {"1.2", "1.3"}, awaited : BOOLEAN]
Holding == [cn : Nat, item : Nat, legacy : BOOLEAN]

FetcherTypeOK ==
  /\ proxy \in {"direct", "old", "new"}
  /\ releases \in [Kind -> Seq(BOOLEAN)]
  /\ spec \in {"1.2", "1.3"}
  /\ lastCheck \in {"none", "recent", "due"}
  /\ held \in [Kind -> Holding]
  /\ requests \in SUBSET Requests
  /\ missed \in BOOLEAN

\* What is held of kind k is what the backend has at its change number.
CleanItem(k) == held[k] = [cn |-> held[k].cn, item |-> ItemAt(k, held[k].cn), legacy |-> FALSE]

\* One request is awaited, from where the caches are or, to recover, from scratch.
OneAwaited == \A q, r \in requests : q.awaited /\ r.awaited => q = r
SinceIsHeld(q) ==
  IF Recovers(q) THEN q.since = FromScratch ELSE q.awaited => q.since = CachedSince

\* The specification follows the request awaited, and without a check to come it is
\* 1.3, with a recovery under way or nothing to recover.
OnTheWay ==
  /\ \A q \in requests : q.awaited => q.spec = spec
  /\ lastCheck = "none" =>
       /\ spec = "1.3"
       /\ \/ \A k \in Kind : CleanItem(k)
          \/ \E q \in requests : q.awaited /\ q.stage = "recovery"

\* The inductive invariant. ProxyIsRecovered says nothing of what is held while a request
\* is awaited, and it is the answer to that request that must leave all clean.
FetcherInv ==
  /\ FetcherTypeOK
  /\ OneAwaited
  /\ \A q \in requests : SinceIsHeld(q)
  /\ \A k \in Kind : held[k].cn <= Len(releases[k])
  /\ missed \/ OnTheWay

LEMMA FetcherInitInv == Init => FetcherInv
<1>. SUFFICES ASSUME FetcherInit PROVE FetcherInv
  BY DEF Init
<1>1. releases \in [Kind -> Seq(BOOLEAN)] /\ \A k \in Kind : Len(releases[k]) = 0
  BY DEF FetcherInit
<1>2. held = [k \in Kind |-> [cn |-> 0, item |-> 0, legacy |-> FALSE]]
  BY DEF FetcherInit, Cleared, Nothing
<1>3. FetcherTypeOK
  <2>1. held \in [Kind -> Holding]
    BY <1>2 DEF Holding
  <2>. QED
    BY <1>1, <2>1 DEF FetcherInit, FetcherTypeOK
<1>4. \A k \in Kind : CleanItem(k) /\ held[k].cn = 0
  BY <1>2 DEF CleanItem, ItemAt
<1>. QED
  BY <1>1, <1>3, <1>4 DEF FetcherInit, FetcherInv, OneAwaited, OnTheWay

(* A new request asks from where the caches are.                           *)
LEMMA CallKeeps ==
  ASSUME FetcherInv, NEW others, others \in SUBSET Requests,
         \A r \in others : ~r.awaited,
         \A r \in others : Recovers(r) => r.since = FromScratch,
         Call(others), UNCHANGED <<proxy, releases, lastCheck, held>>, missed' \in BOOLEAN,
         missed' \/ (~missed /\ (lastCheck = "none" => \A k \in Kind : CleanItem(k)))
  PROVE  FetcherInv'
<1>. PICK new : new = Request("first", CachedSince, Rechecked)
  OBVIOUS
<1>1. FetcherTypeOK /\ CachedSince \in [Kind -> Nat] /\ Rechecked \in {"1.2", "1.3"}
  BY DEF FetcherInv, FetcherTypeOK, CachedSince, Rechecked, Holding
<1>2. /\ new \in Requests /\ new.awaited /\ new.stage = "first" /\ new.since = CachedSince
      /\ new.spec = Rechecked
  BY <1>1 DEF Request, Requests
<1>3. spec' = Rechecked /\ requests' = others \cup {new} /\ CachedSince' = CachedSince
  BY DEF Call, CachedSince
<1>4. FetcherTypeOK'
  BY <1>1, <1>2, <1>3 DEF FetcherTypeOK
<1>5. OneAwaited' /\ \A q \in requests' : SinceIsHeld(q)'
  BY <1>2, <1>3 DEF OneAwaited, SinceIsHeld, Recovers, FromScratch
<1>6. ASSUME ~missed' PROVE OnTheWay'
  <2>1. lastCheck = "none" => spec = "1.3" /\ Rechecked = "1.3"
    BY <1>6 DEF FetcherInv, OnTheWay, Rechecked
  <2>2. \A k \in Kind : CleanItem(k)' <=> CleanItem(k)
    BY DEF CleanItem, ItemAt
  <2>. QED
    BY <1>2, <1>3, <1>6, <2>1, <2>2 DEF OnTheWay
<1>. QED
  BY <1>4, <1>5, <1>6 DEF FetcherInv

(* Requests are only taken away or left, with nothing else changed.        *)
LEMMA FewerKeep ==
  ASSUME FetcherInv, NEW left, left \in SUBSET Requests, requests' = left,
         \A r \in left : r.awaited => r \in requests,
         \A r \in left : Recovers(r) => r.since = FromScratch,
         UNCHANGED <<proxy, releases, spec, lastCheck, held>>, missed' \in BOOLEAN,
         missed' \/ (~missed /\ (lastCheck = "none" =>
                       \/ \A k \in Kind : CleanItem(k)
                       \/ \E q \in left : q.awaited /\ q.stage = "recovery"))
  PROVE  FetcherInv'
<1>1. FetcherTypeOK' /\ OneAwaited'
  BY DEF FetcherInv, FetcherTypeOK, OneAwaited
<1>2. \A q \in requests' : SinceIsHeld(q)'
  BY DEF FetcherInv, SinceIsHeld, Recovers, FromScratch, CachedSince
<1>3. ASSUME ~missed' PROVE OnTheWay'
  <2>1. \A k \in Kind : CleanItem(k)' <=> CleanItem(k)
    BY DEF CleanItem, ItemAt
  <2>. QED
    BY <1>3, <2>1 DEF FetcherInv, OnTheWay
<1>. QED
  BY <1>1, <1>2, <1>3 DEF FetcherInv

(* An answer brings the caches to the releases seen, clean if they were, or *)
(* if it is one from scratch, of version 1.3.                              *)
LEMMA StoreFacts ==
  ASSUME FetcherInv, NEW q \in requests, q.awaited, NEW seen \in [Kind -> Nat],
         \A k \in Kind : seen[k] \in q.since[k]..Len(releases[k]), Store(q, seen)
  PROVE  /\ held' \in [Kind -> Holding]
         /\ \A k \in Kind : held'[k].cn <= Len(releases[k])
         /\ (q.spec = "1.3" /\ (Recovers(q) \/ \A k \in Kind : CleanItem(k))) =>
              \A k \in Kind : held'[k] = [cn |-> held'[k].cn, item |-> ItemAt(k, held'[k].cn),
                                          legacy |-> FALSE]
<1>. PICK before : before = IF Recovers(q) THEN Cleared ELSE held
  OBVIOUS
<1>1. FetcherTypeOK /\ q \in Requests /\ SinceIsHeld(q)
  BY DEF FetcherInv, FetcherTypeOK
<1>2. before \in [Kind -> Holding]
  BY <1>1 DEF FetcherTypeOK, Cleared, Nothing, Holding
<1>3. ASSUME NEW k \in Kind PROVE before[k].cn = q.since[k] /\ q.since[k] \in Nat
  BY <1>1, <1>3 DEF SinceIsHeld, FromScratch, CachedSince, Cleared, Nothing, Requests
<1>4. held' = Update(q, seen, before)
  BY DEF Store
<1>5. ASSUME NEW k \in Kind
      PROVE  /\ held'[k] \in Holding
             /\ held'[k].cn <= Len(releases[k])
             /\ (q.spec = "1.3" /\ (Recovers(q) \/ CleanItem(k))) =>
                  held'[k] = [cn |-> held'[k].cn, item |-> ItemAt(k, held'[k].cn), legacy |-> FALSE]
  <2>1. before[k] \in Holding /\ before[k].cn = q.since[k] /\ q.since[k] \in Nat /\ seen[k] \in Nat
        /\ q.since[k] <= seen[k] /\ seen[k] <= Len(releases[k]) /\ Len(releases[k]) \in Nat
    BY <1>1, <1>2, <1>3 DEF FetcherTypeOK
  <2>2. ItemAt(k, seen[k]) \in Nat
    BY <2>1 DEF ItemAt
  <2>3. Recovers(q) \/ CleanItem(k) => before[k] = [cn |-> q.since[k], item |-> ItemAt(k, q.since[k]), legacy |-> FALSE]
    <3>1. CASE Recovers(q)
      <4>1. q.since[k] = 0 /\ before[k] = [cn |-> 0, item |-> 0, legacy |-> FALSE]
        BY <1>1, <3>1 DEF SinceIsHeld, FromScratch, Cleared, Nothing
      <4>. QED
        BY <4>1 DEF ItemAt
    <3>2. CASE ~Recovers(q) /\ CleanItem(k)
      BY <2>1, <3>2 DEF CleanItem
    <3>. QED
      BY <3>1, <3>2
  <2>4. CASE k = "rbs" /\ q.spec = "1.2"
    <3>1. held'[k] = before[k]
      BY <1>4, <2>4 DEF Update
    <3>. QED
      BY <2>1, <2>4, <3>1
  <2>5. CASE /\ ~(k = "rbs" /\ q.spec = "1.2")
             /\ seen[k] > q.since[k] /\ ~(q.since[k] = 0 /\ ItemAt(k, seen[k]) = 0)
    <3>1. held'[k] = [cn |-> seen[k], item |-> ItemAt(k, seen[k]), legacy |-> q.spec = "1.2"]
      BY <1>4, <2>5 DEF Update
    <3>. QED
      <4>. PICK old \in BOOLEAN : old = (q.spec = "1.2")
        OBVIOUS
      <4>1. held'[k] = [cn |-> seen[k], item |-> ItemAt(k, seen[k]), legacy |-> old]
        BY <3>1
      <4>2. q.spec = "1.3" => old = FALSE
        OBVIOUS
      <4>3. held'[k] \in Holding /\ held'[k].cn = seen[k]
        BY <2>1, <2>2, <4>1 DEF Holding
      <4>. QED
        BY <2>1, <4>1, <4>2, <4>3
  <2>6. CASE /\ ~(k = "rbs" /\ q.spec = "1.2")
             /\ ~(seen[k] > q.since[k] /\ ~(q.since[k] = 0 /\ ItemAt(k, seen[k]) = 0))
    <3>1. held'[k] = [before[k] EXCEPT !.cn = seen[k]]
      BY <1>4, <2>6 DEF Update
    <3>2. held'[k] \in Holding /\ held'[k].cn = seen[k]
      BY <2>1, <3>1 DEF Holding
    <3>3. ItemAt(k, seen[k]) = ItemAt(k, q.since[k])
      <4>1. seen[k] = q.since[k] \/ (q.since[k] = 0 /\ ItemAt(k, seen[k]) = 0)
        BY <2>1, <2>6
      <4>. QED
        BY <4>1 DEF ItemAt
    <3>4. Recovers(q) \/ CleanItem(k) =>
            held'[k] = [cn |-> seen[k], item |-> ItemAt(k, seen[k]), legacy |-> FALSE]
      <4>. SUFFICES ASSUME Recovers(q) \/ CleanItem(k)
                    PROVE  held'[k] = [cn |-> seen[k], item |-> ItemAt(k, seen[k]), legacy |-> FALSE]
        OBVIOUS
      <4>. PICK i : i = ItemAt(k, q.since[k])
        OBVIOUS
      <4>1. before[k] = [cn |-> q.since[k], item |-> i, legacy |-> FALSE]
        BY <2>3
      <4>. QED
        <5>1. ItemAt(k, seen[k]) = i
          BY <3>3
        <5>2. held'[k] = [[cn |-> q.since[k], item |-> i, legacy |-> FALSE] EXCEPT !.cn = seen[k]]
          BY <3>1, <4>1
        <5>. QED
          BY <5>1, <5>2
    <3>. QED
      BY <2>1, <3>2, <3>4
  <2>. QED
    BY <2>4, <2>5, <2>6
<1>6. held' = [k \in Kind |-> held'[k]]
  BY <1>4 DEF Update
<1>. QED
  BY <1>5, <1>6

LEMMA BackendKeeps ==
  ASSUME FetcherInv, \/ \E k \in Kind, archived \in BOOLEAN : Release(k, archived)
                     \/ ProxyReplaced \/ IntervalPasses
  PROVE  FetcherInv'
<1>1. FetcherTypeOK
  BY DEF FetcherInv
<1>2. ASSUME NEW z \in Kind, NEW archived \in BOOLEAN, Release(z, archived) PROVE FetcherInv'
  <2>1. releases' = [releases EXCEPT ![z] = Append(@, archived)]
        /\ UNCHANGED <<proxy, spec, lastCheck, held, requests, missed>>
    BY <1>2 DEF Release
  <2>2. releases[z] \in Seq(BOOLEAN) /\ Append(releases[z], archived) \in Seq(BOOLEAN)
    BY <1>1 DEF FetcherTypeOK
  <2>3. releases' \in [Kind -> Seq(BOOLEAN)]
    BY <1>1, <2>1, <2>2 DEF FetcherTypeOK
  <2>4. ASSUME NEW k \in Kind
        PROVE  held'[k].cn <= Len(releases'[k]) /\ (CleanItem(k) => CleanItem(k)')
    <3>. PICK n : n = held[k].cn
      OBVIOUS
    <3>1. n \in Nat /\ n <= Len(releases[k]) /\ releases[k] \in Seq(BOOLEAN)
      BY <1>1 DEF FetcherInv, FetcherTypeOK, Holding
    <3>2. releases'[k] = IF k = z THEN Append(releases[k], archived) ELSE releases[k]
      BY <1>1, <2>1 DEF FetcherTypeOK
    <3>3. n <= Len(releases'[k]) /\ (n # 0 => releases'[k][n] = releases[k][n])
      BY <3>1, <3>2
    <3>. QED
      BY <2>1, <3>3 DEF CleanItem, ItemAt
  <2>5. FetcherTypeOK'
    BY <1>1, <2>1, <2>3 DEF FetcherTypeOK
  <2>6. OneAwaited' /\ \A q \in requests' : SinceIsHeld(q)'
    BY <2>1 DEF FetcherInv, OneAwaited, SinceIsHeld, Recovers, FromScratch, CachedSince
  <2>7. missed' \/ OnTheWay'
    BY <2>1, <2>4 DEF FetcherInv, OnTheWay
  <2>. QED
    BY <2>4, <2>5, <2>6, <2>7 DEF FetcherInv
<1>3. CASE ProxyReplaced \/ IntervalPasses
  <2>1. UNCHANGED <<releases, spec, held, requests, missed>>
        /\ (lastCheck' = "none" => lastCheck = "none")
    BY <1>3 DEF ProxyReplaced, IntervalPasses
  <2>2. FetcherTypeOK'
    BY <1>1, <1>3, <2>1 DEF FetcherTypeOK, ProxyReplaced, IntervalPasses
  <2>. QED
    BY <2>1, <2>2 DEF FetcherInv, OneAwaited, SinceIsHeld, Recovers, FromScratch, CachedSince,
      OnTheWay, CleanItem, ItemAt
<1>. QED
  BY <1>2, <1>3

LEMMA AnsweredKeeps ==
  ASSUME FetcherInv, NEW q \in requests, NEW seen \in [Kind -> Nat], RequestAnswered(q, seen)
  PROVE  FetcherInv'
<1>1. FetcherTypeOK /\ q \in Requests /\ SinceIsHeld(q) /\ requests \in SUBSET Requests
      /\ missed \in BOOLEAN
  BY DEF FetcherInv, FetcherTypeOK
<1>2. \A r \in requests : Recovers(r) => r.since = FromScratch
  BY DEF FetcherInv, SinceIsHeld
<1>3. UNCHANGED <<proxy, releases, spec, missed>>
  BY DEF RequestAnswered
<1>4. CASE ~q.awaited
  <2>1. requests' = requests \ {q} /\ UNCHANGED <<lastCheck, held>>
    BY <1>4 DEF RequestAnswered
  <2>2. missed \/ (lastCheck = "none" => \/ \A k \in Kind : CleanItem(k)
                                         \/ \E r \in requests \ {q} : r.awaited /\ r.stage = "recovery")
    BY <1>4 DEF FetcherInv, OnTheWay
  <2>. QED
    BY <1>1, <1>2, <1>3, <2>1, <2>2, FewerKeep
<1>5. CASE q.awaited /\ q.spec = "1.3" /\ lastCheck # "none"
  <2>. PICK new : new = Request("recovery", FromScratch, spec)
    OBVIOUS
  <2>1. lastCheck' = "none" /\ requests' = (requests \ {q}) \cup {new} /\ UNCHANGED held
    BY <1>5 DEF RequestAnswered
  <2>2. new \in Requests /\ new.awaited /\ new.stage = "recovery" /\ new.since = FromScratch
        /\ new.spec = spec
    BY <1>1 DEF Request, Requests, FromScratch, FetcherTypeOK
  <2>3. \A r \in requests \ {q} : ~r.awaited
    BY <1>5 DEF FetcherInv, OneAwaited
  <2>4. FetcherTypeOK'
    BY <1>1, <1>3, <2>1, <2>2 DEF FetcherTypeOK
  <2>5. OneAwaited' /\ \A r \in requests' : SinceIsHeld(r)'
    BY <1>2, <2>1, <2>2, <2>3 DEF OneAwaited, SinceIsHeld, Recovers, FromScratch
  <2>6. missed \/ OnTheWay'
    BY <1>3, <1>5, <2>1, <2>2, <2>3 DEF FetcherInv, OnTheWay
  <2>. QED
    BY <1>3, <2>1, <2>4, <2>5, <2>6 DEF FetcherInv
<1>6. CASE q.awaited /\ ~(q.spec = "1.3" /\ lastCheck # "none")
  <2>1. Store(q, seen) /\ requests' = requests \ {q} /\ UNCHANGED lastCheck
    BY <1>6 DEF RequestAnswered
  <2>2. /\ held' \in [Kind -> Holding]
        /\ \A k \in Kind : held'[k].cn <= Len(releases[k])
        /\ (q.spec = "1.3" /\ (Recovers(q) \/ \A k \in Kind : CleanItem(k))) =>
             \A k \in Kind : held'[k] = [cn |-> held'[k].cn, item |-> ItemAt(k, held'[k].cn),
                                         legacy |-> FALSE]
    BY <1>6, <2>1, StoreFacts DEF RequestAnswered
  <2>3. \A r \in requests' : r \in requests /\ ~r.awaited
    BY <1>6, <2>1 DEF FetcherInv, OneAwaited
  <2>4. FetcherTypeOK'
    BY <1>1, <1>3, <2>1, <2>2 DEF FetcherTypeOK
  <2>5. OneAwaited' /\ \A r \in requests' : SinceIsHeld(r)'
    BY <1>2, <2>3 DEF OneAwaited, SinceIsHeld, Recovers, FromScratch
  <2>6. ASSUME ~missed PROVE OnTheWay'
    <3>1. ASSUME lastCheck = "none" PROVE spec = "1.3" /\ \A k \in Kind : CleanItem(k)'
      <4>1. q.spec = "1.3" /\ spec = "1.3"
        BY <1>6, <2>6, <3>1 DEF FetcherInv, OnTheWay
      <4>2. Recovers(q) \/ \A k \in Kind : CleanItem(k)
        BY <1>6, <2>6, <3>1 DEF FetcherInv, OnTheWay, OneAwaited, Recovers
      <4>. QED
        BY <1>3, <2>2, <4>1, <4>2 DEF CleanItem, ItemAt
    <3>. QED
      BY <1>3, <2>1, <2>3, <3>1 DEF OnTheWay
  <2>. QED
    BY <1>3, <2>2, <2>4, <2>5, <2>6 DEF FetcherInv
<1>. QED
  BY <1>4, <1>5, <1>6

LEMMA RejectedKeeps ==
  ASSUME FetcherInv, NEW q \in requests, q.awaited, Rejected(q),
         UNCHANGED <<proxy, releases, lastCheck, held>>,
         missed' = (missed \/ q.stage = "recovery")
  PROVE  FetcherInv'
<1>1. requests \in SUBSET Requests /\ missed \in BOOLEAN
  BY DEF FetcherInv, FetcherTypeOK
<1>2. \A r \in requests \ {q} : ~r.awaited /\ (Recovers(r) => r.since = FromScratch)
  BY DEF FetcherInv, OneAwaited, SinceIsHeld
<1>3. missed' \/ (~missed /\ (lastCheck = "none" => \A k \in Kind : CleanItem(k)))
  BY DEF FetcherInv, OnTheWay, OneAwaited
<1>4. CASE atStart /\ attempt < StartRetries
  <2>1. Call(requests \ {q})
    BY <1>4 DEF Rejected
  <2>. QED
    BY <1>1, <1>2, <1>3, <2>1, CallKeeps
<1>5. CASE ~(atStart /\ attempt < StartRetries)
  <2>1. requests' = requests \ {q} /\ UNCHANGED spec
    BY <1>5 DEF Rejected
  <2>. QED
    BY <1>1, <1>2, <1>3, <2>1, FewerKeep
<1>. QED
  BY <1>4, <1>5

LEMMA FailsKeeps ==
  ASSUME FetcherInv, NEW q \in requests, NEW status \in Status, RequestFails(q, status)
  PROVE  FetcherInv'
<1>1. FetcherTypeOK /\ q \in Requests /\ SinceIsHeld(q) /\ requests \in SUBSET Requests
      /\ missed \in BOOLEAN
  BY DEF FetcherInv, FetcherTypeOK
<1>2. \A r \in requests : Recovers(r) => r.since = FromScratch
  BY DEF FetcherInv, SinceIsHeld
<1>3. UNCHANGED <<proxy, releases, held>>
  BY DEF RequestFails
<1>4. CASE FallsBack(q, status)
  <2>. PICK new : new = [q EXCEPT !.spec = "1.2",
                                  !.stage = IF q.stage = "first" THEN "retry" ELSE "recoveryRetry"]
    OBVIOUS
  <2>1. lastCheck' = "recent" /\ spec' = "1.2" /\ requests' = (requests \ {q}) \cup {new}
        /\ missed' = (missed \/ ~q.awaited)
    BY <1>4 DEF RequestFails
  <2>2. /\ new \in Requests /\ new.spec = "1.2" /\ new.awaited = q.awaited /\ new.since = q.since
        /\ (Recovers(new) <=> Recovers(q))
    BY <1>1, <1>4 DEF Requests, Recovers, FallsBack
  <2>3. FetcherTypeOK'
    BY <1>1, <1>3, <2>1, <2>2 DEF FetcherTypeOK
  <2>4. OneAwaited'
    BY <2>1, <2>2 DEF FetcherInv, OneAwaited
  <2>5. \A r \in requests' : SinceIsHeld(r)'
    BY <1>3, <2>1, <2>2 DEF FetcherInv, SinceIsHeld, Recovers, FromScratch, CachedSince
  <2>6. ASSUME ~missed' PROVE OnTheWay'
    <3>1. \A r \in requests \ {q} : ~r.awaited
      BY <2>1, <2>6 DEF FetcherInv, OneAwaited
    <3>. QED
      BY <2>1, <2>2, <3>1 DEF OnTheWay
  <2>. QED
    BY <1>3, <2>3, <2>4, <2>5, <2>6 DEF FetcherInv
<1>5. CASE ~FallsBack(q, status)
  <2>1. UNCHANGED lastCheck /\ missed' = (missed \/ q.stage = "recovery")
    BY <1>5 DEF RequestFails
  <2>2. CASE q.awaited
    BY <1>3, <1>5, <2>1, <2>2, RejectedKeeps DEF RequestFails
  <2>3. CASE ~q.awaited
    <3>1. requests' = requests \ {q} /\ UNCHANGED spec
      BY <1>5, <2>3 DEF RequestFails
    <3>2. missed \/ (lastCheck = "none" => \/ \A k \in Kind : CleanItem(k)
                                           \/ \E r \in requests \ {q} : r.awaited /\ r.stage = "recovery")
      BY <2>3 DEF FetcherInv, OnTheWay
    <3>. QED
      BY <1>1, <1>2, <1>3, <2>1, <3>1, <3>2, FewerKeep
  <2>. QED
    BY <2>2, <2>3
<1>. QED
  BY <1>4, <1>5

LEMMA TimedOutKeeps == ASSUME FetcherInv, NEW q \in requests, TimedOut(q) PROVE FetcherInv'
<1>. PICK left : left = {[r EXCEPT !.awaited = FALSE] : r \in requests}
  OBVIOUS
<1>1. requests \in SUBSET Requests /\ missed \in BOOLEAN
  BY DEF FetcherInv, FetcherTypeOK
<1>2. ASSUME NEW r \in requests
      PROVE  /\ [r EXCEPT !.awaited = FALSE] \in Requests /\ ~[r EXCEPT !.awaited = FALSE].awaited
             /\ Recovers([r EXCEPT !.awaited = FALSE]) =>
                  [r EXCEPT !.awaited = FALSE].since = FromScratch
  BY <1>1 DEF FetcherInv, SinceIsHeld, Requests, Recovers
<1>3. left \in SUBSET Requests /\ \A r \in left : ~r.awaited /\ (Recovers(r) => r.since = FromScratch)
  BY <1>2
<1>4. UNCHANGED <<proxy, releases, lastCheck, held, missed>>
  BY DEF TimedOut
<1>5. missed \/ (lastCheck = "none" => \A k \in Kind : CleanItem(k))
  BY DEF FetcherInv, OnTheWay, OneAwaited, TimedOut, Recovers
<1>6. Call(left) \/ (requests' = left /\ UNCHANGED spec)
  BY DEF TimedOut
<1>. QED
  BY <1>1, <1>3, <1>4, <1>5, <1>6, CallKeeps, FewerKeep

LEMMA FetcherKeeps == ASSUME FetcherInv, [FetcherNext]_fetcherVars PROVE FetcherInv'
<1>1. CASE FetchDefinitions
  <2>1. /\ \A r \in requests : ~r.awaited /\ (Recovers(r) => r.since = FromScratch)
        /\ requests \in SUBSET Requests /\ missed \in BOOLEAN
    BY <1>1 DEF FetchDefinitions, FetcherInv, SinceIsHeld, FetcherTypeOK
  <2>2. Call(requests) /\ UNCHANGED <<proxy, releases, lastCheck, held, missed>>
    BY <1>1 DEF FetchDefinitions
  <2>3. missed \/ (lastCheck = "none" => \A k \in Kind : CleanItem(k))
    BY <2>1 DEF FetcherInv, OnTheWay
  <2>. QED
    BY <2>1, <2>2, <2>3, CallKeeps
<1>2. ASSUME NEW q \in requests, NEW f \in 0..MaxReleases, NEW r \in 0..MaxReleases,
             RequestAnswered(q, [flag |-> f, rbs |-> r])
      PROVE  FetcherInv'
  <2>1. [flag |-> f, rbs |-> r] \in [Kind -> Nat]
    BY DEF Kind
  <2>. QED
    BY <1>2, <2>1, AnsweredKeeps
<1>3. CASE UNCHANGED fetcherVars
  BY <1>3 DEF fetcherVars, FetcherInv, FetcherTypeOK, OneAwaited, SinceIsHeld, Recovers, FromScratch,
    CachedSince, OnTheWay, CleanItem, ItemAt
<1>. QED
  BY <1>1, <1>2, <1>3, BackendKeeps, FailsKeeps, TimedOutKeeps DEF FetcherNext

(* Whatever proxies come and go, for any number of releases, retries and   *)
(* timeouts: a fallback is followed by a check, and once 1.3 works what is *)
(* held is what the backend has, unless a recovery failed or was in vain.  *)
THEOREM RecoveryCorrect == Spec => []ProxyIsRecovered
<1>1. FetcherInv /\ [Next]_vars => FetcherInv'
  BY FetcherStep, FetcherKeeps
<1>2. FetcherInv => ProxyIsRecovered
  BY DEF FetcherInv, FetcherTypeOK, OnTheWay, CleanItem, ProxyIsRecovered
<1>. QED
  BY FetcherInitInv, <1>1, <1>2, PTL DEF Spec
=============================================================================
