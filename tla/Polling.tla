------------------------------- MODULE Polling -------------------------------
(***************************************************************************)
(* The parts of polling, each by itself: a behaviour is one of              *)
(* ClientPolling or one of ServerSegments, as a factory is client-side, with *)
(* pollingManagerCSFactory, or server-side, with pollingManagerSSFactory    *)
(* (src/sync/syncManagerOnline.ts is given one of them); or it is one of    *)
(* DefinitionsFetcher, which both have under them, or of Authenticator, the  *)
(* HTTP client under the fetcher of configurations; or it is one of Offline, *)
(* the synchronisation of the localhost mode, which has none of those.       *)
(***************************************************************************)
EXTENDS ClientPolling, ServerSegments, DefinitionsFetcher, Authenticator, Offline

VARIABLE side

vars == <<side, clientVars, serverVars, fetcherVars, authVars, offlineVars>>

Init ==
  /\ side \in {"client", "server", "fetcher", "authenticator", "offline"}
  /\ ClientInit
  /\ ServerInit
  /\ FetcherInit
  /\ AuthInit
  /\ OfflineInit
  /\ side # "fetcher" => proxy = "direct"
  /\ side # "offline" => features = InitialMock

Client ==
  side = "client" /\ UNCHANGED <<side, serverVars, fetcherVars, authVars, offlineVars>>
Server ==
  side = "server" /\ UNCHANGED <<side, clientVars, fetcherVars, authVars, offlineVars>>
Fetcher ==
  side = "fetcher" /\ UNCHANGED <<side, clientVars, serverVars, authVars, offlineVars>>
Auth ==
  side = "authenticator" /\ UNCHANGED <<side, clientVars, serverVars, fetcherVars, offlineVars>>
Localhost ==
  side = "offline" /\ UNCHANGED <<side, clientVars, serverVars, fetcherVars, authVars>>

Next ==
  \/ Client /\ StartPolling
  \/ Client /\ StopPolling
  \/ Client /\ SyncAll
  \/ \E u \in BOOLEAN : Client /\ StoreDefinitions(u)
  \/ Client /\ AnnounceDefinitions
  \/ \E k \in Key : Client /\ Poll(k)
  \/ \E k \in Key : Client /\ AddClient(k)
  \/ \E k \in Key : Client /\ RemoveClient(k)
  \/ \E k \in Key : Client /\ SmartReadyTimer(k)
  \/ \E k \in Key : Client /\ Fetched(k)
  \/ \E k \in Key : Client /\ FetchFails(k)
  \/ Server /\ StartDefinitions
  \/ Server /\ DefinitionsExecuted
  \/ Server /\ FetchNew
  \/ Server /\ StopAllTasks
  \/ Server /\ PollSegments
  \/ \E s \in Segment, m \in Member, heard \in BOOLEAN : Server /\ SegmentChanges(s, m, heard)
  \/ \E s \in Segment : Server /\ BackoffFires(s)
  \/ Server /\ StopWorkers
  \/ Server /\ Begin
  \/ Server /\ EndsAtOnce
  \/ \E f \in fetches : Server /\ SegmentFails(f)
  \/ \E f \in fetches : \E v \in 0..Latest(f.segment) : Server /\ FetchAnswered(f, v)
  \/ \E k \in Kind, archived \in BOOLEAN : Fetcher /\ Release(k, archived)
  \/ Fetcher /\ ProxyReplaced
  \/ Fetcher /\ IntervalPasses
  \/ Fetcher /\ FetchDefinitions
  \/ \E q \in requests, f, r \in 0..MaxReleases :
       Fetcher /\ RequestAnswered(q, [flag |-> f, rbs |-> r])
  \/ \E q \in requests, status \in Status : Fetcher /\ RequestFails(q, status)
  \/ \E q \in requests : Fetcher /\ TimedOut(q)
  \/ \E c \in Caller : Auth /\ StartCall(c)
  \/ \E p \in Promise : Auth /\ Authenticated(p)
  \/ \E p \in Promise, final \in BOOLEAN : Auth /\ AuthenticationFails(p, final)
  \/ Auth /\ BackoffEnds
  \/ Auth /\ CredentialExpires
  \/ Auth /\ CredentialRefused
  \/ Auth /\ StopProvider
  \/ \E c \in Caller : Auth /\ CallEnds(c)
  \/ \E c \in Caller : Auth /\ Unauthorized(c)
  \/ Localhost /\ StartOffline
  \/ Localhost /\ StopOffline
  \/ Localhost /\ OfflineTimer
  \/ Localhost /\ OfflineExecutes
  \/ Localhost /\ OfflineEnds
  \/ Localhost /\ OfflineValidated
  \/ \E c \in SharedClient : Localhost /\ ShareOffline(c)
  \/ \E c \in SharedClient : Localhost /\ EmitSdkReady(c)
  \/ \E mock \in Mock : Localhost /\ EditMock(mock)

Spec == Init /\ [][Next]_vars

\* Timers fire, promises settle, and of the memberships fetched over and over one
\* is answered. Nothing is assumed of who starts, stops, adds and removes.
Fairness ==
  /\ WF_vars(Client /\ AnnounceDefinitions)
  /\ \A k \in Key :
       /\ WF_vars(Client /\ Poll(k))
       /\ WF_vars(Client /\ SmartReadyTimer(k))
       /\ SF_vars(Client /\ Fetched(k))
  /\ WF_vars(Localhost /\ (OfflineTimer \/ OfflineExecutes \/ OfflineEnds))
  /\ WF_vars(Localhost /\ (OfflineValidated \/ \E c \in SharedClient : EmitSdkReady(c)))

FairSpec == Spec /\ Fairness

-----------------------------------------------------------------------------
\* No client waits for ever, online for the memberships or the word that it needs
\* none, or offline for the definitions of the mock as last edited.
EveryClientArrives == ClientsArrive /\ OfflineArrives
=============================================================================
