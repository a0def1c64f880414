------------------------------ MODULE Submitter ------------------------------
(***************************************************************************)
(* How tracked data leaves the SDK: one submitter of src/sync/submitters   *)
(* with the recorder cache it empties, under everything that acts on it:   *)
(* the trackers, the sync manager, user consent, flush and destroy, and    *)
(* the page listener that posts the same cache by itself.                  *)
(*                                                                         *)
(* `kind` tells which submitter it is. Its sync task is reduced to what    *)
(* module TasksProofs establishes: while running, it has either one     *)
(* timer or one turn in the chain of calls; once stopped, neither.         *)
(***************************************************************************)
EXTENDS Naturals, Sequences, FiniteSets

CONSTANTS
  Kinds,       \* the submitters considered: see KindType
  QueueSize,   \* items at which a cache calls its onFullQueue callback
  MaxTracked,  \* bound: items tracked
  MaxCalls,    \* bound: calls waiting in the chain of the sync task
  MaxStrays    \* bound: window timers nothing refers to any more

Item == 1..MaxTracked

\* maxRetries: posts of retained data after the first; fullQueue: whether the
\* cache calls back when full; window: whether `start` is decorated; optional:
\* whether the data is subject to user consent (telemetry is not).
KindType == [maxRetries : Nat, fullQueue : BOOLEAN, window : BOOLEAN, optional : BOOLEAN]

\* The submitters of the SDK.
Impressions == [maxRetries |-> 1, fullQueue |-> TRUE, window |-> FALSE, optional |-> TRUE]
Events == [maxRetries |-> 0, fullQueue |-> TRUE, window |-> TRUE, optional |-> TRUE]
Counts == [maxRetries |-> 1, fullQueue |-> FALSE, window |-> FALSE, optional |-> TRUE]
UniqueKeys == [maxRetries |-> 0, fullQueue |-> TRUE, window |-> FALSE, optional |-> TRUE]
Telemetry == [maxRetries |-> 0, fullQueue |-> FALSE, window |-> TRUE, optional |-> FALSE]

AllKinds == {Impressions, Events, Counts, UniqueKeys, Telemetry}

ASSUME SubmitterAssumption ==
  /\ Kinds \subseteq KindType
  /\ QueueSize \in Nat \ {0}
  /\ {MaxTracked, MaxCalls, MaxStrays} \subseteq Nat

VARIABLES
  kind,     \* the submitter
  consent,  \* settings.userConsent
  sdk,      \* "idle", "running", "stopped" (paused), "destroying"; then "flushed",
            \* or "closed" when consent forbade the last flush
  started,  \* the flag of the first-window decorator
  window,   \* whether the timer the decorator remembers is pending
  strays,   \* pending timers of the decorator whose id was overwritten
  taskRunning, \* the flag of the sync task
  timer,    \* whether its periodic timer is pending
  taskCalls,   \* its unresolved calls: "turn" the periodic one, "call" others, and
            \* "last" the one destroy waits for
  taskCalled,  \* whether the task was ever called: `promiseChain` is defined
  sync,     \* whether the caller of a call yet to begin may still be running
  retries,  \* failed posts of `data`
  queue,    \* the items in the recorder cache
  data,     \* the items retained for a retry
  posting,  \* the items of the post in flight; none when {}
  tracked,  \* history: how many items were tracked
  accepted, \* history: the items the server has
  dropped,  \* history: the items given up or cleared
  doubtful, \* history: the items of a post that arrived but failed for the SDK
  attempts  \* history: posts of each item

taskVars == <<taskRunning, timer, taskCalls>>
windowVars == <<started, window, strays>>
loopVars == <<taskCalled, sync>>
history == <<tracked, accepted, dropped, doubtful, attempts>>
submitterVars == <<kind, consent, sdk, windowVars, taskVars, loopVars, retries, queue, data, posting, history>>

SubmitterTypeOK ==
  /\ kind \in Kinds
  /\ consent \in {"UNKNOWN", "GRANTED", "DECLINED"}
  /\ sdk \in {"idle", "running", "stopped", "destroying", "flushed", "closed"}
  /\ {started, window, taskRunning, timer, taskCalled, sync} \subseteq BOOLEAN
  /\ strays \in 0..MaxStrays
  /\ taskCalls \in Seq({"turn", "call", "last"})
  /\ retries \in 0..kind.maxRetries
  /\ {queue, data, posting, accepted, dropped, doubtful} \subseteq SUBSET Item
  /\ tracked \in 0..MaxTracked
  /\ attempts \in [Item -> Nat]

SubmitterInit ==
  /\ kind \in Kinds
  /\ consent \in {"UNKNOWN", "GRANTED", "DECLINED"}
  /\ sdk = "idle"
  /\ started = FALSE /\ window = FALSE /\ strays = 0
  /\ taskRunning = FALSE /\ timer = FALSE /\ taskCalls = <<>>
  /\ taskCalled = FALSE /\ sync = FALSE
  /\ retries = 0 /\ queue = {} /\ data = {} /\ posting = {}
  /\ tracked = 0 /\ accepted = {} /\ dropped = {} /\ doubtful = {}
  /\ attempts = [i \in Item |-> 0]

-----------------------------------------------------------------------------
(* The event loop.                                                         *)

\* A reaction is due: the oldest call is to begin.
Due == taskCalls # <<>> /\ posting = {}

\* A timer, a response or a page event waits until no reaction is due.
ByEvent ==
  /\ ~Due
  /\ taskCalled' = (taskCalled \/ taskCalls' # <<>>)
  /\ sync' = FALSE

\* User code may make several calls before a reaction runs, except that the first
\* call ever made to a sync task begins at once.
ByUser ==
  /\ Due => sync
  /\ taskCalled' = (taskCalled \/ taskCalls' # <<>>)
  /\ sync' = (taskCalled /\ Due')

\* A reaction runs: the user code that scheduled it is over.
ByReaction ==
  /\ Due
  /\ sync' = FALSE
  /\ UNCHANGED taskCalled

-----------------------------------------------------------------------------
(* The sync task and the first-window decorator.                           *)

\* isConsentGranted, for the data of this submitter.
MaySend == consent = "GRANTED" \/ ~kind.optional

\* isRunning(), which the decorator overrides.
IsRunning == IF kind.window THEN started ELSE taskRunning

HasRoom == Len(taskCalls) < MaxCalls

\* Mutant: a call that finds another in flight just shares its promise.
ExecuteIfIdle(calls, call) == IF calls = <<>> THEN <<call>> ELSE [calls EXCEPT ![Len(calls)] = call]

\* `execute`: the call joins the promise chain.
ExecuteCall(calls, call) == Append(calls, call)

\* The undecorated `start`, without effect on a running task.
StartTask ==
  /\ taskRunning' = TRUE
  /\ taskCalls' = IF taskRunning THEN taskCalls ELSE ExecuteCall(taskCalls, "turn")
  /\ UNCHANGED timer

\* The decorated `start` only opens a window, without looking for an open one.
StartSubmitter ==
  /\ HasRoom
  /\ IF kind.window
     THEN /\ started' = TRUE
          /\ window' = TRUE
          /\ strays' = IF window THEN strays + 1 ELSE strays
          /\ strays' <= MaxStrays
          /\ UNCHANGED taskVars
     ELSE StartTask /\ UNCHANGED windowVars

\* What a stopped task makes of its calls: a turn no longer arms the timer.
Abandon(calls) == [n \in DOMAIN calls |-> IF calls[n] = "turn" THEN "call" ELSE calls[n]]

\* `stop`, decorated or not, but for the chain of calls.
StopTimers ==
  /\ started' = FALSE
  /\ window' = FALSE
  /\ taskRunning' = FALSE
  /\ timer' = FALSE
  /\ UNCHANGED strays

StopSubmitter == StopTimers /\ taskCalls' = Abandon(taskCalls)

\* The promise of the oldest call resolves; after a turn the timer is set.
ResolveCall ==
  /\ taskCalls' = Tail(taskCalls)
  /\ timer' = (timer \/ Head(taskCalls) = "turn")
  /\ sdk' = IF Head(taskCalls) = "last" THEN "flushed" ELSE sdk
  /\ UNCHANGED taskRunning

\* periodicExecute, by its timer.
PeriodElapses ==
  /\ timer
  /\ HasRoom
  /\ timer' = FALSE
  /\ taskCalls' = ExecuteCall(taskCalls, "turn")
  /\ UNCHANGED <<kind, consent, sdk, windowVars, taskRunning, retries, queue, data, posting, history>>
  /\ ByEvent

\* A first window ends: originalStart. A stray one is out of reach of `stop`.
WindowElapses ==
  /\ HasRoom
  /\ \/ window /\ window' = FALSE /\ UNCHANGED strays
     \/ strays > 0 /\ strays' = strays - 1 /\ UNCHANGED window
  /\ StartTask
  /\ UNCHANGED <<kind, consent, sdk, started, retries, queue, data, posting, history>>
  /\ ByEvent

-----------------------------------------------------------------------------
(* postData.                                                               *)

\* Mutant: what is retained gives way to what the cache holds.
NewestPayload == IF queue # {} THEN queue ELSE data

\* What the next post carries: the cache pops its items after the retained ones.
Payload == data \cup queue

\* A call whose turn has come finds nothing to post.
Skip ==
  /\ ByReaction
  /\ Payload = {}
  /\ ResolveCall
  /\ UNCHANGED <<kind, consent, windowVars, retries, queue, data, posting, history>>

\* A call whose turn has come pops the cache and posts; the payload is kept only
\* when it may be retried.
Post ==
  /\ ByReaction
  /\ Payload # {}
  /\ posting' = Payload
  /\ queue' = {}
  /\ data' = IF kind.maxRetries > 0 THEN Payload ELSE {}
  /\ attempts' = [i \in Item |-> IF i \in Payload THEN attempts[i] + 1 ELSE attempts[i]]
  /\ UNCHANGED <<kind, consent, sdk, windowVars, taskVars, retries, tracked, accepted, dropped, doubtful>>

\* Mutant: the retained payload is not forgotten once accepted.
AcceptKeepsData ==
  /\ posting # {}
  /\ ResolveCall
  /\ posting' = {}
  /\ retries' = 0
  /\ accepted' = accepted \cup posting
  /\ UNCHANGED <<kind, consent, windowVars, queue, data, tracked, dropped, doubtful, attempts>>
  /\ ByEvent

\* The post succeeds.
Accept ==
  /\ posting # {}
  /\ ResolveCall
  /\ posting' = {}
  /\ retries' = 0
  /\ data' = {}
  /\ accepted' = accepted \cup posting
  /\ UNCHANGED <<kind, consent, windowVars, queue, tracked, dropped, doubtful, attempts>>
  /\ ByEvent

\* Whether a failure is the last of the payload; the first is, without retries.
Exhausted == retries = kind.maxRetries

\* The post fails for the SDK: the network, a status or a timeout. The server may
\* have taken the items all the same.
Fail ==
  /\ posting # {}
  /\ ResolveCall
  /\ posting' = {}
  /\ \/ UNCHANGED <<accepted, doubtful>>
     \/ accepted' = accepted \cup posting /\ doubtful' = doubtful \cup posting
  /\ IF Exhausted
     THEN retries' = 0 /\ data' = {} /\ dropped' = dropped \cup posting
     ELSE retries' = retries + 1 /\ UNCHANGED <<data, dropped>>
  /\ UNCHANGED <<kind, consent, windowVars, queue, tracked, attempts>>
  /\ ByEvent

-----------------------------------------------------------------------------
(* Those who act on the submitter and its cache.                           *)

\* Whether tracking one more item makes the submitter post at once.
Overflows == kind.fullQueue /\ Cardinality(queue) + 1 >= QueueSize /\ IsRunning

\* A tracker records an item, unless its client is destroyed or the user declined.
Track ==
  /\ tracked < MaxTracked
  /\ sdk \in {"idle", "running", "stopped"}
  /\ kind.optional => consent # "DECLINED"
  /\ tracked' = tracked + 1
  /\ queue' = queue \cup {tracked'}
  /\ IF Overflows THEN HasRoom /\ taskCalls' = ExecuteCall(taskCalls, "call") ELSE UNCHANGED taskCalls
  /\ UNCHANGED <<kind, consent, sdk, windowVars, taskRunning, timer, retries, data, posting, accepted, dropped, doubtful, attempts>>
  /\ ByUser

\* syncManager.start: the first start or a resume.
SyncStart ==
  /\ sdk \in {"idle", "stopped"}
  /\ sdk' = "running"
  /\ IF MaySend THEN StartSubmitter ELSE UNCHANGED <<windowVars, taskVars>>
  /\ UNCHANGED <<kind, consent, retries, queue, data, posting, history>>
  /\ ByUser

\* syncManager.stop, as the application pauses the SDK.
SyncStop ==
  /\ sdk = "running"
  /\ sdk' = "stopped"
  /\ StopSubmitter
  /\ UNCHANGED <<kind, consent, retries, queue, data, posting, history>>
  /\ ByUser

\* UserConsent.setStatus(true) starts every submitter, telemetry too, whatever the
\* state of the SDK.
Grant ==
  /\ consent # "GRANTED"
  /\ consent' = "GRANTED"
  /\ StartSubmitter
  /\ UNCHANGED <<kind, sdk, retries, queue, data, posting, history>>
  /\ ByUser

\* Mutant: what was tracked is not cleared.
DeclineKeepsQueue ==
  /\ consent # "DECLINED"
  /\ consent' = "DECLINED"
  /\ IF kind.optional THEN StopSubmitter ELSE UNCHANGED <<windowVars, taskVars>>
  /\ UNCHANGED <<kind, sdk, retries, queue, data, posting, history>>
  /\ ByUser

\* UserConsent.setStatus(false) stops all submitters but telemetry and clears
\* their caches; what a submitter holds is out of its reach.
Decline ==
  /\ consent # "DECLINED"
  /\ consent' = "DECLINED"
  /\ IF kind.optional
     THEN StopSubmitter /\ queue' = {} /\ dropped' = dropped \cup queue
     ELSE UNCHANGED <<windowVars, taskVars, queue, dropped>>
  /\ UNCHANGED <<kind, sdk, retries, data, posting, tracked, accepted, doubtful, attempts>>
  /\ ByUser

\* client.flush, at any time.
Flush ==
  /\ MaySend
  /\ HasRoom
  /\ taskCalls' = ExecuteCall(taskCalls, "call")
  /\ UNCHANGED <<kind, consent, sdk, windowVars, taskRunning, timer, retries, queue, data, posting, history>>
  /\ ByUser

\* The page is hidden: what the cache holds is sent once, by a beacon or a post
\* nobody waits for. The listener lives from init to destroy.
HidePage ==
  /\ sdk \in {"running", "stopped"}
  /\ MaySend
  /\ queue # {}
  /\ queue' = {}
  /\ \/ accepted' = accepted \cup queue /\ UNCHANGED dropped
     \/ dropped' = dropped \cup queue /\ UNCHANGED accepted
  /\ attempts' = [i \in Item |-> IF i \in queue THEN attempts[i] + 1 ELSE attempts[i]]
  /\ UNCHANGED <<kind, consent, sdk, windowVars, taskVars, retries, data, posting, tracked, doubtful>>
  /\ ByEvent

\* client.destroy stops the submitters and waits for one last execution of those
\* that may send.
Destroy ==
  /\ sdk \in {"idle", "running", "stopped"}
  /\ HasRoom
  /\ StopTimers
  /\ IF MaySend
     THEN taskCalls' = ExecuteCall(Abandon(taskCalls), "last") /\ sdk' = "destroying"
     ELSE taskCalls' = Abandon(taskCalls) /\ sdk' = "closed"
  /\ UNCHANGED <<kind, consent, retries, queue, data, posting, history>>
  /\ ByUser

-----------------------------------------------------------------------------
\* No tracked item disappears: it is in the cache, retained, in flight, with the
\* server, or given up by a rule of the code.
NothingVanishes == 1..tracked \subseteq queue \cup data \cup posting \cup accepted \cup dropped

\* What the server has is never sent again, unless its answer was lost: neither a
\* retry, nor a beacon between a post and its answer, sends an item twice.
SentOnce == accepted \cap (queue \cup data \cup posting) \subseteq doubtful

\* An item is posted at most once more than the retries of its submitter ("retry
\* impressions only once"), however the retained payload grows in between.
RetriesAreBounded == \A i \in Item : attempts[i] <= kind.maxRetries + 1

\* Before the user answers, data is only kept: no start, full queue, hidden page,
\* flush or destroy sends or loses any of it.
UnknownOnlyQueues == kind.optional /\ consent = "UNKNOWN" => queue = 1..tracked /\ posting = {}

\* While consent is declined, a post carries nothing but what the submitter had
\* retained for a retry.
DeclinedSendsOnlyRetained ==
  [][kind.optional /\ consent = "DECLINED" /\ consent' = "DECLINED"
       => posting' \subseteq posting \cup data]_submitterVars

\* When the promise of `destroy` resolves, whatever was tracked has been posted,
\* even if a post was in flight as destroy was called.
DestroyFlushes == sdk = "flushed" => queue = {}
=============================================================================
