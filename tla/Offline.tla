------------------------------- MODULE Offline -------------------------------
(***************************************************************************)
(* Synchronisation in localhost mode (src/sync/offline/): a periodic task  *)
(* that reads the mocked features of the settings, which the user may edit, *)
(* and stores definitions made of them when they changed; and clients that *)
(* share them, each told in a turn of its own that its segments arrived.   *)
(* A mock maps names to treatments, given as a text or as an object with a *)
(* treatment and maybe a configuration.                                    *)
(***************************************************************************)
EXTENDS Naturals, Sequences, FiniteSets

CONSTANTS
  SharedClient, \* the clients other than the factory's
  Feature,      \* names
  MaxFeatures,  \* bound: features of a mock
  MaxEdits,     \* bound: edits of the mock
  MaxTurns      \* bound: executions of the task that wait

ASSUME OfflineAssumption ==
  /\ "emptyMock" \in Feature /\ "main" \notin SharedClient
  /\ {MaxFeatures, MaxEdits, MaxTurns} \subseteq Nat

MockedValue ==
  {[kind |-> "text", treatment |-> t, config |-> "none"] : t \in {"1", "on"}}
    \cup {[kind |-> "object", treatment |-> "on", config |-> c] : c \in {"none", "c"}}

Mock == UNION {[F -> MockedValue] : F \in {G \in SUBSET Feature : Cardinality(G) <= MaxFeatures}}

VARIABLES
  features,    \* settings.features
  previousMock,
  mocked,      \* the definitions stored
  taskRunning, \* isRunning() of the task
  turns,       \* its executions that have not ended: which are of the current run
  phase,       \* how far the first of them is
  chained,     \* whether the task was executed ever
  armed,       \* its timer
  firstLoad,   \* startingUp of the updater
  validating,  \* validateCache was called and has not answered
  sharedStarts,
  sharedTimers,\* the shared clients with a timeout
  told,        \* the clients whose SDK_SEGMENTS_ARRIVED was emitted
  edits

offlineVars == <<features, previousMock, mocked, taskRunning, turns, phase, chained, armed,
                 firstLoad, validating, sharedStarts, sharedTimers, told, edits>>

OfflineTypeOK ==
  /\ {features, previousMock} \subseteq Mock
  /\ {taskRunning, chained, armed, firstLoad, validating} \subseteq BOOLEAN
  /\ turns \in Seq(BOOLEAN) /\ Len(turns) <= MaxTurns
  /\ phase \in {"waits", "stored", "unchanged"}
  /\ {sharedStarts, sharedTimers} \subseteq SUBSET SharedClient
  /\ told \subseteq SharedClient \cup {"main"}
  /\ edits \in 0..MaxEdits

\* What the parser compares the first mock with.
InitialMock == [name \in {"emptyMock"} |-> [kind |-> "text", treatment |-> "1", config |-> "none"]]

OfflineInit ==
  /\ features \in Mock
  /\ previousMock = InitialMock
  /\ mocked = <<>>
  /\ taskRunning = FALSE /\ chained = FALSE /\ armed = FALSE /\ validating = FALSE
  /\ firstLoad = TRUE
  /\ turns = <<>>
  /\ phase = "waits"
  /\ sharedStarts = {} /\ sharedTimers = {} /\ told = {}
  /\ edits = 0

-----------------------------------------------------------------------------
(* The parser of the mock                                                   *)

HasTreatmentChanged(prev, curr) ==
  \/ prev.kind # curr.kind
  \/ prev.treatment # curr.treatment
  \/ prev.kind = "object" /\ prev.config # curr.config

MockUpdated(mock) ==
  \/ Cardinality(DOMAIN mock) # Cardinality(DOMAIN previousMock)
  \/ \E name \in DOMAIN mock :
       name \notin DOMAIN previousMock \/ HasTreatmentChanged(previousMock[name], mock[name])

\* One condition, that gives everyone the treatment.
ParseCondition(treatment) ==
  [conditionType |-> "ROLLOUT", matcher |-> "ALL_KEYS", treatment |-> treatment, size |-> 100]

\* The definition of a feature, with the fields that the updater adds.
Parsed(value) ==
  [status |-> "ACTIVE", killed |-> FALSE, trafficAllocation |-> 100,
   defaultTreatment |-> "control",
   condition |-> ParseCondition(value.treatment),
   configurations |-> IF value.config = "none" THEN {} ELSE {<<value.treatment, value.config>>}]

SplitsParser(mock) == [name \in DOMAIN mock |-> Parsed(mock[name])]

-----------------------------------------------------------------------------
(* The task                                                                 *)

\* objectUpdater up to its promise: removed features are cleared, too.
ObjectUpdater ==
  IF MockUpdated(features)
  THEN /\ previousMock' = features
       /\ mocked' = SplitsParser(features)
       /\ phase' = "stored"
  ELSE phase' = "unchanged" /\ UNCHANGED <<previousMock, mocked>>

\* start: the first execution begins at once, a later one after those before it.
StartOffline ==
  /\ ~taskRunning /\ Len(turns) < MaxTurns
  /\ taskRunning' = TRUE
  /\ chained' = TRUE
  /\ turns' = Append([i \in DOMAIN turns |-> FALSE], TRUE)
  /\ IF chained THEN UNCHANGED <<previousMock, mocked, phase>> ELSE ObjectUpdater
  /\ told' = told \cup sharedStarts
  /\ sharedStarts' = {}
  /\ UNCHANGED <<features, armed, firstLoad, validating, sharedTimers, edits>>

StopOffline ==
  /\ taskRunning
  /\ taskRunning' = FALSE
  /\ armed' = FALSE
  /\ UNCHANGED <<features, previousMock, mocked, turns, phase, chained, firstLoad, validating,
                 sharedStarts, sharedTimers, told, edits>>

OfflineTimer ==
  /\ armed /\ Len(turns) < MaxTurns
  /\ armed' = FALSE
  /\ turns' = Append(turns, TRUE)
  /\ UNCHANGED <<features, previousMock, mocked, taskRunning, phase, chained, firstLoad, validating,
                 sharedStarts, sharedTimers, told, edits>>

OfflineExecutes ==
  /\ turns # <<>> /\ phase = "waits"
  /\ ObjectUpdater
  /\ UNCHANGED <<features, taskRunning, turns, chained, armed, firstLoad, validating,
                 sharedStarts, sharedTimers, told, edits>>

\* Of the definitions that were stored first, the promise of validateCache is
\* left behind; then the timer is set, if the task was not started again since.
OfflineEnds ==
  /\ turns # <<>> /\ phase # "waits"
  /\ phase' = "waits"
  /\ turns' = Tail(turns)
  /\ armed' = (armed \/ (taskRunning /\ Head(turns)))
  /\ firstLoad' = (firstLoad /\ phase = "unchanged")
  /\ validating' = (validating \/ (firstLoad /\ phase = "stored"))
  /\ UNCHANGED <<features, previousMock, mocked, taskRunning, chained,
                 sharedStarts, sharedTimers, told, edits>>

\* SDK_SEGMENTS_ARRIVED of the factory's client.
OfflineValidated ==
  /\ validating
  /\ validating' = FALSE
  /\ told' = told \cup {"main"}
  /\ UNCHANGED <<features, previousMock, mocked, taskRunning, turns, phase, chained, armed, firstLoad,
                 sharedStarts, sharedTimers, edits>>

-----------------------------------------------------------------------------
(* Shared clients, and the user                                             *)

SharedCreated == sharedStarts \cup sharedTimers \cup (told \ {"main"})

\* `shared`: emitSdkReady is called by a timeout, or by the start to come.
ShareOffline(c) ==
  /\ c \notin SharedCreated
  /\ IF taskRunning
     THEN sharedTimers' = sharedTimers \cup {c} /\ UNCHANGED sharedStarts
     ELSE sharedStarts' = sharedStarts \cup {c} /\ UNCHANGED sharedTimers
  /\ UNCHANGED <<features, previousMock, mocked, taskRunning, turns, phase, chained, armed,
                 firstLoad, validating, told, edits>>

EmitSdkReady(c) ==
  /\ c \in sharedTimers
  /\ sharedTimers' = sharedTimers \ {c}
  /\ told' = told \cup {c}
  /\ UNCHANGED <<features, previousMock, mocked, taskRunning, turns, phase, chained, armed,
                 firstLoad, validating, sharedStarts, edits>>

EditMock(mock) ==
  /\ edits < MaxEdits /\ mock # features
  /\ features' = mock
  /\ edits' = edits + 1
  /\ UNCHANGED <<previousMock, mocked, taskRunning, turns, phase, chained, armed,
                 firstLoad, validating, sharedStarts, sharedTimers, told>>

-----------------------------------------------------------------------------
\* While the task goes on running, every shared client is told, the definitions
\* become those of the last mock, and then the factory's client is told. (A first
\* mock that equals the parser's own initial one is never noticed.)
OfflineArrives ==
  LET Unnoticed == firstLoad /\ features = InitialMock
  IN  <>[]taskRunning =>
        <>[](/\ sharedStarts \cup sharedTimers = {}
             /\ Unnoticed \/ (mocked = SplitsParser(features) /\ "main" \in told))
=============================================================================
