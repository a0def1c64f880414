-------------------------------- MODULE Clients --------------------------------
(***************************************************************************)
(* A client of the SDK: the calls of the application (getTreatment and its *)
(* variants, track, the attributes, the manager), evaluated at once or,    *)
(* when the storage is asynchronous, answered read by read while another   *)
(* process changes the definitions and the segments, and the impressions   *)
(* that come of them.                                                      *)
(***************************************************************************)
EXTENDS Settings, Targeting, Trackers

CONSTANTS
  Requests,               \* the calls of the application, a sequence of inputs, with a
                          \* synchronous and with an asynchronous storage
  Versions,               \* of each flag, the definitions it may come to have, in order
  SegmentChanges,         \* the segments and keys that come and go
  AttributeInputs,        \* the attributes the application sets, a sequence of names and values
  Configurations,         \* what SDKs are created with, each with its platform
  InitialStore,           \* the storage at first
  MaxCalls, MaxChanges, MaxHour   \* bounds; these, too, are given for each kind of storage

VARIABLES
  settings,
  status,                 \* readinessManager: [fromCache, ready, destroyed]
  consent,                \* settings.userConsent
  store,
  attributes,             \* AttributesCacheInMemory
  calls,                  \* the calls under way
  answer,                 \* what the last call was answered
  t,                      \* the trackers
  hour,
  made, changed,          \* calls and changes so far
  done, seen, stored      \* what was tracked: per feature since the last clear, and
                          \* the hashes seen and stored, with their hours

clientVars == <<settings, status, consent, store, attributes, calls, answer, t, hour,
                made, changed, done, seen, stored>>
tracked == <<t, done, seen, stored>>

\* The storage answers with promises.
async == IsConsumerMode(settings.mode)

NoAnswer == [kind |-> "none"]

ClientsInit ==
  /\ settings \in UNION {SettingsValidation(c.config, c.platform) : c \in Configurations}
  /\ status = [fromCache |-> FALSE, ready |-> FALSE, destroyed |-> FALSE]
  /\ consent = settings.userConsent
  /\ store = InitialStore
  /\ attributes = NoAttributes
  /\ calls = <<>>
  /\ answer = NoAnswer
  /\ t = TrackersInit
  /\ hour = 1
  /\ made = 0 /\ changed = 0
  /\ done = [f \in DOMAIN Versions |-> 0]
  /\ seen = {} /\ stored = {}

(***************************************************************************)
(* clientInputValidation: what is evaluated of a request.                  *)
(***************************************************************************)
Evaluations == {"getTreatment", "getTreatments", "getTreatmentsByFlagSets"}
ManagerCalls == {"split", "splits", "names"}

FlagSetsInConfig == settings.splitFilters.bySet
NamesIn(req) ==
  CASE req.method \in {"getTreatment", "split"} -> {ValidateDefinition(req.names)} \ {<<>>}
    [] req.method = "getTreatments" -> ValidateDefinitions(req.names)
    [] req.method = "getTreatmentsByFlagSets" -> ValidateFlagSets(req.names, FlagSetsInConfig)

\* combineAttributes: the ones of the call over the ones the client has.
CombineAttributes(given) ==
  [a \in DOMAIN attributes \cup DOMAIN given |-> IF a \in DOMAIN given THEN given[a] ELSE attributes[a]]

ValidateEvaluationParams(req) ==
  [method |-> req.method, key |-> ValidateKey(req.key), names |-> NamesIn(req),
   attributes |-> CombineAttributes(ValidateAttributes(req.attributes)),
   options |-> ValidateEvaluationOptions(req.options), answers |-> <<>>, clean |-> TRUE]

IsValid(req) ==
  /\ ~status.destroyed
  /\ ValidateKey(req.key) # NoKey
  /\ NamesIn(req) # {}
  /\ ValidAttributes(req.attributes)

FallbackCalculator(flag, label) ==
  LET some == flag \in DOMAIN settings.fallbackTreatments.byFlag
      fallback == IF some THEN settings.fallbackTreatments.byFlag[flag] ELSE settings.fallbackTreatments.global
  IN IF fallback.treatment = NoTreatment THEN [treatment |-> Control, config |-> NoConfig, label |-> label]
     ELSE [treatment |-> fallback.treatment, config |-> fallback.config, label |-> "fallback - " \o label]

\* evaluateFallBackTreatment: no label and no impression.
Refused(req) ==
  IF req.method = "getTreatmentsByFlagSets" THEN <<>>
  ELSE [n \in NamesIn(req) |-> FallbackCalculator(n, "")]

(***************************************************************************)
(* client.ts and sdkManager: the outcome of a call.                        *)
(***************************************************************************)
Source(c) == [sync |-> ~async, store |-> store, answers |-> c.answers,
              impressionsDisabled |-> c.options.impressionsDisabled]

Evaluated(c) ==
  CASE ~status.fromCache /\ c.answers = <<>> ->
         Ok(IF c.method = "getTreatmentsByFlagSets" THEN <<>> ELSE [n \in c.names |-> NotReady])
    [] c.method = "getTreatment" ->
         LET n == CHOOSE n \in c.names : TRUE
         IN Then(EvaluateFeature(Source(c), <<0>>, c.key, c.attributes, n), LAMBDA r : Ok([m \in {n} |-> r]))
    [] c.method = "getTreatments" -> EvaluateFeatures(Source(c), <<0>>, c.key, c.attributes, c.names)
    [] c.method = "getTreatmentsByFlagSets" -> EvaluateFeaturesByFlagSets(Source(c), c.key, c.attributes, c.names)

CollectTreatments(def) ==
  LET i == SelectInSeq(def.conditions, LAMBDA c : c.conditionType = "ROLLOUT")
      from == IF i = 0 THEN 1 ELSE i
  IN IF def.conditions = <<>> THEN <<>>
     ELSE [p \in DOMAIN def.conditions[from].partitions |-> def.conditions[from].partitions[p].treatment]
ObjectToView(def) ==
  [name |-> def.name, killed |-> def.killed, changeNumber |-> def.changeNumber, treatments |-> CollectTreatments(def),
   configs |-> def.configurations, sets |-> def.sets, defaultTreatment |-> def.defaultTreatment,
   impressionsDisabled |-> def.impressionsDisabled, prerequisites |-> def.prerequisites]
ObjectsToViews(defs) == {ObjectToView(d) : d \in {e \in defs : e.status # Absent}}

\* Rejections of the storage are answered with nothing.
Managed(c) ==
  CASE c.method = "split" ->
         Then(Catch(Read(Source(c), <<0>>, "get", CHOOSE n \in c.names : TRUE, <<>>), NotStored),
              LAMBDA d : Ok(ObjectsToViews({d})))
    [] c.method = "splits" -> Then(Catch(Read(Source(c), <<0>>, "getAll", <<>>, <<>>), {}),
                                   LAMBDA ds : Ok(ObjectsToViews(ds)))
    [] c.method = "names" -> Catch(Read(Source(c), <<0>>, "getNames", <<>>, <<>>), {})

Outcome(c) == IF c.method \in Evaluations THEN Evaluated(c) ELSE Managed(c)

(***************************************************************************)
(* processEvaluation and the impressions of a call.                        *)
(***************************************************************************)
Processed(flag, r) ==
  IF r.treatment # Control THEN [treatment |-> r.treatment, config |-> r.config, label |-> r.label]
  ELSE FallbackCalculator(flag, r.label)

Exists(label) == status.ready => label \notin {"definition not found", "fallback - definition not found"}

Decorated(c, flag, r) ==
  LET p == Processed(flag, r)
  IN [imp |-> [hash |-> <<Matching(c.key), flag, p.treatment, p.label, r.changeNumber>>, feature |-> flag,
               keyName |-> Matching(c.key), properties |-> c.options.properties],
      disabled |-> r.disabled]

Impressions(c, results) ==
  LET flags == SetToSeq({f \in DOMAIN results : Exists(Processed(f, results[f]).label)})
  IN [i \in DOMAIN flags |-> Decorated(c, flags[i], results[flags[i]])]

\* wrapUp: the impressions are tracked and the call is answered.
WrapUp(c, results) ==
  LET queue == Impressions(c, results)
      after == Track(t, settings.impressionsMode, consent, queue, hour)
      deduped == {i \in DOMAIN queue : ~queue[i].disabled /\ ~queue[i].imp.properties}
  IN /\ t' = after
     /\ answer' = [kind |-> "evaluation", call |-> c, results |-> results]
     /\ IF consent = "DECLINED" THEN UNCHANGED <<done, seen, stored>>
        ELSE /\ done' = [f \in DOMAIN done |-> done[f] + Cardinality({i \in DOMAIN queue : queue[i].imp.feature = f})]
             /\ seen' = seen \cup IF settings.impressionsMode = "OPTIMIZED"
                                  THEN {<<queue[i].imp.hash, hour>> : i \in deduped} ELSE {}
             /\ stored' = stored \cup {<<after.impressions[i].hash, hour>> :
                                         i \in Len(t.impressions) + 1 .. Len(after.impressions)}

Complete(c, results) ==
  IF c.method \in Evaluations THEN WrapUp(c, results)
  ELSE /\ answer' = [kind |-> "view", call |-> c, results |-> results]
       /\ UNCHANGED tracked

\* What a call does when it is made or one of its reads is answered.
ProceedTo(id, c, o) ==
  IF o.st = "pending"
  THEN /\ calls' = (id :> c) @@ calls
       /\ answer' = NoAnswer
       /\ UNCHANGED tracked
  ELSE /\ calls' = Restrict(calls, DOMAIN calls \ {id})
       /\ Complete(c, o.v)
Proceed(id, c) == ProceedTo(id, c, Outcome(c))

(***************************************************************************)
(* The application.                                                        *)
(***************************************************************************)
Evaluate(req) ==
  /\ req.method \in Evaluations
  /\ made < MaxCalls[async]
  /\ made' = made + 1
  /\ IF IsValid(req) THEN Proceed(made', ValidateEvaluationParams(req))
     ELSE /\ answer' = [kind |-> "refused", results |-> Refused(req)]
          /\ UNCHANGED <<calls, tracked>>
  /\ UNCHANGED <<settings, status, consent, store, attributes, hour, changed>>

\* sdkManager: validateIfOperational and, for one flag, a name.
Ask(req) ==
  /\ req.method \in ManagerCalls
  /\ made < MaxCalls[async]
  /\ made' = made + 1
  /\ IF ~status.destroyed /\ status.fromCache /\ (req.method = "split" => NamesIn(req) # {})
     THEN Proceed(made', [method |-> req.method, names |-> IF req.method = "split" THEN NamesIn(req) ELSE {},
                          options |-> NoOptions, answers |-> <<>>, clean |-> TRUE])
     ELSE /\ answer' = [kind |-> "refused", results |-> <<>>]
          /\ UNCHANGED <<calls, tracked>>
  /\ UNCHANGED <<settings, status, consent, store, attributes, hour, changed>>

\* trackMethodFactory
TrackCall(req) ==
  LET valid == /\ ~status.destroyed
               /\ ValidateKey(req.key) # NoKey
               /\ ValidateTrafficType(req.trafficType) # <<>>
               /\ ValidateEvent(req.event) # <<>>
               /\ ValidateEventValue(req.value)
               /\ ValidateEventProperties(req.properties).valid
  IN /\ req.method = "track"
     /\ made < MaxCalls[async]
     /\ made' = made + 1
     /\ t' = IF valid THEN TrackEvent(t, consent) ELSE t
     /\ answer' = NoAnswer
     /\ UNCHANGED <<settings, status, consent, store, attributes, calls, hour, changed, done, seen, stored>>

SetAttribute(input) ==
  /\ changed < MaxChanges[async]
  /\ changed' = changed + 1
  /\ ValidateAttribute(input.name, input.val)
  /\ attributes' = [a \in DOMAIN attributes \cup {input.name} |-> IF a = input.name THEN input.val ELSE attributes[a]]
  /\ answer' = NoAnswer
  /\ UNCHANGED <<settings, status, consent, store, calls, tracked, hour, made>>

\* removeAttribute and clearAttributes.
DropAttributes(names) ==
  /\ changed < MaxChanges[async]
  /\ changed' = changed + 1
  /\ names # {} /\ names \subseteq DOMAIN attributes
  /\ attributes' = Restrict(attributes, DOMAIN attributes \ names)
  /\ answer' = NoAnswer
  /\ UNCHANGED <<settings, status, consent, store, calls, tracked, hour, made>>

(***************************************************************************)
(* The storage: reads, and the changes of whoever synchronises it.         *)
(***************************************************************************)
AnswerRead(id, ok) ==
  \E r \in Outcome(calls[id]).reads :
    LET a == IF ok THEN [ok |-> TRUE, v |-> Stored(store, r)] ELSE [ok |-> FALSE]
    IN /\ Proceed(id, [calls[id] EXCEPT !.answers = (r.at :> a) @@ @, !.clean = @ /\ ok])
       /\ UNCHANGED <<settings, status, consent, store, attributes, hour, made>>

Answered(id) == AnswerRead(id, TRUE) /\ UNCHANGED changed
Failed(id) == changed < MaxChanges[async] /\ changed' = changed + 1 /\ AnswerRead(id, FALSE)

Change(new) ==
  /\ changed < MaxChanges[async]
  /\ changed' = changed + 1
  /\ new # store
  /\ store' = new
  /\ calls' = [id \in DOMAIN calls |-> [calls[id] EXCEPT !.clean = FALSE]]
  /\ answer' = NoAnswer
  /\ UNCHANGED <<settings, status, consent, attributes, tracked, hour, made>>

\* A newer definition of a flag, or its removal.
Update(flag, n) ==
  /\ Get(store.definitions, flag).changeNumber < Versions[flag][n].changeNumber
  /\ Change([store EXCEPT !.definitions =
               IF Versions[flag][n].status = Absent THEN Restrict(@, DOMAIN @ \ {flag})
               ELSE (flag :> Versions[flag][n]) @@ @])
UpdateSegment(c) ==
  Change([store EXCEPT !.segments[c.name] = IF c.key \in @ THEN @ \ {c.key} ELSE @ \cup {c.key}])

(***************************************************************************)
(* Readiness, consent, time.                                               *)
(***************************************************************************)
Around == <<settings, store, attributes, calls, made, changed>>

BecomeReady(fromCache) ==
  /\ ~status.ready /\ ~status.destroyed
  /\ status' = [status EXCEPT !.fromCache = TRUE, !.ready = ~fromCache]
  /\ status' # status
  /\ answer' = NoAnswer
  /\ UNCHANGED <<Around, consent, tracked, hour>>

Destroy ==
  /\ ~status.destroyed
  /\ status' = [status EXCEPT !.destroyed = TRUE]
  /\ answer' = NoAnswer
  /\ UNCHANGED <<Around, consent, tracked, hour>>

SetStatus(granted) ==
  /\ settings.userConsent # "undefined"
  /\ consent' = IF granted THEN "GRANTED" ELSE "DECLINED"
  /\ consent' # consent
  /\ IF granted THEN UNCHANGED tracked
     ELSE t' = Clear(t) /\ done' = [f \in DOMAIN done |-> 0] /\ UNCHANGED <<seen, stored>>
  /\ answer' = NoAnswer
  /\ UNCHANGED <<Around, status, hour>>

NextHour ==
  /\ hour < MaxHour[async]
  /\ hour' = hour + 1
  /\ answer' = NoAnswer
  /\ UNCHANGED <<Around, status, consent, tracked>>

Next ==
  \/ \E i \in DOMAIN Requests[async] : Evaluate(Requests[async][i])
  \/ \E i \in DOMAIN Requests[async] : Ask(Requests[async][i])
  \/ \E i \in DOMAIN Requests[async] : TrackCall(Requests[async][i])
  \/ \E i \in DOMAIN AttributeInputs : SetAttribute(AttributeInputs[i])
  \/ \E names \in SUBSET DOMAIN attributes : DropAttributes(names)
  \/ \E id \in DOMAIN calls : Answered(id)
  \/ \E id \in DOMAIN calls : Failed(id)
  \/ \E flag \in DOMAIN Versions : \E n \in DOMAIN Versions[flag] : Update(flag, n)
  \/ \E c \in SegmentChanges : UpdateSegment(c)
  \/ \E fromCache \in BOOLEAN : BecomeReady(fromCache)
  \/ Destroy
  \/ \E granted \in BOOLEAN : SetStatus(granted)
  \/ NextHour

Spec == ClientsInit /\ [][Next]_clientVars

(***************************************************************************)
(* Properties.                                                             *)
(***************************************************************************)
TypeOK ==
  /\ status.ready => status.fromCache
  /\ consent \in DOMAIN ConsentStatus \cup {"undefined"}
  /\ DOMAIN calls \subseteq 1 .. made
  /\ calls # <<>> => async
  /\ Len(t.observer) <= LastSeenCacheSize
  /\ \A i, j \in DOMAIN t.observer : t.observer[i].hash = t.observer[j].hash => i = j

Versioned(flag, cn) == CHOOSE d \in {Versions[flag][n] : n \in DOMAIN Versions[flag]} : d.changeNumber = cn
Treatments(d) ==
  {d.defaultTreatment, Control} \cup
    UNION {{d.conditions[i].partitions[j].treatment : j \in DOMAIN d.conditions[i].partitions} : i \in DOMAIN d.conditions}

\* When the storage neither changed nor failed during a call, every flag the call
\* asked for gets the treatment and the label that targeting promises (evaluator:
\* prerequisites, dependencies, rule-based segments and matchers, whose reads are
\* answered in any order, and the first condition that matches).
TargetingIsKept ==
  answer.kind = "evaluation" /\ answer.call.clean /\ status.fromCache =>
    \A f \in DOMAIN answer.results :
      LET r == answer.results[f]
      IN Labelled(r.treatment, r.label) = Targeted(store, answer.call.key, answer.call.attributes, f)

\* Whatever changes while a call is under way, the treatment, the configuration and
\* the change number of a result come from one version of the flag's definition.
OneVersion ==
  answer.kind = "evaluation" =>
    \A f \in {g \in DOMAIN answer.results : answer.results[g].changeNumber >= 0} :
      LET r == answer.results[f]
          d == Versioned(f, r.changeNumber)
      IN r.treatment \in Treatments(d) /\ r.config = ConfigOf(d, r.treatment)

\* No evaluation is missing from what will be reported of a feature, and none is
\* there twice: it is an impression that was not seen before (with no pt, or any in
\* DEBUG mode) or one of the counts, through evictions from the observer's cache and
\* from one hour to the next. And deduplication keeps an impression of each hour:
\* what was evaluated in an hour was stored in that hour (strategyOptimized).
ImpressionsAreCounted ==
  /\ \A f \in DOMAIN done :
       done[f] = Cardinality({i \in DOMAIN t.impressions :
                                /\ t.impressions[i].feature = f
                                /\ t.impressions[i].pt = NoTime \/ settings.impressionsMode = "DEBUG"})
                 + FoldSet(LAMBDA h, sum : sum + CountOf(t, f, h), 0, 1 .. hour)
  /\ seen \subseteq stored

\* Once the consent is declined nothing that was tracked is kept, and nothing is
\* tracked by the calls that were under way (sdkUserConsent, trackers).
DeclinedKeepsNothing == consent = "DECLINED" => t = [TrackersInit EXCEPT !.observer = t.observer]
=============================================================================
