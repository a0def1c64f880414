------------------------------- MODULE MCClients -------------------------------
(***************************************************************************)
(* Two flags, one a prerequisite of the other, in a flag set; rule-based   *)
(* segments, one excluded from the other; two keys, the second one out of  *)
(* the traffic allocation.                                                 *)
(***************************************************************************)
EXTENDS Clients

F == <<102>>
G == <<103>>
K1 == <<107, 49>>
K2 == <<107, 50>>
InS == <<115>>
Out == <<111>>
Rule == <<114>>
Inner == <<105>>
Plan == <<112>>
SetA == <<97>>

MCBucket(key, seed) == IF key = K1 THEN 30 ELSE 90

Group(type, attribute, negate, data) ==
  [matcherType |-> type, attribute |-> attribute, negate |-> negate, data |-> data, dateTime |-> FALSE]
OnKey(type, negate, data) == Group(type, NoAttribute, negate, data)
Rollout(matchers, label, treatment, other) ==
  [conditionType |-> "ROLLOUT", matchers |-> matchers, label |-> label,
   partitions |-> <<[treatment |-> treatment, size |-> 40], [treatment |-> other, size |-> 60]>>]
Including(matchers) == [conditionType |-> "NONE", matchers |-> matchers, label |-> "", partitions |-> <<>>]

Flag(name, cn, killed, default, prerequisites, conditions, config) ==
  [name |-> name, status |-> "ACTIVE", killed |-> killed, changeNumber |-> cn, defaultTreatment |-> default,
   configurations |-> [x \in {"on", default} |-> config], prerequisites |-> prerequisites, conditions |-> conditions,
   trafficAllocation |-> 80, trafficAllocationSeed |-> 1, seed |-> 1, sets |-> {SetA},
   impressionsDisabled |-> FALSE]

F1 == Flag(F, 1, FALSE, "off", <<[n |-> G, ts |-> {"on", "half"}]>>,
           <<Rollout(<<OnKey("IN_RULE_BASED_SEGMENT", FALSE, Rule)>>, "in rule", "on", "half"),
             Rollout(<<Group("EQUAL_TO_SEMVER", Plan, FALSE, <<49, 46, 48, 46, 48>>),
                       OnKey("IN_SPLIT_TREATMENT", TRUE, [split |-> G, treatments |-> {"half"}])>>, "plan", "beta", "on")>>, "c1")
F2 == [Flag(F, 2, TRUE, "off2", <<>>, F1.conditions, "c2") EXCEPT !.impressionsDisabled = TRUE]
G1 == Flag(G, 1, FALSE, "off",  <<>>,
           <<[conditionType |-> "WHITELIST", matchers |-> <<OnKey("WHITELIST", FALSE, <<K2>>)>>, label |-> "listed",
              partitions |-> <<[treatment |-> "half", size |-> 100]>>],
             Rollout(<<OnKey("IN_SEGMENT", FALSE, InS)>>, "in s", "on", "half")>>, "d1")
G2 == [G1 EXCEPT !.status = Absent, !.changeNumber = 2]

MCVersions == (F :> <<F1, F2>>) @@ (G :> <<G1, G2>>)

RB(excludedKeys, excludedSegments, conditions) ==
  [status |-> "ACTIVE", excludedKeys |-> excludedKeys, excludedSegments |-> excludedSegments, conditions |-> conditions,
   trafficAllocation |-> 100, trafficAllocationSeed |-> 0, seed |-> 0]
MCStore ==
  [definitions |-> (F :> F1) @@ (G :> G1),
   segments |-> (InS :> {K1}) @@ (Out :> {}),
   largeSegments |-> (Out :> {}),
   rbSegments |-> (Rule :> RB({K2}, <<[type |-> "standard", name |-> Out], [type |-> "rule-based", name |-> Inner],
                                      [type |-> "large", name |-> Out]>>,
                              <<Including(<<OnKey("ALL_KEYS", FALSE, "")>>)>>))
                  @@ (Inner :> RB({}, <<>>, <<Including(<<OnKey("IN_SEGMENT", TRUE, InS)>>)>>))]
MCSegmentChanges == {[name |-> InS, key |-> K1], [name |-> Out, key |-> K1]}

Request(method, key, names, attrs, options) ==
  [method |-> method, key |-> key, names |-> names, attributes |-> attrs, options |-> options]
Event(properties) ==
  [method |-> "track", key |-> Text(K1), trafficType |-> Text(<<85>>), event |-> Text(<<101>>), value |-> Undefined,
   properties |-> properties]
ListOf(inputs) == [type |-> "array", v |-> inputs]
WithProperties == Object([properties |-> Object(<<[name |-> <<112>>, val |-> Boolean(TRUE)]>>), impressionsDisabled |-> FALSE])
MCRequests == [b \in BOOLEAN |->
  IF b THEN
    <<Request("getTreatment", Text(K1), Text(F), Object(Plan :> Text(<<48, 49, 46, 48, 46, 48>>)), Undefined),
      Request("getTreatmentsByFlagSets", Text(K1), ListOf(<<Text(<<65>>)>>), Undefined, Undefined),
      Request("split", Undefined, Text(F), Undefined, Undefined)>>
  ELSE
    <<Request("getTreatmentsByFlagSets", Text(<<32>> \o K1), ListOf(<<Text(SetA), Text(<<98>>)>>), Undefined, Undefined),
      Request("getTreatments", Object([matchingKey |-> Text(K2), bucketingKey |-> Text(K1)]),
              ListOf(<<Text(F), Undefined, Text(G)>>), Undefined, Undefined),
      Request("getTreatment", Text(K1), Text(G), Undefined, WithProperties),
      Request("getTreatment", Text(K2), Text(F), Number(1), Undefined),
      Event(Undefined),
      Request("splits", Undefined, Undefined, Undefined, Undefined),
      Request("names", Undefined, Undefined, Undefined, Undefined)>>]

MCAttributes == <<[name |-> Plan, val |-> Text(<<49, 46, 48, 46, 48>>)], [name |-> Plan, val |-> Undefined]>>
Named(text, name) == [type |-> "string", v |-> [text |-> text, name |-> name]]
NoConfiguration ==
  [authorizationKey |-> "key", mode |-> "standalone", key |-> Text(K1), storage |-> "none",
   scheduler |-> <<>>, startup |-> [readyTimeout |-> Number(10), retriesOnFailureBeforeReady |-> Number(1)],
   impressionsMode |-> Undefined, userConsent |-> Undefined, streamingEnabled |-> Undefined, syncEnabled |-> Undefined,
   splitFilters |-> <<>>, fallbackTreatments |-> Undefined, integrations |-> Undefined]
Browser == [clientSide |-> TRUE, integrations |-> {}, scheduler |-> <<>>]
Server == [Browser EXCEPT !.clientSide = FALSE]

Fallbacks ==
  Object([global |-> Undefined,
          byFlag |-> Object(G :> Object([treatment |-> Named(<<102, 97, 108, 108>>, "fall"), config |-> "fc"]))])
Filters == <<[type |-> "byName", values |-> ListOf(<<Text(F)>>)],
             [type |-> "bySet", values |-> ListOf(<<Text(<<65>>), Text(<<45>>)>>)]>>
Standalone(mode, given) ==
  [NoConfiguration EXCEPT !.impressionsMode = mode, !.userConsent = given,
                          !.fallbackTreatments = Fallbacks, !.splitFilters = Filters]
MCConfigurations ==
  {[config |-> Standalone(Undefined, Undefined), platform |-> Server],
   [config |-> Standalone(Text(<<68, 69, 98, 117, 103>>), Text(ConsentStatus.UNKNOWN)), platform |-> Browser],
   [config |-> Standalone(Text(ImpressionsModes.NONE), Number(1)), platform |-> Browser],
   [config |-> [Standalone(Undefined, Undefined) EXCEPT !.mode = "consumer", !.storage = "PLUGGABLE"], platform |-> Browser],
   [config |-> [NoConfiguration EXCEPT !.mode = "consumer"], platform |-> Browser]}
MCCalls == [b \in BOOLEAN |-> IF b THEN 1 ELSE 2]
MCChanges == [b \in BOOLEAN |-> IF b THEN 2 ELSE 1]
MCHour == [b \in BOOLEAN |-> IF b THEN 1 ELSE 2]
(***************************************************************************)
(* The pure operators of Matchers against what they are to mean, on small  *)
(* inputs.                                                                 *)
(***************************************************************************)
Core(a, b, c) == Decimal(a) \o <<46>> \o Decimal(b) \o <<46>> \o Decimal(c)
PreRelease(ids) == <<45>> \o ids
\* 0.9.9, 1.0.0-2, 1.0.0-10, 1.0.0-a, 1.0.0-a.1, 1.0.0-b, 1.0.0, 1.2.0, 1.10.0, 10.0.0
Ascending == <<Core(0, 9, 9), Core(1, 0, 0) \o PreRelease(<<50>>), Core(1, 0, 0) \o PreRelease(<<49, 48>>),
               Core(1, 0, 0) \o PreRelease(<<97>>), Core(1, 0, 0) \o PreRelease(<<97, 46, 49>>),
               Core(1, 0, 0) \o PreRelease(<<98>>), Core(1, 0, 0), Core(1, 2, 0), Core(1, 10, 0), Core(10, 0, 0)>>
ASSUME VersionsAreOrdered ==
  /\ \A i, j \in DOMAIN Ascending : (Compare(Semver(Ascending[i]), Semver(Ascending[j])) < 0) <=> i < j
  /\ Semver(<<48>> \o Core(1, 0, 0)) = Semver(Core(1, 0, 0))
  /\ \A s \in {<<49>>, Core(1, 0, 0) \o <<45>>, Core(1, 0, 0) \o <<43>>, <<97>> \o Core(1, 0, 0)} : ~Semver(s).valid

\* The rule's values and the sanitized ones have no duplicates.
Lists == {Uniq(s) : s \in BoundedSeq({<<97>>, <<98>>, <<99>>}, 3)} \ {<<>>}
ASSUME SetsAreCompared ==
  \A rule, v \in Lists :
    /\ EqualToSet(rule, v) <=> ToSet(rule) = ToSet(v)
    /\ ContainsAllOfSet(rule, v) <=> ToSet(rule) \subseteq ToSet(v)
    /\ ContainsAnyOfSet(rule, v) <=> ToSet(rule) \cap ToSet(v) # {}
    /\ PartOfSet(rule, v) <=> ToSet(v) \subseteq ToSet(rule)

\* Partitions of percentages give every bucket one treatment, in shares of their sizes.
ASSUME BucketsAreShared ==
  \A a, b \in {0, 1, 50, 100} : a + b <= 100 =>
    LET ps == <<[treatment |-> "a", size |-> a], [treatment |-> "b", size |-> b], [treatment |-> "c", size |-> 100 - a - b]>>
    IN \A i \in 1 .. 3 : Cardinality({x \in 1 .. 100 : GetTreatmentFor(ps, x) = ps[i].treatment}) = ps[i].size

\* An SDK in a browser can be made with any configuration but one of an unknown mode, and
\* but an asynchronous mode without a pluggable storage, which no other mode has;
\* telemetry is posted every minute at most, and impressions every minute in DEBUG mode.
ASSUME SettingsAreSane ==
  \A sdkKey \in {"localhost", "key"}, mode \in SdkModes \cup {"other"}, storage \in {"none", "LOCALSTORAGE", "PLUGGABLE"},
    rate \in {Undefined, Number(1), Number(120), Text(<<49>>)}, impressionsMode \in {Undefined, Text(ImpressionsModes.DEBUG)} :
    LET sdks == SettingsValidation([NoConfiguration EXCEPT !.authorizationKey = sdkKey, !.mode = mode, !.storage = storage,
                                      !.impressionsMode = impressionsMode, !.scheduler = ("telemetryRefreshRate" :> rate)],
                                   Browser)
    IN /\ sdks = {} <=> /\ sdkKey # "localhost" /\ mode # "standalone"
                        /\ (mode = "other" \/ storage # "PLUGGABLE")
       /\ \A x \in sdks :
            /\ x.storage = "PLUGGABLE" <=> x.mode \notin {"localhost", "standalone"}
            /\ x.scheduler.telemetryRefreshRate.v = IF rate.type = "undefined" THEN 3600000 ELSE IF rate = Number(120) THEN 120000 ELSE 60000
            /\ x.scheduler.impressionsRefreshRate = Number(IF x.impressionsMode = "DEBUG" THEN 60000 ELSE 300000)
            /\ x.streamingEnabled /\ x.syncEnabled /\ x.key = Text(K1) /\ x.userConsent = "GRANTED"

\* A fallback that is kept is one the SDK accepts, and keeping is all that is done to it.
ASSUME FallbacksAreSanitized ==
  \A text \in {<<>>, <<49, 46, 49>>, <<97, 46>>, <<45>>}, flag \in {F, <<97, 32>>} :
    LET raw == Object([treatment |-> Named(text, "x"), config |-> "c"])
        kept == SanitizeFallbacks(Object([global |-> raw, byFlag |-> Object(flag :> raw)]))
    IN /\ kept.global = IF text = <<49, 46, 49>> THEN [treatment |-> "x", config |-> "c"] ELSE NoFallback
       /\ DOMAIN kept.byFlag = IF text = <<49, 46, 49>> /\ flag = F THEN {F} ELSE {}
=============================================================================
