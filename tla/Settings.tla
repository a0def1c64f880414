------------------------------- MODULE Settings -------------------------------
(***************************************************************************)
(* utils/settingsValidation: the settings that a configuration becomes,    *)
(* with the validators of a platform. A configuration is a record with     *)
(* every field, Undefined where the application gives none; its rates and  *)
(* periods count seconds, those of the settings milliseconds. The word of  *)
(* an enumeration is a text in the configuration and a name in the         *)
(* settings. The initial rollout plan is left to module Storages.          *)
(***************************************************************************)
EXTENDS Validation

Upper(s) == [i \in DOMAIN s |-> IF s[i] \in 97 .. 122 THEN s[i] - 32 ELSE s[i]]

\* A word of `spelled` in any case, or the default.
OneOf(raw, spelled, default) ==
  IF IsString(raw) /\ \E w \in DOMAIN spelled : spelled[w] = Upper(raw.v)
  THEN CHOOSE w \in DOMAIN spelled : spelled[w] = Upper(raw.v)
  ELSE default

ImpressionsModes == [DEBUG |-> <<68, 69, 66, 85, 71>>, NONE |-> <<78, 79, 78, 69>>,
                     OPTIMIZED |-> <<79, 80, 84, 73, 77, 73, 90, 69, 68>>]
ConsentStatus == [DECLINED |-> <<68, 69, 67, 76, 73, 78, 69, 68>>, GRANTED |-> <<71, 82, 65, 78, 84, 69, 68>>,
                  UNKNOWN |-> <<85, 78, 75, 78, 79, 87, 78>>]

ValidImpressionsMode(raw) == OneOf(raw, ImpressionsModes, "OPTIMIZED")
ValidateConsent(raw) == OneOf(raw, ConsentStatus, "GRANTED")

(***************************************************************************)
(* Mode and storage. Thrown stands for an error of the factory.            *)
(***************************************************************************)
Thrown == "thrown"
SdkModes == {"standalone", "producer", "consumer", "consumer_partial"}
IsConsumerMode(mode) == mode \in {"consumer", "consumer_partial"}

ValidateMode(sdkKey, mode) ==
  CASE sdkKey = "localhost" -> "localhost"
    [] sdkKey # "localhost" /\ mode \in SdkModes -> mode
    [] OTHER -> Thrown

\* The type of the storage that is used; "mock" is in memory and says that it has a cache.
ValidateStorageCS(storage, mode) ==
  LET type == IF storage \in {"MEMORY", "LOCALSTORAGE", "PLUGGABLE"} THEN storage ELSE "MEMORY"
  IN CASE mode = "localhost" /\ type = "LOCALSTORAGE" -> "mock"
       [] mode \notin {"localhost", "standalone"} -> IF type = "PLUGGABLE" THEN type ELSE Thrown
       [] mode \in {"localhost", "standalone"} /\ type = "PLUGGABLE" -> "MEMORY"
       [] OTHER -> type

(***************************************************************************)
(* Integrations: objects, of which the type is kept, or functions.         *)
(***************************************************************************)
Integrations(raw) == IF raw.type = "array" THEN raw.v ELSE <<>>
ValidateConfigurableIntegrations(raw, types) ==
  SelectSeq(Integrations(raw), LAMBDA i : IsObject(i) /\ IsString(i.v) /\ i.v.v \in types)
ValidatePluggableIntegrations(raw) == SelectSeq(Integrations(raw), LAMBDA i : i.type = "function")

(***************************************************************************)
(* Fallback treatments. A treatment is a text with its name.               *)
(***************************************************************************)
Letter(c) == c \in 97 .. 122 \/ c \in 65 .. 90

\* /^[0-9]+[.a-zA-Z0-9_-]*$|^[a-zA-Z]+[a-zA-Z0-9_-]*$/
TreatmentPattern(s) ==
  /\ s # <<>> /\ (Letter(s[1]) \/ Digit(s[1]))
  /\ \A i \in DOMAIN s : Letter(s[i]) \/ Digit(s[i]) \/ s[i] \in {45, 95} \/ (s[i] = 46 /\ Digit(s[1]))

IsValidFlagName(name) == Len(name) <= 100 /\ \A i \in DOMAIN name : name[i] # Space
IsValidTreatment(raw) ==
  LET t == IF IsObject(raw) THEN raw.v.treatment ELSE raw
  IN IsString(t) /\ Len(t.v.text) <= 100 /\ TreatmentPattern(t.v.text)

NoFallback == [treatment |-> NoTreatment, config |-> NoConfig]
Fallback(raw) ==
  IF IsObject(raw) THEN [treatment |-> raw.v.treatment.v.name, config |-> raw.v.config]
  ELSE [treatment |-> raw.v.name, config |-> NoConfig]

SanitizeGlobal(raw) == IF raw.type # "undefined" /\ IsValidTreatment(raw) THEN Fallback(raw) ELSE NoFallback
SanitizeByFlag(raw) ==
  LET valid == IF IsObject(raw) THEN {f \in DOMAIN raw.v : IsValidFlagName(f) /\ IsValidTreatment(raw.v[f])} ELSE {}
  IN [f \in valid |-> Fallback(raw.v[f])]
SanitizeFallbacks(raw) ==
  IF IsObject(raw) THEN [global |-> SanitizeGlobal(raw.v.global), byFlag |-> SanitizeByFlag(raw.v.byFlag)]
  ELSE [global |-> NoFallback, byFlag |-> <<>>]

(***************************************************************************)
(* Rates and periods.                                                      *)
(***************************************************************************)
BaseScheduler ==
  [featuresRefreshRate |-> Number(60), segmentsRefreshRate |-> Number(60), telemetryRefreshRate |-> Number(3600),
   impressionsRefreshRate |-> Number(300), offlineRefreshRate |-> Number(15), eventsPushRate |-> Number(60),
   eventsQueueSize |-> Number(500), impressionsQueueSize |-> Number(30000), pushRetryBackoffBase |-> Number(1)]

\* merge: what is undefined is not merged.
Merge(over, under) == [n \in DOMAIN under |-> IF n \in DOMAIN over /\ over[n].type # "undefined" THEN over[n] ELSE under[n]]

NotANumber == [type |-> "NaN"]
FromSecondsToMillis(raw) == IF raw.type = "number" THEN Number(1000 * raw.v) ELSE NotANumber
ValidateMinValue(raw, min) == IF raw.type = "number" /\ raw.v >= min THEN raw ELSE Number(min)

\* In DEBUG mode the impressions are sent every minute, unless the application says otherwise.
Scheduler(given, defaults, mode, streaming) ==
  LET merged == Merge(given, Merge(defaults, BaseScheduler))
      impressions == IF mode = "DEBUG" THEN Merge(given, [impressionsRefreshRate |-> Number(60)]).impressionsRefreshRate
                     ELSE merged.impressionsRefreshRate
      rates == {"featuresRefreshRate", "segmentsRefreshRate", "offlineRefreshRate", "eventsPushRate"}
                 \cup IF streaming THEN {"pushRetryBackoffBase"} ELSE {}
  IN [n \in DOMAIN merged |->
        CASE n = "telemetryRefreshRate" -> FromSecondsToMillis(ValidateMinValue(merged[n], 60))
          [] n = "impressionsRefreshRate" -> FromSecondsToMillis(impressions)
          [] n \in rates -> FromSecondsToMillis(merged[n])
          [] OTHER -> merged[n]]

LocalhostKey == <<108, 111, 99, 97, 108, 104, 111, 115, 116, 95, 107, 101, 121>>

\* Of a client-side SDK; on the server the key is undefined.
BoundKey(raw, mode, acceptKey) ==
  CASE ~acceptKey -> Undefined
    [] acceptKey /\ mode = "localhost" /\ raw.type = "undefined" -> Text(LocalhostKey)
    [] OTHER -> ValidateKey(raw)

\* Whatever is not `false` is true.
Toggle(raw) == raw # Boolean(FALSE)

Built(config, platform, mode) ==
  LET impressionsMode == ValidImpressionsMode(config.impressionsMode)
      streaming == Toggle(config.streamingEnabled)
  IN [mode |-> mode,
      storage |-> IF platform.clientSide THEN ValidateStorageCS(config.storage, mode) ELSE config.storage,
      impressionsMode |-> impressionsMode,
      scheduler |-> Scheduler(config.scheduler, platform.scheduler, impressionsMode, streaming),
      startup |-> [n \in DOMAIN config.startup |->
                     IF n = "retriesOnFailureBeforeReady" THEN config.startup[n] ELSE FromSecondsToMillis(config.startup[n])],
      key |-> BoundKey(config.key, mode, platform.clientSide),
      integrations |-> IF platform.integrations = {} THEN ValidatePluggableIntegrations(config.integrations)
                       ELSE ValidateConfigurableIntegrations(config.integrations, platform.integrations),
      streamingEnabled |-> streaming,
      syncEnabled |-> Toggle(config.syncEnabled),
      splitFilters |-> ValidateSplitFilters(config.splitFilters, IsConsumerMode(mode)),
      userConsent |-> IF platform.clientSide THEN ValidateConsent(config.userConsent) ELSE "undefined",
      fallbackTreatments |-> SanitizeFallbacks(config.fallbackTreatments)]

\* The settings, or none when the factory throws.
SettingsValidation(config, platform) ==
  LET mode == ValidateMode(config.authorizationKey, config.mode)
      built == Built(config, platform, mode)
  IN IF mode = Thrown \/ built.storage = Thrown \/ built.splitFilters = RefusedFilters THEN {} ELSE {built}
=============================================================================
