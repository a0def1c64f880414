------------------------------ MODULE Evaluator ------------------------------
(***************************************************************************)
(* The evaluator: what a key is given for a flag, from the definitions and *)
(* the segments of a storage that answers at once (in memory, LocalStorage)*)
(* or with promises (Redis, pluggable).                                    *)
(*                                                                         *)
(* The code is written for both: "thenable(x) ? x.then(f) : f(x)". Here an *)
(* evaluation has an outcome, which is a value, a rejection, or the reads  *)
(* it waits for. src tells where the answers of reads come from: from the  *)
(* storage itself when src.sync, otherwise from src.answers, the answers   *)
(* that have come. A read is identified by its place in the evaluation.    *)
(***************************************************************************)
EXTENDS Matchers, FiniteSets

CONSTANT Bucket(_, _)       \* murmur3/murmur3.ts bucket: 1 to 100 for a key and a seed

Control == "control"
NoTreatment == "none"
NoConfig == "null"
Absent == "ABSENT"          \* the status of a definition the storage does not have

(***************************************************************************)
(* Values and promises.                                                    *)
(***************************************************************************)
Ok(v) == [st |-> "ok", v |-> v]
Rejected == [st |-> "rejected"]
Pending(rs) == [st |-> "pending", reads |-> rs]

Then(o, F(_)) == IF o.st = "ok" THEN F(o.v) ELSE o
Catch(o, v) == IF o = Rejected THEN Ok(v) ELSE o
\* Promise.all: rejected as soon as one is.
All(os) ==
  CASE \E i \in DOMAIN os : os[i].st = "rejected" -> Rejected
    [] \E i \in DOMAIN os : os[i].st = "pending" ->
         Pending(UNION {os[i].reads : i \in {j \in DOMAIN os : os[j].st = "pending"}})
    [] OTHER -> Ok([i \in DOMAIN os |-> os[i].v])

NotStored == [status |-> Absent, changeNumber |-> 0 - 1]
Get(stored, name) == IF name \in DOMAIN stored THEN stored[name] ELSE NotStored
(***************************************************************************)
(* The reads: what the storage holds when it answers. The caches of each   *)
(* storage give the same for the same contents.                            *)
(***************************************************************************)
GetMany(store, names) == [n \in names |-> Get(store.definitions, n)]
GetAll(store) == {store.definitions[n] : n \in DOMAIN store.definitions}
GetNames(store) == DOMAIN store.definitions
GetNamesBySets(store, flagSets) ==
  {n \in GetNames(store) : store.definitions[n].sets \cap flagSets # {}}
IsInSegment(segments, name, key) == name \in DOMAIN segments /\ key \in segments[name]

Stored(store, r) ==
  CASE r.what = "get" -> Get(store.definitions, r.name)
    [] r.what = "getMany" -> GetMany(store, r.name)
    [] r.what = "getNamesBySets" -> GetNamesBySets(store, r.name)
    [] r.what = "getAll" -> GetAll(store)
    [] r.what = "getNames" -> GetNames(store)
    [] r.what = "segments" -> IsInSegment(store.segments, r.name, r.key)
    [] r.what = "largeSegments" -> IsInSegment(store.largeSegments, r.name, r.key)
    [] r.what = "rbSegments" -> Get(store.rbSegments, r.name)

Read(src, place, what, name, key) ==
  LET r == [at |-> place, what |-> what, name |-> name, key |-> key]
  IN CASE src.sync -> Ok(Stored(src.store, r))
       [] ~src.sync /\ place \notin DOMAIN src.answers -> Pending({r})
       [] OTHER -> IF src.answers[place].ok THEN Ok(src.answers[place].v) ELSE Rejected

(***************************************************************************)
(* Keys and treatments.                                                    *)
(***************************************************************************)
KeyObject(m, b) == [type |-> "key", v |-> [matchingKey |-> m, bucketingKey |-> b]]
Matching(key) == IF key.type = "key" THEN key.v.matchingKey ELSE key.v
BucketingKey(key) == IF key.type = "key" THEN key.v.bucketingKey ELSE key.v

\* Treatments.getTreatmentFor: the first range, of accumulated sizes, that x is in.
GetTreatmentFor(partitions, x) ==
  LET Upto(i) == FoldLeft(LAMBDA sum, part : sum + part.size, 0, SubSeq(partitions, 1, i))
  IN partitions[CHOOSE i \in DOMAIN partitions : x <= Upto(i) /\ (i = 1 \/ Upto(i - 1) < x)].treatment

ShouldApplyRollout(def, key) ==
  def.trafficAllocation < 100 =>
    Bucket(BucketingKey(key), def.trafficAllocationSeed) <= def.trafficAllocation

(***************************************************************************)
(* Results.                                                                *)
(***************************************************************************)
Labelled(t, label) == [treatment |-> t, label |-> label]
Result(t, label, config, cn, disabled) ==
  [treatment |-> t, label |-> label, config |-> config, changeNumber |-> cn, disabled |-> disabled]
Bare(t, label) == Result(t, label, NoConfig, 0 - 1, FALSE)
Exception == Bare(Control, "exception")
NotFound == Bare(Control, "definition not found")
NotReady == Bare(Control, "not ready")
TreatmentsException(names) == [n \in names |-> Exception]
ConfigOf(def, t) == IF t \in DOMAIN def.configurations THEN def.configurations[t] ELSE NoConfig

\* What a condition gives: nothing, a treatment and a label, or membership.
NoMatch == Labelled(NoTreatment, "no match")
Member == Labelled(NoTreatment, "member")

RECURSIVE EvaluateFeature(_, _, _, _, _), Conditions(_, _, _, _, _), RuleBased(_, _, _, _, _),
          Prerequisites(_, _, _, _, _, _), Excluded(_, _, _, _, _, _)

(***************************************************************************)
(* Matchers that read the storage or evaluate another flag, and the rest.  *)
(***************************************************************************)
Dependency(src, place, key, attributes, rule) ==
  Then(EvaluateFeature(src, place, key, attributes, rule.split),
       LAMBDA ev : Ok(ev.treatment \in rule.treatments))

Matched(src, place, val, attributes, m) ==
  CASE val = Undefined -> Ok(FALSE)
    [] m.type = "IN_SEGMENT" -> Read(src, place, "segments", m.value, val.v)
    [] m.type = "IN_LARGE_SEGMENT" -> Read(src, place, "largeSegments", m.value, val.v)
    [] m.type = "IN_SPLIT_TREATMENT" -> Dependency(src, place, val, attributes, m.value)
    [] m.type = "IN_RULE_BASED_SEGMENT" -> RuleBased(src, place, val, attributes, m.value)
    [] OTHER -> Ok(Match(m, val))

Expression(src, place, key, attributes, m) ==
  Then(Matched(src, place, SanitizeValue(m, key, attributes), attributes, m), LAMBDA b : Ok(b # m.negate))

\* A condition of a definition, or of a rule-based segment (which has neither
\* partitions nor a traffic allocation). One that does not apply decides too.
Condition(src, place, key, attributes, def, c, ms) ==
  IF c.conditionType = "ROLLOUT" /\ ~ShouldApplyRollout(def, key) THEN Ok(Labelled(NoTreatment, "not in split"))
  ELSE Then(All([i \in DOMAIN ms |-> Expression(src, Append(place, i), key, attributes, ms[i])]),
            LAMBDA bs : Ok(CASE \E i \in DOMAIN bs : ~bs[i] -> NoMatch
                             [] c.partitions = <<>> -> Member
                             [] OTHER -> Labelled(GetTreatmentFor(c.partitions, Bucket(BucketingKey(key), def.seed)),
                                                  c.label)))

\* Mutant: the last condition that matches decides.
FirstMatchLast(es) ==
  LET i == SelectLastInSeq(es, LAMBDA e : e # NoMatch) IN IF i = 0 THEN NoMatch ELSE es[i]
FirstMatch(es) ==
  LET i == SelectInSeq(es, LAMBDA e : e # NoMatch) IN IF i = 0 THEN NoMatch ELSE es[i]

\* parser and ifElseIfCombiner: all conditions are evaluated, the first one that
\* decides is taken. A condition whose matchers are unsupported leaves none.
Parsed(src, place, key, attributes, def, parsed) ==
  IF parsed = <<>> \/ Contains(parsed, <<>>)
  THEN Ok(Labelled(Control, "targeting rule type unsupported by sdk"))
  ELSE Then(All([i \in DOMAIN parsed |->
                   Condition(src, Append(place, i), key, attributes, def, def.conditions[i], parsed[i])]),
            LAMBDA es : Ok(FirstMatch(es)))
Conditions(src, place, key, attributes, def) ==
  Parsed(src, place, key, attributes, def,
         [i \in DOMAIN def.conditions |-> MatchersTransform(def.conditions[i].matchers)])

(***************************************************************************)
(* Rule-based segments.                                                    *)
(***************************************************************************)
ExcludedBy(src, place, key, attributes, segment) ==
  CASE segment.type = "standard" -> Read(src, place, "segments", segment.name, Matching(key))
    [] segment.type = "large" -> Read(src, place, "largeSegments", segment.name, Matching(key))
    [] segment.type = "rule-based" -> RuleBased(src, place, key, attributes, segment.name)

\* Segment after segment, until one has the key.
Excluded(src, place, key, attributes, segments, i) ==
  IF i > Len(segments) THEN Ok(FALSE)
  ELSE Then(ExcludedBy(src, Append(place, i), key, attributes, segments[i]),
            LAMBDA b : IF b THEN Ok(TRUE) ELSE Excluded(src, place, key, attributes, segments, i + 1))

\* A segment of unsupported matchers has every key: the result is an object.
RuleBased(src, place, key, attributes, name) ==
  Then(Read(src, place, "rbSegments", name, <<>>),
       LAMBDA rb : IF rb.status = Absent THEN Ok(FALSE)
                   ELSE IF Matching(key) \in rb.excludedKeys THEN Ok(FALSE)
                   ELSE Then(Excluded(src, place, key, attributes, rb.excludedSegments, 1),
                             LAMBDA b : IF b \/ rb.conditions = <<>> THEN Ok(FALSE)
                                        ELSE Then(Conditions(src, Append(place, 0), key, attributes, rb),
                                                  LAMBDA e : Ok(e # NoMatch))))

(***************************************************************************)
(* Flags.                                                                  *)
(***************************************************************************)
\* Prerequisite after prerequisite, until one is not met.
Prerequisites(src, place, key, attributes, ps, i) ==
  IF i > Len(ps) THEN Ok(TRUE)
  ELSE Then(EvaluateFeature(src, Append(place, i), key, attributes, ps[i].n),
            LAMBDA ev : IF ev.treatment \in ps[i].ts THEN Prerequisites(src, place, key, attributes, ps, i + 1)
                        ELSE Ok(FALSE))

EvaluationResult(def, e) ==
  CASE e = NoMatch -> Labelled(def.defaultTreatment, "default rule")
    [] e.treatment = NoTreatment -> Labelled(def.defaultTreatment, e.label)
    [] OTHER -> e

GetTreatment(src, place, key, attributes, def) ==
  CASE def.status = "ARCHIVED" -> Ok(Labelled(Control, "archived"))
    [] def.status # "ARCHIVED" /\ def.killed -> Ok(Labelled(def.defaultTreatment, "killed"))
    [] OTHER ->
         Then(Prerequisites(src, Append(place, 0), key, attributes, def.prerequisites, 1),
              LAMBDA met : IF met THEN Then(Conditions(src, Append(place, 1), key, attributes, def),
                                            LAMBDA e : Ok(EvaluationResult(def, e)))
                           ELSE Ok(Labelled(def.defaultTreatment, "prerequisites not met")))

\* Mutant: the change number and the configurations are those of the storage when
\* the treatment is known.
GetEvaluationLate(src, place, key, attributes, def) ==
  IF def.status = Absent THEN Ok(NotFound)
  ELSE Then(GetTreatment(src, place, key, attributes, def),
            LAMBDA r : LET now == Get(src.store.definitions, def.name)
                       IN Ok(IF now.status = Absent THEN NotFound
                             ELSE Result(r.treatment, r.label, ConfigOf(now, r.treatment), now.changeNumber,
                                         src.impressionsDisabled \/ now.impressionsDisabled)))
GetEvaluation(src, place, key, attributes, def) ==
  IF def.status = Absent THEN Ok(NotFound)
  ELSE Then(GetTreatment(src, place, key, attributes, def),
            LAMBDA r : Ok(Result(r.treatment, r.label, ConfigOf(def, r.treatment), def.changeNumber,
                                 src.impressionsDisabled \/ def.impressionsDisabled)))

EvaluateFeature(src, place, key, attributes, name) ==
  Catch(Then(Read(src, place, "get", name, <<>>),
             LAMBDA def : GetEvaluation(src, place, key, attributes, def)),
        Exception)

\* The flags are evaluated side by side, and answered when all are.
GetEvaluations(src, place, key, attributes, names, defs) ==
  All([n \in names |-> GetEvaluation(src, place \o n, key, attributes, defs[n])])

\* One read for all definitions; one rejection and every flag is an exception.
EvaluateFeatures(src, place, key, attributes, names) ==
  Catch(Then(Read(src, place, "getMany", names, <<>>),
             LAMBDA defs : GetEvaluations(src, place, key, attributes, names, defs)),
        TreatmentsException(names))

EvaluateFeaturesByFlagSets(src, key, attributes, flagSets) ==
  Catch(Then(Read(src, <<0>>, "getNamesBySets", flagSets, <<>>),
             LAMBDA names : IF names = {} THEN Ok(<<>>) ELSE EvaluateFeatures(src, <<1>>, key, attributes, names)),
        <<>>)
=============================================================================
