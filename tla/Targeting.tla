------------------------------- MODULE Targeting -------------------------------
(***************************************************************************)
(* What targeting promises, said without promises, reads and order: the    *)
(* treatment of a key for a flag, given the whole content of a storage.    *)
(* The evaluator is checked against it.                                    *)
(***************************************************************************)
EXTENDS Evaluator

RECURSIVE Targeted(_, _, _, _), InRuleBased(_, _, _, _)

Known(f, name, key) == name \in DOMAIN f /\ key \in f[name]

Holds(store, key, attributes, m) ==
  LET parsed == MatchersTransform(<<m>>)[1]
      val == SanitizeValue(parsed, key, attributes)
      holds == CASE val = Undefined -> FALSE
                 [] m.matcherType = "IN_SEGMENT" -> Known(store.segments, m.data, val.v)
                 [] m.matcherType = "IN_LARGE_SEGMENT" -> Known(store.largeSegments, m.data, val.v)
                 [] m.matcherType = "IN_SPLIT_TREATMENT" ->
                      Targeted(store, key, attributes, m.data.split).treatment \in m.data.treatments
                 [] m.matcherType = "IN_RULE_BASED_SEGMENT" -> InRuleBased(store, key, attributes, m.data)
                 [] OTHER -> Match(parsed, val)
  IN holds # m.negate
AllHold(store, key, attributes, c) == \A i \in DOMAIN c.matchers : Holds(store, key, attributes, c.matchers[i])

\* A key is in a rule-based segment that includes it and does not exclude it.
InRuleBased(store, key, attributes, name) ==
  /\ name \in DOMAIN store.rbSegments
  /\ LET rb == store.rbSegments[name]
         ExcludedFrom(s) == CASE s.type = "standard" -> Known(store.segments, s.name, Matching(key))
                              [] s.type = "large" -> Known(store.largeSegments, s.name, Matching(key))
                              [] s.type = "rule-based" -> InRuleBased(store, key, attributes, s.name)
     IN /\ Matching(key) \notin rb.excludedKeys
        /\ \A i \in DOMAIN rb.excludedSegments : ~ExcludedFrom(rb.excludedSegments[i])
        /\ \E i \in DOMAIN rb.conditions : AllHold(store, key, attributes, rb.conditions[i])

Unsupported(def) ==
  \/ def.conditions = <<>>
  \/ \E i \in DOMAIN def.conditions :
       \E j \in DOMAIN def.conditions[i].matchers :
         MatcherTypesMapper(def.conditions[i].matchers[j].matcherType) = "UNDEFINED"

\* The first condition that is out of the traffic allocation or holds decides.
FirstRule(store, key, attributes, def) ==
  LET cs == def.conditions
      Out(i) == cs[i].conditionType = "ROLLOUT" /\ ~ShouldApplyRollout(def, key)
      decide == {i \in DOMAIN cs : Out(i) \/ AllHold(store, key, attributes, cs[i])}
      first == CHOOSE i \in decide : \A j \in decide : i <= j
  IN CASE decide = {} -> Labelled(def.defaultTreatment, "default rule")
       [] decide # {} /\ Out(first) -> Labelled(def.defaultTreatment, "not in split")
       [] OTHER -> Labelled(GetTreatmentFor(cs[first].partitions, Bucket(BucketingKey(key), def.seed)), cs[first].label)

Targeted(store, key, attributes, name) ==
  LET def == Get(store.definitions, name)
      met == \A i \in DOMAIN def.prerequisites :
               Targeted(store, key, attributes, def.prerequisites[i].n).treatment \in def.prerequisites[i].ts
  IN CASE def.status = Absent -> Labelled(Control, "definition not found")
       [] def.status = "ARCHIVED" -> Labelled(Control, "archived")
       [] def.status = "ACTIVE" /\ def.killed -> Labelled(def.defaultTreatment, "killed")
       [] def.status = "ACTIVE" /\ ~def.killed /\ ~met -> Labelled(def.defaultTreatment, "prerequisites not met")
       [] def.status = "ACTIVE" /\ ~def.killed /\ met /\ Unsupported(def) ->
            Labelled(Control, "targeting rule type unsupported by sdk")
       [] OTHER -> FirstRule(store, key, attributes, def)
=============================================================================
