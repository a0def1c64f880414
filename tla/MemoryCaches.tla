---------------------------- MODULE MemoryCaches ----------------------------
(***************************************************************************)
(* The caches of the synchronous storages kept in memory: definitions with *)
(* the traffic types, flag sets and the number of rules that use segments  *)
(* counted beside them, rule-based segments, the segments of the server    *)
(* side and the memberships of the client side; and the rollout plan that  *)
(* is taken from them and put into them.                                   *)
(*                                                                         *)
(* A rule carries the types of its matchers and the segments it excludes,  *)
(* which is all that the caches look at.  A count that has no entry is 0.  *)
(***************************************************************************)
EXTENDS Integers, FiniteSets, SequencesExt

CONSTANTS
  TrafficType,
  FlagSet,
  SetsFilter  \* the flag sets the SDK is configured with; none: no filter

ASSUME CachesAssumption == SetsFilter \subseteq FlagSet

SegmentMatcher == {"IN_SEGMENT", "IN_LARGE_SEGMENT"}

UsesSegments(rule) == rule.matchers \cap SegmentMatcher # {} \/ rule.excluded # {}

Count(b) == IF b THEN 1 ELSE 0

\* A map without the keys of K, and a map with v at k.
Without(m, K) == [k \in DOMAIN m \ K |-> m[k]]
With(m, k, v) == [x \in DOMAIN m \cup {k} |-> IF x = k THEN v ELSE m[x]]

-----------------------------------------------------------------------------
\* Definitions

EmptyDefinitions ==
  [defs |-> <<>>, tts |-> [t \in TrafficType |-> 0], sets |-> [s \in FlagSet |-> {}],
   segments |-> 0, cn |-> -1]

Passes(s) == SetsFilter = {} \/ s \in SetsFilter

AddToFlagSets(sets, d) ==
  [s \in FlagSet |-> IF s \in d.sets /\ Passes(s) THEN sets[s] \cup {d.name} ELSE sets[s]]

RemoveFromFlagSets(sets, d) ==
  [s \in FlagSet |-> IF s \in d.sets THEN sets[s] \ {d.name} ELSE sets[s]]

\* What removing the version of the cache takes out of the counts.
Uncount(c, d) ==
  [c EXCEPT !.tts[d.trafficType] = @ - 1,
            !.sets = RemoveFromFlagSets(@, d),
            !.segments = @ - Count(UsesSegments(d))]

\* A mutant: the version that is replaced stays counted.
AddDefinitionCounted(c, d) ==
  [c EXCEPT !.defs = With(@, d.name, d),
            !.tts[d.trafficType] = @ + 1,
            !.sets = AddToFlagSets(@, d),
            !.segments = @ + Count(UsesSegments(d))]

AddDefinition(c, d) ==
  LET old == IF d.name \in DOMAIN c.defs THEN Uncount(c, c.defs[d.name]) ELSE c
  IN [old EXCEPT !.defs = With(@, d.name, d),
                 !.tts[d.trafficType] = @ + 1,
                 !.sets = AddToFlagSets(@, d),
                 !.segments = @ + Count(UsesSegments(d))]

RemoveDefinition(c, name) ==
  IF name \notin DOMAIN c.defs THEN c
  ELSE [Uncount(c, c.defs[name]) EXCEPT !.defs = Without(@, {name})]

\* update: additions, then removals, then the change number.
Update(Put(_, _), Drop(_, _), Mark(_, _), c, toAdd, toRemove, till) ==
  Mark(FoldSet(LAMBDA n, acc : Drop(acc, n), FoldSet(LAMBDA d, acc : Put(acc, d), c, toAdd), toRemove),
       till)

SetTill(c, till) == [c EXCEPT !.cn = till]

UpdateDefinitions(c, toAdd, toRemove, till) ==
  Update(AddDefinition, RemoveDefinition, SetTill, c, toAdd, toRemove, till)

\* The definition that a kill stores, when it stores one.
MayKill(d, till) == d.cn < till
Killed(d, till) == [d EXCEPT !.killed = TRUE, !.cn = till]

KillLocally(c, name, till) ==
  IF name \in DOMAIN c.defs /\ MayKill(c.defs[name], till)
  THEN AddDefinition(c, Killed(c.defs[name], till)) ELSE c

TrafficTypeExists(c, t) == c.tts[t] > 0
NamesBySets(c, s) == c.sets[s]
DefinitionsUseSegments(c) == c.cn = -1 \/ c.segments > 0

-----------------------------------------------------------------------------
\* Rule-based segments

EmptyRBSegments == [rbs |-> <<>>, segments |-> 0, cn |-> -1]

AddRBSegment(c, r) ==
  LET old == r.name \in DOMAIN c.rbs /\ UsesSegments(c.rbs[r.name])
  IN [c EXCEPT !.rbs = With(@, r.name, r), !.segments = @ - Count(old) + Count(UsesSegments(r))]

RemoveRBSegment(c, name) ==
  IF name \notin DOMAIN c.rbs THEN c
  ELSE [c EXCEPT !.rbs = Without(@, {name}), !.segments = @ - Count(UsesSegments(c.rbs[name]))]

UpdateRBSegments(c, toAdd, toRemove, till) ==
  Update(AddRBSegment, RemoveRBSegment, SetTill, c, toAdd, toRemove, till)

RBSegmentsUseSegments(c) == c.segments > 0

-----------------------------------------------------------------------------
\* Segments of the server side: keys and change number by name; a segment
\* that is only registered has no change number yet.

NoTill == 0

UpdateSegment(segs, name, added, removed, till) ==
  LET keys == IF name \in DOMAIN segs THEN segs[name].keys ELSE {}
  IN With(segs, name, [keys |-> (keys \cup added) \ removed, till |-> till])

RegisterSegments(segs, names) ==
  [n \in DOMAIN segs \cup names |-> IF n \in DOMAIN segs THEN segs[n] ELSE [keys |-> {}, till |-> NoTill]]

\* Memberships of one key of the client side: the names are sorted, the common
\* prefix is left alone, the rest of the stored names goes and the rest of the
\* given names comes.

Sorted(S) ==
  CHOOSE s \in [1..Cardinality(S) -> S] : \A i, j \in 1..Cardinality(S) : i < j => s[i] < s[j]
From(s, i) == ToSet(SubSeq(s, i, Len(s)))

ResetSegments(stored, names) ==
  LET kept == Sorted(stored)
      same == {i \in 1..Len(names) : i <= Len(kept) /\ \A j \in 1..i : names[j] = kept[j]}
      index == Cardinality(same) + 1
  IN (stored \ From(kept, index)) \cup From(names, index)

ChangeSegments(stored, added, removed) == (stored \cup added) \ removed

-----------------------------------------------------------------------------
\* The rollout plan

GetRolloutPlan(definitions, rbSegments, segs, memberships) ==
  [t |-> definitions.cn, d |-> Range(definitions.defs),
   rbt |-> rbSegments.cn, rbd |-> Range(rbSegments.rbs),
   segmentChanges |-> segs, memberships |-> memberships]

PlanDefinitions(plan) == UpdateDefinitions(EmptyDefinitions, plan.d, {}, plan.t)
PlanRBSegments(plan) == UpdateRBSegments(EmptyRBSegments, plan.rbd, {}, plan.rbt)

\* A mutant: segments without keys are left out.
PlanSegmentsWithKeys(plan) ==
  FoldSet(LAMBDA n, acc : UpdateSegment(acc, n, plan.segmentChanges[n].keys, {}, plan.segmentChanges[n].till),
          <<>>, {n \in DOMAIN plan.segmentChanges : plan.segmentChanges[n].keys # {}})

PlanSegments(plan) ==
  FoldSet(LAMBDA n, acc : UpdateSegment(acc, n, plan.segmentChanges[n].keys, {}, plan.segmentChanges[n].till),
          <<>>, DOMAIN plan.segmentChanges)

\* Memberships of a key: those of the plan, else those its segments list.
PlanNames(plan, key) ==
  IF key \in DOMAIN plan.memberships THEN plan.memberships[key]
  ELSE {n \in DOMAIN plan.segmentChanges : key \in plan.segmentChanges[n].keys}

PlanMemberships(plan, key, stored) == ResetSegments(stored, Sorted(PlanNames(plan, key)))
=============================================================================
