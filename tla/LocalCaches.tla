---------------------------- MODULE LocalCaches ----------------------------
(***************************************************************************)
(* The caches of the LocalStorage storage, kept as the items of a key-value *)
(* storage: what the classes of src/storages/inLocalStorage write under    *)
(* each key, how they count, how they clear, and validateCache.            *)
(*                                                                         *)
(* items is a function on the keys that exist.  A key is the tuple of what *)
(* its builder puts together.  A time is "recent" or "old".                *)
(***************************************************************************)
EXTENDS MemoryCaches

DefinitionKey(n) == <<"split", n>>
TrafficTypeKey(t) == <<"trafficType", t>>
SetKey(s) == <<"flagSet", s>>
TillKey == <<"splits", "till">>
LastUpdatedKey == <<"splits", "lastUpdated">>
UsingSegmentsKey == <<"splits", "usingSegments">>
RBSegmentKey(n) == <<"rbsegment", n>>
RBTillKey == <<"rbsegments", "till">>
SegmentKey(key, n) == <<"segment", key, n>>
HashKey == <<"hash">>
LastClearKey == <<"lastClear">>

IsDefinitionsCacheKey(k) == k[1] \in {"split", "splits", "trafficType", "flagSet"}

\* The items under a class of keys, by name.
NamesOf(items, class) == {k[2] : k \in {x \in DOMAIN items : x[1] = class}}

Number(items, k) == IF k \in DOMAIN items THEN items[k] ELSE 0
Till(items, k) == IF k \in DOMAIN items THEN items[k] ELSE -1

\* A counter whose key goes when it is not positive.
SetCount(items, k, n) == IF n > 0 THEN With(items, k, n) ELSE Without(items, {k})

-----------------------------------------------------------------------------
\* Definitions

LocalDecrement(items, k) == SetCount(items, k, Number(items, k) - 1)

LocalDecrementCounts(items, d) ==
  LET dec == LocalDecrement(items, TrafficTypeKey(d.trafficType))
  IN IF UsesSegments(d) THEN LocalDecrement(dec, UsingSegmentsKey) ELSE dec

LocalIncrementCounts(items, d) ==
  LET inc(i, k) == With(i, k, Number(i, k) + 1)
      tt == inc(items, TrafficTypeKey(d.trafficType))
  IN IF UsesSegments(d) THEN inc(tt, UsingSegmentsKey) ELSE tt

LocalNamesBySets(items, s) == IF SetKey(s) \in DOMAIN items THEN items[SetKey(s)] ELSE {}

LocalPutName(items, s, name) == With(items, SetKey(s), LocalNamesBySets(items, s) \cup {name})

\* An index left empty is removed.
LocalDropName(items, s, name) ==
  IF LocalNamesBySets(items, s) \subseteq {name} THEN Without(items, {SetKey(s)})
  ELSE With(items, SetKey(s), items[SetKey(s)] \ {name})

LocalAddToSets(items, d) ==
  FoldSet(LAMBDA s, acc : LocalPutName(acc, s, d.name), items, {s \in d.sets : Passes(s)})

LocalRemoveFromSets(items, d) == FoldSet(LAMBDA s, acc : LocalDropName(acc, s, d.name), items, d.sets)

LocalAdd(items, d) ==
  LET k == DefinitionKey(d.name)
      old == IF k \in DOMAIN items
             THEN LocalRemoveFromSets(LocalDecrementCounts(items, items[k]), items[k]) ELSE items
  IN LocalAddToSets(LocalIncrementCounts(With(old, k, d), d), d)

LocalRemove(items, name) ==
  LET k == DefinitionKey(name)
  IN IF k \notin DOMAIN items THEN items
     ELSE LocalRemoveFromSets(LocalDecrementCounts(Without(items, {k}), items[k]), items[k])

LocalSetTill(items, till) == With(With(items, TillKey, till), LastUpdatedKey, "recent")

LocalUpdate(items, toAdd, toRemove, till) ==
  Update(LocalAdd, LocalRemove, LocalSetTill, items, toAdd, toRemove, till)

LocalKill(items, name, till) ==
  LET k == DefinitionKey(name)
  IN IF k \in DOMAIN items /\ MayKill(items[k], till) THEN LocalAdd(items, Killed(items[k], till)) ELSE items

LocalClear(items) == Without(items, {k \in DOMAIN items : IsDefinitionsCacheKey(k)})

LocalTrafficTypeExists(items, t) == Number(items, TrafficTypeKey(t)) > 0

LocalDefinitionsUseSegments(items, hasSync) == ~hasSync \/ Number(items, UsingSegmentsKey) > 0

-----------------------------------------------------------------------------
\* Rule-based segments: they share the count of rules with the definitions.

LocalAddRB(items, r) ==
  LET k == RBSegmentKey(r.name)
      diff == Count(UsesSegments(r)) - Count(k \in DOMAIN items /\ UsesSegments(items[k]))
      put == With(items, k, r)
  IN IF diff = 0 THEN put ELSE SetCount(put, UsingSegmentsKey, Number(put, UsingSegmentsKey) + diff)

LocalRemoveRB(items, name) ==
  LET k == RBSegmentKey(name)
      del == Without(items, {k})
  IN IF k \in DOMAIN items /\ UsesSegments(items[k]) THEN LocalDecrement(del, UsingSegmentsKey) ELSE del

LocalSetRBTill(items, till) == With(With(items, RBTillKey, till), LastUpdatedKey, "recent")

LocalUpdateRB(items, toAdd, toRemove, till) ==
  Update(LocalAddRB, LocalRemoveRB, LocalSetRBTill, items, toAdd, toRemove, till)

\* A mutant: the change number stays.
LocalClearRBNames(items) ==
  FoldSet(LAMBDA n, acc : LocalRemoveRB(acc, n), items, NamesOf(items, "rbsegment"))

LocalClearRB(items) ==
  Without(FoldSet(LAMBDA n, acc : LocalRemoveRB(acc, n), items, NamesOf(items, "rbsegment")), {RBTillKey})

LocalRBUseSegments(items) == Number(items, UsingSegmentsKey) > 0

-----------------------------------------------------------------------------
\* Memberships of a key

LocalSegments(items, key) == {k[3] : k \in {x \in DOMAIN items : x[1] = "segment" /\ x[2] = key}}

\* The items where the memberships of the key are exactly these names.
LocalPutSegments(items, key, names) ==
  [k \in {x \in DOMAIN items : x[1] = "segment" => x[2] # key} \cup {SegmentKey(key, n) : n \in names} |->
     IF k \in DOMAIN items THEN items[k] ELSE "1"]

LocalReset(items, key, names) == LocalPutSegments(items, key, ResetSegments(LocalSegments(items, key), names))

-----------------------------------------------------------------------------
\* validateCache, once the items are loaded

IsExpired(items) == LastUpdatedKey \in DOMAIN items /\ items[LastUpdatedKey] = "old"

\* What validateExpiration answers, with the hash it may write on the way.
ValidateExpiration(items, s, isThereCache) ==
  LET otherHash == HashKey \notin DOMAIN items \/ items[HashKey] # s.hash
      clearNow == s.clearOnInit /\ (LastClearKey \notin DOMAIN items \/ items[LastClearKey] = "old")
  IN IF IsExpired(items) THEN [items |-> items, clear |-> TRUE]
     ELSE IF otherHash
     THEN [items |-> With(items, HashKey, s.hash), clear |-> isThereCache /\ ~s.plan]
     ELSE [items |-> items, clear |-> clearNow]

ValidateCache(items, s, key) ==
  LET isThereCache == Till(items, TillKey) > -1
      v == ValidateExpiration(items, s, isThereCache)
      cleared == LocalReset(LocalClearRB(LocalClear(v.items)), key, <<>>)
  IN IF v.clear
     THEN [items |-> With(cleared, LastClearKey, "recent"), initialCacheLoad |-> TRUE, cleared |-> TRUE]
     ELSE [items |-> v.items, initialCacheLoad |-> ~isThereCache, cleared |-> FALSE]
=============================================================================
