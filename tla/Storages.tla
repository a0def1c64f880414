------------------------------ MODULE Storages ------------------------------
(***************************************************************************)
(* A synchronous storage through the sessions of an SDK: built by the      *)
(* factory, filled by a rollout plan, loaded and validated, updated by the *)
(* synchronisation, saved, and lost when the process ends.                 *)
(*                                                                         *)
(*   server, client  src/storages/inMemory, both storage factories         *)
(*   localStorage    src/storages/inLocalStorage on the Web Storage API,   *)
(*                   which keeps every write                               *)
(*   wrapper         the same on a storage adapter, which keeps the items  *)
(*                   in memory, loads them once and saves them as a whole  *)
(*                                                                         *)
(* What the backend answers and when a process ends is external.           *)
(***************************************************************************)
EXTENDS LocalCaches

CONSTANTS
  Kinds,       \* the kinds of storage
  Keys,        \* matching keys: the first one is that of the factory
  MainKey,
  Segment,     \* names of segments, which are numbers so that they sort
  Hashes,      \* SDK key, filters and version of the API, as a hash
  Tills,       \* [Hashes -> change numbers of that backend]
  Rules,       \* shapes of definitions: [name, trafficType, sets, matchers, segments, excluded]
  RBRules,     \* shapes of rule-based segments: [name, matchers, segments, excluded]
  NamesFilter, \* the names that the filters by name and by prefix let pass; none: no filter
  Answers,     \* memberships as the backend lists them: sorted sequences
  PlanKinds,   \* the kinds whose sessions may have an initial rollout plan
  ClearsOnInit,
  MaxChanged,  \* bound: rules in an answer of the backend
  MaxUpdates,  \* bound: updates of all sessions
  MaxBoots     \* bound: sessions

ASSUME StoragesAssumption ==
  /\ Kinds \subseteq {"server", "client", "localStorage", "wrapper"}
  /\ MainKey \in Keys
  /\ \A h \in Hashes : Tills[h] \subseteq Nat
  /\ PlanKinds \subseteq Kinds
  /\ ClearsOnInit \subseteq BOOLEAN
  /\ SetsFilter = {} \/ NamesFilter = {}
  /\ IsFiniteSet(Rules) /\ IsFiniteSet(RBRules) /\ IsFiniteSet(FlagSet) /\ IsFiniteSet(Segment)
  /\ Segment \subseteq Nat
  /\ Answers \subseteq Seq(Segment)
  /\ \A r \in Rules : r.trafficType \in TrafficType /\ r.sets \subseteq FlagSet
  /\ \A r \in Rules \cup RBRules : r.segments \cup r.excluded \subseteq Segment
  /\ {MaxChanged, MaxUpdates, MaxBoots} \subseteq Nat

VARIABLES
  kind,
  phase,     \* "off", "loading" (built, not validated) or "up"
  settings,  \* of the session: hash, plan, clearOnInit
  memory,    \* the caches of the kinds in memory
  items,     \* the items of the local kinds
  hasSync,   \* whether the definitions were synchronised in this session
  disk,      \* what the wrapper has stored
  queued,    \* saves waiting in the chain
  writes,    \* the contents of the writes in flight
  saved,     \* whether the last write of this session succeeded
  killed,    \* whether a kill came after the last save
  ready,     \* what SDK_READY_FROM_CACHE was announced for: "no", "plan", "cache"
  drifted,   \* whether a plan was set over rule-based segments that use segments
  mislabelled, \* whether items were left under the hash of another configuration
  answer,    \* the last answer with memberships: [key, names], or none
  updates, boots

vars == <<kind, phase, settings, memory, items, hasSync, disk, queued, writes, saved,
          killed, ready, drifted, mislabelled, answer, updates, boots>>

None == [key |-> "", names |-> <<>>]
NoItems == [k \in {} |-> 0]
NoMemory ==
  [definitions |-> EmptyDefinitions, rbSegments |-> EmptyRBSegments, segments |-> <<>>,
   memberships |-> [k \in Keys |-> {}]]

InMemory == kind \in {"server", "client"}

Definition(r, h, till) ==
  [name |-> r.name, trafficType |-> r.trafficType, sets |-> r.sets, matchers |-> r.matchers,
   segments |-> r.segments, excluded |-> r.excluded, env |-> h, killed |-> FALSE, cn |-> till]
RBSegment(r, h) ==
  [name |-> r.name, matchers |-> r.matchers, segments |-> r.segments, excluded |-> r.excluded, env |-> h]

Definitions(h, till) == {Definition(r, h, till) : r \in Rules}
RBSegments(h) == {RBSegment(r, h) : r \in RBRules}

\* Some of these, at most one by name; and one for each name.
Batches(S) == {B \in SUBSET S : \A a, b \in B : a.name = b.name => a = b}
NamesIn(S) == {r.name : r \in S}
OneByName(S) == {CHOOSE r \in S : r.name = n : n \in NamesIn(S)}

Init ==
  /\ kind \in Kinds
  /\ phase = "off"
  /\ settings = [hash |-> "", plan |-> FALSE, clearOnInit |-> FALSE]
  /\ memory = NoMemory
  /\ items = NoItems
  /\ hasSync = FALSE
  /\ disk = NoItems
  /\ queued = 0
  /\ writes = <<>>
  /\ saved = FALSE
  /\ killed = FALSE
  /\ ready = "no"
  /\ drifted = FALSE
  /\ mislabelled = FALSE
  /\ answer = None
  /\ updates = 0
  /\ boots = 0

-----------------------------------------------------------------------------
\* What the changes of the backend come to: a definition that the filters of the
\* SDK do not let pass is removed, whatever it was before, and the segments that
\* the others name or exclude are to be fetched.

ParseSegments(r) == r.segments \cup r.excluded

MatchFilters(d) ==
  IF SetsFilter # {} THEN d.sets \cap SetsFilter # {}
  ELSE NamesFilter = {} \/ d.name \in NamesFilter

ComputeMutation(updated, removed, filtered) ==
  LET passing == IF filtered THEN {r \in updated : MatchFilters(r)} ELSE updated
  IN [updated |-> passing, removed |-> removed \cup NamesIn(updated \ passing),
      segments |-> UNION {ParseSegments(r) : r \in passing}]

-----------------------------------------------------------------------------
\* The rollout plan: taken from a server-side storage that synchronised.

APlan(h, till) ==
  [t |-> till, d |-> OneByName({d \in Definitions(h, till) : MatchFilters(d)}),
   rbt |-> till, rbd |-> OneByName(RBSegments(h)),
   segmentChanges |-> [n \in Segment |-> [keys |-> {MainKey}, till |-> till]],
   memberships |-> <<>>]

PlanMemory(m, plan) ==
  [m EXCEPT !.definitions = PlanDefinitions(plan), !.rbSegments = PlanRBSegments(plan),
            !.segments = IF kind = "server" THEN PlanSegments(plan) ELSE @,
            !.memberships[MainKey] = IF kind = "client" THEN PlanMemberships(plan, MainKey, @) ELSE @]

PlanItems(i, plan) ==
  LET defs == LocalUpdate(LocalClear(i), plan.d, {}, plan.t)
      rbs == LocalUpdateRB(LocalClearRB(defs), plan.rbd, {}, plan.rbt)
  IN LocalPutSegments(rbs, MainKey, PlanMemberships(plan, MainKey, LocalSegments(rbs, MainKey)))

-----------------------------------------------------------------------------
\* A session

\* The factory builds the storage and sets the plan; a storage in memory has
\* nothing to load or to validate.
Build(s) ==
  /\ phase = "off"
  /\ boots < MaxBoots
  /\ boots' = boots + 1
  /\ settings' = s
  /\ \E till \in Tills[s.hash] :
       LET plan == APlan(s.hash, till)
           start == IF kind = "wrapper" THEN NoItems ELSE items
       IN /\ memory' = IF InMemory /\ s.plan THEN PlanMemory(NoMemory, plan) ELSE NoMemory
          /\ items' = IF InMemory \/ ~s.plan THEN start ELSE PlanItems(start, plan)
  /\ hasSync' = (s.plan /\ ~InMemory)
  /\ ready' = IF s.plan THEN "plan" ELSE "no"
  /\ phase' = IF InMemory THEN "up" ELSE "loading"
  /\ drifted' = IF kind = "localStorage" /\ s.plan
                THEN \E n \in NamesOf(items, "rbsegment") : UsesSegments(items[RBSegmentKey(n)]) ELSE drifted
  /\ answer' = None
  /\ UNCHANGED <<kind, disk, queued, writes, saved, killed, mislabelled, updates>>

HasOtherHash(i) == HashKey \in DOMAIN i /\ i[HashKey] # settings.hash

\* storage.load, then validateCache: the items become those of the wrapper,
\* or stay as they are when it fails. The hash of another configuration stays when
\* the items have expired; and with a plan, what a wrapper loads gets our hash.
Validate(loads) ==
  LET loaded == IF kind = "wrapper" /\ loads THEN disk ELSE items
      v == ValidateCache(loaded, settings, MainKey)
  IN /\ phase = "loading"
     /\ phase' = "up"
     /\ items' = v.items
     /\ hasSync' = (hasSync /\ ~v.cleared)
     /\ queued' = queued + Count(kind = "wrapper" /\ v.cleared)
     /\ ready' = IF ready = "no" /\ ~v.initialCacheLoad THEN "cache" ELSE ready
     /\ drifted' = (drifted /\ ~v.cleared)
     /\ mislabelled' = (\/ mislabelled
                        \/ HasOtherHash(loaded) /\ IsExpired(loaded)
                        \/ HasOtherHash(loaded) /\ kind = "wrapper" /\ settings.plan)
     /\ answer' = None
     /\ UNCHANGED <<kind, settings, memory, disk, writes, saved, killed, updates, boots>>

\* The process ends: writes in flight may land or not, and time goes by. A plan set
\* over the items of another configuration may be left without validation.
Aged(i) ==
  [k \in DOMAIN i |-> IF k \in {LastUpdatedKey, LastClearKey} THEN "old" ELSE i[k]]

End(landed, aged) ==
  LET on == IF landed /\ writes # <<>> THEN writes[Len(writes)] ELSE disk
      age(i) == IF aged THEN Aged(i) ELSE i
  IN /\ phase # "off"
     /\ ~InMemory
     /\ phase' = "off"
     /\ disk' = age(on)
     /\ items' = IF kind = "wrapper" THEN NoItems ELSE age(items)
     /\ hasSync' = FALSE
     /\ queued' = 0
     /\ writes' = <<>>
     /\ saved' = FALSE
     /\ killed' = FALSE
     /\ ready' = "no"
     /\ answer' = None
     /\ mislabelled' = (mislabelled \/ (phase = "loading" /\ settings.plan /\ HasOtherHash(items)))
     /\ UNCHANGED <<kind, settings, memory, drifted, updates, boots>>

-----------------------------------------------------------------------------
\* What the synchronisation does with the storage; each update ends with a save.

CurrentTill == IF InMemory THEN memory.definitions.cn ELSE Till(items, TillKey)

Works ==
  /\ phase = "up"
  /\ updates < MaxUpdates
  /\ updates' = updates + 1
  /\ UNCHANGED <<kind, phase, settings, disk, writes, saved, ready, drifted, mislabelled, boots>>

Saves ==
  /\ queued' = queued + Count(kind = "wrapper")
  /\ killed' = FALSE

\* The answer of splitChanges: definitions and rule-based segments.
SyncDefinitions(toAdd, toRemove, rbAdd, rbRemove, till) ==
  /\ Works
  /\ till >= CurrentTill
  /\ LET d == ComputeMutation(toAdd, toRemove, TRUE)
         rb == ComputeMutation(rbAdd, rbRemove, FALSE)
     IN /\ memory' = IF ~InMemory THEN memory
                     ELSE [memory EXCEPT
                             !.definitions = UpdateDefinitions(@, d.updated, d.removed, till),
                             !.rbSegments = UpdateRBSegments(@, rb.updated, rb.removed, till),
                             !.segments = IF kind = "server" THEN RegisterSegments(@, d.segments \cup rb.segments)
                                          ELSE @]
        /\ items' = IF InMemory THEN items
                    ELSE LocalUpdateRB(LocalUpdate(items, d.updated, d.removed, till), rb.updated, rb.removed, till)
  /\ hasSync' = ~InMemory
  /\ Saves
  /\ UNCHANGED answer

\* A kill is not saved until the next update is.
Kill(name, till) ==
  /\ Works
  /\ memory' = IF InMemory THEN [memory EXCEPT !.definitions = KillLocally(@, name, till)] ELSE memory
  /\ items' = IF InMemory THEN items ELSE LocalKill(items, name, till)
  /\ killed' = TRUE
  /\ UNCHANGED <<hasSync, queued, answer>>

Memberships(key) == IF InMemory THEN memory.memberships[key] ELSE LocalSegments(items, key)

\* The memberships of a key: the whole list, or what was added and removed.
SyncMemberships(key, names) ==
  /\ Works
  /\ kind # "server"
  /\ memory' = IF InMemory THEN [memory EXCEPT !.memberships[key] = ResetSegments(@, names)] ELSE memory
  /\ items' = IF InMemory THEN items ELSE LocalReset(items, key, names)
  /\ answer' = [key |-> key, names |-> names]
  /\ Saves
  /\ UNCHANGED hasSync

ChangeMemberships(key, n, adds) ==
  LET changed == ChangeSegments(Memberships(key), IF adds THEN {n} ELSE {}, IF adds THEN {} ELSE {n})
  IN /\ Works
     /\ kind # "server"
     /\ memory' = IF InMemory THEN [memory EXCEPT !.memberships[key] = changed] ELSE memory
     /\ items' = IF InMemory THEN items ELSE LocalPutSegments(items, key, changed)
     /\ answer' = None
     /\ Saves
     /\ UNCHANGED hasSync

\* The changes of a segment of the server side.
SyncSegment(n, added, removed) ==
  /\ Works
  /\ kind = "server"
  /\ \E till \in Tills[settings.hash] :
       memory' = [memory EXCEPT !.segments = UpdateSegment(@, n, added, removed, till)]
  /\ UNCHANGED <<items, hasSync, queued, killed, answer>>

-----------------------------------------------------------------------------
\* The chain of saves: one write at a time, of what the items are when it starts.

\* A mutant: a save does not wait for the one before.
StartWriteUnchained ==
  /\ queued > Len(writes)
  /\ writes' = Append(writes, items)
  /\ UNCHANGED <<kind, phase, settings, memory, items, hasSync, disk, queued, saved, killed, ready,
                 drifted, mislabelled, answer, updates, boots>>

StartWrite ==
  /\ queued > Len(writes)
  /\ writes = <<>>
  /\ writes' = Append(writes, items)
  /\ UNCHANGED <<kind, phase, settings, memory, items, hasSync, disk, queued, saved, killed, ready,
                 drifted, mislabelled, answer, updates, boots>>

EndWrite(i, ok) ==
  /\ i \in DOMAIN writes
  /\ disk' = IF ok THEN writes[i] ELSE disk
  /\ saved' = ok
  /\ writes' = RemoveAt(writes, i)
  /\ queued' = queued - 1
  /\ UNCHANGED <<kind, phase, settings, memory, items, hasSync, killed, ready, drifted, mislabelled, answer,
                 updates, boots>>

-----------------------------------------------------------------------------
Session ==
  \/ \E h \in Hashes, p \in BOOLEAN, c \in ClearsOnInit :
       /\ p => kind \in PlanKinds
       /\ Build([hash |-> h, plan |-> p, clearOnInit |-> c])
  \/ \E loads \in BOOLEAN : Validate(loads)
  \/ \E landed, aged \in BOOLEAN : End(landed, aged)

Sync ==
  \/ \E till \in Tills[settings.hash] :
       \/ \E toAdd \in Batches(Definitions(settings.hash, till)), toRemove \in SUBSET NamesIn(Rules),
             rbAdd \in Batches(RBSegments(settings.hash)), rbRemove \in SUBSET NamesIn(RBRules) :
            /\ NamesIn(toAdd) \cap toRemove = {}
            /\ NamesIn(rbAdd) \cap rbRemove = {}
            /\ Cardinality(toAdd) + Cardinality(toRemove) + Cardinality(rbAdd) + Cardinality(rbRemove) <= MaxChanged
            /\ SyncDefinitions(toAdd, toRemove, rbAdd, rbRemove, till)
       \/ \E name \in NamesIn(Rules) : Kill(name, till)
  \/ \E key \in Keys, names \in Answers : SyncMemberships(key, names)
  \/ \E key \in Keys, n \in Segment, adds \in BOOLEAN : ChangeMemberships(key, n, adds)
  \/ \E n \in Segment, added, removed \in SUBSET Keys : SyncSegment(n, added, removed)

Next ==
  \/ Session
  \/ (phase = "up" /\ Sync)
  \/ StartWrite
  \/ \E i \in DOMAIN writes, ok \in BOOLEAN : EndWrite(i, ok)

Spec == Init /\ [][Next]_vars

-----------------------------------------------------------------------------
\* Properties

StoredDefinitions ==
  IF InMemory THEN Range(memory.definitions.defs)
  ELSE {items[DefinitionKey(n)] : n \in NamesOf(items, "split")}
StoredRBSegments ==
  IF InMemory THEN Range(memory.rbSegments.rbs)
  ELSE {items[RBSegmentKey(n)] : n \in NamesOf(items, "rbsegment")}

\* What the storage answers about traffic types, flag sets and segments is what
\* the stored rules say, after any sequence of updates, kills, plans, clears and
\* sessions: the counters and indexes kept beside the rules never drift. And once
\* a list of memberships is applied the key is in the listed segments and in no
\* other, however the common prefix of the sorted lists was skipped.
ViewsAreExact ==
  LET rules == StoredDefinitions \cup StoredRBSegments
      synced == IF InMemory THEN memory.definitions.cn # -1 ELSE hasSync
      exists(t) == IF InMemory THEN TrafficTypeExists(memory.definitions, t) ELSE LocalTrafficTypeExists(items, t)
      names(s) == IF InMemory THEN NamesBySets(memory.definitions, s) ELSE LocalNamesBySets(items, s)
      uses == IF InMemory
              THEN DefinitionsUseSegments(memory.definitions) \/ RBSegmentsUseSegments(memory.rbSegments)
              ELSE LocalDefinitionsUseSegments(items, hasSync) \/ LocalRBUseSegments(items)
  IN /\ \A t \in TrafficType : exists(t) <=> \E d \in StoredDefinitions : d.trafficType = t
     /\ \A s \in FlagSet : names(s) = {d.name : d \in {x \in StoredDefinitions : s \in x.sets /\ Passes(s)}}
     /\ answer # None => Memberships(answer.key) = ToSet(answer.names)
     /\ drifted \/ (uses <=> (~synced \/ \E r \in rules : UsesSegments(r)))

\* A validated storage never serves rules or resumes from a change number of
\* another SDK key or filter, and what it serves passes the filters although the
\* backend moves definitions in and out of them.
CacheIsOurs ==
  phase = "up" =>
    /\ \A d \in StoredDefinitions : MatchFilters(d)
    /\ \A r \in StoredDefinitions \cup StoredRBSegments : r.env = settings.hash
    /\ CurrentTill \in Tills[settings.hash] \cup {-1}
    /\ ~InMemory => Till(items, RBTillKey) \in Tills[settings.hash] \cup {-1}

\* CacheIsOurs, whatever the order of sessions, unless items of one configuration
\* were left under the hash of another: the ways that Validate and End name are the
\* only ones.
LoadedCacheIsOurs == mislabelled \/ CacheIsOurs

\* When the chain of saves is empty and the last write succeeded, what the
\* wrapper has is what the SDK has, but for a kill that no update followed.
SavedWhenQuiet ==
  (kind = "wrapper" /\ phase = "up" /\ queued = 0 /\ saved /\ ~killed) => disk = items

\* A plan taken from a storage in memory and set into a new one gives the same
\* storage: rules, counters, indexes, segments and memberships.
PlanRoundtrip ==
  InMemory =>
    LET plan == GetRolloutPlan(memory.definitions, memory.rbSegments, memory.segments, memory.memberships)
    IN /\ PlanDefinitions(plan) = memory.definitions
       /\ PlanRBSegments(plan) = memory.rbSegments
       /\ PlanSegments(plan) = memory.segments
       /\ \A key \in Keys : PlanMemberships(plan, key, {}) = memory.memberships[key]
=============================================================================
