------------------------------- MODULE Trackers -------------------------------
(***************************************************************************)
(* The trackers of impressions and events, the impressions observer and    *)
(* its LRU cache. The state of the trackers is one record t: the observer  *)
(* (the LRU list, most recent first), the queue of impressions, the counts *)
(* per feature and hour, the unique keys and the number of events.         *)
(*                                                                         *)
(* Time is counted in hours from 1: impressions are deduplicated per hour  *)
(* and the counts are kept per hour. An impression is its hash and the     *)
(* time it was seen before (pt), 0 when it was not.                        *)
(***************************************************************************)
EXTENDS Integers, Sequences, FiniteSets, SequencesExt, Functions

CONSTANT LastSeenCacheSize
ASSUME LastSeenCacheSizeAssumption == LastSeenCacheSize \in Nat \ {0}

NoTime == 0
TrackersInit == [observer |-> <<>>, impressions |-> <<>>, counts |-> <<>>, uniques |-> {}, events |-> 0]

(***************************************************************************)
(* LRUCache and LinkedList: the list's front is the most recent, its end   *)
(* leaves when a new one comes to a full cache.                            *)
(***************************************************************************)
At(list, hash) == SelectInSeq(list, LAMBDA n : n.hash = hash)
Seen(list, hash) == IF At(list, hash) = 0 THEN NoTime ELSE list[At(list, hash)].time
Unshift(list, hash, time) == <<[hash |-> hash, time |-> time]>> \o list
SetSeen(list, hash, time) ==
  CASE At(list, hash) # 0 -> Unshift(RemoveAt(list, At(list, hash)), hash, time)
    [] At(list, hash) = 0 /\ Len(list) = LastSeenCacheSize -> Unshift(Front(list), hash, time)
    [] OTHER -> Unshift(list, hash, time)

\* ImpressionObserver.testAndSet
TestAndSet(t, hash, now) == [t EXCEPT !.observer = SetSeen(t.observer, hash, now)]

(***************************************************************************)
(* The caches.                                                             *)
(***************************************************************************)
CountOf(t, feature, hour) == IF <<feature, hour>> \in DOMAIN t.counts THEN t.counts[<<feature, hour>>] ELSE 0
Count(t, feature, now) ==
  [t EXCEPT !.counts = [c \in DOMAIN t.counts \cup {<<feature, now>>} |->
                          CountOf(t, c[1], c[2]) + (IF c = <<feature, now>> THEN 1 ELSE 0)]]
Store(t, imp, pt) == [t EXCEPT !.impressions = Append(@, [hash |-> imp.hash, feature |-> imp.feature, pt |-> pt])]

(***************************************************************************)
(* The strategies: what becomes of one impression.                         *)
(***************************************************************************)
StrategyNone(t, imp, now) ==
  [Count(t, imp.feature, now) EXCEPT !.uniques = @ \cup {<<imp.keyName, imp.feature>>}]

StrategyDebug(t, imp, now) ==
  IF imp.properties THEN Store(t, imp, NoTime)
  ELSE Store(TestAndSet(t, imp.hash, now), imp, Seen(t.observer, imp.hash))

\* Mutant: an impression that was seen before is stored only when it was not
\* counted.
StrategyOptimizedEither(t, imp, now) ==
  LET pt == Seen(t.observer, imp.hash)
      set == TestAndSet(t, imp.hash, now)
  IN CASE imp.properties -> Store(t, imp, NoTime)
       [] ~imp.properties /\ (pt = NoTime \/ pt < now) -> Store(set, imp, pt)
       [] OTHER -> Count(set, imp.feature, now)
StrategyOptimized(t, imp, now) ==
  LET pt == Seen(t.observer, imp.hash)
      set == TestAndSet(t, imp.hash, now)
      counted == IF pt = NoTime THEN set ELSE Count(set, imp.feature, now)
  IN CASE imp.properties -> Store(t, imp, NoTime)
       [] ~imp.properties /\ (pt = NoTime \/ pt < now) -> Store(counted, imp, pt)
       [] OTHER -> counted

Process(t, mode, item, now) ==
  CASE item.disabled \/ mode = "NONE" -> StrategyNone(t, item.imp, now)
    [] ~item.disabled /\ mode = "OPTIMIZED" -> StrategyOptimized(t, item.imp, now)
    [] ~item.disabled /\ mode = "DEBUG" -> StrategyDebug(t, item.imp, now)

(***************************************************************************)
(* impressionsTracker.track, eventTracker.track and what a consent that is *)
(* declined clears.                                                        *)
(***************************************************************************)
\* Mutant: the consent is not looked at.
TrackUnasked(t, mode, consent, queue, now) ==
  FoldLeft(LAMBDA u, item : Process(u, mode, item, now), t, queue)
Track(t, mode, consent, queue, now) ==
  IF consent = "DECLINED" THEN t ELSE FoldLeft(LAMBDA u, item : Process(u, mode, item, now), t, queue)

TrackEvent(t, consent) == IF consent = "DECLINED" THEN t ELSE [t EXCEPT !.events = @ + 1]

Clear(t) == [TrackersInit EXCEPT !.observer = t.observer]
=============================================================================
