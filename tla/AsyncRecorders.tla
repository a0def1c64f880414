---------------------------- MODULE AsyncRecorders ----------------------------
(***************************************************************************)
(* What a consumer SDK records in an asynchronous storage and what the     *)
(* synchroniser takes out of it: impressions, events and latencies are     *)
(* written as they come, impression counts and unique keys are gathered in *)
(* memory and posted by an interval, when they are full and at destroy.    *)
(*                                                                         *)
(* With Redis a command may time out and still take effect, keys expire    *)
(* unless they are refreshed, and the disconnection waits for the commands *)
(* under way.  With a pluggable storage there is none of that, and popping *)
(* items is a single operation.                                            *)
(*                                                                         *)
(* The commands that Redis gets before it is ready wait in a queue.  None  *)
(* of them is one of these: an evaluation reads the storage before it      *)
(* records.  The configuration of the SDK, which is written when the       *)
(* storage connects, is left out.  The database, the clock and the         *)
(* synchroniser are external.                                              *)
(***************************************************************************)
EXTENDS Integers, FiniteSets, SequencesExt

CONSTANTS
  Stores,     \* "redis", "pluggable"
  Thing,      \* impressions, events and unique keys: each is tracked once
  ListOf,     \* [Thing -> the list it is written to]
  Feature,    \* whose impressions are counted
  QueueSize,  \* what makes counts and unique keys full
  MaxTracked, \* bound: all that is tracked
  MaxConnects,\* bound: connections of Redis
  MaxLost     \* bound: failures, timeouts, expired keys and lost connections

Lists == {"impressions", "events", "uniqueKeys"}
Hashes == {"counts", "latencies"}

ASSUME AsyncRecordersAssumption ==
  /\ IsFiniteSet(Thing) /\ IsFiniteSet(Feature)
  /\ Stores \subseteq {"redis", "pluggable"}
  /\ ListOf \in [Thing -> Lists]
  /\ {MaxTracked, MaxConnects, MaxLost} \subseteq Nat
  /\ QueueSize \in Nat \ {0, 1}

VARIABLES
  store,     \* "redis" or "pluggable"
  conn,      \* "connecting", "ready", "down", "failed" or "closed"
  connects,  \* connections so far
  running,   \* commands sent and not yet answered
  awaited,   \* those of them that the disconnection waits for
  intervals, \* intervals that are armed
  counts,    \* impression counts in memory
  uniques,   \* unique keys in memory
  kept,      \* the storage: lists, hashes and the keys that expire
  popping,   \* what the synchroniser has read and not yet removed
  popped,    \* what it has taken
  ending,    \* destroy: "no", "flushing", "deferred" or "waiting"
  tracked,   \* ghost: the things and the numbers that were tracked
  clobbered, \* ghost: whether counts came in between a read and its removal
  lost       \* failures, timeouts, expired keys and lost connections so far

recorderVars == <<store, conn, connects, running, awaited, intervals, counts, uniques,
                  kept, popping, popped, ending, tracked, clobbered, lost>>

\* Lists of the storage, as the wrapper that src/src/storages/pluggable keeps as a
\* reference holds them and as the Redis commands of the same meaning do: a list
\* that does not exist is the empty sequence.
PushItems(list, items) == list \o items
PopItems(list, n) ==
  IF n >= Len(list) THEN [popped |-> list, list |-> <<>>]
  ELSE [popped |-> SubSeq(list, 1, n), list |-> SubSeq(list, n + 1, Len(list))]

\* What the commands that a client issues leave alone.
aside == <<store, conn, connects, awaited, kept, popping, popped, clobbered, lost>>

Field == Feature \cup {"latency"}
Zero == [f \in Field |-> 0]
One(f) == [Zero EXCEPT ![f] = 1]
Plus(a, b) == [f \in Field |-> a[f] + b[f]]
Total(a) == MapThenSumSet(LAMBDA f : a[f], Field)

Nothing == [from |-> "none", items |-> <<>>, counts |-> Zero]

RecordersInit ==
  /\ store \in Stores
  /\ conn = "connecting"
  /\ connects = 0
  /\ running = {} /\ awaited = {}
  /\ intervals = 0
  /\ counts = Zero
  /\ uniques = {}
  /\ kept = [lists |-> [l \in Lists |-> <<>>], hashes |-> [h \in Hashes |-> Zero], expiring |-> {}]
  /\ popping = Nothing
  /\ popped = [items |-> <<>>, counts |-> Zero]
  /\ ending = "no"
  /\ tracked = [things |-> {}, counts |-> Zero]
  /\ clobbered = FALSE
  /\ lost = 0

-----------------------------------------------------------------------------
\* Commands: what they do to which key, whether they are part of the flush of
\* destroy, whether their caller has given up on them, and what had been counted
\* when they were issued, which tells apart commands that are equal otherwise.

Command(cmd, key, items, n) ==
  [cmd |-> cmd, key |-> key, items |-> items, counts |-> n, at |-> tracked'.counts,
   flush |-> ending' # "no", deaf |-> FALSE]
Push(list, items) == [Command("push", list, items, Zero) EXCEPT !.at = Zero]
HashIncr(hash, n) == Command("incr", hash, <<>>, n)
Expire(c) == [c EXCEPT !.cmd = "expire", !.items = <<>>, !.counts = Zero, !.at = Zero]

\* wrapCommand: what is issued on a lost connection is rejected.
Issue(cmds) ==
  running' = IF conn \in {"ready", "connecting"} THEN running \cup ToSet(cmds) ELSE running

-----------------------------------------------------------------------------
\* Recording

\* postImpressionCountsInRedis and storeImpressionCounts, postUniqueKeysInRedis
\* and storeUniqueKeys: what there is leaves the memory and is stored.
CountsPost(c) == IF c = Zero THEN <<>> ELSE <<HashIncr("counts", c)>>
UniquesPost(u) == IF u = {} THEN <<>> ELSE <<Push("uniqueKeys", SetToSeq(u))>>

Recording(n) ==
  /\ Cardinality(tracked.things) + Total(tracked.counts) + n <= MaxTracked
  /\ ending = "no" /\ conn # "failed"
  /\ store = "redis" => conn \in {"ready", "down"}
  /\ UNCHANGED <<aside, ending>>

\* A mutant: the counts that are posted stay in memory.
TrackCountKeeping(f) ==
  LET c == Plus(counts, One(f))
  IN /\ Recording(1)
     /\ counts' = c
     /\ tracked' = [tracked EXCEPT !.counts[f] = @ + 1]
     /\ Issue(IF Total(c) >= QueueSize THEN CountsPost(c) ELSE <<>>)
     /\ UNCHANGED <<intervals, uniques>>

TrackCount(f) ==
  LET c == Plus(counts, One(f))
      full == Total(c) >= QueueSize
  IN /\ Recording(1)
     /\ counts' = IF full THEN Zero ELSE c
     /\ tracked' = [tracked EXCEPT !.counts[f] = @ + 1]
     /\ Issue(IF full THEN CountsPost(c) ELSE <<>>)
     /\ UNCHANGED <<intervals, uniques>>

TrackUnique(t) ==
  LET u == uniques \cup {t}
      full == Cardinality(u) >= QueueSize
  IN /\ Recording(1) /\ ListOf[t] = "uniqueKeys" /\ t \notin tracked.things
     /\ uniques' = IF full THEN {} ELSE u
     /\ tracked' = [tracked EXCEPT !.things = @ \cup {t}]
     /\ Issue(IF full THEN UniquesPost(u) ELSE <<>>)
     /\ UNCHANGED <<intervals, counts>>

\* Impressions come as a batch, events one by one.
Track(S, list) ==
  /\ Recording(Cardinality(S)) /\ S # {}
  /\ list = "events" => Cardinality(S) = 1
  /\ tracked' = [tracked EXCEPT !.things = @ \cup S]
  /\ Issue(<<Push(list, SetToSeq(S))>>)
  /\ UNCHANGED <<intervals, counts, uniques>>

RecordLatency ==
  /\ Recording(1)
  /\ tracked' = [tracked EXCEPT !.counts["latency"] = @ + 1]
  /\ Issue(<<HashIncr("latencies", One("latency"))>>)
  /\ UNCHANGED <<intervals, counts, uniques>>

PostCounts ==
  /\ intervals > 0 /\ counts # Zero
  /\ counts' = Zero
  /\ UNCHANGED <<aside, intervals, uniques, ending, tracked>>
  /\ Issue(CountsPost(counts))

PostUniques ==
  /\ intervals > 0 /\ uniques # {}
  /\ uniques' = {}
  /\ UNCHANGED <<aside, intervals, counts, ending, tracked>>
  /\ Issue(UniquesPost(uniques))

-----------------------------------------------------------------------------
\* The connection

\* Each connection arms the intervals; the one of before is forgotten.
Connect ==
  /\ conn \in {"connecting", "down"} /\ connects < MaxConnects
  /\ conn' = "ready"
  /\ connects' = connects + 1
  /\ intervals' = intervals + 1
  /\ UNCHANGED <<store, running, awaited, counts, uniques, kept, popping, popped, ending, tracked,
                 clobbered, lost>>

\* A wrapper that does not connect; a connection of Redis that breaks, and
\* rejects the commands under way.
Disconnected ==
  /\ lost < MaxLost
  /\ \/ store = "pluggable" /\ conn = "connecting" /\ conn' = "failed"
     \/ store = "redis" /\ conn = "ready" /\ conn' = "down"
  /\ running' = {}
  /\ lost' = lost + 1
  /\ UNCHANGED <<store, connects, awaited, intervals, counts, uniques, kept, popping, popped,
                 ending, tracked, clobbered>>

-----------------------------------------------------------------------------
\* Answers

Works == IF store = "redis" THEN conn = "ready" ELSE conn \in {"connecting", "ready"}

unanswered == <<store, conn, connects, awaited, intervals, counts, uniques, popping, popped,
                ending, tracked, clobbered>>

\* The lists that are created with an expiration, which is set when the list
\* has no more than what was pushed.
Created(c, length) == store = "redis" /\ ~c.deaf /\ c.key # "events" /\ length = Len(c.items)

AnswerPush(c) ==
  LET list == PushItems(kept.lists[c.key], c.items)
  IN /\ c.cmd = "push"
     /\ kept' = [kept EXCEPT !.lists[c.key] = list]
     /\ running' = (running \ {c}) \cup (IF Created(c, Len(list)) THEN {Expire(c)} ELSE {})

\* Redis takes the increments as one pipeline and then refreshes the expiration
\* of the counts; a wrapper takes them one after the other.
AnswerIncr(c) ==
  /\ c.cmd = "incr"
  /\ \/ /\ store = "redis"
        /\ kept' = [kept EXCEPT !.hashes[c.key] = Plus(@, c.counts)]
        /\ running' = (running \ {c}) \cup (IF c.key = "counts" /\ ~c.deaf THEN {Expire(c)} ELSE {})
     \/ /\ store = "pluggable"
        /\ \E f \in {x \in Field : c.counts[x] > 0} :
             LET rest == [c EXCEPT !.counts[f] = 0]
             IN /\ kept' = [kept EXCEPT !.hashes[c.key][f] = @ + c.counts[f]]
                /\ running' = (running \ {c}) \cup (IF rest.counts = Zero THEN {} ELSE {rest})

Empty(key) == IF key \in Lists THEN kept.lists[key] = <<>> ELSE kept.hashes[key] = Zero

AnswerExpire(c) ==
  /\ c.cmd = "expire"
  /\ kept' = IF Empty(c.key) THEN kept ELSE [kept EXCEPT !.expiring = @ \cup {c.key}]
  /\ running' = running \ {c}

Answer ==
  /\ Works
  /\ \E c \in running : AnswerPush(c) \/ AnswerIncr(c) \/ AnswerExpire(c)
  /\ UNCHANGED <<unanswered, lost>>

\* A command fails, or it times out and stays under way.
Fail ==
  /\ Works /\ lost < MaxLost
  /\ \E c \in running :
       \/ running' = running \ {c}
       \/ store = "redis" /\ ~c.deaf /\ running' = (running \ {c}) \cup {[c EXCEPT !.deaf = TRUE]}
  /\ lost' = lost + 1
  /\ UNCHANGED <<unanswered, kept>>

-----------------------------------------------------------------------------
\* Destroy

\* stop, of both: the intervals that are remembered are cleared, and what is in
\* memory is posted.
Destroy ==
  /\ ending = "no"
  /\ ending' = "flushing"
  /\ intervals' = IF intervals = 0 THEN 0 ELSE intervals - 1
  /\ counts' = Zero
  /\ uniques' = {}
  /\ UNCHANGED <<aside, tracked>>
  /\ Issue(CountsPost(counts) \o UniquesPost(uniques))

Flushed == \A c \in running : c.flush => c.deaf

\* A wrapper is disconnected at once, whatever other commands there are.
Disconnect ==
  /\ ending = "flushing" /\ Flushed
  /\ ending' = "deferred"
  /\ IF store = "pluggable"
     THEN /\ conn' = "closed"
          /\ running' = {}
          /\ lost' = IF running = {} THEN lost ELSE lost + 1
     ELSE UNCHANGED <<conn, running, lost>>
  /\ UNCHANGED <<store, connects, awaited, intervals, counts, uniques, kept, popping, popped,
                 tracked, clobbered>>

\* A mutant: the commands under way are not waited for.
DeferredDisconnectAtOnce ==
  /\ store = "redis" /\ ending = "deferred"
  /\ ending' = "waiting"
  /\ awaited' = {}
  /\ UNCHANGED <<store, conn, connects, running, intervals, counts, uniques, kept, popping,
                 popped, tracked, clobbered, lost>>

\* deferredDisconnect, 10 ms later.
DeferredDisconnect ==
  /\ store = "redis" /\ ending = "deferred"
  /\ ending' = "waiting"
  /\ awaited' = running
  /\ UNCHANGED <<store, conn, connects, running, intervals, counts, uniques, kept, popping,
                 popped, tracked, clobbered, lost>>

\* The commands waited for are over: what came after them is cut off.
Close ==
  /\ ending = "waiting" /\ conn # "closed"
  /\ \A c \in awaited : {c, [c EXCEPT !.deaf = TRUE]} \cap running = {}
  /\ conn' = "closed"
  /\ running' = {}
  /\ UNCHANGED <<store, connects, awaited, intervals, counts, uniques, kept, popping, popped,
                 ending, tracked, clobbered, lost>>

-----------------------------------------------------------------------------
\* The synchroniser, on a connection of its own

notPopped == <<store, conn, connects, running, awaited, intervals, counts, uniques, ending, tracked>>

\* lrange or hgetall, and the keys with their values of a wrapper.
ReadList(l, n) ==
  /\ store = "redis" /\ popping = Nothing /\ n \in 1..Len(kept.lists[l])
  /\ popping' = [Nothing EXCEPT !.from = l, !.items = SubSeq(kept.lists[l], 1, n)]
  /\ UNCHANGED <<notPopped, kept, popped, clobbered, lost>>

ReadHash(h) ==
  /\ popping = Nothing /\ kept.hashes[h] # Zero
  /\ popping' = [Nothing EXCEPT !.from = h, !.counts = kept.hashes[h]]
  /\ UNCHANGED <<notPopped, kept, popped, clobbered, lost>>

ReadCounts == ReadHash("counts")
ReadLatencies == ReadHash("latencies")

TakeList(l, items) ==
  LET rest == PopItems(kept.lists[l], Len(items)).list
  IN /\ kept' = [kept EXCEPT !.lists[l] = rest, !.expiring = IF rest = <<>> THEN @ \ {l} ELSE @]
     /\ popped' = [popped EXCEPT !.items = @ \o items]

\* ltrim.
TrimList ==
  /\ popping.from \in Lists
  /\ TakeList(popping.from, popping.items)
  /\ popping' = Nothing
  /\ UNCHANGED <<notPopped, clobbered, lost>>

\* del, whatever came in since the read.
DeleteHash ==
  /\ popping.from \in Hashes
  /\ kept' = [kept EXCEPT !.hashes[popping.from] = Zero, !.expiring = @ \ {popping.from}]
  /\ popped' = [popped EXCEPT !.counts = Plus(@, popping.counts)]
  /\ clobbered' = (clobbered \/ kept.hashes[popping.from] # popping.counts)
  /\ popping' = Nothing
  /\ UNCHANGED <<notPopped, lost>>

PopList(l, n) ==
  /\ store = "pluggable" /\ n \in 1..Len(kept.lists[l])
  /\ TakeList(l, PopItems(kept.lists[l], n).popped)
  /\ UNCHANGED <<notPopped, popping, clobbered, lost>>

\* A key expires with what it holds.
Vanish(key) ==
  /\ key \in kept.expiring /\ lost < MaxLost
  /\ kept' = [kept EXCEPT !.lists = [l \in Lists |-> IF l = key THEN <<>> ELSE @[l]],
                          !.hashes = [h \in Hashes |-> IF h = key THEN Zero ELSE @[h]],
                          !.expiring = @ \ {key}]
  /\ lost' = lost + 1
  /\ UNCHANGED <<notPopped, popping, popped, clobbered>>

-----------------------------------------------------------------------------
Untracked(l) == {t \in Thing \ tracked.things : ListOf[t] = l}

-----------------------------------------------------------------------------
\* Where the numbers of a field are, and how often a thing is anywhere. What a
\* command under way adds to a field is counted one by one.
Increments(cmds, f) == UNION {{c} \X (1..c.counts[f]) : c \in {x \in cmds : x.cmd = "incr"}}
Pending(f) == counts[f] + Cardinality(Increments(running, f))

Stored(f) == kept.hashes["counts"][f] + kept.hashes["latencies"][f] + popped.counts[f]

Times(t) ==
  Cardinality({i \in DOMAIN popped.items : popped.items[i] = t})
  + Cardinality({i \in DOMAIN kept.lists[ListOf[t]] : kept.lists[ListOf[t]][i] = t})
  + Cardinality({c \in running : c.cmd = "push" /\ t \in ToSet(c.items)})
  + (IF t \in uniques THEN 1 ELSE 0)

\* What is recorded is never there twice, and while nothing failed it is there
\* once: in memory, on its way, in the storage or taken by the synchroniser.
\* Counts that come in while the synchroniser removes the ones it has read are
\* the exception.
RecordedOnce ==
  /\ \A t \in Thing : Times(t) <= 1
  /\ lost = 0 => \A t \in tracked.things : Times(t) = 1
  /\ lost = 0 /\ ~clobbered => \A f \in Field : Pending(f) + Stored(f) = tracked.counts[f]

\* When the storage is disconnected and nothing failed, all that was recorded is
\* in the storage, the commands of before destroy included.
DestroyKeepsAll ==
  conn = "closed" /\ lost = 0 =>
    /\ \A t \in tracked.things : t \notin uniques /\ Times(t) = 1
    /\ ~clobbered => \A f \in Field : Stored(f) = tracked.counts[f]
=============================================================================
