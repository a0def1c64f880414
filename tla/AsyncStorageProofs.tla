-------------------------- MODULE AsyncStorageProofs --------------------------
(***************************************************************************)
(* Proofs about the asynchronous storages.                                 *)
(*                                                                         *)
(* The recorders.  What is recorded is at one place: taken, in a list,     *)
(* under way in a command or in memory.  The invariant says of each place  *)
(* which things it has (Apart), that none has a thing twice (Orderly), and *)
(* that what the synchroniser has read of a list is still its head, unless *)
(* the list expired (Reading).  For the numbers it says that commands that *)
(* add to a hash differ, so that a set of them loses none (Distinct), and  *)
(* how the numbers add up (Sums).  That nothing is cut off at the end      *)
(* follows from what the disconnection waits for (Connected).              *)
(*                                                                         *)
(* The definitions.  Neither property is inductive: both speak of a        *)
(* storage at rest, and in between the parallel chains of commands leave   *)
(* it half written.  The invariant says what each chain has done so far.   *)
(* The storage of another SDK key is cleared before anything is written    *)
(* (Owned).  What an update that has not failed has to write is written or *)
(* in a call that will write it (Written).  And while no command failed,   *)
(* calls are about different names, so that the flag sets list, and the    *)
(* traffic types count, each name as its call has left it (Follows).       *)
(***************************************************************************)
EXTENDS AsyncStorage, FunctionTheorems, FiniteSetTheorems, TLAPS

-----------------------------------------------------------------------------
\* Sequences as places: whether something is in one, and whether it is there once.
In(s, t) == \E i \in 1..Len(s) : s[i] = t
NoDup(s) == \A i, j \in 1..Len(s) : s[i] = s[j] => i = j

LEMMA InToSet ==
  ASSUME NEW X, NEW s \in Seq(X), NEW t
  PROVE  t \in ToSet(s) <=> In(s, t)
BY DEF ToSet, In

LEMMA InType ==
  ASSUME NEW X, NEW s \in Seq(X), NEW t, In(s, t)
  PROVE  t \in X
BY DEF In

LEMMA InEmpty ==
  ASSUME NEW t
  PROVE  ~In(<<>>, t) /\ NoDup(<<>>)
BY DEF In, NoDup

LEMMA InConcat ==
  ASSUME NEW X, NEW s \in Seq(X), NEW u \in Seq(X)
  PROVE  /\ s \o u \in Seq(X)
         /\ \A t : In(s \o u, t) <=> In(s, t) \/ In(u, t)
         /\ NoDup(s) /\ NoDup(u) /\ (\A t : ~(In(s, t) /\ In(u, t))) => NoDup(s \o u)
<1>1. s \o u \in Seq(X) /\ Len(s \o u) = Len(s) + Len(u) /\ Len(s) \in Nat /\ Len(u) \in Nat
  OBVIOUS
<1>2. \A i \in 1..Len(s) : (s \o u)[i] = s[i]
  OBVIOUS
<1>3. \A i \in 1..Len(u) : (s \o u)[i + Len(s)] = u[i]
  OBVIOUS
<1>4. \A i \in 1..Len(s \o u) : i \in 1..Len(s) \/ (\E j \in 1..Len(u) : i = j + Len(s))
  <2>1. ASSUME NEW i \in 1..Len(s \o u), i \notin 1..Len(s)
        PROVE  i - Len(s) \in 1..Len(u) /\ i = (i - Len(s)) + Len(s)
    BY <1>1, <2>1
  <2>. QED
    BY <2>1
<1>5. ASSUME NEW t
      PROVE  In(s \o u, t) <=> In(s, t) \/ In(u, t)
  <2>1. ASSUME In(s \o u, t) PROVE In(s, t) \/ In(u, t)
    BY <2>1, <1>2, <1>3, <1>4 DEF In
  <2>2. ASSUME In(s, t) PROVE In(s \o u, t)
    BY <2>2, <1>1, <1>2 DEF In
  <2>3. ASSUME In(u, t) PROVE In(s \o u, t)
    <3>1. PICK i \in 1..Len(u) : u[i] = t
      BY <2>3 DEF In
    <3>2. i + Len(s) \in 1..Len(s \o u)
      BY <1>1
    <3>. QED
      BY <3>1, <3>2, <1>3 DEF In
  <2>. QED
    BY <2>1, <2>2, <2>3
<1>6. ASSUME NoDup(s), NoDup(u), \A t : ~(In(s, t) /\ In(u, t))
      PROVE  NoDup(s \o u)
  <2> SUFFICES ASSUME NEW i \in 1..Len(s \o u), NEW j \in 1..Len(s \o u),
                      (s \o u)[i] = (s \o u)[j]
               PROVE  i = j
    BY DEF NoDup
  <2>1. CASE i \in 1..Len(s) /\ j \in 1..Len(s)
    BY <2>1, <1>2, <1>6 DEF NoDup
  <2>2. CASE i \in 1..Len(s) /\ j \notin 1..Len(s)
    <3>1. PICK l \in 1..Len(u) : j = l + Len(s)
      BY <2>2, <1>4
    <3>2. s[i] = u[l]
      BY <2>2, <3>1, <1>2, <1>3
    <3>. QED
      BY <2>2, <3>2, <1>6 DEF In
  <2>3. CASE i \notin 1..Len(s) /\ j \in 1..Len(s)
    <3>1. PICK k \in 1..Len(u) : i = k + Len(s)
      BY <2>3, <1>4
    <3>2. u[k] = s[j]
      BY <2>3, <3>1, <1>2, <1>3
    <3>. QED
      BY <2>3, <3>2, <1>6 DEF In
  <2>4. CASE i \notin 1..Len(s) /\ j \notin 1..Len(s)
    <3>1. PICK k \in 1..Len(u) : i = k + Len(s)
      BY <2>4, <1>4
    <3>2. PICK l \in 1..Len(u) : j = l + Len(s)
      BY <2>4, <1>4
    <3>3. u[k] = u[l]
      BY <3>1, <3>2, <1>3
    <3>. QED
      BY <3>1, <3>2, <3>3, <1>6 DEF NoDup
  <2>. QED
    BY <2>1, <2>2, <2>3, <2>4
<1>. QED
  BY <1>1, <1>5, <1>6

LEMMA InSubSeq ==
  ASSUME NEW X, NEW s \in Seq(X), NEW m \in 1..Len(s) + 1, NEW n \in 0..Len(s)
  PROVE  /\ SubSeq(s, m, n) \in Seq(X)
         /\ \A t : In(SubSeq(s, m, n), t) => In(s, t)
         /\ NoDup(s) => NoDup(SubSeq(s, m, n))
         /\ \A k \in m..n : In(SubSeq(s, m, n), s[k])
<1>1. SubSeq(s, m, n) \in Seq(X)
  OBVIOUS
<1>2. Len(SubSeq(s, m, n)) = IF m <= n THEN n - m + 1 ELSE 0
  OBVIOUS
<1>3. \A i \in 1..Len(SubSeq(s, m, n)) : SubSeq(s, m, n)[i] = s[m + i - 1] /\ m + i - 1 \in m..n /\ m + i - 1 \in 1..Len(s)
  BY <1>2
<1>4. \A t : In(SubSeq(s, m, n), t) => In(s, t)
  BY <1>3 DEF In
<1>5. NoDup(s) => NoDup(SubSeq(s, m, n))
  <2> SUFFICES ASSUME NoDup(s), NEW i \in 1..Len(SubSeq(s, m, n)), NEW j \in 1..Len(SubSeq(s, m, n)),
                      SubSeq(s, m, n)[i] = SubSeq(s, m, n)[j]
               PROVE  i = j
    BY DEF NoDup
  <2>1. m + i - 1 = m + j - 1
    BY <1>3 DEF NoDup
  <2>. QED
    BY <2>1
<1>6. ASSUME NEW k \in m..n
      PROVE  In(SubSeq(s, m, n), s[k])
  <2>1. k - m + 1 \in 1..Len(SubSeq(s, m, n)) /\ m + (k - m + 1) - 1 = k
    BY <1>2
  <2>. QED
    BY <2>1, <1>3 DEF In
<1>. QED
  BY <1>1, <1>4, <1>5, <1>6

LEMMA PopItemsSplits ==
  ASSUME NEW X, NEW s \in Seq(X), NEW n \in Nat
  PROVE  LET p == PopItems(s, n)
         IN  /\ p.popped \in Seq(X) /\ p.list \in Seq(X)
             /\ \A t : In(s, t) <=> In(p.popped, t) \/ In(p.list, t)
             /\ NoDup(s) => /\ NoDup(p.popped) /\ NoDup(p.list)
                            /\ \A t : ~(In(p.popped, t) /\ In(p.list, t))
<1>1. CASE n >= Len(s)
  BY <1>1, InEmpty DEF PopItems
<1>2. CASE n < Len(s)
  <2>1. PopItems(s, n) = [popped |-> SubSeq(s, 1, n), list |-> SubSeq(s, n + 1, Len(s))]
    BY <1>2 DEF PopItems
  <2>2. /\ SubSeq(s, 1, n) \in Seq(X) /\ \A t : In(SubSeq(s, 1, n), t) => In(s, t)
        /\ NoDup(s) => NoDup(SubSeq(s, 1, n))
        /\ \A k \in 1..n : In(SubSeq(s, 1, n), s[k])
    BY <1>2, InSubSeq
  <2>3. n + 1 \in 1..Len(s) + 1 /\ Len(s) \in 0..Len(s)
    BY <1>2
  <2>4. /\ SubSeq(s, n + 1, Len(s)) \in Seq(X)
        /\ \A t : In(SubSeq(s, n + 1, Len(s)), t) => In(s, t)
        /\ NoDup(s) => NoDup(SubSeq(s, n + 1, Len(s)))
        /\ \A k \in n + 1..Len(s) : In(SubSeq(s, n + 1, Len(s)), s[k])
    BY <2>3, InSubSeq
  <2>5. \A t : In(s, t) => In(SubSeq(s, 1, n), t) \/ In(SubSeq(s, n + 1, Len(s)), t)
    <3>1. \A k \in 1..Len(s) : k \in 1..n \/ k \in n + 1..Len(s)
      BY <1>2
    <3>. QED
      BY <3>1, <2>2, <2>4 DEF In
  <2>6. ASSUME NoDup(s), NEW t, In(SubSeq(s, 1, n), t), In(SubSeq(s, n + 1, Len(s)), t)
        PROVE  FALSE
    <3>1. PICK i \in 1..Len(SubSeq(s, 1, n)) : SubSeq(s, 1, n)[i] = t
      BY <2>6 DEF In
    <3>2. PICK j \in 1..Len(SubSeq(s, n + 1, Len(s))) : SubSeq(s, n + 1, Len(s))[j] = t
      BY <2>6 DEF In
    <3>3. i \in 1..Len(s) /\ i <= n /\ s[i] = t
      BY <3>1, <1>2
    <3>4. n + j \in 1..Len(s) /\ n + j > n /\ s[n + j] = t
      BY <3>2, <1>2
    <3>. QED
      BY <3>3, <3>4, <2>6 DEF NoDup
  <2>. QED
    BY <2>1, <2>2, <2>4, <2>5, <2>6
<1>. QED
  BY <1>1, <1>2

\* What the synchroniser has read is what it removes, unless the list was removed.
Heads(p, s) == Len(p) <= Len(s) /\ \A i \in 1..Len(p) : p[i] = s[i]

LEMMA HeadsIn ==
  ASSUME NEW X, NEW s \in Seq(X), NEW p \in Seq(X), Heads(p, s)
  PROVE  \A t : In(p, t) => In(s, t)
BY DEF Heads, In

LEMMA HeadsPopped ==
  ASSUME NEW X, NEW s \in Seq(X), NEW p \in Seq(X), Heads(p, s)
  PROVE  PopItems(s, Len(p)).popped = p
<1>1. CASE Len(p) >= Len(s)
  <2>1. Len(p) = Len(s) /\ \A i \in 1..Len(p) : p[i] = s[i]
    BY <1>1 DEF Heads
  <2>2. p = s
    BY <2>1
  <2>. QED
    BY <1>1, <2>2 DEF PopItems
<1>2. CASE Len(p) < Len(s)
  <2>1. SubSeq(s, 1, Len(p)) \in Seq(X) /\ Len(SubSeq(s, 1, Len(p))) = Len(p)
    BY <1>2
  <2>2. \A i \in 1..Len(p) : SubSeq(s, 1, Len(p))[i] = p[i]
    BY <1>2 DEF Heads
  <2>3. SubSeq(s, 1, Len(p)) = p
    BY <2>1, <2>2
  <2>. QED
    BY <1>2, <2>3 DEF PopItems
<1>. QED
  BY <1>1, <1>2

LEMMA HeadsConcat ==
  ASSUME NEW X, NEW s \in Seq(X), NEW p \in Seq(X), NEW u \in Seq(X), Heads(p, s)
  PROVE  Heads(p, s \o u)
BY DEF Heads

LEMMA HeadsSubSeq ==
  ASSUME NEW X, NEW s \in Seq(X), NEW n \in 1..Len(s)
  PROVE  Heads(SubSeq(s, 1, n), s) /\ SubSeq(s, 1, n) # <<>>
BY DEF Heads

LEMMA SetToSeqLists ==
  ASSUME NEW X, NEW S \in SUBSET X, IsFiniteSet(S)
  PROVE  /\ SetToSeq(S) \in Seq(X)
         /\ NoDup(SetToSeq(S))
         /\ \A t : In(SetToSeq(S), t) <=> t \in S
<1> DEFINE n == Cardinality(S)
           f == SetToSeq(S)
<1>1. n \in Nat /\ ExistsBijection(1..n, S)
  BY FS_CardinalityType
<1>2. \E g \in [1..n -> S] : IsInjective(g)
  BY <1>1 DEF ExistsBijection, Bijection, Injection
<1>3. f \in [1..n -> S] /\ IsInjective(f)
  BY <1>2 DEF SetToSeq
<1>4. f \in Injection(1..n, S)
  BY <1>3 DEF Injection
<1>5. f \in Surjection(1..n, S)
  <2>1. IsFiniteSet(1..n) /\ Cardinality(1..n) = n
    BY <1>1, FS_Interval
  <2>. QED
    BY <1>4, <2>1, FS_Injection
<1>6. \A t \in S : \E i \in 1..n : f[i] = t
  BY <1>5 DEF Surjection
<1>7. Len(f) = n /\ f \in Seq(X)
  BY <1>1, <1>3
<1>8. NoDup(f)
  BY <1>3, <1>7 DEF NoDup, IsInjective
<1>9. \A t : In(f, t) <=> t \in S
  BY <1>3, <1>6, <1>7 DEF In
<1>. QED
  BY <1>7, <1>8, <1>9

LEMMA Occurrences ==
  ASSUME NEW X, NEW s \in Seq(X), NEW t, NoDup(s)
  PROVE  Cardinality({i \in DOMAIN s : s[i] = t}) = IF In(s, t) THEN 1 ELSE 0
<1> DEFINE I == {i \in DOMAIN s : s[i] = t}
<1>1. DOMAIN s = 1..Len(s)
  OBVIOUS
<1>2. CASE In(s, t)
  <2>1. PICK i \in 1..Len(s) : s[i] = t
    BY <1>2 DEF In
  <2>2. I = {i}
    BY <1>1, <2>1 DEF NoDup
  <2>. QED
    BY <1>2, <2>2, FS_Singleton
<1>3. CASE ~In(s, t)
  <2>1. I = {}
    BY <1>1, <1>3 DEF In
  <2>. QED
    BY <1>3, <2>1, FS_EmptySet
<1>. QED
  BY <1>2, <1>3

-----------------------------------------------------------------------------
\* The numbers under way.
Num == [Field -> Nat]

LEMMA UptoFinite ==
  ASSUME NEW n \in Nat
  PROVE  IsFiniteSet(1..n) /\ Cardinality(1..n) = n
BY FS_Interval

LEMMA IncrementsFinite ==
  ASSUME NEW cmds, NEW f, IsFiniteSet(cmds), \A c \in cmds : c.cmd = "incr" => c.counts[f] \in Nat
  PROVE  IsFiniteSet(Increments(cmds, f))
<1> DEFINE incrs == {x \in cmds : x.cmd = "incr"}
           parts == {{c} \X (1..c.counts[f]) : c \in incrs}
<1>1. IsFiniteSet(incrs)
  BY FS_Subset
<1>2. IsFiniteSet(parts)
  <2> DEFINE g == [c \in incrs |-> {c} \X (1..c.counts[f])]
  <2>1. g \in Surjection(incrs, parts)
    BY DEF Surjection
  <2>. QED
    BY <1>1, <2>1, FS_Surjection
<1>3. \A p \in parts : IsFiniteSet(p)
  <2>1. ASSUME NEW c \in incrs PROVE IsFiniteSet({c} \X (1..c.counts[f]))
    <3>1. IsFiniteSet(1..c.counts[f])
      BY UptoFinite
    <3>. QED
      BY <3>1, FS_Product, FS_Singleton
  <2>. QED
    BY <2>1
<1>4. IsFiniteSet(UNION parts)
  BY <1>2, <1>3, FS_UNION
<1>. QED
  BY <1>4 DEF Increments

LEMMA IncrementsAdd ==
  ASSUME NEW cmds, NEW f, IsFiniteSet(cmds), \A x \in cmds : x.cmd = "incr" => x.counts[f] \in Nat,
         NEW c, c \notin cmds, c.cmd = "incr", c.counts[f] \in Nat
  PROVE  /\ Cardinality(Increments(cmds \cup {c}, f)) = Cardinality(Increments(cmds, f)) + c.counts[f]
         /\ Cardinality(Increments(cmds, f)) \in Nat
<1> DEFINE new == {c} \X (1..c.counts[f])
<1>1. Increments(cmds \cup {c}, f) = Increments(cmds, f) \cup new
  BY DEF Increments
<1>2. Increments(cmds, f) \cap new = {}
  BY DEF Increments
<1>3. IsFiniteSet(Increments(cmds, f))
  BY IncrementsFinite
<1>4. IsFiniteSet(new) /\ Cardinality(new) = c.counts[f]
  <2>1. IsFiniteSet(1..c.counts[f]) /\ Cardinality(1..c.counts[f]) = c.counts[f]
    BY UptoFinite
  <2>2. IsFiniteSet({c}) /\ Cardinality({c}) = 1
    BY FS_Singleton
  <2>3. IsFiniteSet(new) /\ Cardinality(new) = Cardinality({c}) * Cardinality(1..c.counts[f])
    BY <2>1, <2>2, FS_Product
  <2>. QED
    BY <2>1, <2>2, <2>3
<1>5. Cardinality(Increments(cmds, f) \cap new) = 0
  BY <1>2, FS_EmptySet
<1>6. Cardinality(Increments(cmds, f)) \in Nat
  BY <1>3, FS_CardinalityType
<1>7. Cardinality(Increments(cmds, f) \cup new)
      = Cardinality(Increments(cmds, f)) + Cardinality(new) - Cardinality(Increments(cmds, f) \cap new)
  BY <1>3, <1>4, FS_Union
<1>8. ASSUME NEW a \in Nat, NEW k \in Nat, NEW n, n = a + k - 0 PROVE n = a + k
  BY <1>8
<1>. QED
  BY <1>1, <1>4, <1>5, <1>6, <1>7, <1>8

LEMMA IncrementsRemove ==
  ASSUME NEW cmds, NEW f, IsFiniteSet(cmds), \A x \in cmds : x.cmd = "incr" => x.counts[f] \in Nat,
         NEW c \in cmds, c.cmd = "incr"
  PROVE  /\ Cardinality(Increments(cmds, f)) = Cardinality(Increments(cmds \ {c}, f)) + c.counts[f]
         /\ Cardinality(Increments(cmds \ {c}, f)) \in Nat
<1>1. IsFiniteSet(cmds \ {c}) /\ c \notin cmds \ {c} /\ (cmds \ {c}) \cup {c} = cmds
  BY FS_RemoveElement
<1>. QED
  BY <1>1, IncrementsAdd

LEMMA IncrementsOfSame ==
  ASSUME NEW A, NEW B, NEW f, \A c : c.cmd = "incr" => (c \in A <=> c \in B)
  PROVE  Increments(A, f) = Increments(B, f)
BY DEF Increments

-----------------------------------------------------------------------------
\* The invariant of the recorders
Commands ==
  [cmd : {"push", "incr", "expire"}, key : Lists \cup Hashes, items : Seq(Thing), counts : Num,
   at : Num, flush : BOOLEAN, deaf : BOOLEAN]

RecordersTypeOK ==
  /\ store \in {"redis", "pluggable"}
  /\ conn \in {"connecting", "ready", "down", "failed", "closed"}
  /\ running \in SUBSET Commands /\ IsFiniteSet(running)
  /\ awaited \in SUBSET Commands
  /\ counts \in Num
  /\ uniques \in SUBSET Thing
  /\ kept \in [lists : [Lists -> Seq(Thing)], hashes : [Hashes -> Num], expiring : SUBSET (Lists \cup Hashes)]
  /\ popping \in [from : Lists \cup Hashes \cup {"none"}, items : Seq(Thing), counts : Num]
  /\ popped \in [items : Seq(Thing), counts : Num]
  /\ ending \in {"no", "flushing", "deferred", "waiting"}
  /\ tracked \in [things : SUBSET Thing, counts : Num]
  /\ clobbered \in BOOLEAN
  /\ lost \in Nat

\* The places a thing may be at.
Pushes == {c \in running : c.cmd = "push"}
Popped(t) == In(popped.items, t)
Listed(t) == \E l \in Lists : In(kept.lists[l], t)
Sent(t) == \E c \in Pushes : In(c.items, t)
Somewhere(t) == Popped(t) \/ Listed(t) \/ Sent(t) \/ t \in uniques

\* A thing is at one place at most, and at one if nothing failed.
Apart ==
  \A t \in Thing :
    /\ Popped(t) => ~Listed(t) /\ ~Sent(t) /\ t \notin uniques
    /\ Listed(t) => ~Sent(t) /\ t \notin uniques
    /\ Sent(t) => t \notin uniques
    /\ \A c, d \in Pushes : In(c.items, t) /\ In(d.items, t) => c = d
    /\ Somewhere(t) => t \in tracked.things
    /\ lost = 0 /\ t \in tracked.things => Somewhere(t)

\* No place has a thing twice, and each list has its own things.
Orderly ==
  /\ NoDup(popped.items)
  /\ \A l \in Lists : NoDup(kept.lists[l]) /\ \A t : In(kept.lists[l], t) => ListOf[t] = l
  /\ \A c \in Pushes : c.key \in Lists /\ NoDup(c.items) /\ \A t : In(c.items, t) => ListOf[t] = c.key
  /\ \A t \in uniques : ListOf[t] = "uniqueKeys"

\* What the synchroniser has read of a list is its head, or nowhere any more.
Reading ==
  popping.from \in Lists =>
    /\ store = "redis"
    /\ NoDup(popping.items)
    /\ \A t : In(popping.items, t) => t \in tracked.things
    /\ \/ Heads(popping.items, kept.lists[popping.from]) /\ popping.items # <<>>
       \/ lost > 0 /\ \A t : In(popping.items, t) => ~Somewhere(t)

\* Commands are told apart by what had been counted when they were issued.
AtMost(a, b) == \A f \in Field : a[f] <= b[f]
Distinct ==
  /\ \A c, d \in running :
       c.cmd = "incr" /\ d.cmd = "incr" /\ c.key = d.key /\ c.at = d.at => c = d
  /\ \A c \in running : c.cmd = "incr" =>
       /\ c.key \in Hashes
       /\ AtMost(c.at, tracked.counts)
       /\ c.key = "counts" /\ c.at = tracked.counts => counts = Zero

Sums ==
  lost = 0 /\ ~clobbered => \A f \in Field : Pending(f) + Stored(f) = tracked.counts[f]

\* When the storage is disconnected, and what that waits for.
Connected ==
  /\ conn \in {"down", "failed"} => lost > 0
  /\ conn = "down" => store = "redis"
  /\ conn = "closed" => ending # "no" /\ running = {}
  /\ ending # "no" => counts = Zero /\ uniques = {}
  /\ ending = "waiting" => store = "redis"
  /\ ending = "waiting" /\ conn # "closed" =>
       \A c \in running : c.cmd # "expire" => c \in awaited \/ [c EXCEPT !.deaf = FALSE] \in awaited

Things == Apart /\ Orderly /\ Reading
Numbers == Distinct /\ Sums
RecordersInv == RecordersTypeOK /\ Things /\ Numbers /\ Connected

LEMMA NumTypes ==
  /\ Zero \in Num
  /\ \A f : One(f) \in Num
  /\ \A a, b \in Num : Plus(a, b) \in Num
<1>1. Zero \in Num
  BY DEF Zero, Num
<1>2. \A f : One(f) \in Num
  BY DEF Zero, One, Num
<1>3. \A a, b \in Num : Plus(a, b) \in Num
  BY DEF Plus, Num
<1>. QED
  BY <1>1, <1>2, <1>3

LEMMA RecordersInitInv == RecordersInit => RecordersInv
<1> SUFFICES ASSUME RecordersInit PROVE RecordersInv
  OBVIOUS
<1>1. RecordersTypeOK
  <2>1. IsFiniteSet({})
    BY FS_EmptySet
  <2>2. <<>> \in Seq(Thing)
    OBVIOUS
  <2>. QED
    BY <2>1, <2>2, NumTypes, AsyncRecordersAssumption DEF RecordersInit, RecordersTypeOK, Nothing
<1>2. Things
  <2>1. \A l \in Lists : kept.lists[l] = <<>>
    BY DEF RecordersInit
  <2>2. Pushes = {} /\ uniques = {} /\ popped.items = <<>> /\ tracked.things = {}
    BY DEF RecordersInit, Pushes
  <2>3. \A t : ~Somewhere(t)
    BY <2>1, <2>2, InEmpty DEF Somewhere, Popped, Listed, Sent
  <2>4. Apart
    BY <2>2, <2>3 DEF Apart, Somewhere, Sent
  <2>5. Orderly
    BY <2>1, <2>2, InEmpty DEF Orderly
  <2>6. Reading
    BY DEF Reading, RecordersInit, Nothing, Lists
  <2>. QED
    BY <2>4, <2>5, <2>6 DEF Things
<1>3. Numbers
  <2>1. running = {} /\ counts = Zero /\ popped.counts = Zero /\ tracked.counts = Zero
        /\ kept.hashes["counts"] = Zero /\ kept.hashes["latencies"] = Zero
    BY DEF RecordersInit, Hashes
  <2>2. \A f \in Field : Increments(running, f) = {}
    BY <2>1 DEF Increments
  <2>3. \A f \in Field : Pending(f) = 0
    BY <2>1, <2>2, FS_EmptySet DEF Pending, Zero
  <2>4. \A f \in Field : Stored(f) = 0 /\ tracked.counts[f] = 0
    BY <2>1 DEF Stored, Zero
  <2>. QED
    BY <2>1, <2>3, <2>4 DEF Numbers, Distinct, Sums
<1>4. Connected
  BY DEF Connected, RecordersInit
<1>. QED
  BY <1>1, <1>2, <1>3, <1>4 DEF RecordersInv

-----------------------------------------------------------------------------
\* What leaves the things, or the numbers, where they are.
SamePushes == \A c : c.cmd = "push" => (c \in running' <=> c \in running)
SameIncrements == \A c : c.cmd = "incr" => (c \in running' <=> c \in running)

LEMMA ThingsFrame ==
  ASSUME Things, RecordersTypeOK, RecordersTypeOK', SamePushes, popped'.items = popped.items,
         kept'.lists = kept.lists, uniques' = uniques, tracked'.things = tracked.things,
         lost' >= lost, popping' = popping, store' = store
  PROVE  Things'
<1>1. Pushes' = Pushes
  BY DEF SamePushes, Pushes
<1>2. \A t : /\ Popped(t)' <=> Popped(t)
             /\ Listed(t)' <=> Listed(t)
             /\ Sent(t)' <=> Sent(t)
             /\ Somewhere(t)' <=> Somewhere(t)
  BY <1>1 DEF Popped, Listed, Sent, Somewhere
<1>3. lost' = 0 => lost = 0
  BY DEF RecordersTypeOK
<1>4. lost > 0 => lost' > 0
  BY DEF RecordersTypeOK
<1>5. Apart'
  BY <1>1, <1>2, <1>3 DEF Things, Apart
<1>6. Orderly'
  BY <1>1 DEF Things, Orderly
<1>7. Reading'
  BY <1>2, <1>4 DEF Things, Reading
<1>. QED
  BY <1>5, <1>6, <1>7 DEF Things

LEMMA NumbersFrame ==
  ASSUME Numbers, RecordersTypeOK, RecordersTypeOK', SameIncrements, counts' = counts,
         tracked'.counts = tracked.counts, kept'.hashes = kept.hashes, popped'.counts = popped.counts,
         clobbered => clobbered', lost' >= lost
  PROVE  Numbers'
<1>1. lost' = 0 => lost = 0
  BY DEF RecordersTypeOK
<1>2. \A f : Increments(running', f) = Increments(running, f)
  BY IncrementsOfSame DEF SameIncrements
<1>3. \A f : Pending(f)' = Pending(f) /\ Stored(f)' = Stored(f)
  BY <1>2 DEF Pending, Stored
<1>4. Distinct'
  BY DEF Numbers, Distinct, SameIncrements
<1>5. Sums'
  BY <1>1, <1>3 DEF Numbers, Sums
<1>. QED
  BY <1>4, <1>5 DEF Numbers

\* Things of memory and new ones are sent by a command, or lost with it.
Moved(N, U, p, sent) ==
  /\ N \in SUBSET Thing /\ N \cap tracked.things = {} /\ tracked'.things = tracked.things \cup N
  /\ U \in SUBSET (uniques \cup N) /\ uniques' = (uniques \cup N) \ U
  /\ \A t \in N \ U : ListOf[t] = "uniqueKeys"
  /\ p.cmd = "push" /\ p.key \in Lists /\ NoDup(p.items) /\ \A t : In(p.items, t) <=> t \in U
  /\ \A t \in U : ListOf[t] = p.key
  /\ sent \in BOOLEAN /\ (sent \/ lost > 0 \/ U = {})
  /\ \A c : c.cmd = "push" => (c \in running' <=> c \in running \/ (sent /\ c = p))
  /\ popped' = popped /\ kept' = kept /\ lost' = lost /\ popping' = popping /\ store' = store

LEMMA ThingsMoved ==
  ASSUME Things, RecordersTypeOK, RecordersTypeOK', NEW N, NEW U, NEW p, NEW sent, Moved(N, U, p, sent)
  PROVE  Things'
<1> USE DEF Moved
<1>1. \A c : c \in Pushes' <=> c \in Pushes \/ (sent /\ c = p)
  BY DEF Pushes
<1>2. \A t : (Popped(t)' <=> Popped(t)) /\ (Listed(t)' <=> Listed(t))
  BY DEF Popped, Listed
<1>3. \A t : Sent(t)' <=> Sent(t) \/ (sent /\ t \in U)
  BY <1>1 DEF Sent
<1>4. \A t \in U : t \in Thing /\ ~Popped(t) /\ ~Listed(t) /\ ~Sent(t)
  BY DEF Things, Apart, Somewhere, RecordersTypeOK
<1>5. \A t \in N : t \in Thing /\ ~Popped(t) /\ ~Listed(t) /\ ~Sent(t) /\ t \notin uniques
  BY DEF Things, Apart, Somewhere, RecordersTypeOK
<1>6. Apart'
  <2> SUFFICES ASSUME NEW t \in Thing
               PROVE  /\ Popped(t)' => ~Listed(t)' /\ ~Sent(t)' /\ t \notin uniques'
                      /\ Listed(t)' => ~Sent(t)' /\ t \notin uniques'
                      /\ Sent(t)' => t \notin uniques'
                      /\ \A c, d \in Pushes' : In(c.items, t) /\ In(d.items, t) => c = d
                      /\ Somewhere(t)' => t \in tracked'.things
                      /\ lost' = 0 /\ t \in tracked'.things => Somewhere(t)'
    BY DEF Apart
  <2>0. Apart
    BY DEF Things
  <2>1. Popped(t)' => ~Listed(t)' /\ ~Sent(t)' /\ t \notin uniques'
    BY <2>0, <1>2, <1>3, <1>4, <1>5 DEF Apart
  <2>2. Listed(t)' => ~Sent(t)' /\ t \notin uniques'
    BY <2>0, <1>2, <1>3, <1>4, <1>5 DEF Apart
  <2>3. Sent(t)' => t \notin uniques'
    BY <2>0, <1>3, <1>5 DEF Apart
  <2>4. ASSUME NEW c \in Pushes', NEW d \in Pushes', In(c.items, t), In(d.items, t)
        PROVE  c = d
    <3>1. CASE t \in U
      BY <2>4, <3>1, <1>1, <1>4 DEF Sent
    <3>2. CASE t \notin U
      BY <2>4, <3>2, <1>1, <2>0 DEF Apart
    <3>. QED
      BY <3>1, <3>2
  <2>5. Somewhere(t)' => t \in tracked'.things
    BY <2>0, <1>2, <1>3 DEF Apart, Somewhere
  <2>6. ASSUME lost' = 0, t \in tracked'.things PROVE Somewhere(t)'
    <3>1. sent \/ U = {}
      BY <2>6 DEF RecordersTypeOK
    <3>2. Somewhere(t) \/ t \in N
      BY <2>0, <2>6 DEF Apart
    <3>. QED
      BY <3>1, <3>2, <1>2, <1>3 DEF Somewhere
  <2>. QED
    BY <2>1, <2>2, <2>3, <2>4, <2>5, <2>6
<1>7. Orderly'
  <2>1. \A c \in Pushes' : c.key \in Lists /\ NoDup(c.items) /\ \A t : In(c.items, t) => ListOf[t] = c.key
    BY <1>1 DEF Things, Orderly
  <2>2. \A t \in uniques' : ListOf[t] = "uniqueKeys"
    BY DEF Things, Orderly
  <2>. QED
    BY <2>1, <2>2 DEF Things, Orderly
<1>8. Reading'
  <2> SUFFICES ASSUME popping.from \in Lists PROVE Reading'
    BY DEF Reading
  <2>1. \A t : In(popping.items, t) => t \in tracked.things
    BY DEF Things, Reading
  <2>2. \A t : In(popping.items, t) /\ ~Somewhere(t) => ~Somewhere(t)'
    BY <2>1, <1>2, <1>3 DEF Somewhere
  <2>. QED
    BY <2>1, <2>2 DEF Things, Reading
<1>. QED
  BY <1>6, <1>7, <1>8 DEF Things

LEMMA AtMostTransitive ==
  ASSUME NEW a \in Num, NEW k \in Num
  PROVE  /\ AtMost(a, a)
         /\ \A b \in Num : AtMost(b, a) => AtMost(b, Plus(a, k))
         /\ \A b \in Num : AtMost(b, a) /\ b = Plus(a, k) => k = Zero
<1>1. AtMost(a, a)
  BY DEF AtMost, Num
<1>2. ASSUME NEW b \in Num, AtMost(b, a) PROVE AtMost(b, Plus(a, k))
  <2>1. \A f \in Field : b[f] \in Nat /\ a[f] \in Nat /\ k[f] \in Nat /\ b[f] <= a[f]
    BY <1>2 DEF AtMost, Num
  <2>2. \A f \in Field : b[f] <= a[f] + k[f]
    BY <2>1
  <2>. QED
    BY <2>2 DEF AtMost, Plus
<1>3. ASSUME NEW b \in Num, AtMost(b, a), b = Plus(a, k) PROVE k = Zero
  <2>1. \A f \in Field : a[f] \in Nat /\ k[f] \in Nat /\ a[f] + k[f] <= a[f]
    BY <1>3 DEF AtMost, Num, Plus
  <2>2. \A f \in Field : k[f] = 0
    BY <2>1
  <2>3. k = [f \in Field |-> k[f]]
    BY DEF Num
  <2>. QED
    BY <2>2, <2>3 DEF Zero
<1>. QED
  BY <1>1, <1>2, <1>3

LEMMA CommandsCounted ==
  ASSUME RecordersTypeOK
  PROVE  \A f \in Field : /\ \A c \in running : c.cmd = "incr" => c.counts[f] \in Nat
                          /\ Cardinality(Increments(running, f)) \in Nat
                          /\ counts[f] \in Nat /\ tracked.counts[f] \in Nat /\ Pending(f) \in Nat
                          /\ Stored(f) \in Nat
<1> SUFFICES ASSUME NEW f \in Field
             PROVE  /\ \A c \in running : c.cmd = "incr" => c.counts[f] \in Nat
                    /\ Cardinality(Increments(running, f)) \in Nat
                    /\ counts[f] \in Nat /\ tracked.counts[f] \in Nat /\ Pending(f) \in Nat
                    /\ Stored(f) \in Nat
  OBVIOUS
<1>1. \A c \in running : c.counts[f] \in Nat
  BY DEF RecordersTypeOK, Commands, Num
<1>2. Cardinality(Increments(running, f)) \in Nat
  BY <1>1, IncrementsFinite, FS_CardinalityType DEF RecordersTypeOK
<1>3. counts[f] \in Nat /\ tracked.counts[f] \in Nat /\ popped.counts[f] \in Nat
  BY DEF RecordersTypeOK, Num
<1>4. kept.hashes["counts"][f] \in Nat /\ kept.hashes["latencies"][f] \in Nat
  BY DEF RecordersTypeOK, Num, Hashes
<1>. QED
  BY <1>1, <1>2, <1>3, <1>4 DEF Pending, Stored

\* Numbers that are only gathered.
LEMMA NumbersGathered ==
  ASSUME Numbers, RecordersTypeOK, RecordersTypeOK', NEW f \in Field,
         counts' = Plus(counts, One(f)), tracked'.counts = Plus(tracked.counts, One(f)),
         SameIncrements, kept' = kept, popped' = popped, clobbered' = clobbered, lost' = lost
  PROVE  Numbers'
<1>1. \A g : Increments(running', g) = Increments(running, g)
  BY IncrementsOfSame DEF SameIncrements
<1>2. \A g \in Field : Pending(g)' = Pending(g) + One(f)[g]
  <2> SUFFICES ASSUME NEW g \in Field PROVE Pending(g)' = Pending(g) + One(f)[g]
    OBVIOUS
  <2>1. counts'[g] = counts[g] + One(f)[g]
    BY DEF Plus
  <2>2. counts[g] \in Nat /\ One(f)[g] \in Nat /\ Cardinality(Increments(running, g)) \in Nat
    BY CommandsCounted, NumTypes DEF Num
  <2>. QED
    BY <1>1, <2>1, <2>2 DEF Pending
<1>3. Sums'
  <2> SUFFICES ASSUME lost = 0, ~clobbered, NEW g \in Field
               PROVE  Pending(g)' + Stored(g)' = tracked'.counts[g]
    BY DEF Sums
  <2>1. Pending(g) + Stored(g) = tracked.counts[g]
    BY DEF Numbers, Sums
  <2>2. tracked'.counts[g] = tracked.counts[g] + One(f)[g] /\ One(f)[g] \in Nat
    BY NumTypes DEF Plus, Num
  <2>3. Stored(g)' = Stored(g)
    BY DEF Stored
  <2>4. Pending(g) \in Nat /\ Stored(g) \in Nat
    BY CommandsCounted
  <2>. QED
    BY <1>2, <2>1, <2>2, <2>3, <2>4
<1>4. One(f) # Zero
  BY DEF One, Zero
<1>5. Distinct'
  <2>1. \A c \in running' : c.cmd = "incr" => c \in running /\ c.at \in Num
    BY DEF SameIncrements, RecordersTypeOK, Commands
  <2>2. tracked.counts \in Num
    BY DEF RecordersTypeOK
  <2>3. \A c \in running' : c.cmd = "incr" => c.key \in Hashes /\ AtMost(c.at, tracked.counts)
    BY <2>1 DEF Numbers, Distinct
  <2>4. \A c \in running' : c.cmd = "incr" =>
          AtMost(c.at, tracked'.counts) /\ c.at # tracked'.counts
    BY <2>1, <2>2, <2>3, <1>4, NumTypes, AtMostTransitive
  <2>. QED
    BY <2>1, <2>3, <2>4 DEF Numbers, Distinct
<1>. QED
  BY <1>3, <1>5 DEF Numbers

\* Numbers that are sent, those gathered before included, or lost.
LEMMA NumbersPosted ==
  ASSUME Numbers, RecordersTypeOK, RecordersTypeOK',
         NEW k \in Num, tracked'.counts = Plus(tracked.counts, k),
         NEW q, q.cmd = "incr", q.key \in Hashes, q.counts \in Num, q.at = tracked'.counts,
         \A f \in Field : counts'[f] + q.counts[f] = counts[f] + k[f],
         k # Zero \/ (q.key = "counts" /\ counts # Zero),
         q.key = "counts" => counts' = Zero,
         k = Zero => counts' = Zero,
         NEW sent \in BOOLEAN, sent \/ lost > 0,
         \A c : c.cmd = "incr" => (c \in running' <=> c \in running \/ (sent /\ c = q)),
         kept' = kept, popped' = popped, clobbered' = clobbered, lost' = lost
  PROVE  Numbers'
<1>1. tracked.counts \in Num /\ tracked'.counts \in Num
  BY NumTypes DEF RecordersTypeOK
<1>2. \A c \in running : c.cmd = "incr" =>
        /\ c.at \in Num /\ c.key \in Hashes
        /\ AtMost(c.at, tracked.counts) /\ AtMost(c.at, tracked'.counts)
        /\ c.at = tracked'.counts => k = Zero /\ c.at = tracked.counts
  <2> SUFFICES ASSUME NEW c \in running, c.cmd = "incr"
               PROVE  /\ c.at \in Num /\ c.key \in Hashes
                      /\ AtMost(c.at, tracked.counts) /\ AtMost(c.at, tracked'.counts)
                      /\ c.at = tracked'.counts => k = Zero /\ c.at = tracked.counts
    OBVIOUS
  <2>1. c.at \in Num /\ c.key \in Hashes /\ AtMost(c.at, tracked.counts)
    BY DEF Numbers, Distinct, RecordersTypeOK, Commands
  <2>2. AtMost(c.at, tracked'.counts) /\ (c.at = tracked'.counts => k = Zero)
    BY <2>1, <1>1, AtMostTransitive
  <2>3. k = Zero => tracked'.counts = tracked.counts
    <3>1. ASSUME k = Zero PROVE tracked'.counts = tracked.counts
      <4>1. \A f \in Field : tracked.counts[f] + 0 = tracked.counts[f]
        BY <1>1 DEF Num
      <4>2. tracked.counts = [f \in Field |-> tracked.counts[f]]
        BY <1>1 DEF Num
      <4>3. Plus(tracked.counts, k) = [f \in Field |-> tracked.counts[f] + 0]
        BY <3>1 DEF Plus, Zero
      <4>. QED
        BY <4>1, <4>2, <4>3
    <3>. QED
      BY <3>1
  <2>. QED
    BY <2>1, <2>2, <2>3
<1>3. q \notin running
  BY <1>2 DEF Numbers, Distinct
<1>4. Distinct'
  <2>1. ASSUME NEW c \in running', NEW d \in running', c.cmd = "incr", d.cmd = "incr",
               c.key = d.key, c.at = d.at
        PROVE  c = d
    <3>1. CASE c \in running /\ d \in running
      BY <2>1, <3>1 DEF Numbers, Distinct
    <3>2. \A e \in running : e.cmd = "incr" /\ e.at = q.at => e.key # q.key
      BY <1>2 DEF Numbers, Distinct
    <3>. QED
      BY <2>1, <3>1, <3>2
  <2>2. ASSUME NEW c \in running', c.cmd = "incr"
        PROVE  /\ c.key \in Hashes
               /\ AtMost(c.at, tracked'.counts)
               /\ c.key = "counts" /\ c.at = tracked'.counts => counts' = Zero
    <3>1. CASE c \in running
      BY <2>2, <3>1, <1>2
    <3>2. CASE c = q
      BY <3>2, <1>1, AtMostTransitive
    <3>. QED
      BY <2>2, <3>1, <3>2
  <2>. QED
    BY <2>1, <2>2 DEF Distinct
<1>5. Sums'
  <2> SUFFICES ASSUME lost = 0, ~clobbered, NEW f \in Field
               PROVE  Pending(f)' + Stored(f)' = tracked'.counts[f]
    BY DEF Sums
  <2>1. sent
    OBVIOUS
  <2>2. Increments(running', f) = Increments(running \cup {q}, f)
    BY <2>1, IncrementsOfSame
  <2>3. Cardinality(Increments(running \cup {q}, f)) = Cardinality(Increments(running, f)) + q.counts[f]
    <3>1. q.counts[f] \in Nat
      BY DEF Num
    <3>2. \A c \in running : c.cmd = "incr" => c.counts[f] \in Nat
      BY CommandsCounted
    <3>3. IsFiniteSet(running)
      BY DEF RecordersTypeOK
    <3>. QED
      BY <1>3, <3>1, <3>2, <3>3, IncrementsAdd
  <2>4. Pending(f) + Stored(f) = tracked.counts[f]
    BY DEF Numbers, Sums
  <2>5. Stored(f)' = Stored(f)
    BY DEF Stored
  <2>6. /\ Stored(f) \in Nat /\ counts[f] \in Nat /\ counts'[f] \in Nat /\ k[f] \in Nat /\ q.counts[f] \in Nat
        /\ Cardinality(Increments(running, f)) \in Nat
    BY CommandsCounted DEF Num, RecordersTypeOK
  <2>7. tracked'.counts[f] = tracked.counts[f] + k[f]
    BY DEF Plus
  <2>8. counts'[f] + q.counts[f] = counts[f] + k[f]
    OBVIOUS
  <2>9. Pending(f)' = counts'[f] + (Cardinality(Increments(running, f)) + q.counts[f])
    BY <2>2, <2>3 DEF Pending
  <2>10. Pending(f) = counts[f] + Cardinality(Increments(running, f))
    BY DEF Pending
  <2>. QED
    BY <2>4, <2>5, <2>6, <2>7, <2>8, <2>9, <2>10
<1>. QED
  BY <1>4, <1>5 DEF Numbers

-----------------------------------------------------------------------------
\* What a client does
LEMMA ToSetOfFew ==
  ASSUME NEW X, NEW x \in X, NEW y \in X
  PROVE  /\ ToSet(<<>>) = {}
         /\ ToSet(<<x>>) = {x}
         /\ ToSet(<<>> \o <<>>) = {}
         /\ ToSet(<<x>> \o <<>>) = {x}
         /\ ToSet(<<>> \o <<y>>) = {y}
         /\ ToSet(<<x>> \o <<y>>) = {x, y}
<1>1. <<>> \o <<>> = <<>> /\ <<x>> \o <<>> = <<x>> /\ <<>> \o <<y>> = <<y>>
  OBVIOUS
<1>2. ToSet(<<x>> \o <<y>>) = {x, y}
  <2> DEFINE s == <<x>> \o <<y>>
  <2>1. <<x>> \in Seq(X) /\ <<y>> \in Seq(X) /\ Len(<<x>>) = 1 /\ Len(<<y>>) = 1
    OBVIOUS
  <2>2. s \in Seq(X) /\ Len(s) = 2 /\ s[1] = x /\ s[2] = y
    BY <2>1
  <2>3. DOMAIN s = {1, 2}
    BY <2>2
  <2>. QED
    BY <2>2, <2>3 DEF ToSet
<1>3. ToSet(<<>>) = {}
  BY DEF ToSet
<1>4. \A z : ToSet(<<z>>) = {z}
  BY DEF ToSet
<1>. QED
  BY <1>1, <1>2, <1>3, <1>4

LEMMA CountsOne ==
  ASSUME NEW c \in [things : SUBSET Thing, counts : Num], NEW f \in Field
  PROVE  /\ [c EXCEPT !.counts[f] = @ + 1].counts = Plus(c.counts, One(f))
         /\ [c EXCEPT !.counts[f] = @ + 1].things = c.things
         /\ [c EXCEPT !.counts[f] = @ + 1] \in [things : SUBSET Thing, counts : Num]
<1>1. [c EXCEPT !.counts[f] = @ + 1].counts = [c.counts EXCEPT ![f] = @ + 1]
  OBVIOUS
<1>2. [c.counts EXCEPT ![f] = @ + 1] = Plus(c.counts, One(f))
  <2>1. c.counts \in [Field -> Nat]
    BY DEF Num
  <2>2. \A g \in Field : One(f)[g] = IF g = f THEN 1 ELSE 0
    BY DEF One, Zero
  <2>3. \A g \in Field : [c.counts EXCEPT ![f] = @ + 1][g] = c.counts[g] + One(f)[g]
    BY <2>1, <2>2
  <2>. QED
    BY <2>1, <2>3 DEF Plus
<1>3. Plus(c.counts, One(f)) \in Num
  BY NumTypes
<1>. QED
  BY <1>1, <1>2, <1>3

LEMMA PlusOneIsSome ==
  ASSUME NEW a \in Num, NEW f \in Field
  PROVE  Plus(a, One(f)) # Zero /\ One(f) # Zero
<1>1. a[f] \in Nat
  BY DEF Num
<1>2. Plus(a, One(f))[f] = a[f] + 1
  BY DEF Plus, One, Zero
<1>. QED
  BY <1>1, <1>2 DEF One, Zero

LEMMA IncrIsCommand ==
  ASSUME NEW h \in Hashes, NEW n \in Num, tracked'.counts \in Num
  PROVE  /\ HashIncr(h, n) \in Commands
         /\ HashIncr(h, n).cmd = "incr" /\ HashIncr(h, n).key = h /\ HashIncr(h, n).counts = n
         /\ HashIncr(h, n).at = tracked'.counts
BY DEF HashIncr, Command, Commands

LEMMA PushIsCommand ==
  ASSUME NEW l \in Lists, NEW U \in SUBSET Thing
  PROVE  /\ Push(l, SetToSeq(U)) \in Commands
         /\ Push(l, SetToSeq(U)).cmd = "push" /\ Push(l, SetToSeq(U)).key = l
         /\ NoDup(Push(l, SetToSeq(U)).items)
         /\ \A t : In(Push(l, SetToSeq(U)).items, t) <=> t \in U
<1>1. IsFiniteSet(U)
  BY AsyncRecordersAssumption, FS_Subset
<1>2. Push(l, SetToSeq(U)).items = SetToSeq(U)
  BY DEF Push, Command
<1>3. SetToSeq(U) \in Seq(Thing) /\ NoDup(SetToSeq(U)) /\ \A t : In(SetToSeq(U), t) <=> t \in U
  BY <1>1, SetToSeqLists
<1>. QED
  BY <1>2, <1>3, NumTypes DEF Push, Command, Commands

\* Until destroy a command is sent, unless the connection is lost.
LEMMA ClientSends ==
  ASSUME RecordersInv, ending = "no"
  PROVE  conn # "closed" /\ (conn \in {"ready", "connecting"} \/ lost > 0)
BY DEF RecordersInv, Connected, RecordersTypeOK

LEMMA ClientConnected ==
  ASSUME Connected, ending = "no", ending' = "no", conn' = conn, store' = store, lost' = lost
  PROVE  Connected'
BY DEF Connected

LEMMA ClientTypes ==
  ASSUME RecordersTypeOK, aside' = aside, ending' = ending, counts' \in Num, uniques' \in SUBSET Thing,
         tracked' \in [things : SUBSET Thing, counts : Num],
         NEW Q \in SUBSET Commands, IsFiniteSet(Q), running' = running \cup Q
  PROVE  RecordersTypeOK'
<1>1. IsFiniteSet(running')
  BY FS_Union DEF RecordersTypeOK
<1>. QED
  BY <1>1 DEF RecordersTypeOK, aside

LEMMA TrackCountKeeps ==
  ASSUME RecordersInv, NEW f \in Feature, TrackCount(f)
  PROVE  RecordersInv'
<1> DEFINE c == Plus(counts, One(f))
           full == Total(c) >= QueueSize
           q == HashIncr("counts", c)
           sent == conn \in {"ready", "connecting"}
<1>0. RecordersTypeOK /\ Things /\ Numbers /\ Connected /\ ending = "no" /\ ending' = "no" /\ aside' = aside
      /\ uniques' = uniques /\ f \in Field
  BY DEF RecordersInv, TrackCount, Recording, Field
<1>1. tracked'.counts = Plus(tracked.counts, One(f)) /\ tracked'.things = tracked.things
      /\ tracked' \in [things : SUBSET Thing, counts : Num]
  BY <1>0, CountsOne DEF TrackCount, RecordersTypeOK
<1>2. c \in Num /\ One(f) \in Num /\ Zero \in Num /\ c # Zero /\ One(f) # Zero /\ tracked'.counts \in Num
  BY <1>0, <1>1, NumTypes, PlusOneIsSome DEF RecordersTypeOK
<1>3. /\ q \in Commands /\ q.cmd = "incr" /\ q.key = "counts" /\ q.counts = c /\ q.at = tracked'.counts
  BY <1>2, IncrIsCommand DEF Hashes
<1>4. running' = running \cup (IF full /\ sent THEN {q} ELSE {}) /\ counts' = IF full THEN Zero ELSE c
  <2>1. Issue(IF full THEN <<q>> ELSE <<>>) /\ counts' = IF full THEN Zero ELSE c
    BY <1>2 DEF TrackCount, CountsPost
  <2>2. ToSet(<<q>>) = {q} /\ ToSet(<<>>) = {}
    BY ToSetOfFew
  <2>. QED
    BY <2>1, <2>2 DEF Issue
<1>5. RecordersTypeOK'
  <2>1. IsFiniteSet({q}) /\ IsFiniteSet({})
    BY FS_Singleton, FS_EmptySet
  <2>2. uniques' \in SUBSET Thing /\ counts' \in Num
    BY <1>0, <1>2, <1>4 DEF RecordersTypeOK
  <2>. QED
    BY <1>0, <1>1, <1>3, <1>4, <2>1, <2>2, ClientTypes
<1>6. Things'
  <2>1. SamePushes
    BY <1>3, <1>4 DEF SamePushes
  <2>2. lost' >= lost
    BY <1>0 DEF aside, RecordersTypeOK
  <2>. QED
    BY <1>0, <1>1, <1>5, <2>1, <2>2, ThingsFrame DEF aside
<1>7. Numbers'
  <2>1. CASE full
    <3>1. \A g \in Field : counts'[g] + q.counts[g] = counts[g] + One(f)[g]
      <4>1. \A g \in Field : counts'[g] = 0 /\ q.counts[g] = counts[g] + One(f)[g] /\ q.counts[g] \in Nat
        BY <2>1, <1>2, <1>3, <1>4 DEF Plus, Zero, Num
      <4>. QED
        BY <4>1
    <3>2. \A d : d.cmd = "incr" => (d \in running' <=> d \in running \/ (sent /\ d = q))
      BY <2>1, <1>4
    <3>3. sent \/ lost > 0
      BY <1>0, ClientSends
    <3>4. kept' = kept /\ popped' = popped /\ clobbered' = clobbered /\ lost' = lost
      BY <1>0 DEF aside
    <3>5. sent \in BOOLEAN /\ q.key \in Hashes /\ q.counts \in Num /\ counts' = Zero
      BY <2>1, <1>2, <1>3, <1>4 DEF Hashes
    <3> HIDE DEF q, sent, c
    <3>. QED
      BY <1>0, <1>1, <1>2, <1>3, <1>5, <3>1, <3>2, <3>3, <3>4, <3>5, NumbersPosted
  <2>2. CASE ~full
    <3>1. SameIncrements
      BY <2>2, <1>4 DEF SameIncrements
    <3>. QED
      BY <2>2, <3>1, <1>0, <1>1, <1>4, <1>5, NumbersGathered DEF aside
  <2>. QED
    BY <2>1, <2>2
<1>8. Connected'
  BY <1>0, ClientConnected DEF aside
<1>. QED
  BY <1>5, <1>6, <1>7, <1>8 DEF RecordersInv

LEMMA RecordLatencyKeeps ==
  ASSUME RecordersInv, RecordLatency
  PROVE  RecordersInv'
<1> DEFINE k == One("latency")
           q == HashIncr("latencies", k)
           sent == conn \in {"ready", "connecting"}
<1>0. RecordersTypeOK /\ Things /\ Numbers /\ Connected /\ ending = "no" /\ ending' = "no" /\ aside' = aside
      /\ uniques' = uniques /\ counts' = counts /\ "latency" \in Field
  BY DEF RecordersInv, RecordLatency, Recording, Field
<1>1. tracked'.counts = Plus(tracked.counts, k) /\ tracked'.things = tracked.things
      /\ tracked' \in [things : SUBSET Thing, counts : Num]
  BY <1>0, CountsOne DEF RecordLatency, RecordersTypeOK
<1>2. k \in Num /\ counts \in Num /\ k # Zero /\ tracked'.counts \in Num
  BY <1>0, <1>1, NumTypes, PlusOneIsSome DEF RecordersTypeOK
<1>3. q \in Commands /\ q.cmd = "incr" /\ q.key = "latencies" /\ q.counts = k /\ q.at = tracked'.counts
  BY <1>2, IncrIsCommand DEF Hashes
<1>4. running' = running \cup (IF sent THEN {q} ELSE {})
  <2>1. Issue(<<q>>)
    BY DEF RecordLatency
  <2>2. ToSet(<<q>>) = {q}
    BY ToSetOfFew
  <2>. QED
    BY <2>1, <2>2 DEF Issue
<1>5. RecordersTypeOK'
  <2>1. IsFiniteSet({q}) /\ IsFiniteSet({})
    BY FS_Singleton, FS_EmptySet
  <2>2. uniques' \in SUBSET Thing /\ counts' \in Num
    BY <1>0, <1>2 DEF RecordersTypeOK
  <2>. QED
    BY <1>0, <1>1, <1>3, <1>4, <2>1, <2>2, ClientTypes
<1>6. Things'
  <2>1. SamePushes
    BY <1>3, <1>4 DEF SamePushes
  <2>2. lost' >= lost
    BY <1>0 DEF aside, RecordersTypeOK
  <2>. QED
    BY <1>0, <1>1, <1>5, <2>1, <2>2, ThingsFrame DEF aside
<1>7. Numbers'
  <2>1. \A g \in Field : counts'[g] + q.counts[g] = counts[g] + k[g]
    BY <1>0, <1>3
  <2>2. \A d : d.cmd = "incr" => (d \in running' <=> d \in running \/ (sent /\ d = q))
    BY <1>4
  <2>3. sent \/ lost > 0
    BY <1>0, ClientSends
  <2>4. kept' = kept /\ popped' = popped /\ clobbered' = clobbered /\ lost' = lost
    BY <1>0 DEF aside
  <2>5. sent \in BOOLEAN /\ q.key \in Hashes /\ q.counts \in Num /\ (q.key = "counts" => counts' = Zero)
    BY <1>2, <1>3 DEF Hashes
  <2> HIDE DEF q, sent, k
  <2>. QED
    BY <1>0, <1>1, <1>2, <1>3, <1>5, <2>1, <2>2, <2>3, <2>4, <2>5, NumbersPosted
<1>8. Connected'
  BY <1>0, ClientConnected DEF aside
<1>. QED
  BY <1>5, <1>6, <1>7, <1>8 DEF RecordersInv

LEMMA PlusZero == ASSUME NEW a \in Num PROVE Plus(a, Zero) = a
<1>1. \A f \in Field : a[f] + 0 = a[f]
  BY DEF Num
<1>2. a = [f \in Field |-> a[f]]
  BY DEF Num
<1>3. Plus(a, Zero) = [f \in Field |-> a[f] + 0]
  BY DEF Plus, Zero
<1>. QED
  BY <1>1, <1>2, <1>3

LEMMA CountsPosted ==
  ASSUME RecordersInv, RecordersTypeOK', ending = "no", counts' = Zero, tracked' = tracked,
         NEW R \in SUBSET Commands, \A c \in R : c.cmd = "push",
         running' = running \cup (IF conn \in {"ready", "connecting"} THEN ToSet(CountsPost(counts)) \cup R ELSE {}),
         kept' = kept, popped' = popped, clobbered' = clobbered, lost' = lost
  PROVE  Numbers'
<1> DEFINE q == HashIncr("counts", counts)
           sent == conn \in {"ready", "connecting"}
<1>0. RecordersTypeOK /\ Numbers /\ counts \in Num /\ tracked'.counts \in Num
  BY DEF RecordersInv, RecordersTypeOK
<1>1. CASE counts = Zero
  <2>1. ToSet(CountsPost(counts)) = {}
    BY <1>1, ToSetOfFew DEF CountsPost
  <2>2. SameIncrements
    BY <2>1 DEF SameIncrements
  <2>3. lost' >= lost
    BY <1>0 DEF RecordersTypeOK
  <2>. QED
    BY <1>0, <1>1, <2>2, <2>3, NumbersFrame
<1>2. CASE counts # Zero
  <2>1. ToSet(CountsPost(counts)) = {q}
    BY <1>2, ToSetOfFew DEF CountsPost
  <2>2. q.cmd = "incr" /\ q.key = "counts" /\ q.counts = counts /\ q.at = tracked'.counts
    BY <1>0, IncrIsCommand DEF Hashes
  <2>3. tracked'.counts = Plus(tracked.counts, Zero)
    BY <1>0, PlusZero
  <2>4. \A f \in Field : counts'[f] + q.counts[f] = counts[f] + Zero[f]
    <3>1. \A f \in Field : counts[f] \in Nat /\ counts'[f] = 0 /\ Zero[f] = 0
      BY <1>0 DEF Num, Zero
    <3>. QED
      BY <2>2, <3>1
  <2>5. \A d : d.cmd = "incr" => (d \in running' <=> d \in running \/ (sent /\ d = q))
    BY <2>1, <2>2
  <2>6. sent \/ lost > 0
    BY ClientSends
  <2>7. sent \in BOOLEAN /\ q.key \in Hashes /\ q.counts \in Num /\ Zero \in Num
    BY <1>0, <2>2, NumTypes DEF Hashes
  <2> HIDE DEF q, sent
  <2>. QED
    BY <1>0, <1>2, <2>2, <2>3, <2>4, <2>5, <2>6, <2>7, NumbersPosted
<1>. QED
  BY <1>1, <1>2

LEMMA PostCountsKeeps ==
  ASSUME RecordersInv, PostCounts
  PROVE  RecordersInv'
<1> DEFINE q == HashIncr("counts", counts)
           Q == IF conn \in {"ready", "connecting"} THEN {q} ELSE {}
<1>0. RecordersTypeOK /\ Things /\ Numbers /\ Connected /\ ending' = ending /\ aside' = aside /\ tracked' = tracked
      /\ uniques' = uniques /\ counts' = Zero
  BY DEF RecordersInv, PostCounts
<1>1. ending = "no"
  BY <1>0 DEF Connected, PostCounts, RecordersTypeOK
<1>2. counts \in Num /\ Zero \in Num /\ tracked'.counts \in Num
  BY <1>0, NumTypes DEF RecordersTypeOK
<1>3. q \in Commands /\ q.cmd = "incr"
  BY <1>2, IncrIsCommand DEF Hashes
<1>4. ToSet(CountsPost(counts)) = {q}
  BY ToSetOfFew DEF CountsPost, PostCounts
<1>5. running' = running \cup Q
  BY <1>4 DEF PostCounts, Issue
<1>6. RecordersTypeOK'
  <2>1. IsFiniteSet(Q) /\ Q \in SUBSET Commands
    BY <1>3, FS_Singleton, FS_EmptySet
  <2>2. uniques' \in SUBSET Thing /\ counts' \in Num /\ tracked' \in [things : SUBSET Thing, counts : Num]
    BY <1>0, <1>2 DEF RecordersTypeOK
  <2> HIDE DEF Q
  <2>. QED
    BY <1>0, <1>5, <2>1, <2>2, ClientTypes
<1>7. Things'
  <2>1. SamePushes
    BY <1>3, <1>5 DEF SamePushes
  <2>2. lost' >= lost
    BY <1>0 DEF aside, RecordersTypeOK
  <2>. QED
    BY <1>0, <1>6, <2>1, <2>2, ThingsFrame DEF aside
<1>8. Numbers'
  <2>1. running' = running \cup (IF conn \in {"ready", "connecting"} THEN ToSet(CountsPost(counts)) \cup {} ELSE {})
    BY <1>4, <1>5
  <2>2. kept' = kept /\ popped' = popped /\ clobbered' = clobbered /\ lost' = lost
    BY <1>0 DEF aside
  <2>3. {} \in SUBSET Commands /\ \A c \in {} : c.cmd = "push"
    OBVIOUS
  <2>. QED
    BY <1>0, <1>1, <1>6, <2>1, <2>2, <2>3, CountsPosted
<1>9. Connected'
  BY <1>0, <1>1, ClientConnected DEF aside
<1>. QED
  BY <1>6, <1>7, <1>8, <1>9 DEF RecordersInv

\* Things that are sent at once, or gathered and sent when there are enough.
Tracks(N, U, list) ==
  /\ N \in SUBSET Thing /\ N \cap tracked.things = {} /\ tracked' = [tracked EXCEPT !.things = @ \cup N]
  /\ U \in SUBSET (uniques \cup N) /\ uniques' = (uniques \cup N) \ U
  /\ list \in Lists /\ \A t \in U : ListOf[t] = list
  /\ \A t \in N \ U : ListOf[t] = "uniqueKeys"
  /\ Issue(IF U = {} THEN <<>> ELSE <<Push(list, SetToSeq(U))>>)

LEMMA ThingsTracked ==
  ASSUME RecordersInv, ending = "no", ending' = ending, aside' = aside, counts' = counts,
         NEW N, NEW U, NEW list, Tracks(N, U, list)
  PROVE  RecordersInv'
<1> USE DEF Tracks
<1> DEFINE p == Push(list, SetToSeq(U))
           sent == conn \in {"ready", "connecting"} /\ U # {}
<1>0. RecordersTypeOK /\ Things /\ Numbers /\ Connected /\ U \in SUBSET Thing
  BY DEF RecordersInv, RecordersTypeOK
<1>1. /\ p \in Commands /\ p.cmd = "push" /\ p.key = list /\ NoDup(p.items)
      /\ \A t : In(p.items, t) <=> t \in U
  BY <1>0, PushIsCommand
<1>2. running' = running \cup (IF sent THEN {p} ELSE {})
  <2>1. ToSet(<<p>>) = {p} /\ ToSet(<<>>) = {}
    BY ToSetOfFew
  <2>. QED
    BY <2>1 DEF Issue
<1>3. /\ tracked'.things = tracked.things \cup N /\ tracked'.counts = tracked.counts
      /\ tracked' \in [things : SUBSET Thing, counts : Num]
  BY <1>0 DEF RecordersTypeOK
<1>4. RecordersTypeOK'
  <2>1. IsFiniteSet({p}) /\ IsFiniteSet({})
    BY FS_Singleton, FS_EmptySet
  <2>2. uniques' \in SUBSET Thing /\ counts' \in Num
    BY <1>0 DEF RecordersTypeOK
  <2>. QED
    BY <1>0, <1>1, <1>2, <1>3, <2>1, <2>2, ClientTypes
<1>5. Things'
  <2>1. \A c : c.cmd = "push" => (c \in running' <=> c \in running \/ (sent /\ c = p))
    BY <1>2
  <2>2. sent \/ lost > 0 \/ U = {}
    BY ClientSends
  <2>3. popped' = popped /\ kept' = kept /\ lost' = lost /\ popping' = popping /\ store' = store /\ sent \in BOOLEAN
    BY DEF aside
  <2>4. p.key \in Lists /\ \A t \in U : ListOf[t] = p.key
    BY <1>1
  <2> HIDE DEF p, sent
  <2>. QED
    <3>1. Moved(N, U, p, sent)
      BY <1>0, <1>1, <1>3, <2>1, <2>2, <2>3, <2>4 DEF Moved
    <3>. QED
      BY <1>0, <1>4, <3>1, ThingsMoved
<1>6. Numbers'
  <2>1. SameIncrements
    BY <1>1, <1>2 DEF SameIncrements
  <2>2. lost' >= lost
    BY <1>0 DEF aside, RecordersTypeOK
  <2>. QED
    BY <1>0, <1>3, <1>4, <2>1, <2>2, NumbersFrame DEF aside
<1>7. Connected'
  BY <1>0, ClientConnected DEF aside
<1>. QED
  BY <1>4, <1>5, <1>6, <1>7 DEF RecordersInv

LEMMA TrackUniqueKeeps ==
  ASSUME RecordersInv, NEW t \in Thing, TrackUnique(t)
  PROVE  RecordersInv'
<1> DEFINE u == uniques \cup {t}
           full == Cardinality(u) >= QueueSize
           U == IF full THEN u ELSE {}
<1>1. ending = "no" /\ ending' = ending /\ aside' = aside /\ counts' = counts
  BY DEF TrackUnique, Recording
<1>2. {t} \in SUBSET Thing /\ {t} \cap tracked.things = {} /\ tracked' = [tracked EXCEPT !.things = @ \cup {t}]
  BY DEF TrackUnique
<1>3. U \in SUBSET (uniques \cup {t}) /\ uniques' = (uniques \cup {t}) \ U
  BY DEF TrackUnique
<1>4. "uniqueKeys" \in Lists /\ (\A x \in U : ListOf[x] = "uniqueKeys") /\ (\A x \in {t} \ U : ListOf[x] = "uniqueKeys")
  BY DEF TrackUnique, Lists, RecordersInv, Things, Orderly
<1>5. Issue(IF U = {} THEN <<>> ELSE <<Push("uniqueKeys", SetToSeq(U))>>)
  BY DEF TrackUnique, UniquesPost
<1> HIDE DEF U
<1>. QED
  <2>1. Tracks({t}, U, "uniqueKeys")
    BY <1>2, <1>3, <1>4, <1>5 DEF Tracks
  <2>. QED
    BY <1>1, <2>1, ThingsTracked

LEMMA TrackKeeps ==
  ASSUME RecordersInv, NEW l \in {"impressions", "events"}, NEW S \in SUBSET Untracked(l), Track(S, l)
  PROVE  RecordersInv'
<1>1. ending = "no" /\ ending' = ending /\ aside' = aside /\ counts' = counts /\ uniques' = uniques /\ S # {}
  BY DEF Track, Recording
<1>2. /\ S \in SUBSET Thing /\ S \cap tracked.things = {} /\ tracked' = [tracked EXCEPT !.things = @ \cup S]
      /\ \A x \in S : ListOf[x] = l
  BY DEF Track, Untracked
<1>3. S \in SUBSET (uniques \cup S) /\ uniques' = (uniques \cup S) \ S
  BY <1>1, <1>2 DEF RecordersInv, Things, Apart, Somewhere
<1>4. l \in Lists /\ S \ S = {}
  BY DEF Lists
<1>5. Issue(IF S = {} THEN <<>> ELSE <<Push(l, SetToSeq(S))>>)
  BY <1>1 DEF Track
<1>. QED
  <2>1. Tracks(S, S, l)
    BY <1>2, <1>3, <1>4, <1>5 DEF Tracks
  <2>. QED
    BY <1>1, <2>1, ThingsTracked

LEMMA PostUniquesKeeps ==
  ASSUME RecordersInv, PostUniques
  PROVE  RecordersInv'
<1>1. ending = "no"
  BY DEF PostUniques, RecordersInv, Connected, RecordersTypeOK
<1>2. ending' = ending /\ aside' = aside /\ counts' = counts /\ uniques # {} /\ uniques' = {} /\ tracked' = tracked
  BY DEF PostUniques
<1>3. {} \in SUBSET Thing /\ {} \cap tracked.things = {}
  OBVIOUS
<1>4. tracked' = [tracked EXCEPT !.things = @ \cup {}]
  BY <1>2 DEF RecordersInv, RecordersTypeOK
<1>5. uniques \in SUBSET (uniques \cup {}) /\ uniques' = (uniques \cup {}) \ uniques
  BY <1>2
<1>6. "uniqueKeys" \in Lists /\ (\A x \in uniques : ListOf[x] = "uniqueKeys") /\ {} \ uniques = {}
  BY DEF Lists, RecordersInv, Things, Orderly
<1>7. Issue(IF uniques = {} THEN <<>> ELSE <<Push("uniqueKeys", SetToSeq(uniques))>>)
  BY DEF PostUniques, UniquesPost
<1>8. \A x \in {} \ uniques : ListOf[x] = "uniqueKeys"
  OBVIOUS
<1>. QED
  <2>1. Tracks({}, uniques, "uniqueKeys")
    BY <1>3, <1>4, <1>5, <1>6, <1>7, <1>8 DEF Tracks
  <2>. QED
    BY <1>1, <1>2, <2>1, ThingsTracked

LEMMA DestroyKeeps ==
  ASSUME RecordersInv, Destroy
  PROVE  RecordersInv'
<1> DEFINE q == HashIncr("counts", counts)
           p == Push("uniqueKeys", SetToSeq(uniques))
           R == IF uniques = {} THEN {} ELSE {p}
           Q == ToSet(CountsPost(counts)) \cup R
           sends == conn \in {"ready", "connecting"}
           sent == sends /\ uniques # {}
<1>0. /\ RecordersTypeOK /\ Things /\ Numbers /\ Connected /\ ending = "no" /\ ending' = "flushing"
      /\ aside' = aside /\ tracked' = tracked /\ uniques' = {} /\ counts' = Zero
  BY DEF RecordersInv, Destroy
<1>1. counts \in Num /\ Zero \in Num /\ tracked'.counts \in Num /\ uniques \in SUBSET Thing
  BY <1>0, NumTypes DEF RecordersTypeOK
<1>2. /\ p \in Commands /\ p.cmd = "push" /\ p.key = "uniqueKeys" /\ NoDup(p.items)
      /\ \A t : In(p.items, t) <=> t \in uniques
  BY <1>1, PushIsCommand DEF Lists
<1>3. q \in Commands /\ q.cmd = "incr"
  BY <1>1, IncrIsCommand DEF Hashes
<1>4. ToSet(CountsPost(counts)) = IF counts = Zero THEN {} ELSE {q}
  BY ToSetOfFew DEF CountsPost
<1>5. ToSet(CountsPost(counts) \o UniquesPost(uniques)) = Q
  BY <1>2, <1>3, <1>4, ToSetOfFew DEF CountsPost, UniquesPost
<1>6. running' = running \cup (IF sends THEN Q ELSE {})
  BY <1>5 DEF Destroy, Issue
<1>7. RecordersTypeOK'
  <2>1. IsFiniteSet(Q) /\ Q \in SUBSET Commands
    <3>1. IsFiniteSet(R) /\ IsFiniteSet(ToSet(CountsPost(counts)))
      <4>1. IsFiniteSet({}) /\ IsFiniteSet({p}) /\ IsFiniteSet({q})
        BY FS_Singleton, FS_EmptySet
      <4> HIDE DEF p, q
      <4>. QED
        BY <1>4, <4>1
    <3>2. IsFiniteSet(Q)
      BY <3>1, FS_Union
    <3>. QED
      BY <1>2, <1>3, <1>4, <3>2
  <2>2. IsFiniteSet(running')
    <3> HIDE DEF Q
    <3>. QED
      BY <1>0, <1>6, <2>1, FS_Union DEF RecordersTypeOK
  <2>3. running' \in SUBSET Commands
    BY <1>0, <1>6, <2>1 DEF RecordersTypeOK
  <2>. QED
    BY <1>0, <1>1, <2>2, <2>3 DEF RecordersTypeOK, aside
<1>8. Things'
  <2>1. Moved({}, uniques, p, sent)
    <3>1. \A c : c.cmd = "push" => (c \in running' <=> c \in running \/ (sent /\ c = p))
      BY <1>2, <1>3, <1>4, <1>6
    <3>2. \A t \in uniques : ListOf[t] = p.key
      BY <1>0, <1>2 DEF Things, Orderly
    <3>3. sent \/ lost > 0 \/ uniques = {}
      BY <1>0, ClientSends
    <3>4. popped' = popped /\ kept' = kept /\ lost' = lost /\ popping' = popping /\ store' = store
      BY <1>0 DEF aside
    <3>5. tracked'.things = tracked.things \cup {} /\ uniques' = (uniques \cup {}) \ uniques /\ p.key \in Lists
      BY <1>0, <1>2 DEF Lists
    <3> HIDE DEF p
    <3>. QED
      BY <1>2, <3>1, <3>2, <3>3, <3>4, <3>5 DEF Moved
  <2>. QED
    BY <1>0, <1>7, <2>1, ThingsMoved
<1>9. Numbers'
  <2>1. running' = running \cup (IF conn \in {"ready", "connecting"} THEN ToSet(CountsPost(counts)) \cup R ELSE {})
    BY <1>6
  <2>2. kept' = kept /\ popped' = popped /\ clobbered' = clobbered /\ lost' = lost
    BY <1>0 DEF aside
  <2>3. R \in SUBSET Commands /\ \A c \in R : c.cmd = "push"
    BY <1>2
  <2> HIDE DEF R
  <2>. QED
    BY <1>0, <1>7, <2>1, <2>2, <2>3, CountsPosted
<1>10. Connected'
  BY <1>0 DEF Connected, aside
<1>. QED
  BY <1>7, <1>8, <1>9, <1>10 DEF RecordersInv

-----------------------------------------------------------------------------
\* What the connection does
LEMMA ConnectKeeps ==
  ASSUME RecordersInv, Connect
  PROVE  RecordersInv'
<1>1. /\ RecordersTypeOK /\ Things /\ Numbers /\ Connected
      /\ conn \in {"connecting", "down"} /\ conn' = "ready"
      /\ <<store, running, awaited, counts, uniques, kept, popping, popped, ending, tracked, clobbered, lost>>'
         = <<store, running, awaited, counts, uniques, kept, popping, popped, ending, tracked, clobbered, lost>>
  BY DEF RecordersInv, Connect
<1>2. RecordersTypeOK'
  BY <1>1 DEF RecordersTypeOK
<1>3. lost' >= lost
  BY <1>1 DEF RecordersTypeOK
<1>4. Things'
  BY <1>1, <1>2, <1>3, ThingsFrame DEF SamePushes
<1>5. Numbers'
  BY <1>1, <1>2, <1>3, NumbersFrame DEF SameIncrements
<1>6. Connected'
  BY <1>1 DEF Connected
<1>. QED
  BY <1>2, <1>4, <1>5, <1>6 DEF RecordersInv

\* Commands that are given up on, all or one of them, or repeated for nobody.
LEMMA CommandsDropped ==
  ASSUME RecordersInv, RecordersTypeOK', lost' > 0, lost' >= lost,
         \A c \in running' : c.cmd = "push" =>
           \E d \in running : d.cmd = "push" /\ d.key = c.key /\ d.items = c.items,
         \A c, d \in running' : c.cmd = "push" /\ d.cmd = "push" /\ c # d =>
           \E x, y \in running : /\ x.cmd = "push" /\ y.cmd = "push" /\ x # y
                                 /\ x.items = c.items /\ y.items = d.items,
         \A c \in running' : c.cmd = "incr" =>
           \E d \in running : d.cmd = "incr" /\ d.key = c.key /\ d.at = c.at,
         \A c, d \in running' : c.cmd = "incr" /\ d.cmd = "incr" /\ c # d =>
           \E x, y \in running : /\ x.cmd = "incr" /\ y.cmd = "incr" /\ x # y
                                 /\ x.key = c.key /\ x.at = c.at /\ y.key = d.key /\ y.at = d.at,
         counts' = counts, uniques' = uniques, kept' = kept, popping' = popping, popped' = popped,
         tracked' = tracked, clobbered' = clobbered, store' = store
  PROVE  Things' /\ Numbers'
<1>0. Apart /\ Orderly /\ Reading /\ Distinct
  BY DEF RecordersInv, Things, Numbers
<1>1. \A t : (Popped(t)' <=> Popped(t)) /\ (Listed(t)' <=> Listed(t)) /\ (Sent(t)' => Sent(t))
             /\ (Somewhere(t)' => Somewhere(t))
  BY DEF Popped, Listed, Sent, Somewhere, Pushes
<1>2. Apart'
  <2>1. ASSUME NEW t \in Thing, NEW c \in Pushes', NEW d \in Pushes', In(c.items, t), In(d.items, t)
        PROVE  c = d
    BY <1>0, <2>1 DEF Apart, Pushes
  <2>. QED
    BY <1>0, <1>1, <2>1 DEF Apart
<1>3. Orderly'
  BY <1>0 DEF Orderly, Pushes
<1>4. Reading'
  BY <1>0, <1>1 DEF Reading
<1>5. Distinct'
  <2>1. ASSUME NEW c \in running', NEW d \in running', c.cmd = "incr", d.cmd = "incr", c.key = d.key, c.at = d.at
        PROVE  c = d
    BY <1>0, <2>1 DEF Distinct
  <2>2. ASSUME NEW c \in running', c.cmd = "incr"
        PROVE  /\ c.key \in Hashes
               /\ AtMost(c.at, tracked'.counts)
               /\ c.key = "counts" /\ c.at = tracked'.counts => counts' = Zero
    BY <1>0, <2>2 DEF Distinct
  <2>. QED
    BY <2>1, <2>2 DEF Distinct
<1>6. Sums'
  BY DEF Sums, RecordersTypeOK
<1>. QED
  BY <1>2, <1>3, <1>4, <1>5, <1>6 DEF Things, Numbers

LEMMA DisconnectedKeeps ==
  ASSUME RecordersInv, Disconnected
  PROVE  RecordersInv'
<1>1. /\ RecordersTypeOK /\ Connected /\ running' = {} /\ lost' = lost + 1
      /\ \/ store = "pluggable" /\ conn = "connecting" /\ conn' = "failed"
         \/ store = "redis" /\ conn = "ready" /\ conn' = "down"
      /\ <<store, connects, awaited, intervals, counts, uniques, kept, popping, popped, ending, tracked, clobbered>>'
         = <<store, connects, awaited, intervals, counts, uniques, kept, popping, popped, ending, tracked, clobbered>>
  BY DEF RecordersInv, Disconnected
<1>2. RecordersTypeOK'
  BY <1>1, FS_EmptySet DEF RecordersTypeOK
<1>3. lost' > 0 /\ lost' >= lost
  BY <1>1 DEF RecordersTypeOK
<1>4. Things' /\ Numbers'
  BY <1>1, <1>2, <1>3, CommandsDropped
<1>5. Connected'
  BY <1>1, <1>3 DEF Connected
<1>. QED
  BY <1>2, <1>4, <1>5 DEF RecordersInv

LEMMA FailKeeps ==
  ASSUME RecordersInv, Fail
  PROVE  RecordersInv'
<1>1. /\ RecordersTypeOK /\ Connected /\ lost' = lost + 1 /\ unanswered' = unanswered /\ kept' = kept
      /\ Works
  BY DEF RecordersInv, Fail
<1>2. PICK c \in running :
        \/ running' = running \ {c}
        \/ store = "redis" /\ ~c.deaf /\ running' = (running \ {c}) \cup {[c EXCEPT !.deaf = TRUE]}
  BY DEF Fail
<1> DEFINE e == [c EXCEPT !.deaf = TRUE]
<1>3. c \in Commands /\ e \in Commands
  BY <1>1 DEF RecordersTypeOK, Commands
<1>4. e.cmd = c.cmd /\ e.key = c.key /\ e.items = c.items /\ e.at = c.at
  BY <1>3 DEF Commands
<1>5. RecordersTypeOK'
  <2>1. IsFiniteSet(running \ {c}) /\ IsFiniteSet((running \ {c}) \cup {e})
    BY <1>1, FS_RemoveElement, FS_AddElement DEF RecordersTypeOK
  <2>2. IsFiniteSet(running') /\ running' \in SUBSET Commands
    BY <1>1, <1>2, <1>3, <2>1 DEF RecordersTypeOK
  <2>. QED
    BY <1>1, <2>2 DEF RecordersTypeOK, unanswered
<1>6. lost' > 0 /\ lost' >= lost
  BY <1>1 DEF RecordersTypeOK
<1>7. \A d \in running' : d \in running \/ d = e
  BY <1>2
<1>8. c \notin running' \/ e = c
  BY <1>2
<1>9. Things' /\ Numbers'
  <2> DEFINE was(d) == IF d = e THEN c ELSE d
  <2>0. \A d \in running' : /\ was(d) \in running /\ was(d).cmd = d.cmd /\ was(d).key = d.key
                            /\ was(d).items = d.items /\ was(d).at = d.at
    BY <1>4, <1>7
  <2>1. \A d, b \in running' : d # b => was(d) # was(b)
    BY <1>8
  <2> HIDE DEF was
  <2>2. \A d \in running' : d.cmd = "push" =>
          \E x \in running : x.cmd = "push" /\ x.key = d.key /\ x.items = d.items
    BY <2>0
  <2>3. \A d, b \in running' : d.cmd = "push" /\ b.cmd = "push" /\ d # b =>
          \E x, y \in running : /\ x.cmd = "push" /\ y.cmd = "push" /\ x # y
                                /\ x.items = d.items /\ y.items = b.items
    BY <2>0, <2>1
  <2>4. \A d \in running' : d.cmd = "incr" =>
          \E x \in running : x.cmd = "incr" /\ x.key = d.key /\ x.at = d.at
    BY <2>0
  <2>5. \A d, b \in running' : d.cmd = "incr" /\ b.cmd = "incr" /\ d # b =>
          \E x, y \in running : /\ x.cmd = "incr" /\ y.cmd = "incr" /\ x # y
                                /\ x.key = d.key /\ x.at = d.at /\ y.key = b.key /\ y.at = b.at
    BY <2>0, <2>1
  <2>. QED
    BY <1>1, <1>5, <1>6, <2>2, <2>3, <2>4, <2>5, CommandsDropped DEF unanswered
<1>10. Connected'
  <2>1. conn' = conn /\ store' = store /\ ending' = ending /\ counts' = counts /\ uniques' = uniques /\ awaited' = awaited
    BY <1>1 DEF unanswered
  <2>2. conn # "closed"
    BY <1>1 DEF Works
  <2>3. [e EXCEPT !.deaf = FALSE] = [c EXCEPT !.deaf = FALSE]
    BY <1>3 DEF Commands
  <2>4. \A d \in running' : d.cmd # "expire" /\ ending = "waiting" =>
          d \in awaited \/ [d EXCEPT !.deaf = FALSE] \in awaited
    <3>1. ASSUME ending = "waiting", c.cmd # "expire"
          PROVE  [c EXCEPT !.deaf = FALSE] \in awaited \/ c.deaf
      <4>1. c \in awaited \/ [c EXCEPT !.deaf = FALSE] \in awaited
        BY <1>1, <2>2, <3>1 DEF Connected
      <4>2. ~c.deaf => c = [c EXCEPT !.deaf = FALSE]
        BY <1>3 DEF Commands
      <4>. QED
        BY <4>1, <4>2
    <3>2. \A d \in running : d.cmd # "expire" /\ ending = "waiting" =>
            d \in awaited \/ [d EXCEPT !.deaf = FALSE] \in awaited
      BY <1>1, <2>2 DEF Connected
    <3>3. ~c.deaf \/ running' = running \ {c}
      BY <1>2
    <3>. QED
      BY <1>2, <1>4, <2>3, <3>1, <3>2, <3>3
  <2>. QED
    BY <1>1, <1>6, <2>1, <2>2, <2>4 DEF Connected
<1>. QED
  BY <1>5, <1>9, <1>10 DEF RecordersInv

LEMMA DisconnectKeeps ==
  ASSUME RecordersInv, Disconnect
  PROVE  RecordersInv'
<1>1. /\ RecordersTypeOK /\ Things /\ Numbers /\ Connected /\ ending = "flushing" /\ ending' = "deferred"
      /\ <<store, connects, awaited, intervals, counts, uniques, kept, popping, popped, tracked, clobbered>>'
         = <<store, connects, awaited, intervals, counts, uniques, kept, popping, popped, tracked, clobbered>>
  BY DEF RecordersInv, Disconnect
<1>2. CASE running' = running /\ lost' = lost /\ conn' = conn
  <2>1. RecordersTypeOK' /\ lost' >= lost
    BY <1>1, <1>2 DEF RecordersTypeOK
  <2>2. Things'
    BY <1>1, <1>2, <2>1, ThingsFrame DEF SamePushes
  <2>3. Numbers'
    BY <1>1, <1>2, <2>1, NumbersFrame DEF SameIncrements
  <2>4. Connected'
    BY <1>1, <1>2 DEF Connected
  <2>. QED
    BY <2>1, <2>2, <2>3, <2>4 DEF RecordersInv
<1>3. CASE /\ store = "pluggable" /\ conn' = "closed" /\ running' = {}
           /\ lost' = IF running = {} THEN lost ELSE lost + 1
  <2>1. RecordersTypeOK' /\ lost' >= lost
    BY <1>1, <1>3, FS_EmptySet DEF RecordersTypeOK
  <2>2. Things' /\ Numbers'
    <3>1. CASE running = {}
      BY <1>1, <1>3, <2>1, <3>1, ThingsFrame, NumbersFrame DEF SamePushes, SameIncrements
    <3>2. CASE running # {}
      <4>1. lost' > 0
        BY <1>3, <3>2, <1>1 DEF RecordersTypeOK
      <4>. QED
        BY <1>1, <1>3, <2>1, <4>1, CommandsDropped
    <3>. QED
      BY <3>1, <3>2
  <2>3. Connected'
    BY <1>1, <1>3 DEF Connected
  <2>. QED
    BY <2>1, <2>2, <2>3 DEF RecordersInv
<1>. QED
  BY <1>2, <1>3 DEF Disconnect

LEMMA DeferredDisconnectKeeps ==
  ASSUME RecordersInv, DeferredDisconnect
  PROVE  RecordersInv'
<1>1. /\ RecordersTypeOK /\ Things /\ Numbers /\ Connected /\ store = "redis" /\ ending = "deferred"
      /\ ending' = "waiting" /\ awaited' = running
      /\ <<store, conn, connects, running, intervals, counts, uniques, kept, popping, popped, tracked, clobbered, lost>>'
         = <<store, conn, connects, running, intervals, counts, uniques, kept, popping, popped, tracked, clobbered, lost>>
  BY DEF RecordersInv, DeferredDisconnect
<1>2. RecordersTypeOK' /\ lost' >= lost
  BY <1>1 DEF RecordersTypeOK
<1>3. Things'
  BY <1>1, <1>2, ThingsFrame DEF SamePushes
<1>4. Numbers'
  BY <1>1, <1>2, NumbersFrame DEF SameIncrements
<1>5. Connected'
  BY <1>1 DEF Connected
<1>. QED
  BY <1>2, <1>3, <1>4, <1>5 DEF RecordersInv

LEMMA CloseKeeps ==
  ASSUME RecordersInv, Close
  PROVE  RecordersInv'
<1>1. /\ RecordersTypeOK /\ Things /\ Numbers /\ Connected /\ ending = "waiting" /\ conn # "closed"
      /\ conn' = "closed" /\ running' = {}
      /\ <<store, connects, awaited, intervals, counts, uniques, kept, popping, popped, ending, tracked, clobbered, lost>>'
         = <<store, connects, awaited, intervals, counts, uniques, kept, popping, popped, ending, tracked, clobbered, lost>>
  BY DEF RecordersInv, Close
<1>2. RecordersTypeOK' /\ lost' >= lost
  BY <1>1, FS_EmptySet DEF RecordersTypeOK
<1>3. ASSUME NEW c \in running, c.cmd # "expire"
      PROVE  FALSE
  <2>1. c \in Commands /\ \A d \in awaited : d \notin running /\ [d EXCEPT !.deaf = TRUE] \notin running
    BY <1>1 DEF RecordersTypeOK, Close
  <2>2. c \in awaited \/ [c EXCEPT !.deaf = FALSE] \in awaited
    BY <1>1, <1>3 DEF Connected
  <2>3. c = [[c EXCEPT !.deaf = FALSE] EXCEPT !.deaf = TRUE] \/ c = [c EXCEPT !.deaf = FALSE]
    BY <2>1 DEF Commands
  <2>. QED
    BY <1>3, <2>1, <2>2, <2>3
<1>4. SamePushes /\ SameIncrements
  BY <1>1, <1>3 DEF SamePushes, SameIncrements
<1>5. Things' /\ Numbers'
  BY <1>1, <1>2, <1>4, ThingsFrame, NumbersFrame
<1>6. Connected'
  BY <1>1 DEF Connected
<1>. QED
  BY <1>2, <1>5, <1>6 DEF RecordersInv

-----------------------------------------------------------------------------
\* What the storage answers
LEMMA ExpireIsCommand ==
  ASSUME NEW c \in Commands
  PROVE  Expire(c) \in Commands /\ Expire(c).cmd = "expire"
<1>1. Zero \in Num /\ <<>> \in Seq(Thing)
  BY NumTypes
<1>2. c.key \in Lists \cup Hashes /\ c.flush \in BOOLEAN /\ c.deaf \in BOOLEAN
  BY DEF Commands
<1>3. [c EXCEPT !.cmd = "expire", !.items = <<>>, !.counts = Zero] \in Commands
  BY <1>1, <1>2 DEF Commands
<1>4. [c EXCEPT !.cmd = "expire", !.items = <<>>, !.counts = Zero, !.at = Zero] \in Commands
  BY <1>1, <1>2 DEF Commands
<1>. QED
  BY <1>4 DEF Expire, Commands

\* After an answer the connection is as it was, and what is still under way was.
LEMMA AnsweredConnected ==
  ASSUME Connected, Works, conn' = conn, store' = store, ending' = ending, counts' = counts, uniques' = uniques,
         awaited' = awaited, lost' = lost,
         store = "redis" => \A c \in running' : c.cmd # "expire" => c \in running
  PROVE  Connected'
BY DEF Connected, Works

LEMMA AnsweredTypes ==
  ASSUME RecordersTypeOK, unanswered' = unanswered, lost' = lost,
         kept' \in [lists : [Lists -> Seq(Thing)], hashes : [Hashes -> Num], expiring : SUBSET (Lists \cup Hashes)],
         NEW c, NEW Q \in SUBSET Commands, IsFiniteSet(Q), running' = (running \ {c}) \cup Q
  PROVE  RecordersTypeOK'
<1>1. IsFiniteSet(running')
  BY FS_RemoveElement, FS_Union DEF RecordersTypeOK
<1>. QED
  BY <1>1 DEF RecordersTypeOK, unanswered

LEMMA AnswerPushKeeps ==
  ASSUME RecordersInv, Works, UNCHANGED <<unanswered, lost>>, NEW c \in running, AnswerPush(c)
  PROVE  RecordersInv'
<1> DEFINE list == kept.lists[c.key]
           Q == IF Created(c, Len(list \o c.items)) THEN {Expire(c)} ELSE {}
<1>0. /\ RecordersTypeOK /\ Apart /\ Orderly /\ Reading /\ Numbers /\ Connected
      /\ unanswered' = unanswered /\ lost' = lost /\ c.cmd = "push" /\ c \in Pushes
      /\ c \in Commands
  BY DEF RecordersInv, Things, AnswerPush, Pushes, RecordersTypeOK
<1>1. c.key \in Lists /\ NoDup(c.items) /\ (\A t : In(c.items, t) => ListOf[t] = c.key) /\ c.items \in Seq(Thing)
  BY <1>0 DEF Orderly, Commands
<1>2. kept' = [kept EXCEPT !.lists[c.key] = list \o c.items] /\ running' = (running \ {c}) \cup Q
  BY DEF AnswerPush, PushItems
<1>3. list \in Seq(Thing) /\ NoDup(list) /\ \A t : In(list, t) => ListOf[t] = c.key
  BY <1>0, <1>1 DEF RecordersTypeOK, Orderly
<1>4. Q \in SUBSET Commands /\ IsFiniteSet(Q) /\ \A d \in Q : d.cmd = "expire"
  <2>1. Expire(c) \in Commands /\ Expire(c).cmd = "expire"
    BY <1>0, ExpireIsCommand
  <2>2. IsFiniteSet({Expire(c)}) /\ IsFiniteSet({})
    BY FS_Singleton, FS_EmptySet
  <2>. QED
    BY <2>1, <2>2
<1> HIDE DEF Q
<1>5. /\ list \o c.items \in Seq(Thing)
      /\ \A t : In(list \o c.items, t) <=> In(list, t) \/ In(c.items, t)
      /\ (\A t : ~(In(list, t) /\ In(c.items, t))) => NoDup(list \o c.items)
  BY <1>1, <1>3, InConcat
<1>6. /\ kept'.lists[c.key] = list \o c.items
      /\ \A l \in Lists : l # c.key => kept'.lists[l] = kept.lists[l]
      /\ kept'.hashes = kept.hashes
      /\ kept' \in [lists : [Lists -> Seq(Thing)], hashes : [Hashes -> Num], expiring : SUBSET (Lists \cup Hashes)]
  BY <1>0, <1>1, <1>2, <1>5 DEF RecordersTypeOK
<1>7. RecordersTypeOK'
  BY <1>0, <1>2, <1>4, <1>6, AnsweredTypes
<1>8. /\ popped' = popped /\ uniques' = uniques /\ tracked' = tracked /\ popping' = popping /\ store' = store
      /\ conn' = conn /\ ending' = ending /\ counts' = counts /\ awaited' = awaited /\ clobbered' = clobbered
  BY <1>0 DEF unanswered
<1>9. Pushes' = Pushes \ {c}
  BY <1>2, <1>4 DEF Pushes
<1>10. \A t : In(c.items, t) => t \in Thing /\ Sent(t)
  BY <1>0, <1>1, InType DEF Sent
<1>11. \A t : (Popped(t)' <=> Popped(t)) /\ (Listed(t)' <=> Listed(t) \/ In(c.items, t))
  BY <1>1, <1>5, <1>6, <1>8 DEF Popped, Listed
<1>12. \A t \in Thing : Sent(t)' <=> Sent(t) /\ ~In(c.items, t)
  BY <1>0, <1>9 DEF Sent, Apart
<1>13. \A t \in Thing : Somewhere(t)' <=> Somewhere(t)
  BY <1>8, <1>10, <1>11, <1>12 DEF Somewhere
<1>14. Apart'
  <2>1. ASSUME NEW t \in Thing, NEW d \in Pushes', NEW e \in Pushes', In(d.items, t), In(e.items, t)
        PROVE  d = e
    BY <1>0, <1>9, <2>1 DEF Apart
  <2>2. ASSUME NEW t \in Thing
        PROVE  /\ Popped(t)' => ~Listed(t)' /\ ~Sent(t)' /\ t \notin uniques'
               /\ Listed(t)' => ~Sent(t)' /\ t \notin uniques'
               /\ Sent(t)' => t \notin uniques'
    BY <1>0, <1>8, <1>10, <1>11, <1>12 DEF Apart
  <2>3. ASSUME NEW t \in Thing
        PROVE  /\ Somewhere(t)' => t \in tracked'.things
               /\ lost' = 0 /\ t \in tracked'.things => Somewhere(t)'
    BY <1>0, <1>8, <1>13 DEF Apart
  <2>. QED
    BY <2>1, <2>2, <2>3 DEF Apart
<1>15. Orderly'
  <2>1. \A t : ~(In(list, t) /\ In(c.items, t))
    BY <1>0, <1>1, <1>10 DEF Apart, Listed
  <2>2. NoDup(list \o c.items) /\ \A t : In(list \o c.items, t) => ListOf[t] = c.key
    BY <2>1, <1>1, <1>3, <1>5
  <2>3. \A l \in Lists : NoDup(kept'.lists[l]) /\ \A t : In(kept'.lists[l], t) => ListOf[t] = l
    <3> SUFFICES ASSUME NEW l \in Lists
                 PROVE  NoDup(kept'.lists[l]) /\ \A t : In(kept'.lists[l], t) => ListOf[t] = l
      OBVIOUS
    <3>1. CASE l = c.key
      BY <3>1, <2>2, <1>6
    <3>2. CASE l # c.key
      BY <3>2, <1>0, <1>6 DEF Orderly
    <3>. QED
      BY <3>1, <3>2
  <2>. QED
    BY <2>3, <1>0, <1>8, <1>9 DEF Orderly
<1>16. Reading'
  <2> SUFFICES ASSUME popping.from \in Lists PROVE Reading'
    BY <1>8 DEF Reading
  <2>1. popping.items \in Seq(Thing) /\ \A t : In(popping.items, t) => t \in Thing
    BY <1>0, InType DEF RecordersTypeOK
  <2>2. CASE Heads(popping.items, kept.lists[popping.from]) /\ popping.items # <<>>
    <3>1. Heads(popping.items, kept'.lists[popping.from])
      <4>1. CASE popping.from = c.key
        BY <4>1, <2>1, <2>2, <1>1, <1>3, <1>6, HeadsConcat
      <4>2. CASE popping.from # c.key
        BY <4>2, <2>2, <1>6
      <4>. QED
        BY <4>1, <4>2
    <3>. QED
      BY <3>1, <2>2, <1>0, <1>8 DEF Reading
  <2>3. CASE lost > 0 /\ \A t : In(popping.items, t) => ~Somewhere(t)
    BY <2>1, <2>3, <1>0, <1>8, <1>13 DEF Reading
  <2>. QED
    BY <2>2, <2>3, <1>0 DEF Reading
<1>17. Numbers'
  <2>1. SameIncrements
    BY <1>0, <1>2, <1>4 DEF SameIncrements
  <2>2. lost' >= lost
    BY <1>0 DEF RecordersTypeOK
  <2>. QED
    BY <1>0, <1>6, <1>7, <1>8, <2>1, <2>2, NumbersFrame
<1>18. Connected'
  BY <1>0, <1>2, <1>4, <1>8, AnsweredConnected
<1>. QED
  BY <1>7, <1>14, <1>15, <1>16, <1>17, <1>18 DEF RecordersInv, Things

\* What an answer takes out of a command goes into the storage.
Answered(c, r, Q, E) ==
  /\ c \in running /\ c.cmd = "incr"
  /\ Q = {} \/ (Q = {r} /\ r.cmd = "incr" /\ r.key = c.key /\ r.at = c.at)
  /\ r.counts \in Num
  /\ Q = {} => r.counts = Zero
  /\ \A d \in E : d.cmd # "incr"
  /\ running' = ((running \ {c}) \cup Q) \cup E
  /\ \A f \in Field : Stored(f)' + r.counts[f] = Stored(f) + c.counts[f]
  /\ counts' = counts /\ tracked' = tracked /\ clobbered' = clobbered /\ lost' = lost

LEMMA NumbersAnswered ==
  ASSUME Numbers, RecordersTypeOK, RecordersTypeOK', NEW c, NEW r, NEW Q, NEW E, Answered(c, r, Q, E)
  PROVE  Numbers'
<1> USE DEF Answered
<1>1. r \notin running \ {c} \/ Q = {}
  BY DEF Numbers, Distinct
<1>2. Distinct'
  <2>1. \A d \in running' : d.cmd = "incr" => d \in running \ {c} \/ d \in Q
    OBVIOUS
  <2>2. \A d \in running' : d.cmd = "incr" =>
          /\ d.key \in Hashes
          /\ AtMost(d.at, tracked'.counts)
          /\ d.key = "counts" /\ d.at = tracked'.counts => counts' = Zero
    BY <2>1 DEF Numbers, Distinct
  <2>3. \A d, e \in running' :
          d.cmd = "incr" /\ e.cmd = "incr" /\ d.key = e.key /\ d.at = e.at => d = e
    BY <2>1 DEF Numbers, Distinct
  <2>. QED
    BY <2>2, <2>3 DEF Distinct
<1>3. Sums'
  <2> SUFFICES ASSUME lost = 0, ~clobbered, NEW f \in Field
               PROVE  Pending(f)' + Stored(f)' = tracked.counts[f]
    BY DEF Sums
  <2>1. Pending(f) + Stored(f) = tracked.counts[f]
    BY DEF Numbers, Sums
  <2>2. IsFiniteSet(running) /\ \A d \in running : d.cmd = "incr" => d.counts[f] \in Nat
    BY CommandsCounted DEF RecordersTypeOK
  <2>3. /\ Cardinality(Increments(running, f)) = Cardinality(Increments(running \ {c}, f)) + c.counts[f]
        /\ Cardinality(Increments(running \ {c}, f)) \in Nat
    BY <2>2, IncrementsRemove
  <2>4. r.counts[f] \in Nat /\ c.counts[f] \in Nat
    BY <2>2 DEF Num
  <2>5. Increments(running', f) = Increments((running \ {c}) \cup Q, f)
    BY IncrementsOfSame
  <2>6. Cardinality(Increments(running', f)) = Cardinality(Increments(running \ {c}, f)) + r.counts[f]
    <3>1. CASE Q = {}
      <4>1. r.counts[f] = 0 /\ (running \ {c}) \cup Q = running \ {c}
        BY <3>1 DEF Zero
      <4>2. Increments(running', f) = Increments(running \ {c}, f)
        BY <4>1, <2>5
      <4>. QED
        BY <4>1, <4>2, <2>3
    <3>2. CASE Q # {}
      <4> DEFINE others == running \ {c}
      <4>1. Q = {r} /\ r.cmd = "incr" /\ r \notin others /\ r.counts[f] \in Nat
        BY <3>2, <1>1, <2>4
      <4>2. IsFiniteSet(others) /\ \A d \in others : d.cmd = "incr" => d.counts[f] \in Nat
        BY <2>2, FS_RemoveElement
      <4> HIDE DEF others, Answered
      <4>3. Cardinality(Increments(others \cup {r}, f)) = Cardinality(Increments(others, f)) + r.counts[f]
        BY <4>1, <4>2, IncrementsAdd
      <4>. QED
        BY <4>1, <4>3, <2>5 DEF others
    <3>. QED
      BY <3>1, <3>2
  <2>7. Stored(f) \in Nat /\ Stored(f)' \in Nat /\ counts[f] \in Nat /\ tracked.counts[f] \in Nat
    <3>1. popped'.counts[f] \in Nat /\ kept'.hashes["counts"][f] \in Nat /\ kept'.hashes["latencies"][f] \in Nat
      <4>1. /\ popped'.counts \in Num /\ kept'.hashes["counts"] \in Num
            /\ kept'.hashes["latencies"] \in Num
        BY DEF RecordersTypeOK, Hashes
      <4>. QED
        BY <4>1 DEF Num
    <3>2. Stored(f)' \in Nat
      BY <3>1 DEF Stored
    <3>. QED
      BY <3>2, CommandsCounted
  <2>8. Stored(f)' + r.counts[f] = Stored(f) + c.counts[f]
    OBVIOUS
  <2>9. Pending(f) = counts[f] + (Cardinality(Increments(running \ {c}, f)) + c.counts[f])
    BY <2>3 DEF Pending
  <2>10. Pending(f)' = counts[f] + (Cardinality(Increments(running \ {c}, f)) + r.counts[f])
    BY <2>6 DEF Pending
  <2>11. ASSUME NEW n \in Nat, NEW a \in Nat, NEW b \in Nat, NEW m \in Nat, NEW s \in Nat, NEW z \in Nat,
                z + b = s + a
         PROVE  (m + (n + b)) + z = (m + (n + a)) + s
    BY <2>11
  <2>. QED
    BY <2>1, <2>3, <2>4, <2>7, <2>8, <2>9, <2>10, <2>11
<1>. QED
  BY <1>2, <1>3 DEF Numbers

\* What an answer leaves in a hash.
Gets(h, f, x) ==
  /\ h \in Hashes /\ f \in Field /\ x \in Nat
  /\ kept'.hashes[h][f] = kept.hashes[h][f] + x
  /\ \A g \in Hashes : g # h => kept'.hashes[g] = kept.hashes[g]
  /\ popped' = popped

LEMMA HashStored ==
  ASSUME RecordersTypeOK, NEW h, NEW f, NEW x, Gets(h, f, x)
  PROVE  Stored(f)' = Stored(f) + x
<1> USE DEF Gets
<1>1. /\ kept.hashes["counts"][f] \in Nat /\ kept.hashes["latencies"][f] \in Nat
      /\ popped.counts[f] \in Nat
  BY DEF RecordersTypeOK, Num, Hashes
<1>2. CASE h = "counts"
  <2>1. kept'.hashes["latencies"] = kept.hashes["latencies"]
    BY <1>2 DEF Hashes
  <2>. QED
    BY <1>1, <1>2, <2>1 DEF Stored
<1>3. CASE h = "latencies"
  <2>1. kept'.hashes["counts"] = kept.hashes["counts"]
    BY <1>3 DEF Hashes
  <2>. QED
    BY <1>1, <1>3, <2>1 DEF Stored
<1>. QED
  BY <1>2, <1>3 DEF Hashes

\* An answer that is about no thing.
LEMMA AnsweredThings ==
  ASSUME RecordersInv, RecordersTypeOK', UNCHANGED <<unanswered, lost>>, SamePushes, kept'.lists = kept.lists
  PROVE  Things'
<1>1. lost' >= lost /\ popped' = popped /\ uniques' = uniques /\ tracked' = tracked /\ popping' = popping
      /\ store' = store
  BY DEF unanswered, RecordersInv, RecordersTypeOK
<1>. QED
  BY <1>1, ThingsFrame DEF RecordersInv

LEMMA AnswerIncrOfRedis ==
  ASSUME RecordersInv, Works, UNCHANGED <<unanswered, lost>>, NEW c \in running, c.cmd = "incr",
         store = "redis", kept' = [kept EXCEPT !.hashes[c.key] = Plus(@, c.counts)],
         NEW E, E = {} \/ E = {Expire(c)}, running' = (running \ {c}) \cup E
  PROVE  RecordersInv'
<1> DEFINE r == [c EXCEPT !.counts = Zero]
<1>0. /\ RecordersTypeOK /\ Numbers /\ Connected /\ c \in Commands /\ c.key \in Hashes /\ c.counts \in Num
      /\ counts' = counts /\ tracked' = tracked /\ clobbered' = clobbered /\ lost' = lost /\ popped' = popped
      /\ conn' = conn /\ store' = store /\ ending' = ending /\ uniques' = uniques /\ awaited' = awaited
      /\ Zero \in Num
  BY NumTypes DEF RecordersInv, RecordersTypeOK, Commands, unanswered, Numbers, Distinct
<1>1. E \in SUBSET Commands /\ IsFiniteSet(E) /\ \A d \in E : d.cmd = "expire"
  <2>1. Expire(c) \in Commands /\ Expire(c).cmd = "expire"
    BY <1>0, ExpireIsCommand
  <2>2. IsFiniteSet({Expire(c)}) /\ IsFiniteSet({})
    BY FS_Singleton, FS_EmptySet
  <2>. QED
    BY <2>1, <2>2
<1>2. Plus(kept.hashes[c.key], c.counts) \in Num
  BY <1>0, NumTypes DEF RecordersTypeOK
<1>3. /\ kept'.hashes[c.key] = Plus(kept.hashes[c.key], c.counts)
      /\ \A g \in Hashes : g # c.key => kept'.hashes[g] = kept.hashes[g]
      /\ kept'.lists = kept.lists
      /\ kept' \in [lists : [Lists -> Seq(Thing)], hashes : [Hashes -> Num], expiring : SUBSET (Lists \cup Hashes)]
  BY <1>0, <1>2 DEF RecordersTypeOK
<1>4. RecordersTypeOK'
  BY <1>0, <1>1, <1>3, AnsweredTypes
<1>5. Things'
  <2>1. SamePushes
    BY <1>1 DEF SamePushes
  <2>. QED
    BY <2>1, <1>3, <1>4, AnsweredThings
<1>6. Numbers'
  <2>1. \A f \in Field : Stored(f)' + r.counts[f] = Stored(f) + c.counts[f]
    <3> SUFFICES ASSUME NEW f \in Field PROVE Stored(f)' + r.counts[f] = Stored(f) + c.counts[f]
      OBVIOUS
    <3>1. c.counts[f] \in Nat /\ kept'.hashes[c.key][f] = kept.hashes[c.key][f] + c.counts[f]
      BY <1>0, <1>3 DEF Num, Plus
    <3>2. Stored(f)' = Stored(f) + c.counts[f]
      <4>1. Gets(c.key, f, c.counts[f])
        BY <3>1, <1>0, <1>3 DEF Gets
      <4>. QED
        BY <4>1, <1>0, HashStored
    <3>3. r.counts[f] = 0 /\ Stored(f) \in Nat
      BY <1>0, CommandsCounted DEF Commands, Zero
    <3>. QED
      BY <3>1, <3>2, <3>3
  <2>2. r.counts = Zero
    BY <1>0 DEF Commands
  <2>3. running' = ((running \ {c}) \cup {}) \cup E
    OBVIOUS
  <2>4. \A d \in E : d.cmd # "incr"
    BY <1>1
  <2> HIDE DEF r
  <2>5. Answered(c, r, {}, E)
    BY <1>0, <2>1, <2>2, <2>3, <2>4 DEF Answered
  <2>. QED
    BY <2>5, <1>0, <1>4, NumbersAnswered
<1>7. Connected'
  <2>1. \A d \in running' : d.cmd # "expire" => d \in running
    BY <1>1
  <2>. QED
    BY <2>1, <1>0, AnsweredConnected
<1>. QED
  BY <1>4, <1>5, <1>6, <1>7 DEF RecordersInv

LEMMA AnswerIncrOfWrapper ==
  ASSUME RecordersInv, Works, UNCHANGED <<unanswered, lost>>, NEW c \in running, c.cmd = "incr",
         store = "pluggable", NEW f \in Field,
         kept' = [kept EXCEPT !.hashes[c.key][f] = @ + c.counts[f]],
         NEW r, r = [c EXCEPT !.counts[f] = 0],
         NEW Q, Q = IF r.counts = Zero THEN {} ELSE {r}, running' = (running \ {c}) \cup Q
  PROVE  RecordersInv'
<1>0. /\ RecordersTypeOK /\ Numbers /\ Connected /\ c \in Commands /\ c.key \in Hashes /\ c.counts \in Num
      /\ counts' = counts /\ tracked' = tracked /\ clobbered' = clobbered /\ lost' = lost /\ popped' = popped
      /\ conn' = conn /\ store' = store /\ ending' = ending /\ uniques' = uniques /\ awaited' = awaited
      /\ Zero \in Num
  BY NumTypes DEF RecordersInv, RecordersTypeOK, Commands, unanswered, Numbers, Distinct
<1>1. /\ r.counts = [c.counts EXCEPT ![f] = 0] /\ r.counts \in Num
      /\ r.cmd = "incr" /\ r.key = c.key /\ r.at = c.at
      /\ r \in Commands
  <2>1. [c.counts EXCEPT ![f] = 0] \in Num
    BY <1>0 DEF Num
  <2>. QED
    BY <2>1, <1>0 DEF Commands
<1>2. Q \in SUBSET Commands /\ IsFiniteSet(Q) /\ \A d \in Q : d.cmd = "incr"
  <2>1. IsFiniteSet({r}) /\ IsFiniteSet({})
    BY FS_Singleton, FS_EmptySet
  <2>. QED
    BY <2>1, <1>1
<1>3. /\ kept'.hashes[c.key] = [kept.hashes[c.key] EXCEPT ![f] = @ + c.counts[f]]
      /\ \A g \in Hashes : g # c.key => kept'.hashes[g] = kept.hashes[g]
      /\ kept'.lists = kept.lists
      /\ kept'.expiring = kept.expiring /\ DOMAIN kept'.hashes = Hashes
      /\ kept' \in [lists : [Lists -> Seq(Thing)], hashes : [Hashes -> Num], expiring : SUBSET (Lists \cup Hashes)]
  <2>1. kept.hashes[c.key] \in Num /\ c.counts[f] \in Nat
    BY <1>0 DEF RecordersTypeOK, Num
  <2>2. [kept.hashes[c.key] EXCEPT ![f] = @ + c.counts[f]] \in Num
    BY <2>1 DEF Num
  <2>. QED
    BY <1>0, <2>2 DEF RecordersTypeOK
<1>4. RecordersTypeOK'
  BY <1>0, <1>2, <1>3, AnsweredTypes
<1>5. Things'
  <2>1. SamePushes
    BY <1>2 DEF SamePushes
  <2>. QED
    BY <2>1, <1>3, <1>4, AnsweredThings
<1>6. Numbers'
  <2>1. \A g \in Field : Stored(g)' + r.counts[g] = Stored(g) + c.counts[g]
    <3> SUFFICES ASSUME NEW g \in Field PROVE Stored(g)' + r.counts[g] = Stored(g) + c.counts[g]
      OBVIOUS
    <3>1. c.counts[g] \in Nat /\ kept.hashes[c.key][g] \in Nat /\ Stored(g) \in Nat
      BY <1>0, CommandsCounted DEF RecordersTypeOK, Num
    <3> DEFINE x == IF g = f THEN c.counts[g] ELSE 0
    <3>2. x \in Nat /\ kept'.hashes[c.key][g] = kept.hashes[c.key][g] + x
      <4>1. kept.hashes[c.key] \in [Field -> Nat]
        BY <1>0 DEF RecordersTypeOK, Num
      <4>2. CASE g = f
        BY <4>1, <4>2, <3>1, <1>3
      <4>3. CASE g # f
        <5>1. kept'.hashes[c.key][g] = kept.hashes[c.key][g]
          BY <4>1, <4>3, <1>3
        <5>. QED
          BY <5>1, <4>3, <3>1
      <4>. QED
        BY <4>2, <4>3
    <3>3. r.counts[g] + x = c.counts[g] /\ r.counts[g] \in Nat
      BY <3>1, <1>0, <1>1 DEF Num
    <3> HIDE DEF x
    <3>4. Stored(g)' = Stored(g) + x
      <4>1. Gets(c.key, g, x)
        BY <3>2, <1>0, <1>3 DEF Gets
      <4>. QED
        BY <4>1, <1>0, HashStored
    <3>. QED
      BY <3>1, <3>2, <3>3, <3>4
  <2>2. running' = ((running \ {c}) \cup Q) \cup {}
    OBVIOUS
  <2>3. \A d \in {} : d.cmd # "incr"
    OBVIOUS
  <2>4. Answered(c, r, Q, {})
    BY <1>0, <1>1, <2>1, <2>2, <2>3 DEF Answered
  <2>. QED
    BY <2>4, <1>0, <1>4, NumbersAnswered
<1>7. Connected'
  BY <1>0, AnsweredConnected
<1>. QED
  BY <1>4, <1>5, <1>6, <1>7 DEF RecordersInv

LEMMA AnswerIncrKeeps ==
  ASSUME RecordersInv, Works, UNCHANGED <<unanswered, lost>>, NEW c \in running, AnswerIncr(c)
  PROVE  RecordersInv'
<1>1. c.cmd = "incr"
  BY DEF AnswerIncr
<1>2. CASE /\ store = "redis"
           /\ kept' = [kept EXCEPT !.hashes[c.key] = Plus(@, c.counts)]
           /\ running' = (running \ {c}) \cup (IF c.key = "counts" /\ ~c.deaf THEN {Expire(c)} ELSE {})
  <2> DEFINE E == IF c.key = "counts" /\ ~c.deaf THEN {Expire(c)} ELSE {}
  <2>1. (E = {} \/ E = {Expire(c)}) /\ running' = (running \ {c}) \cup E
    BY <1>2
  <2> HIDE DEF E
  <2>. QED
    BY <1>1, <1>2, <2>1, AnswerIncrOfRedis
<1>3. CASE /\ store = "pluggable"
           /\ \E f \in {x \in Field : c.counts[x] > 0} :
                LET rest == [c EXCEPT !.counts[f] = 0]
                IN /\ kept' = [kept EXCEPT !.hashes[c.key][f] = @ + c.counts[f]]
                   /\ running' = (running \ {c}) \cup (IF rest.counts = Zero THEN {} ELSE {rest})
  <2>1. PICK f \in Field :
          LET rest == [c EXCEPT !.counts[f] = 0]
          IN /\ kept' = [kept EXCEPT !.hashes[c.key][f] = @ + c.counts[f]]
             /\ running' = (running \ {c}) \cup (IF rest.counts = Zero THEN {} ELSE {rest})
    BY <1>3
  <2> DEFINE r == [c EXCEPT !.counts[f] = 0]
             Q == IF r.counts = Zero THEN {} ELSE {r}
  <2>2. r = [c EXCEPT !.counts[f] = 0] /\ Q = (IF r.counts = Zero THEN {} ELSE {r})
        /\ running' = (running \ {c}) \cup Q /\ kept' = [kept EXCEPT !.hashes[c.key][f] = @ + c.counts[f]]
    BY <2>1
  <2> HIDE DEF r, Q
  <2>. QED
    BY <1>1, <1>3, <2>2, AnswerIncrOfWrapper
<1>. QED
  BY <1>2, <1>3 DEF AnswerIncr

LEMMA AnswerExpireKeeps ==
  ASSUME RecordersInv, Works, UNCHANGED <<unanswered, lost>>, NEW c \in running, AnswerExpire(c)
  PROVE  RecordersInv'
<1>0. /\ RecordersTypeOK /\ Numbers /\ Connected /\ c \in Commands /\ c.cmd = "expire"
      /\ counts' = counts /\ tracked' = tracked /\ clobbered' = clobbered /\ lost' = lost /\ popped' = popped
      /\ conn' = conn /\ store' = store /\ ending' = ending /\ uniques' = uniques /\ awaited' = awaited
      /\ running' = running \ {c}
  BY DEF RecordersInv, RecordersTypeOK, unanswered, AnswerExpire
<1>1. /\ kept'.lists = kept.lists /\ kept'.hashes = kept.hashes
      /\ kept' \in [lists : [Lists -> Seq(Thing)], hashes : [Hashes -> Num], expiring : SUBSET (Lists \cup Hashes)]
  <2>1. c.key \in Lists \cup Hashes
    BY <1>0 DEF Commands
  <2>2. CASE Empty(c.key)
    BY <2>2, <1>0 DEF AnswerExpire, RecordersTypeOK
  <2>3. CASE ~Empty(c.key)
    <3>1. kept' = [kept EXCEPT !.expiring = @ \cup {c.key}]
      BY <2>3 DEF AnswerExpire
    <3>. QED
      BY <3>1, <2>1, <1>0 DEF RecordersTypeOK
  <2>. QED
    BY <2>2, <2>3
<1>2. RecordersTypeOK'
  <2>1. {} \in SUBSET Commands /\ IsFiniteSet({}) /\ running' = (running \ {c}) \cup {}
    BY <1>0, FS_EmptySet
  <2>. QED
    BY <1>0, <1>1, <2>1, AnsweredTypes
<1>3. Things'
  BY <1>0, <1>1, <1>2, AnsweredThings DEF SamePushes
<1>4. Numbers'
  <2>1. SameIncrements /\ lost' >= lost
    BY <1>0 DEF SameIncrements, RecordersTypeOK
  <2>. QED
    BY <1>0, <1>1, <1>2, <2>1, NumbersFrame
<1>5. Connected'
  BY <1>0, AnsweredConnected
<1>. QED
  BY <1>2, <1>3, <1>4, <1>5 DEF RecordersInv

LEMMA AnswerKeeps ==
  ASSUME RecordersInv, Answer
  PROVE  RecordersInv'
<1>1. PICK c \in running : AnswerPush(c) \/ AnswerIncr(c) \/ AnswerExpire(c)
  BY DEF Answer
<1>2. Works /\ UNCHANGED <<unanswered, lost>>
  BY DEF Answer
<1>. QED
  BY <1>1, <1>2, AnswerPushKeeps, AnswerIncrKeeps, AnswerExpireKeeps

-----------------------------------------------------------------------------
\* What the synchroniser takes
LEMMA NotPoppedConnected ==
  ASSUME Connected, UNCHANGED notPopped, lost' = lost \/ lost' = lost + 1, lost \in Nat
  PROVE  Connected'
BY DEF Connected, notPopped

LEMMA ReadListKeeps ==
  ASSUME RecordersInv, NEW l \in Lists, NEW n, ReadList(l, n)
  PROVE  RecordersInv'
<1> DEFINE s == kept.lists[l]
<1>0. /\ RecordersTypeOK /\ Apart /\ Orderly /\ Numbers /\ Connected /\ store = "redis" /\ n \in 1..Len(s)
      /\ UNCHANGED <<notPopped, kept, popped, clobbered, lost>> /\ s \in Seq(Thing) /\ lost \in Nat
  BY DEF RecordersInv, Things, ReadList, RecordersTypeOK
<1>1. popping' = [from |-> l, items |-> SubSeq(s, 1, n), counts |-> Zero]
  BY DEF ReadList, Nothing
<1>2. n \in 0..Len(s) /\ 1 \in 1..Len(s) + 1
  BY <1>0
<1>3. /\ SubSeq(s, 1, n) \in Seq(Thing)
      /\ \A t : In(SubSeq(s, 1, n), t) => In(s, t)
      /\ NoDup(s) => NoDup(SubSeq(s, 1, n))
  BY <1>0, <1>2, InSubSeq
<1>4. Heads(SubSeq(s, 1, n), s) /\ SubSeq(s, 1, n) # <<>>
  BY <1>0, HeadsSubSeq
<1>5. RecordersTypeOK'
  BY <1>0, <1>1, <1>3, NumTypes DEF RecordersTypeOK, notPopped
<1>6. Apart' /\ Orderly'
  BY <1>0 DEF Apart, Orderly, Somewhere, Popped, Listed, Sent, Pushes, notPopped
<1>7. \A t : In(s, t) => t \in tracked.things
  <2>1. \A t : In(s, t) => t \in Thing /\ Somewhere(t)
    BY <1>0, InType DEF Somewhere, Listed
  <2>. QED
    BY <2>1, <1>0 DEF Apart
<1>8. Reading'
  <2>1. NoDup(s)
    BY <1>0 DEF Orderly
  <2>2. kept' = kept /\ tracked' = tracked /\ store' = store
    BY <1>0 DEF notPopped
  <2>3. popping'.from = l /\ popping'.items = SubSeq(s, 1, n) /\ kept'.lists[l] = s
    BY <1>1, <2>2
  <2>. QED
    BY <1>0, <1>3, <1>4, <1>7, <2>1, <2>2, <2>3 DEF Reading
<1>9. Numbers'
  <2>1. SameIncrements /\ lost' >= lost
    BY <1>0 DEF SameIncrements, notPopped
  <2>. QED
    BY <1>0, <1>5, <2>1, NumbersFrame DEF notPopped
<1>10. Connected'
  BY <1>0, NotPoppedConnected
<1>. QED
  BY <1>5, <1>6, <1>8, <1>9, <1>10 DEF RecordersInv, Things

LEMMA ReadHashKeeps ==
  ASSUME RecordersInv, NEW h \in Hashes, ReadHash(h)
  PROVE  RecordersInv'
<1>0. /\ RecordersTypeOK /\ Apart /\ Orderly /\ Numbers /\ Connected
      /\ UNCHANGED <<notPopped, kept, popped, clobbered, lost>> /\ lost \in Nat
  BY DEF RecordersInv, Things, ReadHash, RecordersTypeOK
<1>1. popping' = [from |-> h, items |-> <<>>, counts |-> kept.hashes[h]]
  BY DEF ReadHash, Nothing
<1>2. RecordersTypeOK'
  <2>1. kept.hashes[h] \in Num
    BY <1>0 DEF RecordersTypeOK
  <2>. QED
    BY <1>0, <1>1, <2>1 DEF RecordersTypeOK, notPopped
<1>3. Apart' /\ Orderly'
  BY <1>0 DEF Apart, Orderly, Somewhere, Popped, Listed, Sent, Pushes, notPopped
<1>4. Reading'
  BY <1>1 DEF Reading, Lists, Hashes
<1>5. Numbers'
  <2>1. SameIncrements /\ lost' >= lost
    BY <1>0 DEF SameIncrements, notPopped
  <2>. QED
    BY <1>0, <1>2, <2>1, NumbersFrame DEF notPopped
<1>6. Connected'
  BY <1>0, NotPoppedConnected
<1>. QED
  BY <1>2, <1>3, <1>4, <1>5, <1>6 DEF RecordersInv, Things

\* What is taken was nowhere else, and is the head of its list if nothing failed.
Takes(l, items) ==
  /\ l \in Lists /\ items \in Seq(Thing) /\ NoDup(items) /\ \A t : In(items, t) => t \in tracked.things
  /\ \/ PopItems(kept.lists[l], Len(items)).popped = items
     \/ lost > 0 /\ \A t : In(items, t) => ~Somewhere(t)
  /\ TakeList(l, items)
  /\ popping'.from \notin Lists
  /\ popping' \in [from : Lists \cup Hashes \cup {"none"}, items : Seq(Thing), counts : Num]
  /\ UNCHANGED <<notPopped, clobbered, lost>>

LEMMA ListTaken ==
  ASSUME RecordersInv, NEW l, NEW items, Takes(l, items)
  PROVE  RecordersInv'
<1> DEFINE s == kept.lists[l]
           p == PopItems(s, Len(items))
<1>0. /\ RecordersTypeOK /\ Apart /\ Orderly /\ Numbers /\ Connected /\ l \in Lists /\ lost \in Nat
      /\ items \in Seq(Thing) /\ NoDup(items) /\ (\A t : In(items, t) => t \in tracked.things)
      /\ UNCHANGED <<notPopped, clobbered, lost>> /\ popping'.from \notin Lists
      /\ popping' \in [from : Lists \cup Hashes \cup {"none"}, items : Seq(Thing), counts : Num]
  BY DEF RecordersInv, Things, Takes, RecordersTypeOK
<1>1. s \in Seq(Thing) /\ NoDup(s) /\ (\A t : In(s, t) => ListOf[t] = l) /\ Len(items) \in Nat
  BY <1>0 DEF RecordersTypeOK, Orderly
<1>2. /\ p.popped \in Seq(Thing) /\ p.list \in Seq(Thing)
      /\ \A t : In(s, t) <=> In(p.popped, t) \/ In(p.list, t)
      /\ NoDup(p.list) /\ \A t : ~(In(p.popped, t) /\ In(p.list, t))
  BY <1>1, PopItemsSplits
<1> HIDE DEF p
<1>3. /\ kept'.lists[l] = p.list
      /\ \A m \in Lists : m # l => kept'.lists[m] = kept.lists[m]
      /\ kept'.hashes = kept.hashes
      /\ kept' \in [lists : [Lists -> Seq(Thing)], hashes : [Hashes -> Num], expiring : SUBSET (Lists \cup Hashes)]
  <2>1. kept' = [kept EXCEPT !.lists[l] = p.list, !.expiring = IF p.list = <<>> THEN @ \ {l} ELSE @]
    BY DEF Takes, TakeList, p
  <2>. QED
    BY <2>1, <1>0, <1>2 DEF RecordersTypeOK
<1>4. popped' = [popped EXCEPT !.items = @ \o items]
  BY DEF Takes, TakeList
<1>5. popped.items \in Seq(Thing) /\ NoDup(popped.items)
  BY <1>0 DEF RecordersTypeOK, Orderly
<1>6. /\ popped.items \o items \in Seq(Thing)
      /\ \A t : In(popped.items \o items, t) <=> In(popped.items, t) \/ In(items, t)
      /\ (\A t : ~(In(popped.items, t) /\ In(items, t))) => NoDup(popped.items \o items)
  BY <1>0, <1>5, InConcat
<1>7. popped'.items = popped.items \o items /\ popped'.counts = popped.counts
      /\ popped' \in [items : Seq(Thing), counts : Num]
  BY <1>0, <1>4, <1>6 DEF RecordersTypeOK
<1>8. RecordersTypeOK'
  BY <1>0, <1>3, <1>7 DEF RecordersTypeOK, notPopped
<1>9. \A t : (Popped(t)' <=> Popped(t) \/ In(items, t)) /\ (Sent(t)' <=> Sent(t))
  BY <1>0, <1>6, <1>7 DEF Popped, Sent, Pushes, notPopped
<1>10. \A t : Listed(t)' => Listed(t)
  BY <1>0, <1>2, <1>3 DEF Listed
<1>11. ASSUME NEW t, In(items, t)
       PROVE  t \in Thing /\ ~Popped(t) /\ ~Sent(t) /\ t \notin uniques /\ ~Listed(t)'
  <2>1. t \in Thing
    BY <1>0, <1>11, InType
  <2>2. CASE p.popped = items
    <3>1. In(s, t) /\ ~In(p.list, t)
      BY <2>2, <1>2, <1>11
    <3>2. Listed(t)
      BY <3>1, <1>0 DEF Listed
    <3>3. \A m \in Lists : m # l => ~In(kept.lists[m], t)
      BY <3>1, <1>0, <1>1 DEF Orderly
    <3>4. ~Listed(t)'
      BY <3>1, <3>3, <1>3 DEF Listed
    <3>. QED
      BY <2>1, <3>2, <3>4, <1>0 DEF Apart
  <2>3. CASE ~Somewhere(t)
    BY <2>1, <2>3, <1>10 DEF Somewhere
  <2>. QED
    BY <2>2, <2>3, <1>11 DEF Takes, p
<1>12. ASSUME lost = 0, NEW t, Listed(t) PROVE Listed(t)' \/ In(items, t)
  <2>1. p.popped = items
    BY <1>12 DEF Takes, p
  <2>2. PICK m \in Lists : In(kept.lists[m], t)
    BY <1>12 DEF Listed
  <2>3. CASE m = l
    BY <2>1, <2>2, <2>3, <1>2, <1>3, <1>0 DEF Listed
  <2>4. CASE m # l
    BY <2>2, <2>4, <1>3 DEF Listed
  <2>. QED
    BY <2>3, <2>4
<1>13. Apart'
  <2>0. Pushes' = Pushes /\ uniques' = uniques /\ tracked' = tracked /\ lost' = lost
    BY <1>0 DEF Pushes, notPopped
  <2>1. ASSUME NEW t \in Thing
        PROVE  /\ Popped(t)' => ~Listed(t)' /\ ~Sent(t)' /\ t \notin uniques'
               /\ Listed(t)' => ~Sent(t)' /\ t \notin uniques'
               /\ Sent(t)' => t \notin uniques'
    BY <1>0, <1>9, <1>10, <1>11, <2>0 DEF Apart
  <2>2. ASSUME NEW t \in Thing
        PROVE  Somewhere(t)' => t \in tracked'.things
    BY <1>0, <1>9, <1>10, <2>0 DEF Apart, Somewhere
  <2>3. ASSUME NEW t \in Thing, lost' = 0, t \in tracked'.things
        PROVE  Somewhere(t)'
    BY <1>0, <1>9, <1>12, <2>0, <2>3 DEF Apart, Somewhere
  <2>4. \A t \in Thing : \A c, d \in Pushes' : In(c.items, t) /\ In(d.items, t) => c = d
    BY <2>0, <1>0 DEF Apart
  <2>. QED
    BY <2>1, <2>2, <2>3, <2>4 DEF Apart
<1>14. Orderly'
  <2>0. Pushes' = Pushes /\ uniques' = uniques
    BY <1>0 DEF Pushes, notPopped
  <2>1. NoDup(popped'.items)
    BY <1>6, <1>7, <1>11 DEF Popped
  <2>2. \A m \in Lists : NoDup(kept'.lists[m]) /\ \A t : In(kept'.lists[m], t) => ListOf[t] = m
    <3> SUFFICES ASSUME NEW m \in Lists
                 PROVE  NoDup(kept'.lists[m]) /\ \A t : In(kept'.lists[m], t) => ListOf[t] = m
      OBVIOUS
    <3>1. CASE m = l
      BY <3>1, <1>1, <1>2, <1>3
    <3>2. CASE m # l
      BY <3>2, <1>0, <1>3 DEF Orderly
    <3>. QED
      BY <3>1, <3>2
  <2>. QED
    BY <2>0, <2>1, <2>2, <1>0 DEF Orderly
<1>15. Reading'
  BY <1>0 DEF Reading
<1>16. Numbers'
  <2>1. SameIncrements /\ lost' >= lost
    BY <1>0 DEF SameIncrements, notPopped
  <2>. QED
    BY <1>0, <1>3, <1>7, <1>8, <2>1, NumbersFrame DEF notPopped
<1>17. Connected'
  BY <1>0, NotPoppedConnected
<1>. QED
  BY <1>8, <1>13, <1>14, <1>15, <1>16, <1>17 DEF RecordersInv, Things

LEMMA NothingTypes ==
  Nothing \in [from : Lists \cup Hashes \cup {"none"}, items : Seq(Thing), counts : Num]
  /\ Nothing.from \notin Lists
<1>1. <<>> \in Seq(Thing)
  OBVIOUS
<1>. QED
  BY <1>1, NumTypes DEF Nothing, Lists

LEMMA TrimListKeeps ==
  ASSUME RecordersInv, TrimList
  PROVE  RecordersInv'
<1> DEFINE l == popping.from
           items == popping.items
<1>0. RecordersTypeOK /\ Orderly /\ Reading /\ l \in Lists
  BY DEF RecordersInv, Things, TrimList
<1>1. kept.lists[l] \in Seq(Thing) /\ items \in Seq(Thing)
  BY <1>0 DEF RecordersTypeOK
<1>2. /\ NoDup(items) /\ (\A t : In(items, t) => t \in tracked.things)
      /\ \/ Heads(items, kept.lists[l])
         \/ lost > 0 /\ \A t : In(items, t) => ~Somewhere(t)
  BY <1>0 DEF Reading
<1>3. \/ PopItems(kept.lists[l], Len(items)).popped = items
      \/ lost > 0 /\ \A t : In(items, t) => ~Somewhere(t)
  BY <1>1, <1>2, HeadsPopped
<1>4. TakeList(l, items) /\ popping' = Nothing /\ UNCHANGED <<notPopped, clobbered, lost>>
  BY DEF TrimList
<1> HIDE DEF l, items
<1>5. Takes(l, items)
  BY <1>0, <1>1, <1>2, <1>3, <1>4, NothingTypes DEF Takes
<1>. QED
  BY <1>5, ListTaken

LEMMA PopListKeeps ==
  ASSUME RecordersInv, NEW l \in Lists, NEW n, PopList(l, n)
  PROVE  RecordersInv'
<1> DEFINE s == kept.lists[l]
           items == PopItems(s, n).popped
<1>0. /\ RecordersTypeOK /\ Orderly /\ Apart /\ Reading /\ store = "pluggable" /\ n \in 1..Len(s)
      /\ TakeList(l, items) /\ UNCHANGED <<notPopped, popping, clobbered, lost>>
  BY DEF RecordersInv, Things, PopList
<1>1. s \in Seq(Thing) /\ NoDup(s) /\ n \in Nat
  BY <1>0 DEF RecordersTypeOK, Orderly
<1>2. items \in Seq(Thing) /\ NoDup(items) /\ \A t : In(items, t) => In(s, t)
  BY <1>1, PopItemsSplits
<1>3. Heads(items, s)
  <2>1. CASE n >= Len(s)
    BY <2>1, <1>1 DEF PopItems, Heads
  <2>2. CASE n < Len(s)
    <3>1. items = SubSeq(s, 1, n)
      BY <2>2, <1>0, <1>1 DEF PopItems
    <3>. QED
      BY <3>1, <1>0, <1>1, HeadsSubSeq
  <2>. QED
    BY <2>1, <2>2, <1>1
<1>4. PopItems(s, Len(items)).popped = items
  BY <1>1, <1>2, <1>3, HeadsPopped
<1>5. \A t : In(items, t) => t \in tracked.things
  <2>1. \A t : In(s, t) => t \in Thing /\ Somewhere(t)
    BY <1>1, InType DEF Somewhere, Listed
  <2>. QED
    BY <2>1, <1>0, <1>2 DEF Apart
<1>6. popping' = popping /\ popping.from \notin Lists
  BY <1>0 DEF Reading
<1> HIDE DEF items
<1>7. Takes(l, items)
  BY <1>0, <1>2, <1>4, <1>5, <1>6 DEF Takes, RecordersTypeOK
<1>. QED
  BY <1>7, ListTaken

LEMMA DeleteHashKeeps ==
  ASSUME RecordersInv, DeleteHash
  PROVE  RecordersInv'
<1> DEFINE h == popping.from
<1>0. /\ RecordersTypeOK /\ Things /\ Numbers /\ Connected /\ h \in Hashes /\ lost \in Nat
      /\ UNCHANGED <<notPopped, lost>> /\ popping' = Nothing
      /\ clobbered' = (clobbered \/ kept.hashes[h] # popping.counts)
  BY DEF RecordersInv, DeleteHash, RecordersTypeOK
<1>1. /\ kept'.hashes[h] = Zero /\ kept'.lists = kept.lists
      /\ \A g \in Hashes : g # h => kept'.hashes[g] = kept.hashes[g]
      /\ kept' \in [lists : [Lists -> Seq(Thing)], hashes : [Hashes -> Num], expiring : SUBSET (Lists \cup Hashes)]
  <2>1. kept' = [kept EXCEPT !.hashes[h] = Zero, !.expiring = @ \ {h}]
    BY DEF DeleteHash
  <2>. QED
    BY <2>1, <1>0, NumTypes DEF RecordersTypeOK
<1>2. /\ popped'.items = popped.items /\ popped'.counts = Plus(popped.counts, popping.counts)
      /\ popped' \in [items : Seq(Thing), counts : Num]
  <2>1. popped' = [popped EXCEPT !.counts = Plus(@, popping.counts)]
    BY DEF DeleteHash
  <2>2. popped \in [items : Seq(Thing), counts : Num] /\ popping.counts \in Num
    BY <1>0 DEF RecordersTypeOK
  <2>3. Plus(popped.counts, popping.counts) \in Num
    BY <2>2, NumTypes
  <2>. QED
    BY <2>1, <2>2, <2>3
<1>3. RecordersTypeOK'
  <2>1. clobbered' \in BOOLEAN
    BY <1>0
  <2>. QED
    BY <1>0, <1>1, <1>2, <2>1, NothingTypes DEF RecordersTypeOK, notPopped
<1>4. Things'
  <2>1. Apart' /\ Orderly'
    BY <1>0, <1>1, <1>2 DEF Things, Apart, Orderly, Somewhere, Popped, Listed, Sent, Pushes, notPopped
  <2>2. Reading'
    BY <1>0, NothingTypes DEF Reading
  <2>. QED
    BY <2>1, <2>2 DEF Things
<1>5. Numbers'
  <2>1. running' = running /\ counts' = counts /\ tracked' = tracked /\ lost' = lost
    BY <1>0 DEF notPopped
  <2>2. Distinct'
    BY <1>0, <2>1 DEF Numbers, Distinct
  <2>3. Sums'
    <3> SUFFICES ASSUME lost = 0, ~clobbered', NEW f \in Field
                 PROVE  Pending(f)' + Stored(f)' = tracked.counts[f]
      BY <2>1 DEF Sums
    <3>1. ~clobbered /\ kept.hashes[h] = popping.counts
      BY <1>0
    <3>2. Pending(f) + Stored(f) = tracked.counts[f]
      BY <1>0, <3>1 DEF Numbers, Sums
    <3>3. Pending(f)' = Pending(f)
      BY <2>1 DEF Pending
    <3>4. popped'.counts[f] = popped.counts[f] + kept.hashes[h][f] /\ kept'.hashes[h][f] = 0
      BY <1>1, <1>2, <3>1 DEF Plus, Zero
    <3>5. popped.counts[f] \in Nat /\ kept.hashes["counts"][f] \in Nat /\ kept.hashes["latencies"][f] \in Nat
      BY <1>0 DEF RecordersTypeOK, Num, Hashes
    <3>6. Stored(f)' = Stored(f)
      <4>1. CASE h = "counts"
        <5>1. kept'.hashes["latencies"] = kept.hashes["latencies"]
          BY <4>1, <1>1 DEF Hashes
        <5>. QED
          BY <4>1, <5>1, <3>4, <3>5 DEF Stored
      <4>2. CASE h = "latencies"
        <5>1. kept'.hashes["counts"] = kept.hashes["counts"]
          BY <4>2, <1>1 DEF Hashes
        <5>. QED
          BY <4>2, <5>1, <3>4, <3>5 DEF Stored
      <4>. QED
        BY <4>1, <4>2, <1>0 DEF Hashes
    <3>. QED
      BY <3>2, <3>3, <3>6
  <2>. QED
    BY <2>2, <2>3 DEF Numbers
<1>6. Connected'
  BY <1>0, NotPoppedConnected
<1>. QED
  BY <1>3, <1>4, <1>5, <1>6 DEF RecordersInv

LEMMA VanishKeeps ==
  ASSUME RecordersInv, NEW key \in Lists \cup Hashes, Vanish(key)
  PROVE  RecordersInv'
<1>0. /\ RecordersTypeOK /\ Apart /\ Orderly /\ Reading /\ Distinct /\ Connected
      /\ UNCHANGED <<notPopped, popping, popped, clobbered>> /\ lost \in Nat /\ lost' = lost + 1
  BY DEF RecordersInv, Things, Numbers, Vanish, RecordersTypeOK
<1>1. /\ kept'.lists = [l \in Lists |-> IF l = key THEN <<>> ELSE kept.lists[l]]
      /\ kept'.hashes = [h \in Hashes |-> IF h = key THEN Zero ELSE kept.hashes[h]]
      /\ kept'.expiring = kept.expiring \ {key}
      /\ kept' \in [lists : [Lists -> Seq(Thing)], hashes : [Hashes -> Num], expiring : SUBSET (Lists \cup Hashes)]
  <2> DEFINE ls == [l \in Lists |-> IF l = key THEN <<>> ELSE kept.lists[l]]
             hs == [h \in Hashes |-> IF h = key THEN Zero ELSE kept.hashes[h]]
  <2>1. kept' = [kept EXCEPT !.lists = ls, !.hashes = hs, !.expiring = @ \ {key}]
    BY DEF Vanish
  <2>2. ls \in [Lists -> Seq(Thing)]
    BY <1>0 DEF RecordersTypeOK
  <2>3. hs \in [Hashes -> Num]
    BY <1>0, NumTypes DEF RecordersTypeOK
  <2> HIDE DEF ls, hs
  <2>4. kept'.lists = ls /\ kept'.hashes = hs /\ kept'.expiring = kept.expiring \ {key}
        /\ kept' \in [lists : [Lists -> Seq(Thing)], hashes : [Hashes -> Num], expiring : SUBSET (Lists \cup Hashes)]
    BY <2>1, <2>2, <2>3, <1>0 DEF RecordersTypeOK
  <2>. QED
    BY <2>4 DEF ls, hs
<1>2. RecordersTypeOK'
  BY <1>0, <1>1 DEF RecordersTypeOK, notPopped
<1>3. /\ Pushes' = Pushes /\ uniques' = uniques /\ tracked' = tracked /\ lost' > 0 /\ popping' = popping
      /\ popped' = popped /\ store' = store
  BY <1>0 DEF Pushes, notPopped
<1>4. \A l \in Lists : kept'.lists[l] = IF l = key THEN <<>> ELSE kept.lists[l]
  BY <1>1
<1>5. \A l \in Lists : \A t : In(kept'.lists[l], t) => l # key /\ In(kept.lists[l], t)
  BY <1>4, InEmpty
<1>6. \A t : /\ Popped(t)' <=> Popped(t)
             /\ Sent(t)' <=> Sent(t)
             /\ Listed(t)' => Listed(t)
             /\ Somewhere(t)' => Somewhere(t)
  BY <1>3, <1>5 DEF Popped, Sent, Listed, Somewhere
<1>7. Apart'
  BY <1>0, <1>3, <1>6 DEF Apart
<1>8. Orderly'
  <2>1. \A l \in Lists : NoDup(kept'.lists[l])
    BY <1>0, <1>4, InEmpty DEF Orderly
  <2>. QED
    BY <2>1, <1>0, <1>3, <1>5 DEF Orderly
<1>9. Reading'
  <2> SUFFICES ASSUME popping.from \in Lists PROVE Reading'
    BY <1>3 DEF Reading
  <2> DEFINE l == popping.from
             items == popping.items
  <2>1. items \in Seq(Thing) /\ kept.lists[l] \in Seq(Thing)
    BY <1>0 DEF RecordersTypeOK
  <2>2. store = "redis" /\ NoDup(items) /\ \A t : In(items, t) => t \in tracked.things
    BY <1>0 DEF Reading
  <2>3. CASE Heads(items, kept.lists[l]) /\ items # <<>> /\ l # key
    <3>1. Heads(items, kept'.lists[l])
      BY <2>3, <1>4
    <3>. QED
      BY <3>1, <2>2, <2>3, <1>3 DEF Reading
  <2>4. CASE Heads(items, kept.lists[l]) /\ l = key
    <3>1. ASSUME NEW t, In(items, t) PROVE ~Somewhere(t)'
      <4>1. t \in Thing /\ In(kept.lists[l], t)
        BY <2>1, <2>4, <3>1, HeadsIn, InType
      <4>2. Listed(t) /\ ListOf[t] = l
        BY <4>1, <1>0 DEF Listed, Orderly
      <4>3. ~Popped(t) /\ ~Sent(t) /\ t \notin uniques
        BY <4>1, <4>2, <1>0 DEF Apart
      <4>4. ~Listed(t)'
        BY <4>2, <2>4, <1>0, <1>5 DEF Listed, Orderly
      <4>. QED
        BY <4>3, <4>4, <1>3, <1>6 DEF Somewhere
    <3>. QED
      BY <3>1, <2>2, <1>3 DEF Reading
  <2>5. CASE lost > 0 /\ \A t : In(items, t) => ~Somewhere(t)
    BY <2>2, <2>5, <1>3, <1>6 DEF Reading
  <2>. QED
    BY <2>3, <2>4, <2>5, <1>0 DEF Reading
<1>10. Numbers'
  <2>1. Distinct'
    BY <1>0 DEF Distinct, notPopped
  <2>. QED
    BY <2>1, <1>3 DEF Numbers, Sums
<1>11. Connected'
  BY <1>0, NotPoppedConnected
<1>. QED
  BY <1>2, <1>7, <1>8, <1>9, <1>10, <1>11 DEF RecordersInv, Things

-----------------------------------------------------------------------------
\* Every step of the storage
LEMMA RecordersRest ==
  ASSUME RecordersInv, recorderVars' = recorderVars
  PROVE  RecordersInv'
<1>1. RecordersTypeOK'
  BY DEF RecordersInv, RecordersTypeOK, recorderVars
<1>2. Things'
  BY <1>1, ThingsFrame DEF RecordersInv, RecordersTypeOK, SamePushes, recorderVars
<1>3. Numbers'
  BY <1>1, NumbersFrame DEF RecordersInv, RecordersTypeOK, SameIncrements, recorderVars
<1>4. Connected'
  BY DEF RecordersInv, Connected, recorderVars
<1>. QED
  BY <1>1, <1>2, <1>3, <1>4 DEF RecordersInv

LEMMA RecordersKeep ==
  ASSUME RecordersInv, [Next]_vars
  PROVE  RecordersInv'
<1>1. CASE recorderVars' = recorderVars
  BY <1>1, RecordersRest
<1>2. ASSUME NEW f \in Feature, TrackCount(f) PROVE RecordersInv'
  BY <1>2, TrackCountKeeps
<1>3. ASSUME NEW t \in Thing, TrackUnique(t) PROVE RecordersInv'
  BY <1>3, TrackUniqueKeeps
<1>4. ASSUME NEW l \in {"impressions", "events"}, NEW S \in SUBSET Untracked(l), Track(S, l) PROVE RecordersInv'
  BY <1>4, TrackKeeps
<1>5. CASE RecordLatency \/ PostCounts \/ PostUniques
  BY <1>5, RecordLatencyKeeps, PostCountsKeeps, PostUniquesKeeps
<1>6. CASE Connect \/ Disconnected
  BY <1>6, ConnectKeeps, DisconnectedKeeps
<1>7. CASE Answer \/ Fail
  BY <1>7, AnswerKeeps, FailKeeps
<1>8. CASE Destroy \/ Disconnect \/ DeferredDisconnect \/ Close
  BY <1>8, DestroyKeeps, DisconnectKeeps, DeferredDisconnectKeeps, CloseKeeps
<1>9. ASSUME NEW l \in Lists, NEW n, ReadList(l, n) \/ PopList(l, n) PROVE RecordersInv'
  BY <1>9, ReadListKeeps, PopListKeeps
<1>10. CASE ReadCounts \/ ReadLatencies
  BY <1>10, ReadHashKeeps DEF ReadCounts, ReadLatencies, Hashes
<1>11. CASE TrimList \/ DeleteHash
  BY <1>11, TrimListKeeps, DeleteHashKeeps
<1>12. ASSUME NEW key \in Lists \cup Hashes, Vanish(key) PROVE RecordersInv'
  BY <1>12, VanishKeeps
<1>13. CASE vars' = vars
  BY <1>13, <1>1 DEF vars
<1>14. CASE Next
  <2>1. CASE Producing
    BY <2>1, <1>1 DEF Producing
  <2>2. CASE ~Producing
    BY <1>14, <2>2, <1>2, <1>3, <1>4, <1>5, <1>6, <1>7, <1>8, <1>9, <1>10, <1>11, <1>12 DEF Next
  <2>. QED
    BY <2>1, <2>2
<1>. QED
  BY <1>13, <1>14

LEMMA RecordersInvariance == Spec => []RecordersInv
<1>1. Init => RecordersInv
  BY RecordersInitInv DEF Init
<1>2. RecordersInv /\ [Next]_vars => RecordersInv'
  BY RecordersKeep
<1>. QED
  BY <1>1, <1>2, PTL DEF Spec

\* How often a thing is anywhere, from where it is.
LEMMA TimesCounted ==
  ASSUME RecordersInv, NEW t \in Thing
  PROVE  Times(t) <= 1 /\ (Times(t) = IF Somewhere(t) THEN 1 ELSE 0)
<1> DEFINE l == ListOf[t]
           here == Cardinality({i \in DOMAIN popped.items : popped.items[i] = t})
           there == Cardinality({i \in DOMAIN kept.lists[l] : kept.lists[l][i] = t})
           sends == {c \in running : c.cmd = "push" /\ t \in ToSet(c.items)}
<1>0. RecordersTypeOK /\ Apart /\ Orderly /\ l \in Lists
  BY AsyncRecordersAssumption DEF RecordersInv, Things
<1>1. here = IF Popped(t) THEN 1 ELSE 0
  <2>1. popped.items \in Seq(Thing) /\ NoDup(popped.items)
    BY <1>0 DEF RecordersTypeOK, Orderly
  <2>. QED
    BY <2>1, Occurrences DEF Popped
<1>2. there = IF Listed(t) THEN 1 ELSE 0
  <2>1. kept.lists[l] \in Seq(Thing) /\ NoDup(kept.lists[l])
    BY <1>0 DEF RecordersTypeOK, Orderly
  <2>2. In(kept.lists[l], t) <=> Listed(t)
    BY <1>0 DEF Listed, Orderly
  <2>3. there = IF In(kept.lists[l], t) THEN 1 ELSE 0
    BY <2>1, Occurrences
  <2>. QED
    BY <2>2, <2>3
<1>3. Cardinality(sends) = IF Sent(t) THEN 1 ELSE 0
  <2>1. sends = {c \in Pushes : In(c.items, t)}
    <3>1. \A c \in running : c.items \in Seq(Thing)
      BY <1>0 DEF RecordersTypeOK, Commands
    <3>2. \A c \in running : t \in ToSet(c.items) <=> In(c.items, t)
      BY <3>1, InToSet
    <3>. QED
      BY <3>2 DEF Pushes
  <2>2. CASE Sent(t)
    <3>1. PICK c \in Pushes : In(c.items, t)
      BY <2>2 DEF Sent
    <3>2. sends = {c}
      BY <2>1, <3>1, <1>0 DEF Apart
    <3>. QED
      BY <3>2, <2>2, FS_Singleton
  <2>3. CASE ~Sent(t)
    <3>1. sends = {}
      BY <2>1, <2>3 DEF Sent
    <3>. QED
      BY <3>1, <2>3, FS_EmptySet
  <2>. QED
    BY <2>2, <2>3
<1>4. Times(t) = here + there + Cardinality(sends) + (IF t \in uniques THEN 1 ELSE 0)
  BY DEF Times
<1>5. /\ Popped(t) => ~Listed(t) /\ ~Sent(t) /\ t \notin uniques
      /\ Listed(t) => ~Sent(t) /\ t \notin uniques
      /\ Sent(t) => t \notin uniques
  BY <1>0 DEF Apart
<1> HIDE DEF here, there, sends
<1>6. CASE Popped(t)
  BY <1>1, <1>2, <1>3, <1>4, <1>5, <1>6 DEF Somewhere
<1>7. CASE ~Popped(t) /\ Listed(t)
  BY <1>1, <1>2, <1>3, <1>4, <1>5, <1>7 DEF Somewhere
<1>8. CASE ~Popped(t) /\ ~Listed(t)
  BY <1>1, <1>2, <1>3, <1>4, <1>5, <1>8 DEF Somewhere
<1>. QED
  BY <1>6, <1>7, <1>8

\* What a client records is never in an asynchronous storage twice, and as long as
\* nothing failed it is in memory, on its way, in the storage or taken by the
\* synchroniser: for every interleaving of commands, answers, timeouts, expirations,
\* intervals, destroy and the reads and removals of the synchroniser.
THEOREM RecordedCorrect == Spec => []RecordedOnce
<1>1. RecordersInv => RecordedOnce
  <2> SUFFICES ASSUME RecordersInv PROVE RecordedOnce
    OBVIOUS
  <2>0. RecordersTypeOK /\ Apart /\ Sums
    BY DEF RecordersInv, Things, Numbers
  <2>1. \A t \in Thing : Times(t) <= 1
    BY TimesCounted
  <2>2. lost = 0 => \A t \in tracked.things : Times(t) = 1
    <3> SUFFICES ASSUME lost = 0, NEW t \in tracked.things PROVE Times(t) = 1
      OBVIOUS
    <3>1. t \in Thing /\ Somewhere(t)
      BY <2>0 DEF RecordersTypeOK, Apart
    <3>. QED
      BY <3>1, TimesCounted
  <2>. QED
    BY <2>0, <2>1, <2>2 DEF RecordedOnce, Sums
<1>. QED
  BY <1>1, RecordersInvariance, PTL

\* When an asynchronous storage is disconnected and nothing failed, all that was
\* recorded is in it or taken from it, what was under way when destroy was called
\* included.
THEOREM DestroyCorrect == Spec => []DestroyKeepsAll
<1>1. RecordersInv => DestroyKeepsAll
  <2> SUFFICES ASSUME RecordersInv, conn = "closed", lost = 0
               PROVE  /\ \A t \in tracked.things : t \notin uniques /\ Times(t) = 1
                      /\ ~clobbered => \A f \in Field : Stored(f) = tracked.counts[f]
    BY DEF DestroyKeepsAll
  <2>0. RecordersTypeOK /\ Apart /\ Sums /\ running = {} /\ counts = Zero /\ uniques = {}
    BY DEF RecordersInv, Things, Numbers, Connected
  <2>1. ASSUME NEW t \in tracked.things PROVE t \notin uniques /\ Times(t) = 1
    <3>1. t \in Thing /\ Somewhere(t)
      BY <2>0 DEF RecordersTypeOK, Apart
    <3>. QED
      BY <3>1, <2>0, TimesCounted
  <2>2. ASSUME ~clobbered, NEW f \in Field PROVE Stored(f) = tracked.counts[f]
    <3>1. Pending(f) + Stored(f) = tracked.counts[f]
      BY <2>0, <2>2 DEF Sums
    <3>2. Increments(running, f) = {}
      BY <2>0 DEF Increments
    <3>3. Pending(f) = 0
      BY <2>0, <3>2, FS_EmptySet DEF Pending, Zero
    <3>4. Stored(f) \in Nat
      BY <2>0, CommandsCounted
    <3>. QED
      BY <3>1, <3>3, <3>4
  <2>. QED
    BY <2>1, <2>2
<1>. QED
  BY <1>1, RecordersInvariance, PTL

-----------------------------------------------------------------------------
\* The types of the definitions
Types == {r.trafficType : r \in Rules}
Defs ==
  [name : Names, trafficType : Types, sets : {r.sets : r \in Rules},
   cn : Nat, killed : BOOLEAN, env : {Ours, "other"}]
DefsOf(f) == f = [n \in DOMAIN f |-> f[n]] /\ \A n \in DOMAIN f : n \in Names /\ f[n] \in Defs /\ f[n].name = n

Places == {"none", "definitions", "rbSegments", "segment"}
CallOK(c) ==
  /\ c = [of |-> c.of, op |-> c.op, name |-> c.name, d |-> c.d, prev |-> c.prev, pc |-> c.pc]
  /\ c.of \in Nat /\ c.op \in {"add", "remove", "till", "rbs", "keys"}
  /\ c.op = "add" => /\ c.pc \in {"get", "set", "incr", "decr", "delType", "sets"}
                     /\ c.d \in Defs /\ c.d.env = Ours /\ c.name = c.d.name
  /\ c.op = "remove" => /\ c.pc \in {"get", "decr", "delType", "sets", "del"}
                        /\ c.d = NoDefinition /\ c.name \in Names
  /\ c.op \in {"add", "remove"} => c.prev \in Defs \cup {NoDefinition}
  /\ c.op \in {"add", "remove"} /\ c.pc \in {"decr", "delType"} => c.prev # NoDefinition
  /\ c.op = "till" => c.pc = "till"
  /\ c.op = "rbs" => c.pc \in {"set", "delete"} /\ c.name \in RBNames
  /\ c.op = "keys" => c.pc \in {"add", "remove"} /\ c.name = "segment" /\ c.prev \in SUBSET SegmentKeys

DefinitionsTypeOK ==
  /\ remote = [defs |-> remote.defs, tts |-> remote.tts, sets |-> remote.sets, rbs |-> remote.rbs,
               tills |-> remote.tills, segments |-> remote.segments, hash |-> remote.hash]
  /\ DefsOf(remote.defs)
  /\ DOMAIN remote.tts \subseteq Types /\ \A t \in DOMAIN remote.tts : remote.tts[t] \in Int
  /\ DOMAIN remote.rbs \subseteq RBNames /\ StoredKeys \subseteq SegmentKeys
  /\ link \in {"connecting", "clearing", "ready", "failed"}
  /\ \A c \in calls : CallOK(c)
  /\ upstream = [defs |-> upstream.defs, rbs |-> upstream.rbs]
  /\ DefsOf(upstream.defs) /\ upstream.rbs \in SUBSET RBNames
  /\ last \in [part : Places, toAdd : SUBSET Defs, toRemove : SUBSET Names, keys : SUBSET SegmentKeys,
               outcome : {"ok", "running", "failed"}]
  /\ late \in BOOLEAN
  /\ updates \in Nat /\ faults \in Nat

\* The storage of another SDK key is cleared before anything is written.
Owned ==
  /\ calls # {} => link = "ready"
  /\ link = "ready" => remote.hash = Ours
  /\ link = "clearing" => remote.hash # Ours
  /\ remote.hash = Ours => \A n \in DOMAIN remote.defs : remote.defs[n].env = Ours
  /\ remote.hash # Ours =>
       /\ last.part = "none" /\ last.toAdd = {} /\ last.toRemove = {} /\ last.keys = {} /\ last.outcome = "ok"
       /\ StoredKeys = {} /\ DOMAIN upstream.defs = {} /\ upstream.rbs = {}

\* What is still to be written of an update that has not failed is in its calls.
Fresh == ~late /\ last.outcome # "failed"
Added == UNION {c.prev : c \in {x \in calls : x.op = "keys" /\ x.pc = "add"}}
Removed == UNION {c.prev : c \in {x \in calls : x.op = "keys" /\ x.pc = "remove"}}

CallsOfLast ==
  /\ \A c \in calls : /\ c.of = updates
                      /\ c.op = "add" => c.d \in last.toAdd
                      /\ c.op = "remove" => c.name \in last.toRemove
                      /\ c.op = "till" => c.name = last.part
  /\ last.outcome = "ok" => calls = {}
  /\ \A d, e \in last.toAdd : d.name = e.name => d = e
  /\ \A d \in last.toAdd : d.name \notin last.toRemove

DefsWritten ==
  /\ \A d \in last.toAdd :
       \/ d.name \in DOMAIN remote.defs /\ remote.defs[d.name] = d
       \/ \E c \in calls : c.op = "add" /\ c.d = d /\ c.pc \in {"get", "set"}
  /\ \A n \in last.toRemove :
       n \notin DOMAIN remote.defs \/ \E c \in calls : c.op = "remove" /\ c.name = n

RestWritten ==
  /\ last.part # "none" => ChangeNumber(last.part) = updates \/ \E c \in calls : c.op = "till"
  /\ Added \cap Removed = {} /\ (StoredKeys \cup Added) \ Removed = last.keys

Written == Fresh => CallsOfLast /\ DefsWritten /\ RestWritten

\* What the call of a name has done so far to its definition, its flag sets and the
\* count of its traffic type.
On(c, n) == c.op \in {"add", "remove"} /\ c.name = n
CallOn(n) == \E c \in calls : On(c, n)
Def(n) == IF n \in DOMAIN remote.defs THEN remote.defs[n] ELSE NoDefinition
HasType(d, t) == d # NoDefinition /\ d.trafficType = t
Before(c) == IF c.pc = "get" THEN Def(c.name) ELSE c.prev
Indexes(c, s) == c.pc # "del" /\ s \in Sets(Before(c))
Counts(c, t) ==
  \/ c.pc \in {"get", "set", "incr", "decr"} /\ HasType(Before(c), t)
  \/ c.op = "add" /\ c.pc \in {"decr", "delType", "sets"} /\ HasType(c.d, t)
Indexed(n, s) == IF CallOn(n) THEN \E c \in calls : On(c, n) /\ Indexes(c, s) ELSE s \in Sets(Def(n))
CountedFor(n, t) == IF CallOn(n) THEN \E c \in calls : On(c, n) /\ Counts(c, t) ELSE HasType(Def(n), t)

Same(n) ==
  /\ n \in DOMAIN remote.defs <=> n \in DOMAIN upstream.defs
  /\ n \in DOMAIN remote.defs => remote.defs[n] = upstream.defs[n]

Progress(c) ==
  /\ c.op = "add" => /\ c.name \in DOMAIN upstream.defs /\ upstream.defs[c.name] = c.d
                     /\ c.pc = "set" => c.prev = Def(c.name)
                     /\ c.pc \in {"incr", "decr", "delType", "sets"} => Def(c.name) = c.d
                     /\ c.pc \in {"incr", "decr"} => ~HasType(c.prev, c.d.trafficType)
  /\ c.op = "remove" => /\ c.name \notin DOMAIN upstream.defs
                        /\ c.pc # "get" => c.prev = Def(c.name)
  /\ c.op = "rbs" => (c.pc = "set" <=> c.name \in upstream.rbs)

\* While no command failed, calls are about different names and the storage is what
\* the backend has and what its calls have done so far.
Named == {c \in calls : c.op \in {"add", "remove"}}
DefsFollow ==
  /\ \A c, d \in Named : c.name = d.name => c = d
  /\ \A c \in calls : Progress(c)
  /\ \A n \in Names : Same(n) \/ CallOn(n)
RBSFollow ==
  \A n \in RBNames :
    (n \in DOMAIN remote.rbs <=> n \in upstream.rbs) \/ \E c \in calls : c.op = "rbs" /\ c.name = n
SetsFollow == \A s \in FlagSet : NamesBySet(s) = {n \in Names : Passes(s) /\ Indexed(n, s)}
Counted(t) == {n \in Names : CountedFor(n, t)}
TypesFollow == \A t \in Types : NumberAt(remote.tts, t) <= Cardinality(Counted(t))

Follows ==
  faults = 0 =>
    /\ Fresh
    /\ remote.hash = Ours => DefsFollow /\ RBSFollow /\ SetsFollow /\ TypesFollow

DefinitionsInv == DefinitionsTypeOK /\ Owned /\ Written /\ Follows

-----------------------------------------------------------------------------
\* Functions from the keys that exist.
LEMMA SetKey ==
  ASSUME NEW f, NEW k, NEW v
  PROVE  /\ DOMAIN Set(f, k, v) = DOMAIN f \cup {k}
         /\ Set(f, k, v)[k] = v
         /\ \A x \in DOMAIN f : x # k => Set(f, k, v)[x] = f[x]
         /\ Set(f, k, v) = [x \in DOMAIN Set(f, k, v) |-> Set(f, k, v)[x]]
BY DEF Set

LEMMA DelKeys ==
  ASSUME NEW f, NEW K
  PROVE  /\ DOMAIN Del(f, K) = DOMAIN f \ K
         /\ \A x \in DOMAIN f \ K : Del(f, K)[x] = f[x]
         /\ Del(f, K) = [x \in DOMAIN Del(f, K) |-> Del(f, K)[x]]
BY DEF Del

LEMMA DefsOfChanged ==
  ASSUME NEW f, DefsOf(f)
  PROVE  /\ \A d \in Defs : DefsOf(Set(f, d.name, d))
         /\ \A K : DefsOf(Del(f, K))
<1>1. ASSUME NEW d \in Defs PROVE DefsOf(Set(f, d.name, d))
  <2> DEFINE g == Set(f, d.name, d)
  <2>1. d.name \in Names
    BY DEF Defs
  <2>2. DOMAIN g = DOMAIN f \cup {d.name} /\ \A n \in DOMAIN g : g[n] = IF n = d.name THEN d ELSE f[n]
    BY DEF Set
  <2>3. g = [n \in DOMAIN g |-> g[n]]
    BY DEF Set
  <2> HIDE DEF g
  <2>. QED
    BY <2>1, <2>2, <2>3 DEF DefsOf, g
<1>2. ASSUME NEW K PROVE DefsOf(Del(f, K))
  <2> DEFINE g == Del(f, K)
  <2>1. DOMAIN g = DOMAIN f \ K /\ \A n \in DOMAIN g : g[n] = f[n]
    BY DEF Del
  <2>2. g = [n \in DOMAIN g |-> g[n]]
    BY DelKeys
  <2> HIDE DEF g
  <2>. QED
    BY <2>1, <2>2 DEF DefsOf, g
<1>. QED
  BY <1>1, <1>2

NumbersOf(f) == DOMAIN f \subseteq Types /\ \A t \in DOMAIN f : f[t] \in Int

LEMMA NumberChanged ==
  ASSUME NEW f, NumbersOf(f), NEW k \in Types
  PROVE  /\ \A t : NumberAt(f, t) \in Int
         /\ NumbersOf(Incr(f, k, 1)) /\ NumbersOf(Decr(f, k, 1)) /\ \A K : NumbersOf(Del(f, K))
         /\ \A t : NumberAt(Incr(f, k, 1), t) = IF t = k THEN NumberAt(f, t) + 1 ELSE NumberAt(f, t)
         /\ \A t : NumberAt(Decr(f, k, 1), t) = IF t = k THEN NumberAt(f, t) - 1 ELSE NumberAt(f, t)
         /\ \A K, t : NumberAt(Del(f, K), t) = IF t \in K THEN 0 ELSE NumberAt(f, t)
<1>1. \A t : NumberAt(f, t) \in Int
  BY DEF NumberAt, NumbersOf
<1>2. ASSUME NEW v \in Int
      PROVE  /\ NumbersOf(Set(f, k, v))
             /\ \A t : NumberAt(Set(f, k, v), t) = IF t = k THEN v ELSE NumberAt(f, t)
  <2> DEFINE g == Set(f, k, v)
  <2>1. DOMAIN g = DOMAIN f \cup {k} /\ \A t \in DOMAIN g : g[t] = IF t = k THEN v ELSE f[t]
    BY DEF Set
  <2> HIDE DEF g
  <2>2. NumbersOf(g) /\ \A t : NumberAt(g, t) = IF t = k THEN v ELSE NumberAt(f, t)
    BY <1>2, <2>1 DEF NumbersOf, NumberAt
  <2>. QED
    BY <2>2 DEF g
<1>3. NumberAt(f, k) + 1 \in Int /\ NumberAt(f, k) - 1 \in Int
  BY <1>1
<1>4. /\ NumbersOf(Incr(f, k, 1)) /\ NumbersOf(Decr(f, k, 1))
      /\ \A t : NumberAt(Incr(f, k, 1), t) = IF t = k THEN NumberAt(f, k) + 1 ELSE NumberAt(f, t)
      /\ \A t : NumberAt(Decr(f, k, 1), t) = IF t = k THEN NumberAt(f, k) - 1 ELSE NumberAt(f, t)
  BY <1>2, <1>3 DEF Incr, Decr
<1>5. ASSUME NEW K
      PROVE  /\ NumbersOf(Del(f, K))
             /\ \A t : NumberAt(Del(f, K), t) = IF t \in K THEN 0 ELSE NumberAt(f, t)
  <2> DEFINE g == Del(f, K)
  <2>1. DOMAIN g = DOMAIN f \ K /\ \A t \in DOMAIN g : g[t] = f[t]
    BY DEF Del
  <2> HIDE DEF g
  <2>2. NumbersOf(g) /\ \A t : NumberAt(g, t) = IF t \in K THEN 0 ELSE NumberAt(f, t)
    BY <2>1 DEF NumbersOf, NumberAt
  <2>. QED
    BY <2>2 DEF g
<1>. QED
  BY <1>1, <1>4, <1>5

LEMMA DefsReal ==
  /\ \A d \in Defs : d # NoDefinition
  /\ \A r \in Rules, cn \in Nat, env \in {Ours, "other"} :
       /\ Definition(r, cn, env) \in Defs
       /\ Definition(r, cn, env).name = r.name
       /\ Definition(r, cn, env).trafficType = r.trafficType
       /\ Definition(r, cn, env).env = env
  /\ \A d \in Defs, cn \in Nat : Killed(d, cn) \in Defs /\ Killed(d, cn).name = d.name /\ Killed(d, cn).env = d.env
<1>1. \A d \in Defs : d # NoDefinition
  <2> SUFFICES ASSUME NEW d \in Defs, d = NoDefinition PROVE FALSE
    OBVIOUS
  <2>1. "cn" \in DOMAIN d
    BY DEF Defs
  <2>2. "cn" \notin DOMAIN NoDefinition
    BY DEF NoDefinition
  <2>. QED
    BY <2>1, <2>2
<1>2. \A r \in Rules, cn \in Nat, env \in {Ours, "other"} :
       /\ Definition(r, cn, env) \in Defs
       /\ Definition(r, cn, env).name = r.name
       /\ Definition(r, cn, env).trafficType = r.trafficType
       /\ Definition(r, cn, env).env = env
  BY DEF Definition, Defs, Names, Types
<1>3. \A d \in Defs, cn \in Nat : Killed(d, cn) \in Defs /\ Killed(d, cn).name = d.name /\ Killed(d, cn).env = d.env
  BY DEF Killed, Defs
<1>. QED
  BY <1>1, <1>2, <1>3

LEMMA NamesFinite == IsFiniteSet(Names) /\ \A S \in SUBSET Names : IsFiniteSet(S) /\ Cardinality(S) \in Nat
<1> DEFINE f == [r \in Rules |-> r.name]
<1>1. f \in Surjection(Rules, Names)
  BY DEF Surjection, Names
<1>2. IsFiniteSet(Names)
  BY <1>1, AsyncDefinitionsAssumption, FS_Surjection
<1>. QED
  BY <1>2, FS_Subset, FS_CardinalityType

-----------------------------------------------------------------------------
LEMMA DefinitionsInitInv == DefinitionsInit => DefinitionsInv
<1> SUFFICES ASSUME DefinitionsInit PROVE DefinitionsInv
  OBVIOUS
<1>1. /\ link = "connecting" /\ calls = {} /\ upstream = [defs |-> <<>>, rbs |-> {}]
      /\ last = [part |-> "none", toAdd |-> {}, toRemove |-> {}, keys |-> {}, outcome |-> "ok"]
      /\ late = FALSE /\ updates = 0 /\ faults = 0
  BY DEF DefinitionsInit
<1>2. DefsOf(<<>>) /\ NumbersOf(<<>>) /\ DOMAIN <<>> = {}
  BY DEF DefsOf, NumbersOf
<1>3. CASE remote = NoRemote \/ remote = [NoRemote EXCEPT !.hash = Ours]
  <2>1. /\ remote = [defs |-> <<>>, tts |-> <<>>, sets |-> <<>>, rbs |-> <<>>, tills |-> <<>>,
                     segments |-> <<>>, hash |-> remote.hash]
    BY <1>3 DEF NoRemote
  <2>2. DefinitionsTypeOK
    <3>1. remote.hash = remote.hash /\ remote.defs = <<>> /\ remote.tts = <<>> /\ remote.sets = <<>>
          /\ remote.rbs = <<>> /\ remote.tills = <<>> /\ remote.segments = <<>>
      BY <2>1
    <3>. QED
      BY <1>1, <1>2, <2>1, <3>1 DEF DefinitionsTypeOK, NumbersOf, Places, StoredKeys, ItemsAt
  <2>3. Owned
    BY <1>1, <1>2, <2>1 DEF Owned, StoredKeys, ItemsAt
  <2>4. Written
    BY <1>1, <1>2, <2>1 DEF Written, CallsOfLast, DefsWritten, RestWritten, Added, Removed, StoredKeys, ItemsAt
  <2>5. \A n : ~CallOn(n) /\ Def(n) = NoDefinition
    BY <1>1, <1>2, <2>1 DEF CallOn, Def
  <2>6. DefsFollow
    BY <1>1, <1>2, <2>1 DEF DefsFollow, Named, Same
  <2>7. RBSFollow
    BY <1>1, <1>2, <2>1 DEF RBSFollow
  <2>8. SetsFollow
    <3>1. \A n, s : ~Indexed(n, s)
      BY <2>5 DEF Indexed, Sets
    <3>. QED
      BY <3>1, <1>2, <2>1 DEF SetsFollow, NamesBySet, ItemsAt
  <2>9. TypesFollow
    <3>1. \A t : NumberAt(remote.tts, t) = 0
      BY <1>2, <2>1 DEF NumberAt
    <3>2. \A t : Counted(t) \in SUBSET Names
      BY DEF Counted
    <3>. QED
      BY <3>1, <3>2, NamesFinite DEF TypesFollow
  <2>. QED
    BY <1>1, <2>2, <2>3, <2>4, <2>6, <2>7, <2>8, <2>9 DEF DefinitionsInv, Follows, Fresh
<1>4. CASE remote \in LeftBehind
  <2>1. PICK r \in Rules :
          remote = [NoRemote EXCEPT !.hash = "other",
                    !.defs = Set(<<>>, r.name, Definition(r, 9, "other")),
                    !.tts = Set(<<>>, r.trafficType, 1),
                    !.tills = Set(<<>>, "definitions", 9)]
    BY <1>4 DEF LeftBehind
  <2> DEFINE d == Definition(r, 9, "other")
  <2>2. d \in Defs /\ d.name = r.name
    BY DefsReal
  <2>3. remote = [defs |-> Set(<<>>, r.name, d), tts |-> Set(<<>>, r.trafficType, 1), sets |-> <<>>, rbs |-> <<>>,
                  tills |-> Set(<<>>, "definitions", 9), segments |-> <<>>, hash |-> "other"]
    BY <2>1 DEF NoRemote
  <2> HIDE DEF d
  <2>4. DefsOf(remote.defs)
    BY <1>2, <2>2, <2>3, DefsOfChanged
  <2>5. NumbersOf(remote.tts)
    <3>1. remote.tts = [t \in {r.trafficType} |-> 1]
      BY <2>3, <1>2 DEF Set
    <3>. QED
      BY <3>1 DEF NumbersOf, Types
  <2>6. DefinitionsTypeOK
    BY <1>1, <1>2, <2>3, <2>4, <2>5 DEF DefinitionsTypeOK, NumbersOf, Places, StoredKeys, ItemsAt
  <2>7. Owned
    BY <1>1, <1>2, <2>3 DEF Owned, StoredKeys, ItemsAt, Ours
  <2>8. Written
    BY <1>1, <1>2, <2>3 DEF Written, CallsOfLast, DefsWritten, RestWritten, Added, Removed, StoredKeys, ItemsAt
  <2>9. Follows
    BY <1>1, <2>3 DEF Follows, Fresh, Ours
  <2>. QED
    BY <2>6, <2>7, <2>8, <2>9 DEF DefinitionsInv
<1>. QED
  BY <1>3, <1>4 DEF DefinitionsInit

-----------------------------------------------------------------------------
\* The connection of the producer
LEMMA DefinitionsFrame ==
  ASSUME DefinitionsInv, UNCHANGED <<remote, calls, upstream, last, late, updates>>,
         link' \in {"connecting", "clearing", "ready", "failed"}, faults' \in Nat, faults' = 0 => faults = 0
  PROVE  DefinitionsTypeOK' /\ Written' /\ Follows'
<1>1. DefinitionsTypeOK'
  BY DEF DefinitionsInv, DefinitionsTypeOK, StoredKeys
<1>2. Written'
  BY DEF DefinitionsInv, Written, Fresh, CallsOfLast, DefsWritten, RestWritten, Added, Removed, StoredKeys, ChangeNumber
<1>3. Follows'
  <2>1. \A c : Progress(c)' <=> Progress(c)
    BY DEF Progress, Def
  <2>2. \A n, s : Indexed(n, s)' <=> Indexed(n, s)
    BY DEF Indexed, CallOn, Indexes, Before, Def
  <2>3. \A t : Counted(t)' = Counted(t)
    BY DEF Counted, CountedFor, CallOn, Counts, Before, Def
  <2>4. DefsFollow' <=> DefsFollow
    BY <2>1 DEF DefsFollow, Named, Same, CallOn
  <2>5. SetsFollow' <=> SetsFollow
    BY <2>2 DEF SetsFollow, NamesBySet
  <2>6. TypesFollow' <=> TypesFollow
    BY <2>3 DEF TypesFollow
  <2>7. RBSFollow' <=> RBSFollow
    BY DEF RBSFollow
  <2>. QED
    BY <2>4, <2>5, <2>6, <2>7 DEF DefinitionsInv, Follows, Fresh
<1>. QED
  BY <1>1, <1>2, <1>3

LEMMA ConnectProducerKeeps ==
  ASSUME DefinitionsInv, ConnectProducer
  PROVE  DefinitionsInv'
<1>1. /\ UNCHANGED <<remote, calls, upstream, last, late, updates>> /\ faults' = faults
      /\ link = "connecting" /\ link' = IF remote.hash = Ours THEN "ready" ELSE "clearing"
  BY DEF ConnectProducer
<1>2. DefinitionsTypeOK' /\ Written' /\ Follows'
  BY <1>1, DefinitionsFrame DEF DefinitionsInv, DefinitionsTypeOK
<1>3. Owned'
  BY <1>1 DEF DefinitionsInv, Owned, StoredKeys
<1>. QED
  BY <1>2, <1>3 DEF DefinitionsInv

LEMMA ConnectProducerFailsKeeps ==
  ASSUME DefinitionsInv, ConnectProducerFails
  PROVE  DefinitionsInv'
<1>1. /\ UNCHANGED <<remote, calls, upstream, last, late, updates>> /\ faults' = faults + 1
      /\ link \in {"connecting", "clearing"} /\ link' = "failed"
  BY DEF ConnectProducerFails
<1>2. DefinitionsTypeOK' /\ Written' /\ Follows'
  BY <1>1, DefinitionsFrame DEF DefinitionsInv, DefinitionsTypeOK
<1>3. Owned'
  BY <1>1 DEF DefinitionsInv, Owned, StoredKeys
<1>. QED
  BY <1>2, <1>3 DEF DefinitionsInv

LEMMA RestartKeeps ==
  ASSUME DefinitionsInv, Restart
  PROVE  DefinitionsInv'
<1>0. /\ DefinitionsTypeOK /\ Owned /\ Written
      /\ link' = "connecting" /\ calls' = {} /\ faults' = faults + 1
      /\ UNCHANGED <<remote, upstream, late, updates>>
      /\ last' = [last EXCEPT !.outcome = IF calls = {} THEN @ ELSE "failed"]
  BY DEF DefinitionsInv, Restart
<1>1. CASE calls = {}
  <2>1. last' = last
    BY <1>0, <1>1 DEF DefinitionsTypeOK
  <2>2. DefinitionsTypeOK' /\ Written' /\ Follows'
    BY <1>0, <1>1, <2>1, DefinitionsFrame DEF DefinitionsTypeOK
  <2>3. Owned'
    BY <1>0, <2>1 DEF Owned, StoredKeys
  <2>. QED
    BY <2>2, <2>3 DEF DefinitionsInv
<1>2. CASE calls # {}
  <2>1. remote.hash = Ours
    BY <1>0, <1>2 DEF Owned
  <2>2. DefinitionsTypeOK'
    BY <1>0, <1>2 DEF DefinitionsTypeOK, StoredKeys
  <2>3. Owned'
    BY <1>0, <2>1 DEF Owned
  <2>4. ~Fresh' /\ faults' # 0
    BY <1>0, <1>2 DEF DefinitionsTypeOK, Fresh
  <2>. QED
    BY <2>2, <2>3, <2>4 DEF DefinitionsInv, Written, Follows
<1>. QED
  BY <1>1, <1>2

LEMMA CommandFailsKeeps ==
  ASSUME DefinitionsInv, CommandFails
  PROVE  DefinitionsInv'
<1>1. PICK c \in calls :
        /\ calls' = calls \ {c}
        /\ last' = IF c.of = updates THEN [last EXCEPT !.outcome = "failed"] ELSE last
  BY DEF CommandFails
<1>2. /\ DefinitionsTypeOK /\ Owned /\ Written /\ faults' = faults + 1
      /\ UNCHANGED <<remote, link, upstream, late, updates>>
  BY DEF DefinitionsInv, CommandFails
<1>3. DefinitionsTypeOK'
  BY <1>1, <1>2 DEF DefinitionsTypeOK, StoredKeys
<1>4. Owned'
  BY <1>1, <1>2 DEF Owned
<1>5. ~Fresh' /\ faults' # 0
  <2>1. CASE c.of = updates
    BY <2>1, <1>1, <1>2 DEF DefinitionsTypeOK, Fresh
  <2>2. CASE c.of # updates
    BY <2>2, <1>1, <1>2 DEF DefinitionsTypeOK, Fresh, Written, CallsOfLast
  <2>. QED
    BY <2>1, <2>2
<1>. QED
  BY <1>3, <1>4, <1>5 DEF DefinitionsInv, Written, Follows

LEMMA ClearKeysKeeps ==
  ASSUME DefinitionsInv, ClearKeys
  PROVE  DefinitionsInv'
<1>1. PICK p \in Keyed : \E K \in (SUBSET DOMAIN remote[p]) \ {{}} :
        remote' = [remote EXCEPT ![p] = Del(@, K)]
  BY DEF ClearKeys
<1>2. PICK K : remote' = [remote EXCEPT ![p] = Del(@, K)]
  BY <1>1
<1>3. /\ DefinitionsTypeOK /\ Owned /\ Written /\ Follows /\ link = "clearing"
      /\ UNCHANGED <<link, calls, upstream, last, late, updates, faults>>
  BY DEF DefinitionsInv, ClearKeys
<1>4. calls = {} /\ remote.hash # Ours
  BY <1>3 DEF Owned
<1>5. /\ remote' = [defs |-> remote'.defs, tts |-> remote'.tts, sets |-> remote'.sets, rbs |-> remote'.rbs,
                    tills |-> remote'.tills, segments |-> remote'.segments, hash |-> remote'.hash]
      /\ remote'.hash = remote.hash
      /\ remote'.defs = remote.defs \/ remote'.defs = Del(remote.defs, K)
      /\ remote'.tts = remote.tts \/ remote'.tts = Del(remote.tts, K)
      /\ remote'.rbs = remote.rbs \/ remote'.rbs = Del(remote.rbs, K)
      /\ remote'.segments = remote.segments \/ remote'.segments = Del(remote.segments, K)
  <2>1. remote = [defs |-> remote.defs, tts |-> remote.tts, sets |-> remote.sets, rbs |-> remote.rbs,
                  tills |-> remote.tills, segments |-> remote.segments, hash |-> remote.hash]
    BY <1>3 DEF DefinitionsTypeOK
  <2>. QED
    BY <1>2, <2>1 DEF Keyed
<1>6. DefsOf(remote'.defs)
  BY <1>3, <1>5, DefsOfChanged DEF DefinitionsTypeOK
<1>7. NumbersOf(remote'.tts)
  <2>1. NumbersOf(remote.tts)
    BY <1>3 DEF DefinitionsTypeOK, NumbersOf
  <2>2. NumbersOf(Del(remote.tts, K))
    BY <2>1 DEF NumbersOf, Del
  <2>. QED
    BY <2>1, <2>2, <1>5
<1>8. StoredKeys = {} /\ StoredKeys' = {}
  <2>1. StoredKeys = {}
    BY <1>3, <1>4 DEF Owned
  <2>2. ItemsAt(Del(remote.segments, K), "segment") = {}
    BY <2>1 DEF Del, StoredKeys, ItemsAt
  <2>. QED
    BY <2>1, <2>2, <1>5 DEF StoredKeys
<1>9. DOMAIN remote'.rbs \subseteq RBNames
  BY <1>3, <1>5 DEF Del, DefinitionsTypeOK
<1>10. DefinitionsTypeOK'
  BY <1>3, <1>5, <1>6, <1>7, <1>8, <1>9 DEF DefinitionsTypeOK, NumbersOf
<1>11. Owned'
  BY <1>3, <1>4, <1>5, <1>8 DEF Owned
<1>12. Written'
  BY <1>3, <1>4, <1>8 DEF Written, Fresh, Owned, CallsOfLast, DefsWritten, RestWritten, Added, Removed
<1>13. Follows'
  BY <1>3, <1>4, <1>5 DEF Follows, Fresh
<1>. QED
  BY <1>10, <1>11, <1>12, <1>13 DEF DefinitionsInv

LEMMA SetHashKeeps ==
  ASSUME DefinitionsInv, SetHash
  PROVE  DefinitionsInv'
<1>1. /\ DefinitionsTypeOK /\ Owned /\ Written /\ Follows /\ link = "clearing" /\ link' = "ready"
      /\ UNCHANGED <<calls, upstream, last, late, updates, faults>>
      /\ remote' = [remote EXCEPT !.hash = Ours]
      /\ \A p \in Keyed : DOMAIN remote[p] = {}
  BY DEF DefinitionsInv, SetHash
<1>2. calls = {} /\ remote.hash # Ours
  BY <1>1 DEF Owned
<1>3. remote = [defs |-> remote.defs, tts |-> remote.tts, sets |-> remote.sets, rbs |-> remote.rbs,
                tills |-> remote.tills, segments |-> remote.segments, hash |-> remote.hash]
  BY <1>1 DEF DefinitionsTypeOK
<1>4. remote' = [defs |-> remote.defs, tts |-> remote.tts, sets |-> remote.sets, rbs |-> remote.rbs,
                 tills |-> remote.tills, segments |-> remote.segments, hash |-> Ours]
  BY <1>1, <1>3
<1>5. /\ DOMAIN remote.defs = {} /\ DOMAIN remote.tts = {} /\ DOMAIN remote.sets = {} /\ DOMAIN remote.rbs = {}
      /\ DOMAIN remote.segments = {}
  BY <1>1 DEF Keyed
<1>6. DefinitionsTypeOK'
  BY <1>1, <1>4 DEF DefinitionsTypeOK, StoredKeys
<1>7. Owned'
  BY <1>1, <1>2, <1>4, <1>5 DEF Owned
<1>8. Written'
  BY <1>1, <1>2, <1>4 DEF Written, Fresh, Owned, CallsOfLast, DefsWritten, RestWritten, Added, Removed, StoredKeys
<1>9. Follows'
  <2>1. DOMAIN upstream.defs = {} /\ upstream.rbs = {}
    BY <1>1, <1>2 DEF Owned
  <2>2. \A n : ~CallOn(n)' /\ Def(n)' = NoDefinition
    BY <1>1, <1>2, <1>4, <1>5 DEF CallOn, Def
  <2>3. DefsFollow'
    BY <1>1, <1>2, <1>4, <1>5, <2>1 DEF DefsFollow, Named, Same
  <2>4. RBSFollow'
    BY <1>1, <1>4, <1>5, <2>1 DEF RBSFollow
  <2>5. SetsFollow'
    <3>1. \A n, s : ~Indexed(n, s)'
      BY <2>2 DEF Indexed, Sets
    <3>. QED
      BY <3>1, <1>4, <1>5 DEF SetsFollow, NamesBySet, ItemsAt
  <2>6. TypesFollow'
    <3>1. \A t : NumberAt(remote'.tts, t) = 0
      BY <1>4, <1>5 DEF NumberAt
    <3>2. \A t : Counted(t)' \in SUBSET Names
      BY DEF Counted
    <3>. QED
      BY <3>1, <3>2, NamesFinite DEF TypesFollow
  <2>. QED
    BY <1>1, <2>3, <2>4, <2>5, <2>6 DEF Follows, Fresh
<1>. QED
  BY <1>6, <1>7, <1>8, <1>9 DEF DefinitionsInv

-----------------------------------------------------------------------------
\* Updates begin
LEMMA CallFields ==
  ASSUME NEW op, NEW name, NEW d, NEW pc
  PROVE  /\ Call(op, name, d) = [of |-> updates + 1, op |-> op, name |-> name, d |-> d, prev |-> NoDefinition, pc |-> "get"]
         /\ CallAt(op, name, pc)
            = [of |-> updates + 1, op |-> op, name |-> name, d |-> NoDefinition, prev |-> NoDefinition, pc |-> pc]
BY DEF Call, CallAt

LEMMA NamedCallFields ==
  /\ \A d : AddCall(d) = [of |-> updates + 1, op |-> "add", name |-> d.name, d |-> d, prev |-> NoDefinition, pc |-> "get"]
  /\ \A n : RemoveCall(n) = [of |-> updates + 1, op |-> "remove", name |-> n, d |-> NoDefinition,
                              prev |-> NoDefinition, pc |-> "get"]
BY DEF AddCall, RemoveCall, Call

LEMMA QuietBefore ==
  ASSUME DefinitionsInv, last.outcome # "running", faults = 0
  PROVE  calls = {} /\ ~late
BY DEF DefinitionsInv, DefinitionsTypeOK, Follows, Fresh, Written, CallsOfLast

\* A call that begins has not done anything yet.
LEMMA BegunFollow ==
  ASSUME SetsFollow, TypesFollow, calls = {}, remote' = remote,
         \A c \in calls' : c.op \in {"add", "remove"} => c.pc = "get"
  PROVE  SetsFollow' /\ TypesFollow'
<1>1. \A n : ~CallOn(n) /\ Def(n)' = Def(n)
  BY DEF CallOn, Def
<1>2. ASSUME NEW n, NEW s PROVE Indexed(n, s)' <=> Indexed(n, s)
  <2>1. \A c \in calls' : On(c, n) => (Indexes(c, s)' <=> s \in Sets(Def(n)))
    BY <1>1 DEF On, Indexes, Before
  <2>. QED
    BY <2>1, <1>1 DEF Indexed, CallOn
<1>3. ASSUME NEW n, NEW t PROVE CountedFor(n, t)' <=> CountedFor(n, t)
  <2>1. \A c \in calls' : On(c, n) => (Counts(c, t)' <=> HasType(Def(n), t))
    BY <1>1 DEF On, Counts, Before
  <2>. QED
    BY <2>1, <1>1 DEF CountedFor, CallOn
<1>4. SetsFollow'
  BY <1>2 DEF SetsFollow, NamesBySet
<1>5. TypesFollow'
  <2>1. \A t : Counted(t)' = Counted(t)
    BY <1>3 DEF Counted
  <2>. QED
    BY <2>1 DEF TypesFollow
<1>. QED
  BY <1>4, <1>5

LEMMA BeginUpdateKeeps ==
  ASSUME DefinitionsInv, BeginUpdate
  PROVE  DefinitionsInv'
<1>0. /\ DefinitionsTypeOK /\ Owned /\ Written /\ Follows /\ link = "ready" /\ last.outcome # "running"
      /\ UNCHANGED <<remote, link, faults>> /\ updates' = updates + 1 /\ late' = (late \/ calls # {})
      /\ remote.hash = Ours /\ updates \in Nat /\ late \in BOOLEAN
  BY DEF DefinitionsInv, BeginUpdate, Owned, DefinitionsTypeOK
<1>1. PICK B \in Batches, gone \in SUBSET Names :
        LET toAdd == {Definition(r, updates + 1, Ours) : r \in B}
            added == {r.name : r \in B}
        IN /\ gone \cap added = {}
           /\ gone \subseteq DOMAIN upstream.defs
           /\ calls' = calls \cup {AddCall(d) : d \in toAdd} \cup {RemoveCall(n) : n \in gone}
                             \cup {SetChangeNumber("definitions")}
           /\ upstream' = [upstream EXCEPT !.defs =
                [n \in (DOMAIN @ \cup added) \ gone |->
                   IF n \in added THEN CHOOSE d \in toAdd : d.name = n ELSE @[n]]]
           /\ last' = [Latest("definitions") EXCEPT !.toAdd = toAdd, !.toRemove = gone]
  BY DEF BeginUpdate
<1> DEFINE toAdd == {Definition(r, updates + 1, Ours) : r \in B}
           added == {r.name : r \in B}
           adds == {AddCall(d) : d \in toAdd}
           removes == {RemoveCall(n) : n \in gone}
           till == SetChangeNumber("definitions")
           ups == [n \in (DOMAIN upstream.defs \cup added) \ gone |->
                     IF n \in added THEN CHOOSE d \in toAdd : d.name = n ELSE upstream.defs[n]]
<1>2. /\ gone \cap added = {} /\ gone \subseteq DOMAIN upstream.defs
      /\ calls' = calls \cup adds \cup removes \cup {till}
      /\ upstream' = [upstream EXCEPT !.defs = ups]
      /\ last' = [Latest("definitions") EXCEPT !.toAdd = toAdd, !.toRemove = gone]
  BY <1>1
<1>3. /\ toAdd \in SUBSET Defs /\ \A d \in toAdd : d.env = Ours /\ d.name \in added
      /\ \A d, e \in toAdd : d.name = e.name => d = e
      /\ \A n \in added : \E d \in toAdd : d.name = n
      /\ added \in SUBSET Names
  <2>1. B \subseteq Rules /\ (\A a, b \in B : a.name = b.name => a = b) /\ updates + 1 \in Nat /\ Ours \in {Ours, "other"}
    BY <1>0 DEF Batches
  <2>2. \A r \in B : /\ Definition(r, updates + 1, Ours) \in Defs
                     /\ Definition(r, updates + 1, Ours).name = r.name
                     /\ Definition(r, updates + 1, Ours).env = Ours
    BY <2>1, DefsReal
  <2>3. \A d \in toAdd : \E r \in B : d = Definition(r, updates + 1, Ours)
    OBVIOUS
  <2>4. \A r \in B : Definition(r, updates + 1, Ours) \in toAdd
    OBVIOUS
  <2>. QED
    BY <2>1, <2>2, <2>3, <2>4 DEF Names
<1>4. /\ last' = [part |-> "definitions", toAdd |-> toAdd, toRemove |-> gone, keys |-> StoredKeys, outcome |-> "running"]
      /\ upstream' = [defs |-> ups, rbs |-> upstream.rbs]
  BY <1>0, <1>2 DEF Latest, DefinitionsTypeOK
<1>5. /\ \A c \in adds : \E d \in toAdd : c = AddCall(d)
      /\ \A d \in toAdd : AddCall(d) \in adds
      /\ \A c \in removes : \E n \in gone : c = RemoveCall(n)
      /\ \A n \in gone : RemoveCall(n) \in removes
  OBVIOUS
<1> HIDE DEF toAdd, added, adds, removes
<1>6. \A c \in adds : /\ c = [of |-> updates + 1, op |-> "add", name |-> c.d.name, d |-> c.d, prev |-> NoDefinition, pc |-> "get"]
                      /\ c.d \in toAdd
  BY <1>5, NamedCallFields
<1>7. \A c \in removes : /\ c = [of |-> updates + 1, op |-> "remove", name |-> c.name, d |-> NoDefinition,
                                 prev |-> NoDefinition, pc |-> "get"]
                         /\ c.name \in gone
  BY <1>5, NamedCallFields
<1>8. till = [of |-> updates + 1, op |-> "till", name |-> "definitions", d |-> NoDefinition, prev |-> NoDefinition,
              pc |-> "till"]
  BY CallFields DEF SetChangeNumber
<1>9. \A d \in toAdd : \E c \in adds : c.d = d
  BY <1>5, NamedCallFields
<1>10. \A n \in gone : \E c \in removes : c.name = n
  BY <1>5, NamedCallFields
<1> HIDE DEF till
<1>11. /\ DOMAIN ups = (DOMAIN upstream.defs \cup added) \ gone
       /\ \A d \in toAdd : d.name \in DOMAIN ups /\ ups[d.name] = d
       /\ \A n \in DOMAIN ups : n \notin added => ups[n] = upstream.defs[n]
       /\ DefsOf(ups)
  <2>1. DOMAIN ups = (DOMAIN upstream.defs \cup added) \ gone
    OBVIOUS
  <2>2. \A n \in DOMAIN ups : n \in added => ups[n] \in toAdd /\ ups[n].name = n
    BY <1>3
  <2>3. \A n \in DOMAIN ups : n \notin added => ups[n] = upstream.defs[n] /\ n \in DOMAIN upstream.defs
    OBVIOUS
  <2>4. \A d \in toAdd : d.name \in DOMAIN ups /\ ups[d.name] = d
    BY <2>1, <2>2, <1>2, <1>3
  <2>5. ups = [n \in DOMAIN ups |-> ups[n]]
    OBVIOUS
  <2> HIDE DEF ups
  <2>6. DefsOf(upstream.defs)
    BY <1>0 DEF DefinitionsTypeOK
  <2>7. ASSUME NEW n \in DOMAIN ups PROVE n \in Names /\ ups[n] \in Defs /\ ups[n].name = n
    <3>1. CASE n \in added
      BY <3>1, <2>2, <1>3
    <3>2. CASE n \notin added
      BY <3>2, <2>3, <2>6 DEF DefsOf
    <3>. QED
      BY <3>1, <3>2
  <2>8. DefsOf(ups)
    BY <2>5, <2>7 DEF DefsOf
  <2>. QED
    BY <2>1, <2>3, <2>4, <2>8
<1> HIDE DEF ups
<1>12. \A c \in calls' : c \in calls \/ c \in adds \/ c \in removes \/ c = till
  BY <1>2
<1>13. DefinitionsTypeOK'
  <2>1. \A c \in adds : CallOK(c)
    BY <1>0, <1>3, <1>6 DEF CallOK
  <2>2. \A c \in removes : CallOK(c)
    BY <1>0, <1>7 DEF CallOK
  <2>3. CallOK(till)
    BY <1>0, <1>8 DEF CallOK
  <2>4. \A c \in calls' : CallOK(c)
    BY <2>1, <2>2, <2>3, <1>0, <1>12 DEF DefinitionsTypeOK
  <2>5. last' \in [part : Places, toAdd : SUBSET Defs, toRemove : SUBSET Names, keys : SUBSET SegmentKeys,
               outcome : {"ok", "running", "failed"}]
    BY <1>0, <1>3, <1>4 DEF DefinitionsTypeOK, Places
  <2>6. upstream' = [defs |-> upstream'.defs, rbs |-> upstream'.rbs] /\ DefsOf(upstream'.defs)
        /\ upstream'.rbs \in SUBSET RBNames
    BY <1>0, <1>4, <1>11 DEF DefinitionsTypeOK
  <2>7. late' \in BOOLEAN /\ updates' \in Nat
    BY <1>0
  <2>. QED
    BY <1>0, <2>4, <2>5, <2>6, <2>7 DEF DefinitionsTypeOK, StoredKeys
<1>14. Owned'
  BY <1>0 DEF Owned
<1>15. Written'
  <2> SUFFICES ASSUME Fresh' PROVE CallsOfLast' /\ DefsWritten' /\ RestWritten'
    BY DEF Written
  <2>1. calls = {}
    BY <1>0 DEF Fresh
  <2>2. CallsOfLast'
    <3>1. \A c \in calls' : /\ c.of = updates'
                            /\ c.op = "add" => c.d \in toAdd
                            /\ c.op = "remove" => c.name \in gone
                            /\ c.op = "till" => c.name = "definitions"
      BY <1>0, <1>6, <1>7, <1>8, <1>12, <2>1
    <3>2. \A d \in toAdd : d.name \notin gone
      BY <1>2, <1>3
    <3>. QED
      BY <1>3, <1>4, <3>1, <3>2 DEF CallsOfLast
  <2>3. DefsWritten'
    BY <1>2, <1>4, <1>6, <1>7, <1>9, <1>10 DEF DefsWritten
  <2>4. RestWritten'
    <3>1. \A c \in calls' : c.op # "keys"
      BY <1>6, <1>7, <1>8, <1>12, <2>1
    <3>2. Added' = {} /\ Removed' = {}
      BY <3>1 DEF Added, Removed
    <3>3. till \in calls' /\ till.op = "till"
      BY <1>2, <1>8
    <3>. QED
      BY <1>0, <1>4, <3>2, <3>3 DEF RestWritten, StoredKeys
  <2>. QED
    BY <2>2, <2>3, <2>4
<1>16. Follows'
  <2> SUFFICES ASSUME faults = 0 PROVE Follows'
    BY <1>0 DEF Follows
  <2>1. calls = {} /\ ~late
    BY <1>0, QuietBefore
  <2>2. DefsFollow /\ RBSFollow /\ SetsFollow /\ TypesFollow
    BY <1>0 DEF Follows
  <2>3. Fresh'
    BY <1>0, <1>4, <2>1 DEF Fresh
  <2>4. \A n \in Names : Same(n)
    BY <2>1, <2>2 DEF DefsFollow, CallOn
  <2>5. DefsFollow'
    <3>1. \A c, d \in Named' : c.name = d.name => c = d
      <4>1. \A c \in Named' : c \in adds \/ c \in removes
        BY <1>8, <1>12, <2>1 DEF Named
      <4>2. \A c, d \in adds : c.name = d.name => c = d
        <5> SUFFICES ASSUME NEW c \in adds, NEW d \in adds, c.name = d.name PROVE c = d
          OBVIOUS
        <5>1. c.d.name = d.d.name /\ c.d \in toAdd /\ d.d \in toAdd
          BY <1>6
        <5>2. c.d = d.d
          BY <5>1, <1>3
        <5>. QED
          BY <5>2, <1>6
      <4>3. \A c, d \in removes : c.name = d.name => c = d
        BY <1>7
      <4>4. \A c \in adds, d \in removes : c.name # d.name
        <5> SUFFICES ASSUME NEW c \in adds, NEW d \in removes PROVE c.name # d.name
          OBVIOUS
        <5>1. c.name = c.d.name /\ c.d \in toAdd /\ d.name \in gone
          BY <1>6, <1>7
        <5>2. c.name \in added
          BY <5>1, <1>3
        <5>. QED
          BY <5>1, <5>2, <1>2
      <4>. QED
        BY <4>1, <4>2, <4>3, <4>4
    <3>2. \A c \in calls' : Progress(c)'
      <4>1. \A c \in adds : Progress(c)'
        BY <1>4, <1>6, <1>11 DEF Progress
      <4>2. \A c \in removes : Progress(c)'
        BY <1>4, <1>7, <1>11 DEF Progress
      <4>3. \A c : c = till => Progress(c)'
        BY <1>8 DEF Progress
      <4>. QED
        BY <4>1, <4>2, <4>3, <1>12, <2>1
    <3>3. \A n \in Names : Same(n)' \/ CallOn(n)'
      <4> SUFFICES ASSUME NEW n \in Names PROVE Same(n)' \/ CallOn(n)'
        OBVIOUS
      <4>1. CASE n \in added
        <5>1. PICK d \in toAdd : d.name = n
          BY <4>1, <1>3
        <5>2. PICK c \in adds : c.d = d
          BY <1>9
        <5>. QED
          BY <5>1, <5>2, <1>2, <1>6 DEF CallOn, On
      <4>2. CASE n \in gone
        <5>1. PICK c \in removes : c.name = n
          BY <4>2, <1>10
        <5>. QED
          BY <5>1, <1>2, <1>7 DEF CallOn, On
      <4>3. CASE n \notin added /\ n \notin gone
        BY <4>3, <1>0, <1>4, <1>11, <2>4 DEF Same
      <4>. QED
        BY <4>1, <4>2, <4>3
    <3>. QED
      BY <3>1, <3>2, <3>3 DEF DefsFollow
  <2>6. RBSFollow'
    BY <1>0, <1>4, <2>1, <2>2 DEF RBSFollow
  <2>7. SetsFollow' /\ TypesFollow'
    <3>1. \A c \in calls' : c.op \in {"add", "remove"} => c.pc = "get"
      BY <1>6, <1>7, <1>8, <1>12, <2>1
    <3>. QED
      BY <3>1, <1>0, <2>1, <2>2, BegunFollow
  <2>. QED
    BY <2>3, <2>5, <2>6, <2>7 DEF Follows
<1>. QED
  BY <1>13, <1>14, <1>15, <1>16 DEF DefinitionsInv

\* An update of the rule-based segments or of a segment leaves the definitions alone.
LEMMA UnnamedFollow ==
  ASSUME DefsFollow, calls = {}, remote' = remote, upstream'.defs = upstream.defs,
         \A c \in calls' : c.op \notin {"add", "remove"},
         \A c \in calls' : c.op = "rbs" => (c.pc = "set" <=> c.name \in upstream'.rbs)
  PROVE  DefsFollow'
<1>1. \A n \in Names : Same(n)
  BY DEF DefsFollow, CallOn
<1>2. \A n \in Names : Same(n)'
  BY <1>1 DEF Same
<1>3. Named' = {}
  BY DEF Named
<1>4. \A c \in calls' : Progress(c)'
  BY DEF Progress
<1>. QED
  BY <1>2, <1>3, <1>4 DEF DefsFollow

LEMMA UpdateRBSegmentsKeeps ==
  ASSUME DefinitionsInv, UpdateRBSegments
  PROVE  DefinitionsInv'
<1>0. /\ DefinitionsTypeOK /\ Owned /\ Written /\ Follows /\ link = "ready" /\ last.outcome # "running"
      /\ UNCHANGED <<remote, link, late, faults>> /\ updates' = updates + 1 /\ calls = {}
      /\ remote.hash = Ours /\ updates \in Nat /\ last' = Latest("rbSegments")
  BY DEF DefinitionsInv, UpdateRBSegments, Owned, DefinitionsTypeOK
<1>1. PICK names \in SUBSET RBNames :
       /\ calls' = {CallAt("rbs", n, "set") : n \in names \ upstream.rbs}
                   \cup {CallAt("rbs", n, "delete") : n \in upstream.rbs \ names}
                   \cup {SetChangeNumber("rbSegments")}
       /\ upstream' = [upstream EXCEPT !.rbs = names]
  BY DEF UpdateRBSegments
<1> DEFINE till == SetChangeNumber("rbSegments")
<1>2. \A n, pc : CallAt("rbs", n, pc) = [of |-> updates + 1, op |-> "rbs", name |-> n, d |-> NoDefinition,
                                         prev |-> NoDefinition, pc |-> pc]
  BY DEF CallAt, Call
<1>3. till = [of |-> updates + 1, op |-> "till", name |-> "rbSegments", d |-> NoDefinition, prev |-> NoDefinition,
              pc |-> "till"]
  BY CallFields DEF SetChangeNumber
<1>4. \A c \in calls' : \/ c = till
                        \/ \E n \in names \ upstream.rbs : c = CallAt("rbs", n, "set")
                        \/ \E n \in upstream.rbs \ names : c = CallAt("rbs", n, "delete")
  BY <1>1
<1>5. /\ till \in calls'
      /\ \A n \in names \ upstream.rbs : CallAt("rbs", n, "set") \in calls'
      /\ \A n \in upstream.rbs \ names : CallAt("rbs", n, "delete") \in calls'
  BY <1>1
<1> HIDE DEF till
<1>6. \A c \in calls' :
        /\ CallOK(c) /\ c.of = updates + 1 /\ c.op \in {"till", "rbs"}
        /\ c.op = "till" => c.name = "rbSegments"
        /\ c.op = "rbs" => (c.pc = "set" <=> c.name \in names)
  <2> SUFFICES ASSUME NEW c \in calls'
               PROVE  /\ CallOK(c) /\ c.of = updates + 1 /\ c.op \in {"till", "rbs"}
                      /\ c.op = "till" => c.name = "rbSegments"
                      /\ c.op = "rbs" => (c.pc = "set" <=> c.name \in names)
    OBVIOUS
  <2>1. CASE c = till
    BY <2>1, <1>0, <1>3 DEF CallOK
  <2>2. ASSUME NEW n \in names \ upstream.rbs, c = CallAt("rbs", n, "set")
        PROVE  /\ CallOK(c) /\ c.of = updates + 1 /\ c.op = "rbs" /\ c.pc = "set" /\ c.name \in names
    BY <2>2, <1>0, <1>1, <1>2 DEF CallOK
  <2>3. ASSUME NEW n \in upstream.rbs \ names, c = CallAt("rbs", n, "delete")
        PROVE  /\ CallOK(c) /\ c.of = updates + 1 /\ c.op = "rbs" /\ c.pc = "delete" /\ c.name \notin names
    BY <2>3, <1>0, <1>1, <1>2 DEF CallOK, DefinitionsTypeOK
  <2>. QED
    BY <2>1, <2>2, <2>3, <1>4
<1>7. /\ last' = [part |-> "rbSegments", toAdd |-> {}, toRemove |-> {}, keys |-> StoredKeys, outcome |-> "running"]
      /\ upstream' = [defs |-> upstream.defs, rbs |-> names]
  BY <1>0, <1>1 DEF Latest, DefinitionsTypeOK
<1>8. DefinitionsTypeOK'
  <2>1. last' \in [part : Places, toAdd : SUBSET Defs, toRemove : SUBSET Names, keys : SUBSET SegmentKeys,
               outcome : {"ok", "running", "failed"}]
    BY <1>0, <1>7 DEF DefinitionsTypeOK, Places
  <2>. QED
    BY <2>1, <1>0, <1>6, <1>7 DEF DefinitionsTypeOK, StoredKeys
<1>9. Owned'
  BY <1>0 DEF Owned
<1>10. Written'
  <2>1. Added' = {} /\ Removed' = {}
    BY <1>6 DEF Added, Removed
  <2>2. CallsOfLast'
    BY <1>0, <1>6, <1>7 DEF CallsOfLast
  <2>3. DefsWritten'
    BY <1>7 DEF DefsWritten
  <2>4. RestWritten'
    BY <1>0, <1>3, <1>5, <1>7, <2>1 DEF RestWritten, StoredKeys
  <2>. QED
    BY <2>2, <2>3, <2>4 DEF Written
<1>11. Follows'
  <2> SUFFICES ASSUME faults = 0 PROVE Follows'
    BY <1>0 DEF Follows
  <2>1. DefsFollow /\ RBSFollow /\ SetsFollow /\ TypesFollow /\ ~late
    BY <1>0, QuietBefore DEF Follows
  <2>2. Fresh'
    BY <1>0, <1>7, <2>1 DEF Fresh
  <2>3. DefsFollow'
    <3>1. \A c \in calls' : c.op \notin {"add", "remove"}
      BY <1>6
    <3>. QED
      BY <1>0, <1>6, <1>7, <2>1, <3>1, UnnamedFollow
  <2>4. RBSFollow'
    <3> SUFFICES ASSUME NEW n \in RBNames
                 PROVE  (n \in DOMAIN remote'.rbs <=> n \in upstream'.rbs) \/ \E c \in calls' : c.op = "rbs" /\ c.name = n
      BY DEF RBSFollow
    <3>1. n \in DOMAIN remote.rbs <=> n \in upstream.rbs
      BY <1>0, <2>1 DEF RBSFollow
    <3>2. CASE n \in names \ upstream.rbs
      BY <3>2, <1>2, <1>5
    <3>3. CASE n \in upstream.rbs \ names
      BY <3>3, <1>2, <1>5
    <3>4. CASE n \in names <=> n \in upstream.rbs
      BY <3>1, <3>4, <1>0, <1>7
    <3>. QED
      BY <3>2, <3>3, <3>4
  <2>5. SetsFollow' /\ TypesFollow'
    <3>1. \A c \in calls' : c.op \in {"add", "remove"} => c.pc = "get"
      BY <1>6
    <3>. QED
      BY <3>1, <1>0, <2>1, BegunFollow
  <2>. QED
    BY <2>2, <2>3, <2>4, <2>5 DEF Follows
<1>. QED
  BY <1>8, <1>9, <1>10, <1>11 DEF DefinitionsInv

LEMMA UpdateSegmentKeeps ==
  ASSUME DefinitionsInv, UpdateSegment
  PROVE  DefinitionsInv'
<1>0. /\ DefinitionsTypeOK /\ Owned /\ Written /\ Follows /\ link = "ready" /\ last.outcome # "running"
      /\ UNCHANGED <<remote, link, upstream, late, faults>> /\ updates' = updates + 1 /\ calls = {}
      /\ remote.hash = Ours /\ updates \in Nat
  BY DEF DefinitionsInv, UpdateSegment, Owned, DefinitionsTypeOK
<1>1. PICK added \in SUBSET SegmentKeys, removed \in SUBSET SegmentKeys :
       /\ added \cap removed = {}
       /\ calls' = {[CallAt("keys", "segment", "add") EXCEPT !.prev = added] : x \in added}
                   \cup {[CallAt("keys", "segment", "remove") EXCEPT !.prev = removed] : x \in removed}
                   \cup {SetChangeNumber("segment")}
       /\ last' = [Latest("segment") EXCEPT !.keys = (StoredKeys \cup added) \ removed]
  BY DEF UpdateSegment
<1> DEFINE till == SetChangeNumber("segment")
           a == [CallAt("keys", "segment", "add") EXCEPT !.prev = added]
           r == [CallAt("keys", "segment", "remove") EXCEPT !.prev = removed]
<1>2. /\ a = [of |-> updates + 1, op |-> "keys", name |-> "segment", d |-> NoDefinition, prev |-> added, pc |-> "add"]
      /\ r = [of |-> updates + 1, op |-> "keys", name |-> "segment", d |-> NoDefinition, prev |-> removed, pc |-> "remove"]
  <2>1. \A pc : CallAt("keys", "segment", pc) = [of |-> updates + 1, op |-> "keys", name |-> "segment", d |-> NoDefinition,
                                               prev |-> NoDefinition, pc |-> pc]
    BY CallFields
  <2>2. /\ CallAt("keys", "segment", "add") = [of |-> updates + 1, op |-> "keys", name |-> "segment", d |-> NoDefinition,
                                               prev |-> NoDefinition, pc |-> "add"]
        /\ CallAt("keys", "segment", "remove") = [of |-> updates + 1, op |-> "keys", name |-> "segment", d |-> NoDefinition,
                                                  prev |-> NoDefinition, pc |-> "remove"]
    BY <2>1
  <2>. QED
    BY <2>2
<1>3. till = [of |-> updates + 1, op |-> "till", name |-> "segment", d |-> NoDefinition, prev |-> NoDefinition,
              pc |-> "till"]
  BY CallFields DEF SetChangeNumber
<1>4. /\ \A c \in calls' : c = till \/ (c = a /\ added # {}) \/ (c = r /\ removed # {})
      /\ till \in calls' /\ (added # {} => a \in calls') /\ (removed # {} => r \in calls')
  BY <1>1
<1> HIDE DEF till, a, r
<1>5. \A c \in calls' :
        /\ CallOK(c) /\ c.of = updates + 1 /\ c.op \in {"till", "keys"}
        /\ c.op = "till" => c.name = "segment"
  BY <1>0, <1>1, <1>2, <1>3, <1>4 DEF CallOK
<1>6. Added' = added /\ Removed' = removed
  <2>1. \A c \in calls' : c.op = "keys" /\ c.pc = "add" => c.prev = added
    BY <1>2, <1>3, <1>4
  <2>2. \A c \in calls' : c.op = "keys" /\ c.pc = "remove" => c.prev = removed
    BY <1>2, <1>3, <1>4
  <2>3. added # {} => \E c \in calls' : c.op = "keys" /\ c.pc = "add" /\ c.prev = added
    BY <1>2, <1>4
  <2>4. removed # {} => \E c \in calls' : c.op = "keys" /\ c.pc = "remove" /\ c.prev = removed
    BY <1>2, <1>4
  <2>. QED
    BY <2>1, <2>2, <2>3, <2>4 DEF Added, Removed
<1>7. last' = [part |-> "segment", toAdd |-> {}, toRemove |-> {}, keys |-> (StoredKeys \cup added) \ removed,
               outcome |-> "running"]
  BY <1>1 DEF Latest
<1>8. DefinitionsTypeOK'
  <2>1. last' \in [part : Places, toAdd : SUBSET Defs, toRemove : SUBSET Names, keys : SUBSET SegmentKeys,
               outcome : {"ok", "running", "failed"}]
    BY <1>0, <1>1, <1>7 DEF DefinitionsTypeOK, Places
  <2>. QED
    BY <2>1, <1>0, <1>5 DEF DefinitionsTypeOK, StoredKeys
<1>9. Owned'
  BY <1>0 DEF Owned
<1>10. Written'
  <2>1. CallsOfLast'
    BY <1>0, <1>5, <1>7 DEF CallsOfLast
  <2>2. DefsWritten'
    BY <1>7 DEF DefsWritten
  <2>3. RestWritten'
    <3>1. till.op = "till" /\ till \in calls'
      BY <1>3, <1>4
    <3>. QED
      BY <1>0, <1>1, <1>6, <1>7, <3>1 DEF RestWritten, StoredKeys
  <2>. QED
    BY <2>1, <2>2, <2>3 DEF Written
<1>11. Follows'
  <2> SUFFICES ASSUME faults = 0 PROVE Follows'
    BY <1>0 DEF Follows
  <2>1. DefsFollow /\ RBSFollow /\ SetsFollow /\ TypesFollow /\ ~late
    BY <1>0, QuietBefore DEF Follows
  <2>2. Fresh'
    BY <1>0, <1>7, <2>1 DEF Fresh
  <2>3. DefsFollow'
    <3>1. \A c \in calls' : c.op \notin {"add", "remove"} /\ c.op # "rbs"
      BY <1>5
    <3>. QED
      BY <1>0, <2>1, <3>1, UnnamedFollow
  <2>4. RBSFollow'
    BY <1>0, <2>1 DEF RBSFollow
  <2>5. SetsFollow' /\ TypesFollow'
    <3>1. \A c \in calls' : c.op \in {"add", "remove"} => c.pc = "get"
      BY <1>5
    <3>. QED
      BY <3>1, <1>0, <2>1, BegunFollow
  <2>. QED
    BY <2>2, <2>3, <2>4, <2>5 DEF Follows
<1>. QED
  BY <1>8, <1>9, <1>10, <1>11 DEF DefinitionsInv

LEMMA KillLocallyKeeps ==
  ASSUME DefinitionsInv, KillLocally
  PROVE  DefinitionsInv'
<1>0. /\ DefinitionsTypeOK /\ Owned /\ Written /\ Follows /\ link = "ready" /\ last.outcome # "running"
      /\ UNCHANGED <<remote, link, late, faults>> /\ updates' = updates + 1 /\ calls = {}
      /\ remote.hash = Ours /\ updates \in Nat
  BY DEF DefinitionsInv, KillLocally, Owned, DefinitionsTypeOK
<1>1. PICK n \in DOMAIN remote.defs :
       LET d == Killed(remote.defs[n], updates + 1)
       IN /\ calls' = {AddCall(d)}
          /\ upstream' = IF n \in DOMAIN upstream.defs THEN [upstream EXCEPT !.defs[n] = d] ELSE upstream
          /\ last' = [Latest("none") EXCEPT !.toAdd = {d}]
  BY DEF KillLocally
<1> DEFINE d == Killed(remote.defs[n], updates + 1)
           c == AddCall(d)
<1>2. d \in Defs /\ d.name = n /\ d.env = Ours /\ n \in Names
  <2>1. remote.defs[n] \in Defs /\ remote.defs[n].name = n /\ n \in Names /\ remote.defs[n].env = Ours
    BY <1>0 DEF DefinitionsTypeOK, DefsOf, Owned
  <2>2. updates + 1 \in Nat
    BY <1>0
  <2>. QED
    BY <2>1, <2>2, DefsReal
<1>3. calls' = {c} /\ upstream' = (IF n \in DOMAIN upstream.defs THEN [upstream EXCEPT !.defs[n] = d] ELSE upstream)
      /\ last' = [part |-> "none", toAdd |-> {d}, toRemove |-> {}, keys |-> StoredKeys, outcome |-> "running"]
  BY <1>1 DEF Latest
<1>4. c = [of |-> updates + 1, op |-> "add", name |-> n, d |-> d, prev |-> NoDefinition, pc |-> "get"]
  BY <1>2, NamedCallFields
<1> HIDE DEF c, d
<1>5. PICK k : k = c
  OBVIOUS
<1>6. calls' = {k} /\ k.of = updates + 1 /\ k.op = "add" /\ k.name = n /\ k.d = d /\ k.pc = "get" /\ CallOK(k)
  <2>1. CallOK(c)
    BY <1>0, <1>2, <1>4 DEF CallOK
  <2>. QED
    BY <2>1, <1>3, <1>4, <1>5
<1>7. /\ upstream' = [defs |-> upstream'.defs, rbs |-> upstream'.rbs] /\ DefsOf(upstream'.defs)
      /\ upstream'.rbs = upstream.rbs /\ DOMAIN upstream'.defs = DOMAIN upstream.defs
      /\ n \in DOMAIN upstream.defs => upstream'.defs[n] = d
      /\ \A m \in DOMAIN upstream.defs : m # n => upstream'.defs[m] = upstream.defs[m]
  <2>1. upstream = [defs |-> upstream.defs, rbs |-> upstream.rbs] /\ DefsOf(upstream.defs)
    BY <1>0 DEF DefinitionsTypeOK
  <2>2. CASE n \in DOMAIN upstream.defs
    <3> DEFINE g == [upstream.defs EXCEPT ![n] = d]
    <3>1. upstream' = [defs |-> g, rbs |-> upstream.rbs]
      BY <2>1, <2>2, <1>3
    <3>2. DOMAIN g = DOMAIN upstream.defs /\ g[n] = d /\ \A m \in DOMAIN upstream.defs : m # n => g[m] = upstream.defs[m]
      BY <2>2
    <3>3. g = [m \in DOMAIN g |-> g[m]]
      OBVIOUS
    <3> HIDE DEF g
    <3>4. DefsOf(g)
      BY <3>2, <3>3, <2>1, <1>2 DEF DefsOf
    <3>. QED
      BY <3>1, <3>2, <3>4
  <2>3. CASE n \notin DOMAIN upstream.defs
    BY <2>1, <2>3, <1>3
  <2>. QED
    BY <2>2, <2>3
<1>8. DefinitionsTypeOK'
  <2>1. last' \in [part : Places, toAdd : SUBSET Defs, toRemove : SUBSET Names, keys : SUBSET SegmentKeys,
               outcome : {"ok", "running", "failed"}]
    BY <1>0, <1>2, <1>3 DEF DefinitionsTypeOK, Places
  <2>. QED
    BY <2>1, <1>0, <1>6, <1>7 DEF DefinitionsTypeOK, StoredKeys
<1>9. Owned'
  BY <1>0 DEF Owned
<1>10. Written'
  <2>1. Added' = {} /\ Removed' = {}
    BY <1>6 DEF Added, Removed
  <2>2. CallsOfLast'
    BY <1>0, <1>3, <1>6 DEF CallsOfLast
  <2>3. DefsWritten'
    BY <1>3, <1>6 DEF DefsWritten
  <2>4. RestWritten'
    BY <1>0, <1>3, <2>1 DEF RestWritten, StoredKeys
  <2>. QED
    BY <2>2, <2>3, <2>4 DEF Written
<1>11. Follows'
  <2> SUFFICES ASSUME faults = 0 PROVE Follows'
    BY <1>0 DEF Follows
  <2>1. DefsFollow /\ RBSFollow /\ SetsFollow /\ TypesFollow /\ ~late
    BY <1>0, QuietBefore DEF Follows
  <2>2. Fresh'
    BY <1>0, <1>3, <2>1 DEF Fresh
  <2>3. \A m \in Names : Same(m)
    BY <1>0, <2>1 DEF DefsFollow, CallOn
  <2>4. n \in DOMAIN upstream.defs
    BY <1>2, <2>3 DEF Same
  <2>5. DefsFollow'
    <3>1. \A x, y \in Named' : x.name = y.name => x = y
      BY <1>6 DEF Named
    <3>2. Progress(k)'
      BY <1>6, <1>7, <2>4 DEF Progress
    <3>3. \A m \in Names : m # n => Same(m)'
      BY <1>0, <1>7, <2>3 DEF Same
    <3>4. CallOn(n)'
      BY <1>6 DEF CallOn, On
    <3>. QED
      BY <3>1, <3>2, <3>3, <3>4, <1>6 DEF DefsFollow
  <2>6. RBSFollow'
    BY <1>0, <1>7, <2>1 DEF RBSFollow
  <2>7. SetsFollow' /\ TypesFollow'
    BY <1>0, <1>6, <2>1, BegunFollow
  <2>. QED
    BY <2>2, <2>5, <2>6, <2>7 DEF Follows
<1>. QED
  BY <1>8, <1>9, <1>10, <1>11 DEF DefinitionsInv

-----------------------------------------------------------------------------
\* Commands.  One of the call c takes effect: the call goes on as the one in Q, or,
\* when Q is empty, it is over.
Moves(c, Q) ==
  /\ c \in calls /\ calls' = (calls \ {c}) \cup Q
  /\ \A q \in Q : CallOK(q) /\ q.of = c.of /\ q.op = c.op /\ q.name = c.name /\ q.d = c.d
  /\ \A p, q \in Q : p = q
  /\ IF Q = {} THEN Over(c) ELSE last' = last
  /\ UNCHANGED <<link, upstream, late, updates, faults>>
  /\ remote' = [defs |-> remote'.defs, tts |-> remote'.tts, sets |-> remote'.sets, rbs |-> remote'.rbs,
                tills |-> remote'.tills, segments |-> remote'.segments, hash |-> remote.hash]

LEMMA MovesLast ==
  ASSUME DefinitionsInv, NEW c, NEW Q, Moves(c, Q)
  PROVE  /\ last' \in [part : Places, toAdd : SUBSET Defs, toRemove : SUBSET Names, keys : SUBSET SegmentKeys,
                       outcome : {"ok", "running", "failed"}]
         /\ last'.part = last.part /\ last'.toAdd = last.toAdd /\ last'.toRemove = last.toRemove
         /\ last'.keys = last.keys
         /\ Fresh' <=> Fresh
         /\ Fresh' => CallsOfLast'
<1>0. /\ DefinitionsTypeOK /\ Written /\ c \in calls /\ calls' = (calls \ {c}) \cup Q
      /\ \A q \in Q : q.of = c.of /\ q.op = c.op /\ q.name = c.name /\ q.d = c.d
      /\ IF Q = {} THEN Over(c) ELSE last' = last
      /\ late' = late /\ updates' = updates
  BY DEF DefinitionsInv, Moves
<1>1. \/ last' = last /\ (Q = {} => last.outcome # "running" \/ c.of # updates \/ \E o \in calls \ {c} : o.of = c.of)
      \/ /\ last' = [last EXCEPT !.outcome = "ok"] /\ last.outcome = "running" /\ Q = {} /\ c.of = updates
         /\ ~\E o \in calls \ {c} : o.of = c.of
  BY <1>0 DEF Over
<1>2. /\ last' \in [part : Places, toAdd : SUBSET Defs, toRemove : SUBSET Names, keys : SUBSET SegmentKeys,
                       outcome : {"ok", "running", "failed"}]
      /\ last'.part = last.part /\ last'.toAdd = last.toAdd /\ last'.toRemove = last.toRemove
      /\ last'.keys = last.keys
      /\ last'.outcome = "failed" <=> last.outcome = "failed"
      /\ last'.outcome = "ok" => \/ last.outcome = "ok"
                                 \/ Q = {} /\ c.of = updates /\ ~\E o \in calls \ {c} : o.of = c.of
  BY <1>0, <1>1 DEF DefinitionsTypeOK
<1>3. Fresh' <=> Fresh
  BY <1>0, <1>2 DEF Fresh
<1>4. ASSUME Fresh PROVE CallsOfLast'
  <2>1. CallsOfLast
    BY <1>0, <1>4 DEF Written
  <2>2. \A q \in calls' : \E o \in calls : q.of = o.of /\ q.op = o.op /\ q.name = o.name /\ q.d = o.d
    BY <1>0
  <2>3. last'.outcome = "ok" => calls' = {}
    BY <1>0, <1>2, <2>1 DEF CallsOfLast
  <2>. QED
    BY <1>0, <1>2, <2>1, <2>2, <2>3 DEF CallsOfLast
<1>. QED
  BY <1>2, <1>3, <1>4

LEMMA MovesOwned ==
  ASSUME DefinitionsInv, NEW c, NEW Q, Moves(c, Q)
  PROVE  /\ link = "ready" /\ remote.hash = Ours /\ remote'.hash = Ours /\ CallOK(c)
         /\ \A n \in DOMAIN remote.defs : remote.defs[n].env = Ours
         /\ (\A n \in DOMAIN remote'.defs : remote'.defs[n].env = Ours) => Owned'
<1>1. link = "ready" /\ link' = link /\ c \in calls
  BY DEF DefinitionsInv, Owned, Moves
<1>2. remote.hash = Ours /\ remote'.hash = remote.hash
  BY <1>1 DEF DefinitionsInv, Owned, Moves
<1>. QED
  BY <1>1, <1>2 DEF DefinitionsInv, Owned, DefinitionsTypeOK

LEMMA MovesTyped ==
  ASSUME DefinitionsInv, NEW c, NEW Q, Moves(c, Q),
         DefsOf(remote'.defs), NumbersOf(remote'.tts), DOMAIN remote'.rbs \subseteq RBNames, StoredKeys' \subseteq SegmentKeys
  PROVE  DefinitionsTypeOK'
<1>1. \A q \in calls' : CallOK(q)
  BY DEF DefinitionsInv, DefinitionsTypeOK, Moves
<1>2. remote' = [defs |-> remote'.defs, tts |-> remote'.tts, sets |-> remote'.sets, rbs |-> remote'.rbs,
                 tills |-> remote'.tills, segments |-> remote'.segments, hash |-> remote'.hash]
  BY DEF Moves
<1>3. UNCHANGED <<link, upstream, late, updates, faults>>
  BY DEF Moves
<1>4. last' \in [part : Places, toAdd : SUBSET Defs, toRemove : SUBSET Names, keys : SUBSET SegmentKeys,
                       outcome : {"ok", "running", "failed"}]
  BY MovesLast
<1>. QED
  BY <1>1, <1>2, <1>3, <1>4 DEF DefinitionsInv, DefinitionsTypeOK, NumbersOf

\* What a call of a definition does to the definitions: it writes or removes its own.
Writes(c, Q) ==
  \/ c.op = "add" /\ c.pc = "set" /\ remote'.defs = Set(remote.defs, c.name, c.d)
  \/ c.op = "remove" /\ Q = {} /\ remote'.defs = Del(remote.defs, {c.name})
  \/ /\ remote'.defs = remote.defs
     /\ c.op = "add" => c.pc \notin {"get", "set"} \/ \E q \in Q : q.pc \in {"get", "set"}
     /\ c.op = "remove" => Q # {}

LEMMA WritesOwnName ==
  ASSUME NEW c, NEW Q, CallOK(c), Writes(c, Q), DefsOf(remote.defs)
  PROVE  /\ DefsOf(remote'.defs)
         /\ \A n : n # c.name => /\ n \in DOMAIN remote'.defs <=> n \in DOMAIN remote.defs
                                 /\ n \in DOMAIN remote.defs => remote'.defs[n] = remote.defs[n]
                                 /\ Def(n)' = Def(n)
         /\ (\A n \in DOMAIN remote.defs : remote.defs[n].env = Ours)
              => \A n \in DOMAIN remote'.defs : remote'.defs[n].env = Ours
<1>1. CASE c.op = "add" /\ c.pc = "set" /\ remote'.defs = Set(remote.defs, c.name, c.d)
  <2>1. c.d \in Defs /\ c.name = c.d.name /\ c.d.env = Ours
    BY <1>1 DEF CallOK
  <2>2. DefsOf(remote'.defs)
    BY <1>1, <2>1, DefsOfChanged
  <2>3. DOMAIN remote'.defs = DOMAIN remote.defs \cup {c.name} /\ remote'.defs[c.name] = c.d
        /\ \A n \in DOMAIN remote.defs : n # c.name => remote'.defs[n] = remote.defs[n]
    BY <1>1 DEF Set
  <2>. QED
    BY <2>1, <2>2, <2>3 DEF Def
<1>2. CASE c.op = "remove" /\ Q = {} /\ remote'.defs = Del(remote.defs, {c.name})
  <2>1. DefsOf(remote'.defs)
    BY <1>2, DefsOfChanged
  <2>2. DOMAIN remote'.defs = DOMAIN remote.defs \ {c.name}
        /\ \A n \in DOMAIN remote.defs \ {c.name} : remote'.defs[n] = remote.defs[n]
    BY <1>2 DEF Del
  <2>. QED
    BY <2>1, <2>2 DEF Def
<1>3. CASE remote'.defs = remote.defs
  BY <1>3 DEF Def
<1>. QED
  BY <1>1, <1>2, <1>3 DEF Writes

LEMMA NamedWritten ==
  ASSUME DefinitionsInv, NEW c, NEW Q, Moves(c, Q), Writes(c, Q), c.op \in {"add", "remove"},
         remote'.tills = remote.tills, remote'.segments = remote.segments
  PROVE  Written'
<1>0. /\ DefinitionsTypeOK /\ Written /\ c \in calls /\ calls' = (calls \ {c}) \cup Q
      /\ \A q \in Q : q.of = c.of /\ q.op = c.op /\ q.name = c.name /\ q.d = c.d
      /\ updates' = updates
  BY DEF DefinitionsInv, Moves
<1> SUFFICES ASSUME Fresh' PROVE CallsOfLast' /\ DefsWritten' /\ RestWritten'
  BY DEF Written
<1>1. /\ last'.part = last.part /\ last'.toAdd = last.toAdd /\ last'.toRemove = last.toRemove
      /\ last'.keys = last.keys
      /\ CallsOfLast'
  BY MovesLast
<1>2. CallsOfLast /\ DefsWritten /\ RestWritten
  BY <1>0, MovesLast DEF Written
<1>3. CallOK(c) /\ DefsOf(remote.defs)
  BY <1>0 DEF DefinitionsTypeOK
<1>4. \A n : n # c.name => /\ n \in DOMAIN remote'.defs <=> n \in DOMAIN remote.defs
                           /\ n \in DOMAIN remote.defs => remote'.defs[n] = remote.defs[n]
  BY <1>3, WritesOwnName
<1>5. DefsWritten'
  <2>1. ASSUME NEW d \in last.toAdd
        PROVE  \/ d.name \in DOMAIN remote'.defs /\ remote'.defs[d.name] = d
               \/ \E q \in calls' : q.op = "add" /\ q.d = d /\ q.pc \in {"get", "set"}
    <3>1. CASE \E q \in calls \ {c} : q.op = "add" /\ q.d = d /\ q.pc \in {"get", "set"}
      BY <3>1, <1>0
    <3>2. CASE c.op = "add" /\ c.d = d /\ c.pc \in {"get", "set"}
      <4>1. c.name = d.name
        BY <3>2, <1>3 DEF CallOK
      <4>2. CASE remote'.defs = Set(remote.defs, c.name, c.d)
        BY <4>1, <4>2, <3>2 DEF Set
      <4>3. CASE \E q \in Q : q.pc \in {"get", "set"}
        BY <4>3, <1>0, <3>2
      <4>. QED
        BY <4>2, <4>3, <3>2 DEF Writes
    <3>3. CASE d.name \in DOMAIN remote.defs /\ remote.defs[d.name] = d
      <4>1. CASE d.name # c.name
        BY <3>3, <4>1, <1>4
      <4>2. CASE d.name = c.name
        <5>1. CASE c.op = "add"
          <6>1. c.d = d
            BY <4>2, <5>1, <1>0, <1>2, <1>3 DEF CallsOfLast, CallOK
          <6>2. CASE remote'.defs = Set(remote.defs, c.name, c.d)
            BY <6>1, <6>2, <4>2 DEF Set
          <6>3. CASE remote'.defs = remote.defs
            BY <6>3, <3>3
          <6>. QED
            BY <6>2, <6>3, <5>1 DEF Writes
        <5>2. CASE c.op = "remove"
          BY <5>2, <4>2, <1>0, <1>2 DEF CallsOfLast
        <5>. QED
          BY <5>1, <5>2
      <4>. QED
        BY <4>1, <4>2
    <3>. QED
      BY <3>1, <3>2, <3>3, <1>2 DEF DefsWritten
  <2>2. ASSUME NEW n \in last.toRemove
        PROVE  n \notin DOMAIN remote'.defs \/ \E q \in calls' : q.op = "remove" /\ q.name = n
    <3>1. CASE \E q \in calls \ {c} : q.op = "remove" /\ q.name = n
      BY <3>1, <1>0
    <3>2. CASE c.op = "remove" /\ c.name = n
      <4>1. CASE remote'.defs = Del(remote.defs, {c.name})
        BY <4>1, <3>2 DEF Del
      <4>2. CASE Q # {}
        BY <4>2, <3>2, <1>0
      <4>. QED
        BY <4>1, <4>2, <3>2 DEF Writes
    <3>3. CASE n \notin DOMAIN remote.defs
      <4>1. CASE n # c.name
        BY <3>3, <4>1, <1>4
      <4>2. CASE n = c.name
        <5>1. c.op # "add"
          BY <4>2, <1>0, <1>2, <1>3 DEF CallsOfLast, CallOK
        <5>. QED
          BY <5>1, <3>2, <4>2
      <4>. QED
        BY <4>1, <4>2
    <3>. QED
      BY <3>1, <3>2, <3>3, <1>2 DEF DefsWritten
  <2>. QED
    BY <2>1, <2>2, <1>1 DEF DefsWritten
<1>6. RestWritten'
  <2>1. \A q : q.op = "keys" => (q \in calls' <=> q \in calls)
    BY <1>0
  <2>2. Added' = Added /\ Removed' = Removed
    BY <2>1 DEF Added, Removed
  <2>3. \A q : q.op = "till" => (q \in calls' <=> q \in calls)
    BY <1>0
  <2>. QED
    BY <1>0, <1>1, <1>2, <2>2, <2>3 DEF RestWritten, StoredKeys, ChangeNumber
<1>. QED
  BY <1>1, <1>5, <1>6

\* While calls have different names, a call alone says what its name is listed under
\* and counted for, and a step of it says nothing of another name.
NamedApart == \A p, q \in Named : p.name = q.name => p = q

LEMMA OfOneName ==
  ASSUME NamedApart, NEW c \in Named
  PROVE  /\ \A s : Indexed(c.name, s) <=> Indexes(c, s)
         /\ \A t : CountedFor(c.name, t) <=> Counts(c, t)
<1>1. On(c, c.name) /\ CallOn(c.name) /\ \A q \in calls : On(q, c.name) => q = c
  BY DEF NamedApart, Named, On, CallOn
<1>2. \A s : Indexed(c.name, s) <=> Indexes(c, s)
  BY <1>1 DEF Indexed, Named
<1>3. \A t : CountedFor(c.name, t) <=> Counts(c, t)
  BY <1>1 DEF CountedFor, Named
<1>. QED
  BY <1>2, <1>3

LEMMA OfNoCall ==
  ASSUME NEW n, ~CallOn(n)
  PROVE  /\ \A s : Indexed(n, s) <=> s \in Sets(Def(n))
         /\ \A t : CountedFor(n, t) <=> HasType(Def(n), t)
BY DEF Indexed, CountedFor

LEMMA OtherNames ==
  ASSUME NEW c, NEW Q, Moves(c, Q), Writes(c, Q), CallOK(c), DefsOf(remote.defs), c.op \in {"add", "remove"}, NamedApart
  PROVE  /\ NamedApart'
         /\ \A q \in Q : q \in Named'
         /\ Q = {} => ~CallOn(c.name)'
         /\ \A n : n # c.name => /\ CallOn(n)' <=> CallOn(n)
                                 /\ \A s : Indexed(n, s)' <=> Indexed(n, s)
                                 /\ \A t : CountedFor(n, t)' <=> CountedFor(n, t)
                                 /\ Same(n)' <=> Same(n)
         /\ \A q \in calls \ {c} : Progress(q)' <=> Progress(q)
<1>0. /\ c \in calls /\ calls' = (calls \ {c}) \cup Q
      /\ \A q \in Q : q.of = c.of /\ q.op = c.op /\ q.name = c.name /\ q.d = c.d
      /\ \A p, q \in Q : p = q
      /\ upstream' = upstream
  BY DEF Moves
<1>1. \A n : n # c.name => /\ n \in DOMAIN remote'.defs <=> n \in DOMAIN remote.defs
                           /\ n \in DOMAIN remote.defs => remote'.defs[n] = remote.defs[n]
                           /\ Def(n)' = Def(n)
  BY WritesOwnName
<1>2. \A q \in Named : q # c => q.name # c.name
  BY <1>0 DEF NamedApart, Named
<1>3. Named' = (Named \ {c}) \cup Q
  BY <1>0 DEF Named
<1>4. NamedApart'
  BY <1>0, <1>2, <1>3 DEF NamedApart
<1>5. Q = {} => ~CallOn(c.name)'
  BY <1>0, <1>2 DEF CallOn, On, Named
<1>6. ASSUME NEW n, n # c.name
      PROVE  /\ CallOn(n)' <=> CallOn(n)
             /\ \A s : Indexed(n, s)' <=> Indexed(n, s)
             /\ \A t : CountedFor(n, t)' <=> CountedFor(n, t)
             /\ Same(n)' <=> Same(n)
  <2>1. \A q : On(q, n) => (q \in calls' <=> q \in calls)
    BY <1>0, <1>6 DEF On
  <2>2. CallOn(n)' <=> CallOn(n)
    BY <2>1 DEF CallOn
  <2>3. \A q : On(q, n) => Before(q)' = Before(q)
    BY <1>1, <1>6 DEF On, Before
  <2>4. \A q, s : On(q, n) => (Indexes(q, s)' <=> Indexes(q, s))
    BY <2>3 DEF Indexes
  <2>5. \A q, t : On(q, n) => (Counts(q, t)' <=> Counts(q, t))
    BY <2>3 DEF Counts
  <2>6. \A s : Indexed(n, s)' <=> Indexed(n, s)
    BY <2>1, <2>2, <2>4, <1>1, <1>6 DEF Indexed
  <2>7. \A t : CountedFor(n, t)' <=> CountedFor(n, t)
    BY <2>1, <2>2, <2>5, <1>1, <1>6 DEF CountedFor
  <2>8. Same(n)' <=> Same(n)
    BY <1>0, <1>1, <1>6 DEF Same
  <2>. QED
    BY <2>2, <2>6, <2>7, <2>8
<1>7. ASSUME NEW q \in calls, q # c PROVE Progress(q)' <=> Progress(q)
  <2>1. CASE q \in Named
    <3>1. Def(q.name)' = Def(q.name)
      BY <2>1, <1>1, <1>2, <1>7
    <3>. QED
      BY <3>1, <1>0 DEF Progress
  <2>2. CASE q \notin Named
    BY <2>2, <1>0 DEF Progress, Named
  <2>. QED
    BY <2>1, <2>2
<1>8. \A q \in Q : q \in Named'
  BY <1>3
<1>. QED
  BY <1>4, <1>5, <1>6, <1>7, <1>8

\* What a name is listed under and counted for once its call made a step.
IndexesAfter(c, Q, s) == IF Q = {} THEN s \in Sets(Def(c.name)) ELSE \A q \in Q : Indexes(q, s)
CountsAfter(c, Q, t) == IF Q = {} THEN HasType(Def(c.name), t) ELSE \A q \in Q : Counts(q, t)

LEMMA NamedAfter ==
  ASSUME NEW c, NEW Q, Moves(c, Q), Writes(c, Q), CallOK(c), DefsOf(remote.defs), c.op \in {"add", "remove"}, NamedApart
  PROVE  /\ \A s : Indexed(c.name, s) <=> Indexes(c, s)
         /\ \A t : CountedFor(c.name, t) <=> Counts(c, t)
         /\ \A s : Indexed(c.name, s)' <=> IndexesAfter(c, Q, s)'
         /\ \A t : CountedFor(c.name, t)' <=> CountsAfter(c, Q, t)'
<1>1. c \in Named
  BY DEF Moves, Named
<1>2. NamedApart' /\ (\A q \in Q : q \in Named') /\ (Q = {} => ~CallOn(c.name)')
  BY OtherNames
<1>3. (\A s : Indexed(c.name, s) <=> Indexes(c, s)) /\ (\A t : CountedFor(c.name, t) <=> Counts(c, t))
  BY <1>1, OfOneName
<1>4. CASE Q = {}
  <2>1. ~CallOn(c.name)'
    BY <1>2, <1>4
  <2>2. (\A s : Indexed(c.name, s)' <=> (s \in Sets(Def(c.name)))') /\ \A t : CountedFor(c.name, t)' <=> HasType(Def(c.name), t)'
    BY <2>1 DEF Indexed, CountedFor
  <2>3. \A s : IndexesAfter(c, Q, s)' <=> (s \in Sets(Def(c.name)))'
    BY <1>4 DEF IndexesAfter
  <2>4. \A t : CountsAfter(c, Q, t)' <=> HasType(Def(c.name), t)'
    BY <1>4 DEF CountsAfter
  <2>. QED
    BY <1>3, <2>2, <2>3, <2>4
<1>5. CASE Q # {}
  <2>1. PICK q : q \in Q
    BY <1>5
  <2>2. Q = {q} /\ q.name = c.name /\ q \in Named'
    BY <2>1, <1>2 DEF Moves
  <2>3. On(q, c.name) /\ CallOn(c.name)' /\ \A p \in calls' : On(p, c.name) => p = q
    BY <2>2, <1>2 DEF NamedApart, Named, On, CallOn
  <2>4. \A s : Indexed(c.name, s)' <=> Indexes(q, s)'
    BY <2>2, <2>3 DEF Indexed, Named
  <2>5. \A t : CountedFor(c.name, t)' <=> Counts(q, t)'
    BY <2>2, <2>3 DEF CountedFor, Named
  <2>. QED
    BY <1>3, <2>2, <2>4, <2>5 DEF IndexesAfter, CountsAfter
<1>. QED
  BY <1>3, <1>4, <1>5

\* A step of the call of a definition.
OfDefinition(c, Q) == Moves(c, Q) /\ Writes(c, Q) /\ c.op \in {"add", "remove"}

LEMMA FollowsOpened ==
  ASSUME DefinitionsInv, faults = 0, NEW c, NEW Q, OfDefinition(c, Q)
  PROVE  /\ CallOK(c) /\ c \in calls /\ DefsOf(remote.defs) /\ NamedApart /\ Progress(c)
         /\ DefsFollow /\ RBSFollow /\ SetsFollow /\ TypesFollow /\ Fresh
         /\ c.name \in Names
<1>1. Moves(c, Q)
  BY DEF OfDefinition
<1>2. remote.hash = Ours /\ CallOK(c) /\ c \in calls
  BY <1>1, MovesOwned DEF Moves
<1>3. DefsFollow /\ RBSFollow /\ SetsFollow /\ TypesFollow /\ Fresh /\ DefsOf(remote.defs)
  BY <1>2 DEF DefinitionsInv, Follows, DefinitionsTypeOK
<1>4. c.name \in Names
  BY <1>2 DEF OfDefinition, CallOK, Defs
<1>. QED
  BY <1>2, <1>3, <1>4 DEF DefsFollow, NamedApart

LEMMA NamedDefsFollow ==
  ASSUME DefinitionsInv, faults = 0, NEW c, NEW Q, OfDefinition(c, Q), remote'.rbs = remote.rbs,
         \A q \in Q : Progress(q)', Q = {} => Same(c.name)'
  PROVE  Fresh' /\ DefsFollow' /\ RBSFollow'
<1>1. /\ CallOK(c) /\ c \in calls /\ DefsOf(remote.defs) /\ NamedApart /\ Progress(c)
      /\ DefsFollow /\ RBSFollow /\ SetsFollow /\ TypesFollow /\ Fresh
  BY FollowsOpened
<1>2. Moves(c, Q) /\ Writes(c, Q) /\ c.op \in {"add", "remove"}
  BY DEF OfDefinition
<1>3. Fresh'
  BY <1>1, <1>2, MovesLast
<1>4. /\ NamedApart'
      /\ \A q \in Q : q \in Named'
      /\ \A n : n # c.name => (CallOn(n)' <=> CallOn(n)) /\ (Same(n)' <=> Same(n))
      /\ \A q \in calls \ {c} : Progress(q)' <=> Progress(q)
  BY <1>1, <1>2, OtherNames
<1>5. calls' = (calls \ {c}) \cup Q /\ (\A q \in Q : q.op = c.op /\ q.name = c.name) /\ upstream' = upstream
  BY <1>2 DEF Moves
<1>6. \A q \in calls' : Progress(q)'
  BY <1>1, <1>4, <1>5 DEF DefsFollow
<1>7. \A n \in Names : Same(n)' \/ CallOn(n)'
  <2>1. ASSUME NEW n \in Names, n # c.name PROVE Same(n)' \/ CallOn(n)'
    BY <2>1, <1>1, <1>4 DEF DefsFollow
  <2>2. CASE Q # {}
    <3>1. CallOn(c.name)'
      BY <2>2, <1>4, <1>5 DEF CallOn, On, Named
    <3>. QED
      BY <2>1, <3>1
  <2>. QED
    BY <2>1, <2>2
<1>8. DefsFollow'
  BY <1>4, <1>6, <1>7 DEF DefsFollow, NamedApart
<1>9. RBSFollow'
  <2>1. \A q : q.op = "rbs" => (q \in calls' <=> q \in calls)
    BY <1>2, <1>5
  <2>. QED
    BY <2>1, <1>1, <1>5 DEF RBSFollow
<1>. QED
  BY <1>3, <1>8, <1>9

LEMMA SetsKept ==
  ASSUME DefinitionsInv, faults = 0, NEW c, NEW Q, OfDefinition(c, Q),
         remote'.sets = remote.sets, \A s : IndexesAfter(c, Q, s)' <=> Indexes(c, s)
  PROVE  SetsFollow'
<1>1. /\ CallOK(c) /\ DefsOf(remote.defs) /\ NamedApart /\ SetsFollow
  BY FollowsOpened
<1>2. Moves(c, Q) /\ Writes(c, Q) /\ c.op \in {"add", "remove"}
  BY DEF OfDefinition
<1>3. \A n : n # c.name => \A s : Indexed(n, s)' <=> Indexed(n, s)
  BY <1>1, <1>2, OtherNames
<1>4. \A s : Indexed(c.name, s)' <=> Indexed(c.name, s)
  BY <1>1, <1>2, NamedAfter
<1>5. \A n, s : Indexed(n, s)' <=> Indexed(n, s)
  BY <1>3, <1>4
<1>. QED
  BY <1>1, <1>5 DEF SetsFollow, NamesBySet

LEMMA OthersCounted ==
  ASSUME DefinitionsInv, faults = 0, NEW c, NEW Q, OfDefinition(c, Q)
  PROVE  \A t : /\ Counts(c, t) <=> c.name \in Counted(t)
                /\ CountsAfter(c, Q, t)' <=> c.name \in Counted(t)'
                /\ \A n : n # c.name => (n \in Counted(t)' <=> n \in Counted(t))
<1>1. /\ CallOK(c) /\ DefsOf(remote.defs) /\ NamedApart /\ c.name \in Names
  BY FollowsOpened
<1>2. Moves(c, Q) /\ Writes(c, Q) /\ c.op \in {"add", "remove"}
  BY DEF OfDefinition
<1>3. \A n : n # c.name => \A t : CountedFor(n, t)' <=> CountedFor(n, t)
  BY <1>1, <1>2, OtherNames
<1>4. \A t : (CountedFor(c.name, t) <=> Counts(c, t)) /\ (CountedFor(c.name, t)' <=> CountsAfter(c, Q, t)')
  BY <1>1, <1>2, NamedAfter
<1>. QED
  BY <1>1, <1>3, <1>4 DEF Counted

\* The counts stay within the names that are counted.
CountChange(c, Q, t) ==
  \/ (CountsAfter(c, Q, t)' <=> Counts(c, t)) /\ NumberAt(remote.tts, t)' <= NumberAt(remote.tts, t)
  \/ (CountsAfter(c, Q, t)' <=> Counts(c, t)) /\ NumberAt(remote.tts, t)' = 0
  \/ CountsAfter(c, Q, t)' /\ ~Counts(c, t) /\ NumberAt(remote.tts, t)' = NumberAt(remote.tts, t) + 1
  \/ ~CountsAfter(c, Q, t)' /\ Counts(c, t) /\ NumberAt(remote.tts, t)' = NumberAt(remote.tts, t) - 1

LEMMA TypesKept ==
  ASSUME DefinitionsInv, faults = 0, NEW c, NEW Q, OfDefinition(c, Q),
         \A t : NumberAt(remote.tts, t)' \in Int /\ NumberAt(remote.tts, t) \in Int,
         \A t \in Types : CountChange(c, Q, t)
  PROVE  TypesFollow'
<1> SUFFICES ASSUME NEW t \in Types PROVE NumberAt(remote.tts, t)' <= Cardinality(Counted(t)')
  BY DEF TypesFollow
<1>1. TypesFollow /\ c.name \in Names
  BY FollowsOpened
<1>2. /\ Counts(c, t) <=> c.name \in Counted(t)
      /\ CountsAfter(c, Q, t)' <=> c.name \in Counted(t)'
      /\ \A n : n # c.name => (n \in Counted(t)' <=> n \in Counted(t))
  BY OthersCounted
<1>3. /\ IsFiniteSet(Counted(t)) /\ Cardinality(Counted(t)) \in Nat
      /\ IsFiniteSet(Counted(t)') /\ Cardinality(Counted(t)') \in Nat
  <2>1. Counted(t) \in SUBSET Names /\ Counted(t)' \in SUBSET Names
    BY DEF Counted
  <2>. QED
    BY <2>1, NamesFinite
<1>4. NumberAt(remote.tts, t) <= Cardinality(Counted(t)) /\ NumberAt(remote.tts, t) \in Int /\ NumberAt(remote.tts, t)' \in Int
  BY <1>1 DEF TypesFollow
<1>5. CASE CountsAfter(c, Q, t)' <=> Counts(c, t)
  <2>1. Counted(t)' = Counted(t)
    BY <1>2, <1>5
  <2>2. NumberAt(remote.tts, t)' <= NumberAt(remote.tts, t) \/ NumberAt(remote.tts, t)' = 0
    BY <1>5 DEF CountChange
  <2>. QED
    BY <2>1, <2>2, <1>3, <1>4
<1>6. CASE CountsAfter(c, Q, t)' /\ ~Counts(c, t)
  <2>1. c.name \notin Counted(t) /\ Counted(t)' = Counted(t) \cup {c.name}
    BY <1>2, <1>6
  <2>2. Cardinality(Counted(t)') = Cardinality(Counted(t)) + 1
    BY <2>1, <1>3, FS_AddElement
  <2>3. NumberAt(remote.tts, t)' = NumberAt(remote.tts, t) + 1
    BY <1>6 DEF CountChange
  <2>. QED
    BY <2>2, <2>3, <1>3, <1>4
<1>7. CASE ~CountsAfter(c, Q, t)' /\ Counts(c, t)
  <2>1. c.name \in Counted(t) /\ Counted(t)' = Counted(t) \ {c.name}
    BY <1>2, <1>7
  <2>2. Cardinality(Counted(t)') = Cardinality(Counted(t)) - 1
    BY <2>1, <1>3, FS_RemoveElement
  <2>3. NumberAt(remote.tts, t)' = NumberAt(remote.tts, t) - 1
    BY <1>7 DEF CountChange
  <2>. QED
    BY <2>2, <2>3, <1>3, <1>4
<1>. QED
  BY <1>5, <1>6, <1>7

LEMMA NamedKeeps ==
  ASSUME DefinitionsInv, NEW c, NEW Q, OfDefinition(c, Q), remote'.rbs = remote.rbs, remote'.tills = remote.tills,
         remote'.segments = remote.segments, NumbersOf(remote'.tts),
         faults = 0 => (\A q \in Q : Progress(q)') /\ (Q = {} => Same(c.name)') /\ SetsFollow' /\ TypesFollow'
  PROVE  DefinitionsInv'
<1>1. Moves(c, Q) /\ Writes(c, Q) /\ c.op \in {"add", "remove"}
  BY DEF OfDefinition
<1>2. CallOK(c) /\ DefsOf(remote.defs) /\ \A n \in DOMAIN remote.defs : remote.defs[n].env = Ours
  BY <1>1, MovesOwned DEF DefinitionsInv, DefinitionsTypeOK
<1>3. DefsOf(remote'.defs) /\ \A n \in DOMAIN remote'.defs : remote'.defs[n].env = Ours
  BY <1>1, <1>2, WritesOwnName
<1>4. DOMAIN remote'.rbs \subseteq RBNames /\ StoredKeys' \subseteq SegmentKeys
  BY DEF DefinitionsInv, DefinitionsTypeOK, StoredKeys
<1>5. DefinitionsTypeOK'
  BY <1>1, <1>3, <1>4, MovesTyped
<1>6. Owned'
  BY <1>1, <1>3, MovesOwned
<1>7. Written'
  BY <1>1, NamedWritten
<1>8. Follows'
  <2>1. faults' = faults
    BY <1>1 DEF Moves
  <2>2. ASSUME faults = 0 PROVE Fresh' /\ DefsFollow' /\ RBSFollow' /\ SetsFollow' /\ TypesFollow'
    BY <2>2, NamedDefsFollow
  <2>. QED
    BY <2>1, <2>2 DEF Follows
<1>. QED
  BY <1>5, <1>6, <1>7, <1>8 DEF DefinitionsInv

LEMMA AfterOne ==
  ASSUME NEW c, NEW q
  PROVE  /\ \A s : IndexesAfter(c, {q}, s)' <=> Indexes(q, s)'
         /\ \A t : CountsAfter(c, {q}, t)' <=> Counts(q, t)'
<1>1. {q} # {} /\ \A x : x \in {q} <=> x = q
  OBVIOUS
<1>2. ASSUME NEW s PROVE IndexesAfter(c, {q}, s)' <=> Indexes(q, s)'
  <2>1. IndexesAfter(c, {q}, s)' <=> \A x \in {q} : Indexes(x, s)'
    BY <1>1 DEF IndexesAfter
  <2>. QED
    BY <2>1
<1>3. ASSUME NEW t PROVE CountsAfter(c, {q}, t)' <=> Counts(q, t)'
  <2>1. CountsAfter(c, {q}, t)' <=> \A x \in {q} : Counts(x, t)'
    BY <1>1 DEF CountsAfter
  <2>. QED
    BY <2>1
<1>. QED
  BY <1>2, <1>3

\* The counts when the traffic types are left alone.
LEMMA CountsKept ==
  ASSUME DefinitionsInv, NEW c, NEW Q, remote'.tts = remote.tts, \A t : CountsAfter(c, Q, t)' <=> Counts(c, t)
  PROVE  /\ NumbersOf(remote'.tts)
         /\ \A t : NumberAt(remote.tts, t)' \in Int /\ NumberAt(remote.tts, t) \in Int
         /\ \A t \in Types : CountChange(c, Q, t)
<1>1. NumbersOf(remote.tts) /\ NumbersOf(remote'.tts)
  BY DEF DefinitionsInv, DefinitionsTypeOK, NumbersOf
<1>2. \A t : NumberAt(remote.tts, t) \in Int /\ NumberAt(remote.tts, t)' = NumberAt(remote.tts, t)
  BY <1>1 DEF NumbersOf, NumberAt
<1>3. \A t : NumberAt(remote.tts, t)' <= NumberAt(remote.tts, t)
  BY <1>2
<1>. QED
  BY <1>1, <1>2, <1>3 DEF CountChange

Running(c) == c \in calls /\ UNCHANGED <<link, upstream, late, updates, faults>>

LEMMA CallOpened ==
  ASSUME DefinitionsInv, NEW c, Running(c)
  PROVE  /\ CallOK(c) /\ c = [of |-> c.of, op |-> c.op, name |-> c.name, d |-> c.d, prev |-> c.prev, pc |-> c.pc]
         /\ remote = [defs |-> remote.defs, tts |-> remote.tts, sets |-> remote.sets, rbs |-> remote.rbs,
                      tills |-> remote.tills, segments |-> remote.segments, hash |-> remote.hash]
         /\ DefsOf(remote.defs) /\ NumbersOf(remote.tts)
         /\ faults = 0 => Progress(c) /\ SetsFollow
<1>1. CallOK(c) /\ link = "ready" /\ remote.hash = Ours
  BY DEF DefinitionsInv, DefinitionsTypeOK, Owned, Running
<1>2. faults = 0 => Progress(c) /\ SetsFollow
  BY <1>1 DEF DefinitionsInv, Follows, DefsFollow, Running
<1>. QED
  BY <1>1, <1>2 DEF DefinitionsInv, DefinitionsTypeOK, NumbersOf, CallOK

LEMMA GetStepKeeps ==
  ASSUME DefinitionsInv, NEW c, Running(c), GetStep(c)
  PROVE  DefinitionsInv'
<1> DEFINE prev == Def(c.name)
           next == IF c.op = "add" THEN "set" ELSE IF prev = NoDefinition THEN "del" ELSE "decr"
<1>1. PICK q : q = [c EXCEPT !.prev = prev, !.pc = next]
  OBVIOUS
<1>2. c \in calls /\ c.pc = "get" /\ calls' = (calls \ {c}) \cup {q} /\ remote' = remote /\ last' = last
      /\ UNCHANGED <<link, upstream, late, updates, faults>>
  BY <1>1 DEF GetStep, Running, Def
<1>3. /\ CallOK(c) /\ c = [of |-> c.of, op |-> c.op, name |-> c.name, d |-> c.d, prev |-> c.prev, pc |-> c.pc]
      /\ remote = [defs |-> remote.defs, tts |-> remote.tts, sets |-> remote.sets, rbs |-> remote.rbs,
                   tills |-> remote.tills, segments |-> remote.segments, hash |-> remote.hash]
      /\ DefsOf(remote.defs) /\ NumbersOf(remote.tts)
      /\ faults = 0 => Progress(c) /\ SetsFollow
  BY CallOpened
<1>4. c.op \in {"add", "remove"}
  BY <1>2, <1>3 DEF CallOK
<1>5. q = [of |-> c.of, op |-> c.op, name |-> c.name, d |-> c.d, prev |-> prev, pc |-> next]
  BY <1>1, <1>3
<1>6. prev \in Defs \cup {NoDefinition}
  BY <1>3 DEF Def, DefsOf
<1> HIDE DEF prev
<1>7. CallOK(q)
  BY <1>2, <1>3, <1>4, <1>5, <1>6 DEF CallOK
<1>8. Moves(c, {q})
  BY <1>2, <1>3, <1>5, <1>7 DEF Moves
<1>9. Writes(c, {q})
  BY <1>2, <1>5 DEF Writes
<1>10. OfDefinition(c, {q})
  BY <1>4, <1>8, <1>9 DEF OfDefinition
<1>11. \A s : IndexesAfter(c, {q}, s)' <=> Indexes(c, s)
  <2>1. \A s : Indexes(c, s) <=> s \in Sets(prev)
    BY <1>2 DEF Indexes, Before, prev
  <2>2. \A s : Indexes(q, s)' <=> next # "del" /\ s \in Sets(prev)
    BY <1>4, <1>5 DEF Indexes, Before
  <2>3. next = "del" => Sets(prev) = {}
    BY DEF Sets
  <2>. QED
    BY <2>1, <2>2, <2>3, AfterOne
<1>12. \A t : CountsAfter(c, {q}, t)' <=> Counts(c, t)
  <2>1. \A t : Counts(c, t) <=> HasType(prev, t)
    BY <1>2 DEF Counts, Before, prev
  <2>2. \A t : Counts(q, t)' <=> next \in {"set", "decr"} /\ HasType(prev, t)
    BY <1>4, <1>5 DEF Counts, Before
  <2>3. \A t : next \notin {"set", "decr"} => ~HasType(prev, t)
    BY DEF HasType
  <2>. QED
    BY <2>1, <2>2, <2>3, AfterOne
<1>13. /\ NumbersOf(remote'.tts)
       /\ \A t : NumberAt(remote.tts, t)' \in Int /\ NumberAt(remote.tts, t) \in Int
       /\ \A t \in Types : CountChange(c, {q}, t)
  BY <1>2, <1>12, CountsKept
<1>14. ASSUME faults = 0 PROVE Progress(q)' /\ SetsFollow' /\ TypesFollow'
  <2>1. Progress(q)'
    <3>1. Def(c.name)' = prev
      BY <1>2 DEF Def, prev
    <3>2. Progress(c)
      BY <1>3, <1>14
    <3>. QED
      BY <1>2, <1>4, <1>5, <3>1, <3>2 DEF Progress
  <2>2. SetsFollow'
    BY <1>2, <1>10, <1>11, <1>14, SetsKept
  <2>3. TypesFollow'
    BY <1>10, <1>13, <1>14, TypesKept
  <2>. QED
    BY <2>1, <2>2, <2>3
<1>. QED
  BY <1>2, <1>10, <1>13, <1>14, NamedKeeps

LEMMA SetStepKeeps ==
  ASSUME DefinitionsInv, NEW c, Running(c), SetStep(c)
  PROVE  DefinitionsInv'
<1> DEFINE next == IF c.prev # NoDefinition /\ c.prev.trafficType = c.d.trafficType THEN "sets" ELSE "incr"
<1>1. PICK q : q = [c EXCEPT !.pc = next]
  OBVIOUS
<1>2. /\ c \in calls /\ c.op = "add" /\ c.pc = "set" /\ calls' = (calls \ {c}) \cup {q} /\ last' = last
      /\ remote' = [remote EXCEPT !.defs = Set(@, c.name, c.d)]
      /\ UNCHANGED <<link, upstream, late, updates, faults>>
  BY <1>1 DEF SetStep, Then, Running
<1>3. /\ CallOK(c) /\ c = [of |-> c.of, op |-> c.op, name |-> c.name, d |-> c.d, prev |-> c.prev, pc |-> c.pc]
      /\ remote = [defs |-> remote.defs, tts |-> remote.tts, sets |-> remote.sets, rbs |-> remote.rbs,
                   tills |-> remote.tills, segments |-> remote.segments, hash |-> remote.hash]
      /\ DefsOf(remote.defs) /\ NumbersOf(remote.tts)
      /\ faults = 0 => Progress(c) /\ SetsFollow
  BY CallOpened
<1>4. c.d \in Defs /\ c.d # NoDefinition /\ c.name = c.d.name /\ c.prev \in Defs \cup {NoDefinition}
  BY <1>2, <1>3, DefsReal DEF CallOK
<1>5. q = [of |-> c.of, op |-> c.op, name |-> c.name, d |-> c.d, prev |-> c.prev, pc |-> next]
  BY <1>1, <1>3
<1>6. remote' = [defs |-> Set(remote.defs, c.name, c.d), tts |-> remote.tts, sets |-> remote.sets, rbs |-> remote.rbs,
                 tills |-> remote.tills, segments |-> remote.segments, hash |-> remote.hash]
  BY <1>2, <1>3
<1>7. CallOK(q)
  BY <1>2, <1>3, <1>4, <1>5 DEF CallOK
<1>8. Moves(c, {q})
  BY <1>2, <1>3, <1>5, <1>6, <1>7 DEF Moves
<1>9. Writes(c, {q})
  BY <1>2, <1>6 DEF Writes
<1>10. OfDefinition(c, {q})
  BY <1>2, <1>8, <1>9 DEF OfDefinition
<1>11. \A s : IndexesAfter(c, {q}, s)' <=> Indexes(c, s)
  <2>1. \A s : Indexes(c, s) <=> s \in Sets(c.prev)
    BY <1>2 DEF Indexes, Before
  <2>2. \A s : Indexes(q, s)' <=> s \in Sets(c.prev)
    BY <1>5 DEF Indexes, Before
  <2>. QED
    BY <2>1, <2>2, AfterOne
<1>12. \A t : CountsAfter(c, {q}, t)' <=> Counts(c, t)
  <2>1. \A t : Counts(c, t) <=> HasType(c.prev, t)
    BY <1>2 DEF Counts, Before
  <2>2. \A t : Counts(q, t)' <=> IF next = "incr" THEN HasType(c.prev, t) ELSE HasType(c.d, t)
    BY <1>2, <1>5 DEF Counts, Before
  <2>3. \A t : next = "sets" => (HasType(c.prev, t) <=> HasType(c.d, t))
    BY <1>4 DEF HasType
  <2>. QED
    BY <2>1, <2>2, <2>3, AfterOne
<1>13. /\ NumbersOf(remote'.tts)
       /\ \A t : NumberAt(remote.tts, t)' \in Int /\ NumberAt(remote.tts, t) \in Int
       /\ \A t \in Types : CountChange(c, {q}, t)
  BY <1>6, <1>12, CountsKept
<1>14. ASSUME faults = 0 PROVE Progress(q)' /\ SetsFollow' /\ TypesFollow'
  <2>1. Progress(q)'
    <3>1. Def(c.name)' = c.d
      BY <1>6 DEF Def, Set
    <3>2. Progress(c)
      BY <1>3, <1>14
    <3>3. next = "incr" => ~HasType(c.prev, c.d.trafficType)
      BY DEF HasType
    <3>. QED
      BY <1>2, <1>5, <3>1, <3>2, <3>3 DEF Progress
  <2>2. SetsFollow'
    BY <1>6, <1>10, <1>11, <1>14, SetsKept
  <2>3. TypesFollow'
    BY <1>10, <1>13, <1>14, TypesKept
  <2>. QED
    BY <2>1, <2>2, <2>3
<1>. QED
  BY <1>6, <1>10, <1>13, <1>14, NamedKeeps

LEMMA IncrStepKeeps ==
  ASSUME DefinitionsInv, NEW c, Running(c), IncrStep(c)
  PROVE  DefinitionsInv'
<1> DEFINE next == IF c.prev # NoDefinition THEN "decr" ELSE "sets"
           k == c.d.trafficType
<1>1. PICK q : q = [c EXCEPT !.pc = next]
  OBVIOUS
<1>2. /\ c \in calls /\ c.pc = "incr" /\ calls' = (calls \ {c}) \cup {q} /\ last' = last
      /\ remote' = [remote EXCEPT !.tts = Incr(@, k, 1)]
      /\ UNCHANGED <<link, upstream, late, updates, faults>>
  BY <1>1 DEF IncrStep, Then, Running
<1>3. /\ CallOK(c) /\ c = [of |-> c.of, op |-> c.op, name |-> c.name, d |-> c.d, prev |-> c.prev, pc |-> c.pc]
      /\ remote = [defs |-> remote.defs, tts |-> remote.tts, sets |-> remote.sets, rbs |-> remote.rbs,
                   tills |-> remote.tills, segments |-> remote.segments, hash |-> remote.hash]
      /\ DefsOf(remote.defs) /\ NumbersOf(remote.tts)
      /\ faults = 0 => Progress(c) /\ SetsFollow
  BY CallOpened
<1>4. c.op = "add" /\ c.d \in Defs /\ c.d # NoDefinition /\ k \in Types /\ c.prev \in Defs \cup {NoDefinition}
  <2>1. c.op = "add" /\ c.d \in Defs /\ c.prev \in Defs \cup {NoDefinition}
    BY <1>2, <1>3 DEF CallOK
  <2>. QED
    BY <2>1, DefsReal DEF Defs
<1>5. q = [of |-> c.of, op |-> c.op, name |-> c.name, d |-> c.d, prev |-> c.prev, pc |-> next]
  BY <1>1, <1>3
<1>6. remote' = [defs |-> remote.defs, tts |-> Incr(remote.tts, k, 1), sets |-> remote.sets, rbs |-> remote.rbs,
                 tills |-> remote.tills, segments |-> remote.segments, hash |-> remote.hash]
  BY <1>2, <1>3
<1>7. CallOK(q)
  BY <1>2, <1>3, <1>4, <1>5 DEF CallOK
<1>8. Moves(c, {q})
  BY <1>2, <1>3, <1>5, <1>6, <1>7 DEF Moves
<1>9. Writes(c, {q})
  BY <1>2, <1>4, <1>6 DEF Writes
<1>10. OfDefinition(c, {q})
  BY <1>4, <1>8, <1>9 DEF OfDefinition
<1>11. \A s : IndexesAfter(c, {q}, s)' <=> Indexes(c, s)
  <2>1. \A s : Indexes(c, s) <=> s \in Sets(c.prev)
    BY <1>2 DEF Indexes, Before
  <2>2. \A s : Indexes(q, s)' <=> s \in Sets(c.prev)
    BY <1>5 DEF Indexes, Before
  <2>. QED
    BY <2>1, <2>2, AfterOne
<1>12. /\ \A t : Counts(c, t) <=> HasType(c.prev, t)
       /\ \A t : CountsAfter(c, {q}, t)' <=> HasType(c.prev, t) \/ t = k
  <2>1. \A t : Counts(c, t) <=> HasType(c.prev, t)
    BY <1>2 DEF Counts, Before
  <2>2. \A t : Counts(q, t)' <=> (next = "decr" /\ HasType(c.prev, t)) \/ HasType(c.d, t)
    BY <1>4, <1>5 DEF Counts, Before
  <2>3. \A t : next # "decr" => ~HasType(c.prev, t)
    BY DEF HasType
  <2>4. \A t : HasType(c.d, t) <=> t = k
    BY <1>4 DEF HasType
  <2>. QED
    BY <2>1, <2>2, <2>3, <2>4, AfterOne
<1>13. /\ NumbersOf(remote'.tts)
       /\ \A t : NumberAt(remote.tts, t) \in Int
       /\ \A t : NumberAt(remote.tts, t)' = IF t = k THEN NumberAt(remote.tts, t) + 1 ELSE NumberAt(remote.tts, t)
  BY <1>3, <1>4, <1>6, NumberChanged
<1>14. \A t : NumberAt(remote.tts, t)' \in Int
  BY <1>13
<1>15. ASSUME faults = 0 PROVE Progress(q)' /\ SetsFollow' /\ TypesFollow'
  <2>1. Progress(c) /\ ~HasType(c.prev, k)
    BY <1>2, <1>3, <1>4, <1>15 DEF Progress
  <2>2. Progress(q)'
    <3>1. Def(c.name)' = Def(c.name)
      BY <1>6 DEF Def
    <3>. QED
      BY <1>2, <1>4, <1>5, <2>1, <3>1 DEF Progress
  <2>3. SetsFollow'
    BY <1>6, <1>10, <1>11, <1>15, SetsKept
  <2>4. ASSUME NEW t \in Types PROVE CountChange(c, {q}, t)
    <3>1. CASE t = k
      <4>1. CountsAfter(c, {q}, t)' /\ ~Counts(c, t)
        BY <1>12, <2>1, <3>1
      <4>2. NumberAt(remote.tts, t)' = NumberAt(remote.tts, t) + 1
        BY <1>13, <3>1
      <4>. QED
        BY <4>1, <4>2 DEF CountChange
    <3>2. CASE t # k
      <4>1. CountsAfter(c, {q}, t)' <=> Counts(c, t)
        BY <1>12, <3>2
      <4>2. NumberAt(remote.tts, t)' <= NumberAt(remote.tts, t)
        BY <1>13, <3>2
      <4>. QED
        BY <4>1, <4>2 DEF CountChange
    <3>. QED
      BY <3>1, <3>2
  <2>5. TypesFollow'
    BY <1>10, <1>13, <1>14, <1>15, <2>4, TypesKept
  <2>. QED
    BY <2>2, <2>3, <2>5
<1>. QED
  BY <1>6, <1>10, <1>13, <1>15, NamedKeeps

LEMMA DecrStepKeeps ==
  ASSUME DefinitionsInv, NEW c, Running(c), DecrStep(c)
  PROVE  DefinitionsInv'
<1> DEFINE k == c.prev.trafficType
<1>1. PICK next \in {"delType", "sets"} : Then(c, next)
  BY DEF DecrStep
<1>2. PICK q : q = [c EXCEPT !.pc = next]
  OBVIOUS
<1>3. /\ c \in calls /\ c.pc = "decr" /\ calls' = (calls \ {c}) \cup {q} /\ last' = last
      /\ remote' = [remote EXCEPT !.tts = Decr(@, k, 1)]
      /\ UNCHANGED <<link, upstream, late, updates, faults>>
  BY <1>1, <1>2 DEF DecrStep, Then, Running
<1>4. /\ CallOK(c) /\ c = [of |-> c.of, op |-> c.op, name |-> c.name, d |-> c.d, prev |-> c.prev, pc |-> c.pc]
      /\ remote = [defs |-> remote.defs, tts |-> remote.tts, sets |-> remote.sets, rbs |-> remote.rbs,
                   tills |-> remote.tills, segments |-> remote.segments, hash |-> remote.hash]
      /\ DefsOf(remote.defs) /\ NumbersOf(remote.tts)
      /\ faults = 0 => Progress(c) /\ SetsFollow
  BY CallOpened
<1>5. /\ c.op \in {"add", "remove"} /\ c.prev \in Defs /\ c.prev # NoDefinition /\ k \in Types
      /\ c.op = "add" => c.d \in Defs /\ c.d # NoDefinition
  <2>1. c.op \in {"add", "remove"} /\ c.prev \in Defs /\ c.prev # NoDefinition /\ (c.op = "add" => c.d \in Defs)
    BY <1>3, <1>4 DEF CallOK
  <2>. QED
    BY <2>1, DefsReal DEF Defs
<1>6. q = [of |-> c.of, op |-> c.op, name |-> c.name, d |-> c.d, prev |-> c.prev, pc |-> next]
  BY <1>2, <1>4
<1>7. remote' = [defs |-> remote.defs, tts |-> Decr(remote.tts, k, 1), sets |-> remote.sets, rbs |-> remote.rbs,
                 tills |-> remote.tills, segments |-> remote.segments, hash |-> remote.hash]
  BY <1>3, <1>4
<1>8. CallOK(q)
  BY <1>3, <1>4, <1>5, <1>6 DEF CallOK
<1>9. Moves(c, {q})
  BY <1>3, <1>4, <1>6, <1>7, <1>8 DEF Moves
<1>10. Writes(c, {q})
  BY <1>3, <1>7 DEF Writes
<1>11. OfDefinition(c, {q})
  BY <1>5, <1>9, <1>10 DEF OfDefinition
<1>12. \A s : IndexesAfter(c, {q}, s)' <=> Indexes(c, s)
  <2>1. \A s : Indexes(c, s) <=> s \in Sets(c.prev)
    BY <1>3 DEF Indexes, Before
  <2>2. \A s : Indexes(q, s)' <=> s \in Sets(c.prev)
    BY <1>6 DEF Indexes, Before
  <2>. QED
    BY <2>1, <2>2, AfterOne
<1>13. /\ \A t : Counts(c, t) <=> t = k \/ (c.op = "add" /\ HasType(c.d, t))
       /\ \A t : CountsAfter(c, {q}, t)' <=> c.op = "add" /\ HasType(c.d, t)
  <2>1. \A t : Counts(c, t) <=> HasType(c.prev, t) \/ (c.op = "add" /\ HasType(c.d, t))
    BY <1>3 DEF Counts, Before
  <2>2. \A t : Counts(q, t)' <=> c.op = "add" /\ HasType(c.d, t)
    BY <1>6 DEF Counts, Before
  <2>3. \A t : HasType(c.prev, t) <=> t = k
    BY <1>5 DEF HasType
  <2>. QED
    BY <2>1, <2>2, <2>3, AfterOne
<1>14. /\ NumbersOf(remote'.tts)
       /\ \A t : NumberAt(remote.tts, t) \in Int
       /\ \A t : NumberAt(remote.tts, t)' = IF t = k THEN NumberAt(remote.tts, t) - 1 ELSE NumberAt(remote.tts, t)
  BY <1>4, <1>5, <1>7, NumberChanged
<1>15. \A t : NumberAt(remote.tts, t)' \in Int
  BY <1>14
<1>16. ASSUME faults = 0 PROVE Progress(q)' /\ SetsFollow' /\ TypesFollow'
  <2>1. Progress(c) /\ (c.op = "add" => ~HasType(c.d, k))
    <3>1. Progress(c)
      BY <1>4, <1>16
    <3>2. c.op = "add" => ~HasType(c.prev, c.d.trafficType)
      BY <3>1, <1>3 DEF Progress
    <3>. QED
      BY <3>1, <3>2, <1>5 DEF HasType
  <2>2. Progress(q)'
    <3>1. Def(c.name)' = Def(c.name)
      BY <1>7 DEF Def
    <3>. QED
      BY <1>3, <1>5, <1>6, <2>1, <3>1 DEF Progress
  <2>3. SetsFollow'
    BY <1>7, <1>11, <1>12, <1>16, SetsKept
  <2>4. ASSUME NEW t \in Types PROVE CountChange(c, {q}, t)
    <3>1. CASE t = k
      <4>1. ~CountsAfter(c, {q}, t)' /\ Counts(c, t)
        BY <1>13, <2>1, <3>1
      <4>2. NumberAt(remote.tts, t)' = NumberAt(remote.tts, t) - 1
        BY <1>14, <3>1
      <4>. QED
        BY <4>1, <4>2 DEF CountChange
    <3>2. CASE t # k
      <4>1. CountsAfter(c, {q}, t)' <=> Counts(c, t)
        BY <1>13, <3>2
      <4>2. NumberAt(remote.tts, t)' <= NumberAt(remote.tts, t)
        BY <1>14, <3>2
      <4>. QED
        BY <4>1, <4>2 DEF CountChange
    <3>. QED
      BY <3>1, <3>2
  <2>5. TypesFollow'
    BY <1>11, <1>14, <1>15, <1>16, <2>4, TypesKept
  <2>. QED
    BY <2>2, <2>3, <2>5
<1>. QED
  BY <1>7, <1>11, <1>14, <1>16, NamedKeeps

LEMMA DelTypeStepKeeps ==
  ASSUME DefinitionsInv, NEW c, Running(c), DelTypeStep(c)
  PROVE  DefinitionsInv'
<1> DEFINE k == c.prev.trafficType
<1>1. PICK q : q = [c EXCEPT !.pc = "sets"]
  OBVIOUS
<1>2. /\ c \in calls /\ c.pc = "delType" /\ calls' = (calls \ {c}) \cup {q} /\ last' = last
      /\ remote' = [remote EXCEPT !.tts = Del(@, {k})]
      /\ UNCHANGED <<link, upstream, late, updates, faults>>
  BY <1>1 DEF DelTypeStep, Then, Running
<1>3. /\ CallOK(c) /\ c = [of |-> c.of, op |-> c.op, name |-> c.name, d |-> c.d, prev |-> c.prev, pc |-> c.pc]
      /\ remote = [defs |-> remote.defs, tts |-> remote.tts, sets |-> remote.sets, rbs |-> remote.rbs,
                   tills |-> remote.tills, segments |-> remote.segments, hash |-> remote.hash]
      /\ DefsOf(remote.defs) /\ NumbersOf(remote.tts)
      /\ faults = 0 => Progress(c) /\ SetsFollow
  BY CallOpened
<1>4. c.op \in {"add", "remove"} /\ k \in Types
  <2>1. c.op \in {"add", "remove"} /\ c.prev \in Defs
    BY <1>2, <1>3 DEF CallOK
  <2>. QED
    BY <2>1 DEF Defs
<1>5. q = [of |-> c.of, op |-> c.op, name |-> c.name, d |-> c.d, prev |-> c.prev, pc |-> "sets"]
  BY <1>1, <1>3
<1>6. remote' = [defs |-> remote.defs, tts |-> Del(remote.tts, {k}), sets |-> remote.sets, rbs |-> remote.rbs,
                 tills |-> remote.tills, segments |-> remote.segments, hash |-> remote.hash]
  BY <1>2, <1>3
<1>7. CallOK(q)
  BY <1>2, <1>3, <1>4, <1>5 DEF CallOK
<1>8. Moves(c, {q})
  BY <1>2, <1>3, <1>5, <1>6, <1>7 DEF Moves
<1>9. Writes(c, {q})
  BY <1>2, <1>6 DEF Writes
<1>10. OfDefinition(c, {q})
  BY <1>4, <1>8, <1>9 DEF OfDefinition
<1>11. \A s : IndexesAfter(c, {q}, s)' <=> Indexes(c, s)
  <2>1. \A s : Indexes(c, s) <=> s \in Sets(c.prev)
    BY <1>2 DEF Indexes, Before
  <2>2. \A s : Indexes(q, s)' <=> s \in Sets(c.prev)
    BY <1>5 DEF Indexes, Before
  <2>. QED
    BY <2>1, <2>2, AfterOne
<1>12. \A t : CountsAfter(c, {q}, t)' <=> Counts(c, t)
  <2>1. \A t : Counts(c, t) <=> c.op = "add" /\ HasType(c.d, t)
    BY <1>2 DEF Counts, Before
  <2>2. \A t : Counts(q, t)' <=> c.op = "add" /\ HasType(c.d, t)
    BY <1>5 DEF Counts, Before
  <2>. QED
    BY <2>1, <2>2, AfterOne
<1>13. /\ NumbersOf(remote'.tts)
       /\ \A t : NumberAt(remote.tts, t) \in Int
       /\ \A t : NumberAt(remote.tts, t)' = IF t = k THEN 0 ELSE NumberAt(remote.tts, t)
  <2>1. NumbersOf(remote'.tts)
    BY <1>3, <1>4, <1>6, NumberChanged
  <2>2. \A t : NumberAt(remote.tts, t) \in Int
    BY <1>3, <1>4, NumberChanged
  <2>3. \A t : NumberAt(Del(remote.tts, {k}), t) = IF t \in {k} THEN 0 ELSE NumberAt(remote.tts, t)
    BY <1>3, <1>4, NumberChanged
  <2>. QED
    BY <1>6, <2>1, <2>2, <2>3
<1>14. \A t : NumberAt(remote.tts, t)' \in Int
  BY <1>13
<1>15. \A t \in Types : CountChange(c, {q}, t)
  <2> SUFFICES ASSUME NEW t \in Types PROVE CountChange(c, {q}, t)
    OBVIOUS
  <2>1. NumberAt(remote.tts, t)' <= NumberAt(remote.tts, t) \/ NumberAt(remote.tts, t)' = 0
    BY <1>13
  <2>. QED
    BY <2>1, <1>12 DEF CountChange
<1>16. ASSUME faults = 0 PROVE Progress(q)' /\ SetsFollow' /\ TypesFollow'
  <2>1. Progress(q)'
    <3>1. Def(c.name)' = Def(c.name)
      BY <1>6 DEF Def
    <3>2. Progress(c)
      BY <1>3, <1>16
    <3>. QED
      BY <1>2, <1>4, <1>5, <3>1, <3>2 DEF Progress
  <2>2. SetsFollow'
    BY <1>6, <1>10, <1>11, <1>16, SetsKept
  <2>3. TypesFollow'
    BY <1>10, <1>13, <1>14, <1>15, <1>16, TypesKept
  <2>. QED
    BY <2>1, <2>2, <2>3
<1>. QED
  BY <1>6, <1>10, <1>13, <1>16, NamedKeeps

LEMMA SetsUpdated ==
  ASSUME NEW c, NEW s
  PROVE  ItemsAt(UpdateSets(remote.sets, c.name, c.prev, c.d), s)
         = IF s \in Sets(c.prev) \ Sets(c.d) THEN ItemsAt(remote.sets, s) \ {c.name}
           ELSE IF s \in Sets(c.d) \ Sets(c.prev) /\ Passes(s) THEN ItemsAt(remote.sets, s) \cup {c.name}
           ELSE ItemsAt(remote.sets, s)
<1> DEFINE g == UpdateSets(remote.sets, c.name, c.prev, c.d)
<1>1. DOMAIN g = DOMAIN remote.sets \cup Sets(c.prev) \cup Sets(c.d)
  BY DEF UpdateSets
<1>2. s \in DOMAIN g =>
        g[s] = IF s \in Sets(c.prev) \ Sets(c.d) THEN ItemsAt(remote.sets, s) \ {c.name}
               ELSE IF s \in Sets(c.d) \ Sets(c.prev) /\ Passes(s) THEN ItemsAt(remote.sets, s) \cup {c.name}
               ELSE ItemsAt(remote.sets, s)
  BY DEF UpdateSets
<1>3. ItemsAt(g, s) = IF s \in DOMAIN g THEN g[s] ELSE {}
  BY DEF ItemsAt
<1>4. s \notin DOMAIN remote.sets => ItemsAt(remote.sets, s) = {}
  BY DEF ItemsAt
<1> HIDE DEF g
<1>5. CASE s \in DOMAIN g
  BY <1>2, <1>3, <1>5 DEF g
<1>6. CASE s \notin DOMAIN g
  BY <1>1, <1>3, <1>4, <1>6 DEF g
<1>. QED
  BY <1>5, <1>6

\* The flag sets once a call took its name out of the old ones and into the new ones.
LEMMA SetsMoved ==
  ASSUME DefinitionsInv, faults = 0, NEW c, NEW Q, OfDefinition(c, Q),
         remote'.sets = UpdateSets(remote.sets, c.name, c.prev, c.d),
         \A s : Indexes(c, s) <=> s \in Sets(c.prev),
         \A s : IndexesAfter(c, Q, s)' <=> s \in Sets(c.d)
  PROVE  SetsFollow'
<1>1. CallOK(c) /\ DefsOf(remote.defs) /\ NamedApart /\ SetsFollow /\ c.name \in Names
  BY FollowsOpened
<1>2. Moves(c, Q) /\ Writes(c, Q) /\ c.op \in {"add", "remove"}
  BY DEF OfDefinition
<1>3. \A n : n # c.name => \A s : Indexed(n, s)' <=> Indexed(n, s)
  BY <1>1, <1>2, OtherNames
<1>4. \A s : Indexed(c.name, s) <=> s \in Sets(c.prev)
  BY <1>1, <1>2, NamedAfter
<1>5. \A s : Indexed(c.name, s)' <=> s \in Sets(c.d)
  BY <1>1, <1>2, NamedAfter
<1> SUFFICES ASSUME NEW s \in FlagSet PROVE NamesBySet(s)' = {n \in Names : Passes(s) /\ Indexed(n, s)'}
  BY DEF SetsFollow
<1>6. NamesBySet(s) = {n \in Names : Passes(s) /\ Indexed(n, s)}
  BY <1>1 DEF SetsFollow
<1>7. NamesBySet(s)' = IF s \in Sets(c.prev) \ Sets(c.d) THEN NamesBySet(s) \ {c.name}
                       ELSE IF s \in Sets(c.d) \ Sets(c.prev) /\ Passes(s) THEN NamesBySet(s) \cup {c.name}
                       ELSE NamesBySet(s)
  <2>1. ItemsAt(UpdateSets(remote.sets, c.name, c.prev, c.d), s)
        = IF s \in Sets(c.prev) \ Sets(c.d) THEN ItemsAt(remote.sets, s) \ {c.name}
          ELSE IF s \in Sets(c.d) \ Sets(c.prev) /\ Passes(s) THEN ItemsAt(remote.sets, s) \cup {c.name}
          ELSE ItemsAt(remote.sets, s)
    BY SetsUpdated
  <2>2. NamesBySet(s) = ItemsAt(remote.sets, s) /\ NamesBySet(s)' = ItemsAt(remote'.sets, s)
    BY DEF NamesBySet
  <2>. QED
    BY <2>1, <2>2
<1>8. \A n : n \in NamesBySet(s) <=> n \in Names /\ Passes(s) /\ Indexed(n, s)
  BY <1>6
<1>9. ASSUME NEW n PROVE n \in NamesBySet(s)' <=> n \in Names /\ Passes(s) /\ Indexed(n, s)'
  <2>1. CASE n # c.name
    BY <2>1, <1>3, <1>7, <1>8
  <2>2. CASE n = c.name
    <3>1. c.name \in NamesBySet(s) <=> Passes(s) /\ s \in Sets(c.prev)
      BY <1>1, <1>4, <1>8
    <3>2. c.name \in NamesBySet(s)' <=> Passes(s) /\ s \in Sets(c.d)
      BY <3>1, <1>7
    <3>. QED
      BY <2>2, <3>2, <1>1, <1>5
  <2>. QED
    BY <2>1, <2>2
<1>. QED
  BY <1>9

LEMMA SetsStepKeeps ==
  ASSUME DefinitionsInv, NEW c, Running(c), SetsStep(c)
  PROVE  DefinitionsInv'
<1>1. PICK q : q = [c EXCEPT !.pc = "del"]
  OBVIOUS
<1>2. PICK Q : Q = IF c.op = "add" THEN {} ELSE {q}
  OBVIOUS
<1>3. /\ c \in calls /\ c.pc = "sets" /\ calls' = (calls \ {c}) \cup Q
      /\ IF Q = {} THEN Over(c) ELSE last' = last
      /\ remote' = [remote EXCEPT !.sets = UpdateSets(@, c.name, c.prev, c.d)]
      /\ UNCHANGED <<link, upstream, late, updates, faults>>
  BY <1>1, <1>2 DEF SetsStep, Then, Over, Running
<1>4. /\ CallOK(c) /\ c = [of |-> c.of, op |-> c.op, name |-> c.name, d |-> c.d, prev |-> c.prev, pc |-> c.pc]
      /\ remote = [defs |-> remote.defs, tts |-> remote.tts, sets |-> remote.sets, rbs |-> remote.rbs,
                   tills |-> remote.tills, segments |-> remote.segments, hash |-> remote.hash]
      /\ DefsOf(remote.defs) /\ NumbersOf(remote.tts)
      /\ faults = 0 => Progress(c) /\ SetsFollow
  BY CallOpened
<1>5. /\ c.op \in {"add", "remove"}
      /\ c.op = "add" => c.d \in Defs /\ c.d # NoDefinition
      /\ c.op = "remove" => c.d = NoDefinition
  BY <1>3, <1>4, DefsReal DEF CallOK
<1>6. q = [of |-> c.of, op |-> c.op, name |-> c.name, d |-> c.d, prev |-> c.prev, pc |-> "del"]
  BY <1>1, <1>4
<1>7. remote' = [defs |-> remote.defs, tts |-> remote.tts, sets |-> UpdateSets(remote.sets, c.name, c.prev, c.d),
                 rbs |-> remote.rbs, tills |-> remote.tills, segments |-> remote.segments, hash |-> remote.hash]
  BY <1>3, <1>4
<1>8. \A x \in Q : x = q /\ c.op = "remove"
  BY <1>2, <1>5
<1>9. c.op = "remove" => CallOK(q)
  BY <1>3, <1>4, <1>5, <1>6 DEF CallOK
<1>10. Moves(c, Q)
  BY <1>3, <1>4, <1>6, <1>7, <1>8, <1>9 DEF Moves
<1>11. Writes(c, Q)
  BY <1>2, <1>3, <1>5, <1>7 DEF Writes
<1>12. OfDefinition(c, Q)
  BY <1>5, <1>10, <1>11 DEF OfDefinition
<1>13. \A s : Indexes(c, s) <=> s \in Sets(c.prev)
  BY <1>3 DEF Indexes, Before
<1>14. /\ \A t : Counts(c, t) <=> c.op = "add" /\ HasType(c.d, t)
  BY <1>3 DEF Counts
<1>15. ASSUME faults = 0 PROVE Progress(c) /\ (c.op = "add" => Def(c.name)' = c.d)
  <2>1. Progress(c)
    BY <1>4, <1>15
  <2>2. Def(c.name)' = Def(c.name)
    BY <1>7 DEF Def
  <2>. QED
    BY <1>3, <2>1, <2>2 DEF Progress
<1>16. ASSUME faults = 0
       PROVE  /\ \A s : IndexesAfter(c, Q, s)' <=> s \in Sets(c.d)
              /\ \A t : CountsAfter(c, Q, t)' <=> Counts(c, t)
  <2>1. CASE c.op = "add"
    <3>1. Q = {} /\ Def(c.name)' = c.d
      BY <2>1, <1>2, <1>15, <1>16
    <3>2. \A s : IndexesAfter(c, Q, s)' <=> s \in Sets(c.d)
      BY <3>1 DEF IndexesAfter
    <3>3. \A t : CountsAfter(c, Q, t)' <=> HasType(c.d, t)
      BY <3>1 DEF CountsAfter
    <3>. QED
      BY <2>1, <3>2, <3>3, <1>14
  <2>2. CASE c.op = "remove"
    <3>1. Q = {q}
      BY <2>2, <1>2
    <3>2. \A s : ~Indexes(q, s)' /\ s \notin Sets(c.d)
      BY <2>2, <1>5, <1>6 DEF Indexes, Sets
    <3>3. \A t : ~Counts(q, t)' /\ ~Counts(c, t)
      BY <2>2, <1>3, <1>6 DEF Counts
    <3>4. (\A s : IndexesAfter(c, {q}, s)' <=> Indexes(q, s)') /\ \A t : CountsAfter(c, {q}, t)' <=> Counts(q, t)'
      BY AfterOne
    <3>. QED
      BY <3>1, <3>2, <3>3, <3>4
  <2>. QED
    BY <2>1, <2>2, <1>5
<1>17. NumbersOf(remote'.tts)
  BY <1>4, <1>7
<1>18. ASSUME faults = 0
       PROVE  (\A x \in Q : Progress(x)') /\ (Q = {} => Same(c.name)') /\ SetsFollow' /\ TypesFollow'
  <2>1. Progress(c)
    BY <1>15, <1>18
  <2>2. ASSUME NEW x \in Q PROVE Progress(x)'
    <3>1. Def(c.name)' = Def(c.name)
      BY <1>7 DEF Def
    <3>. QED
      BY <2>1, <2>2, <3>1, <1>3, <1>6, <1>8 DEF Progress
  <2>3. ASSUME Q = {} PROVE Same(c.name)'
    <3>1. c.op = "add"
      BY <2>3, <1>2
    <3>2. Def(c.name) = c.d /\ c.name \in DOMAIN upstream.defs /\ upstream.defs[c.name] = c.d
      BY <3>1, <2>1, <1>3 DEF Progress
    <3>3. c.name \in DOMAIN remote.defs /\ remote.defs[c.name] = c.d
      BY <3>1, <3>2, <1>5 DEF Def
    <3>. QED
      BY <3>2, <3>3, <1>3, <1>7 DEF Same
  <2>4. SetsFollow'
    <3>1. \A s : IndexesAfter(c, Q, s)' <=> s \in Sets(c.d)
      BY <1>16, <1>18
    <3>2. remote'.sets = UpdateSets(remote.sets, c.name, c.prev, c.d)
      BY <1>7
    <3>. QED
      BY <3>1, <3>2, <1>12, <1>13, <1>18, SetsMoved
  <2>5. TypesFollow'
    <3>1. \A t : CountsAfter(c, Q, t)' <=> Counts(c, t)
      BY <1>16, <1>18
    <3>2. remote'.tts = remote.tts
      BY <1>7
    <3>3. /\ \A t : NumberAt(remote.tts, t)' \in Int /\ NumberAt(remote.tts, t) \in Int
          /\ \A t \in Types : CountChange(c, Q, t)
      BY <3>1, <3>2, CountsKept
    <3>. QED
      BY <3>3, <1>12, <1>18, TypesKept
  <2>. QED
    BY <2>2, <2>3, <2>4, <2>5
<1>. QED
  BY <1>7, <1>12, <1>17, <1>18, NamedKeeps

LEMMA DelStepKeeps ==
  ASSUME DefinitionsInv, NEW c, Running(c), DelStep(c)
  PROVE  DefinitionsInv'
<1>1. PICK Q : Q = {}
  OBVIOUS
<1>2. /\ c \in calls /\ c.pc = "del" /\ calls' = (calls \ {c}) \cup Q /\ Over(c)
      /\ remote' = [remote EXCEPT !.defs = Del(@, {c.name})]
      /\ UNCHANGED <<link, upstream, late, updates, faults>>
  BY <1>1 DEF DelStep, Over, Running
<1>3. /\ CallOK(c) /\ c = [of |-> c.of, op |-> c.op, name |-> c.name, d |-> c.d, prev |-> c.prev, pc |-> c.pc]
      /\ remote = [defs |-> remote.defs, tts |-> remote.tts, sets |-> remote.sets, rbs |-> remote.rbs,
                   tills |-> remote.tills, segments |-> remote.segments, hash |-> remote.hash]
      /\ DefsOf(remote.defs) /\ NumbersOf(remote.tts)
      /\ faults = 0 => Progress(c) /\ SetsFollow
  BY CallOpened
<1>4. c.op = "remove"
  BY <1>2, <1>3 DEF CallOK
<1>5. remote' = [defs |-> Del(remote.defs, {c.name}), tts |-> remote.tts, sets |-> remote.sets, rbs |-> remote.rbs,
                 tills |-> remote.tills, segments |-> remote.segments, hash |-> remote.hash]
  BY <1>2, <1>3
<1>6. Moves(c, Q)
  BY <1>1, <1>2, <1>5 DEF Moves
<1>7. Writes(c, Q)
  BY <1>1, <1>4, <1>5 DEF Writes
<1>8. OfDefinition(c, Q)
  BY <1>4, <1>6, <1>7 DEF OfDefinition
<1>9. c.name \notin DOMAIN remote'.defs
  BY <1>5 DEF Del
<1>10. Def(c.name)' = NoDefinition
  BY <1>9 DEF Def
<1>11. \A s : IndexesAfter(c, Q, s)' <=> Indexes(c, s)
  <2>1. \A s : ~Indexes(c, s)
    BY <1>2 DEF Indexes
  <2>2. \A s : ~IndexesAfter(c, Q, s)'
    BY <1>1, <1>10 DEF IndexesAfter, Sets
  <2>. QED
    BY <2>1, <2>2
<1>12. \A t : CountsAfter(c, Q, t)' <=> Counts(c, t)
  <2>1. \A t : ~Counts(c, t)
    BY <1>2, <1>4 DEF Counts
  <2>2. \A t : ~CountsAfter(c, Q, t)'
    BY <1>1, <1>10 DEF CountsAfter, HasType
  <2>. QED
    BY <2>1, <2>2
<1>13. /\ NumbersOf(remote'.tts)
       /\ \A t : NumberAt(remote.tts, t)' \in Int /\ NumberAt(remote.tts, t) \in Int
       /\ \A t \in Types : CountChange(c, Q, t)
  BY <1>5, <1>12, CountsKept
<1>14. ASSUME faults = 0
       PROVE  (\A x \in Q : Progress(x)') /\ (Q = {} => Same(c.name)') /\ SetsFollow' /\ TypesFollow'
  <2>1. c.name \notin DOMAIN upstream.defs
    BY <1>3, <1>4, <1>14 DEF Progress
  <2>2. Same(c.name)'
    BY <1>2, <1>9, <2>1 DEF Same
  <2>3. SetsFollow'
    BY <1>5, <1>8, <1>11, <1>14, SetsKept
  <2>4. TypesFollow'
    BY <1>8, <1>13, <1>14, TypesKept
  <2>. QED
    BY <1>1, <2>2, <2>3, <2>4
<1>. QED
  BY <1>5, <1>8, <1>13, <1>14, NamedKeeps

\* The calls of change numbers, rule-based segments and keys leave the definitions alone.
LEMMA OthersLeaveDefinitions ==
  ASSUME DefinitionsInv, NEW c, NEW Q, Q = {}, Moves(c, Q), c.op \notin {"add", "remove"},
         remote'.defs = remote.defs, remote'.tts = remote.tts, remote'.sets = remote.sets
  PROVE  /\ Owned'
         /\ Fresh' => DefsWritten'
         /\ faults = 0 => Fresh' /\ DefsFollow' /\ SetsFollow' /\ TypesFollow'
<1>1. /\ c \in calls /\ calls' = calls \ {c} /\ upstream' = upstream
      /\ \A q : q.op \in {"add", "remove"} => (q \in calls' <=> q \in calls)
  BY DEF Moves
<1>2. Owned'
  BY MovesOwned
<1>3. ASSUME Fresh' PROVE DefsWritten'
  <2>1. DefsWritten /\ last'.toAdd = last.toAdd /\ last'.toRemove = last.toRemove
    BY <1>3, MovesLast DEF DefinitionsInv, Written
  <2>2. \A d \in last.toAdd :
           \/ d.name \in DOMAIN remote'.defs /\ remote'.defs[d.name] = d
           \/ \E q \in calls' : q.op = "add" /\ q.d = d /\ q.pc \in {"get", "set"}
    BY <2>1, <1>1 DEF DefsWritten
  <2>3. \A n \in last.toRemove : n \notin DOMAIN remote'.defs \/ \E q \in calls' : q.op = "remove" /\ q.name = n
    BY <2>1, <1>1 DEF DefsWritten
  <2>. QED
    BY <2>1, <2>2, <2>3 DEF DefsWritten
<1>4. ASSUME faults = 0 PROVE Fresh' /\ DefsFollow' /\ SetsFollow' /\ TypesFollow'
  <2>1. remote.hash = Ours
    BY MovesOwned
  <2>2. Fresh /\ DefsFollow /\ SetsFollow /\ TypesFollow
    BY <1>4, <2>1 DEF DefinitionsInv, Follows
  <2>3. Fresh'
    BY <2>2, MovesLast
  <2>4. \A n : Def(n)' = Def(n) /\ (Same(n)' <=> Same(n))
    BY <1>1 DEF Def, Same
  <2>5. \A n : CallOn(n)' <=> CallOn(n)
    BY <1>1 DEF CallOn, On
  <2>6. \A q : Before(q)' = Before(q)
    BY <2>4 DEF Before
  <2>7. \A n, s : Indexed(n, s)' <=> Indexed(n, s)
    <3>1. \A q, s : Indexes(q, s)' <=> Indexes(q, s)
      BY <2>6 DEF Indexes
    <3>. QED
      BY <3>1, <1>1, <2>4, <2>5 DEF Indexed, On
  <2>8. \A n, t : CountedFor(n, t)' <=> CountedFor(n, t)
    <3>1. \A q, t : Counts(q, t)' <=> Counts(q, t)
      BY <2>6 DEF Counts
    <3>. QED
      BY <3>1, <1>1, <2>4, <2>5 DEF CountedFor, On
  <2>9. DefsFollow'
    <3>1. \A q \in calls' : Progress(q)'
      BY <1>1, <2>2, <2>4 DEF DefsFollow, Progress
    <3>2. Named' = Named
      BY <1>1 DEF Named
    <3>. QED
      BY <3>1, <3>2, <2>2, <2>4, <2>5 DEF DefsFollow
  <2>10. SetsFollow'
    BY <2>2, <2>7 DEF SetsFollow, NamesBySet
  <2>11. TypesFollow'
    <3>1. \A t : Counted(t)' = Counted(t)
      BY <2>8 DEF Counted
    <3>. QED
      BY <3>1, <2>2 DEF TypesFollow
  <2>. QED
    BY <2>3, <2>9, <2>10, <2>11
<1>. QED
  BY <1>2, <1>3, <1>4

LEMMA TillStepKeeps ==
  ASSUME DefinitionsInv, NEW c, Running(c), TillStep(c)
  PROVE  DefinitionsInv'
<1>1. PICK Q : Q = {}
  OBVIOUS
<1>2. /\ c \in calls /\ c.pc = "till" /\ calls' = (calls \ {c}) \cup Q /\ Over(c)
      /\ remote' = [remote EXCEPT !.tills = Set(@, c.name, c.of)]
      /\ UNCHANGED <<link, upstream, late, updates, faults>>
  BY <1>1 DEF TillStep, Over, Running
<1>3. /\ CallOK(c)
      /\ remote = [defs |-> remote.defs, tts |-> remote.tts, sets |-> remote.sets, rbs |-> remote.rbs,
                   tills |-> remote.tills, segments |-> remote.segments, hash |-> remote.hash]
      /\ DefsOf(remote.defs) /\ NumbersOf(remote.tts)
  BY CallOpened
<1>4. c.op = "till"
  BY <1>2, <1>3 DEF CallOK
<1>5. remote' = [defs |-> remote.defs, tts |-> remote.tts, sets |-> remote.sets, rbs |-> remote.rbs,
                 tills |-> Set(remote.tills, c.name, c.of), segments |-> remote.segments, hash |-> remote.hash]
  BY <1>2, <1>3
<1>6. Moves(c, Q)
  BY <1>1, <1>2, <1>5 DEF Moves
<1>7. /\ Owned' /\ (Fresh' => DefsWritten')
      /\ faults = 0 => Fresh' /\ DefsFollow' /\ SetsFollow' /\ TypesFollow'
  BY <1>1, <1>4, <1>5, <1>6, OthersLeaveDefinitions
<1>8. StoredKeys' = StoredKeys
  BY <1>5 DEF StoredKeys
<1>9. DefinitionsTypeOK'
  BY <1>3, <1>5, <1>6, <1>8, MovesTyped DEF DefinitionsInv, DefinitionsTypeOK
<1>10. Written'
  <2> SUFFICES ASSUME Fresh' PROVE CallsOfLast' /\ DefsWritten' /\ RestWritten'
    BY DEF Written
  <2>1. CallsOfLast' /\ Fresh /\ last'.part = last.part /\ last'.keys = last.keys
    BY <1>6, MovesLast
  <2>2. CallsOfLast /\ RestWritten
    BY <2>1 DEF DefinitionsInv, Written
  <2>3. ChangeNumber(last.part)' = updates
    <3>1. c.name = last.part /\ c.of = updates
      BY <1>2, <1>4, <2>2 DEF CallsOfLast
    <3>2. last.part \in DOMAIN remote'.tills /\ remote'.tills[last.part] = updates
      BY <1>5, <3>1 DEF Set
    <3>. QED
      BY <3>2, <2>1 DEF ChangeNumber
  <2>4. Added' = Added /\ Removed' = Removed
    BY <1>1, <1>2, <1>4 DEF Added, Removed
  <2>5. RestWritten'
    BY <1>2, <1>8, <2>1, <2>2, <2>3, <2>4 DEF RestWritten
  <2>. QED
    BY <2>1, <2>5, <1>7
<1>11. Follows'
  <2>1. ASSUME faults = 0 PROVE RBSFollow'
    <3>1. RBSFollow
      BY <2>1, <1>6, MovesOwned DEF DefinitionsInv, Follows
    <3>. QED
      BY <3>1, <1>1, <1>2, <1>4, <1>5 DEF RBSFollow
  <2>. QED
    BY <2>1, <1>2, <1>7 DEF Follows
<1>. QED
  BY <1>7, <1>9, <1>10, <1>11 DEF DefinitionsInv

LEMMA RBStepKeeps ==
  ASSUME DefinitionsInv, NEW c, Running(c), RBStep(c)
  PROVE  DefinitionsInv'
<1>1. PICK Q : Q = {}
  OBVIOUS
<1>2. /\ c \in calls /\ c.op = "rbs" /\ calls' = (calls \ {c}) \cup Q /\ Over(c)
      /\ remote' = [remote EXCEPT !.rbs = IF c.pc = "set" THEN Set(@, c.name, c.of) ELSE Del(@, {c.name})]
      /\ UNCHANGED <<link, upstream, late, updates, faults>>
  BY <1>1 DEF RBStep, Over, Running
<1>3. /\ CallOK(c)
      /\ remote = [defs |-> remote.defs, tts |-> remote.tts, sets |-> remote.sets, rbs |-> remote.rbs,
                   tills |-> remote.tills, segments |-> remote.segments, hash |-> remote.hash]
      /\ DefsOf(remote.defs) /\ NumbersOf(remote.tts)
      /\ faults = 0 => Progress(c)
  BY CallOpened
<1> DEFINE rbs == IF c.pc = "set" THEN Set(remote.rbs, c.name, c.of) ELSE Del(remote.rbs, {c.name})
<1>4. remote' = [defs |-> remote.defs, tts |-> remote.tts, sets |-> remote.sets, rbs |-> rbs,
                 tills |-> remote.tills, segments |-> remote.segments, hash |-> remote.hash]
  BY <1>2, <1>3
<1>5. DOMAIN rbs = IF c.pc = "set" THEN DOMAIN remote.rbs \cup {c.name} ELSE DOMAIN remote.rbs \ {c.name}
  BY DEF Set, Del
<1> HIDE DEF rbs
<1>6. c.name \in RBNames /\ DOMAIN remote.rbs \subseteq RBNames
  BY <1>2, <1>3 DEF CallOK, DefinitionsInv, DefinitionsTypeOK
<1>7. Moves(c, Q)
  BY <1>1, <1>2, <1>4 DEF Moves
<1>8. /\ Owned' /\ (Fresh' => DefsWritten')
      /\ faults = 0 => Fresh' /\ DefsFollow' /\ SetsFollow' /\ TypesFollow'
  BY <1>1, <1>2, <1>4, <1>7, OthersLeaveDefinitions
<1>9. StoredKeys' = StoredKeys
  BY <1>4 DEF StoredKeys
<1>10. DefinitionsTypeOK'
  <2>1. DOMAIN remote'.rbs \subseteq RBNames
    BY <1>4, <1>5, <1>6
  <2>2. StoredKeys' \subseteq SegmentKeys
    BY <1>9 DEF DefinitionsInv, DefinitionsTypeOK
  <2>3. DefsOf(remote'.defs) /\ NumbersOf(remote'.tts)
    BY <1>3, <1>4
  <2>. QED
    BY <1>7, <2>1, <2>2, <2>3, MovesTyped
<1>11. Written'
  <2> SUFFICES ASSUME Fresh' PROVE CallsOfLast' /\ DefsWritten' /\ RestWritten'
    BY DEF Written
  <2>1. CallsOfLast' /\ Fresh /\ last'.part = last.part /\ last'.keys = last.keys
    BY <1>7, MovesLast
  <2>2. RestWritten
    BY <2>1 DEF DefinitionsInv, Written
  <2>3. Added' = Added /\ Removed' = Removed
    BY <1>1, <1>2 DEF Added, Removed
  <2>4. RestWritten'
    BY <1>1, <1>2, <1>4, <1>9, <2>1, <2>2, <2>3 DEF RestWritten, ChangeNumber
  <2>. QED
    BY <2>1, <2>4, <1>8
<1>12. Follows'
  <2>1. ASSUME faults = 0 PROVE RBSFollow'
    <3>1. RBSFollow /\ (c.pc = "set" <=> c.name \in upstream.rbs)
      BY <2>1, <1>2, <1>3, <1>7, MovesOwned DEF DefinitionsInv, Follows, Progress
    <3>2. remote'.rbs = rbs /\ upstream' = upstream
      BY <1>2, <1>4
    <3>3. ASSUME NEW n \in RBNames
          PROVE (n \in DOMAIN remote'.rbs <=> n \in upstream'.rbs) \/ \E q \in calls' : q.op = "rbs" /\ q.name = n
      <4>1. CASE n = c.name
        BY <4>1, <3>1, <3>2, <1>5
      <4>2. CASE n # c.name
        <5>1. n \in DOMAIN remote'.rbs <=> n \in DOMAIN remote.rbs
          BY <4>2, <3>2, <1>5
        <5>. QED
          BY <4>2, <5>1, <3>1, <3>2, <1>1, <1>2 DEF RBSFollow
      <4>. QED
        BY <4>1, <4>2
    <3>. QED
      BY <3>3 DEF RBSFollow
  <2>. QED
    BY <2>1, <1>2, <1>8 DEF Follows
<1>. QED
  BY <1>8, <1>10, <1>11, <1>12 DEF DefinitionsInv

LEMMA KeysStepKeeps ==
  ASSUME DefinitionsInv, NEW c, Running(c), KeysStep(c)
  PROVE  DefinitionsInv'
<1>1. PICK Q : Q = {}
  OBVIOUS
<1>2. /\ c \in calls /\ c.op = "keys" /\ calls' = (calls \ {c}) \cup Q /\ Over(c)
      /\ remote' = [remote EXCEPT !.segments = IF c.pc = "add" THEN AddItems(@, c.name, c.prev)
                                                               ELSE RemoveItems(@, c.name, c.prev)]
      /\ UNCHANGED <<link, upstream, late, updates, faults>>
  BY <1>1 DEF KeysStep, Over, Running
<1>3. /\ CallOK(c)
      /\ remote = [defs |-> remote.defs, tts |-> remote.tts, sets |-> remote.sets, rbs |-> remote.rbs,
                   tills |-> remote.tills, segments |-> remote.segments, hash |-> remote.hash]
      /\ DefsOf(remote.defs) /\ NumbersOf(remote.tts)
  BY CallOpened
<1>4. c.pc \in {"add", "remove"} /\ c.name = "segment" /\ c.prev \in SUBSET SegmentKeys
  BY <1>2, <1>3 DEF CallOK
<1> DEFINE segments == IF c.pc = "add" THEN AddItems(remote.segments, "segment", c.prev)
                                       ELSE RemoveItems(remote.segments, "segment", c.prev)
<1>5. remote' = [defs |-> remote.defs, tts |-> remote.tts, sets |-> remote.sets, rbs |-> remote.rbs,
                 tills |-> remote.tills, segments |-> segments, hash |-> remote.hash]
  BY <1>2, <1>3, <1>4
<1>6. ItemsAt(segments, "segment") = IF c.pc = "add" THEN StoredKeys \cup c.prev ELSE StoredKeys \ c.prev
  BY DEF AddItems, RemoveItems, Set, ItemsAt, StoredKeys
<1> HIDE DEF segments
<1>7. StoredKeys' = IF c.pc = "add" THEN StoredKeys \cup c.prev ELSE StoredKeys \ c.prev
  BY <1>5, <1>6 DEF StoredKeys
<1>8. Moves(c, Q)
  BY <1>1, <1>2, <1>5 DEF Moves
<1>9. /\ Owned' /\ (Fresh' => DefsWritten')
      /\ faults = 0 => Fresh' /\ DefsFollow' /\ SetsFollow' /\ TypesFollow'
  BY <1>1, <1>2, <1>5, <1>8, OthersLeaveDefinitions
<1>10. DefinitionsTypeOK'
  <2>1. StoredKeys \subseteq SegmentKeys /\ DOMAIN remote.rbs \subseteq RBNames
    BY DEF DefinitionsInv, DefinitionsTypeOK
  <2>2. StoredKeys' \subseteq SegmentKeys /\ DOMAIN remote'.rbs \subseteq RBNames
    BY <2>1, <1>4, <1>5, <1>7
  <2>3. DefsOf(remote'.defs) /\ NumbersOf(remote'.tts)
    BY <1>3, <1>5
  <2>. QED
    BY <1>8, <2>2, <2>3, MovesTyped
<1>11. Written'
  <2> SUFFICES ASSUME Fresh' PROVE CallsOfLast' /\ DefsWritten' /\ RestWritten'
    BY DEF Written
  <2>1. CallsOfLast' /\ Fresh /\ last'.part = last.part /\ last'.keys = last.keys
    BY <1>8, MovesLast
  <2>2. RestWritten
    BY <2>1 DEF DefinitionsInv, Written
  <2>3. last'.part # "none" => ChangeNumber(last.part)' = updates' \/ \E q \in calls' : q.op = "till"
    BY <1>1, <1>2, <1>5, <2>1, <2>2 DEF RestWritten, ChangeNumber
  <2>4. CASE c.pc = "add"
    <3>1. Added = Added' \cup c.prev /\ Removed' = Removed
      BY <1>1, <1>2, <2>4 DEF Added, Removed
    <3>. QED
      BY <3>1, <2>1, <2>2, <2>3, <2>4, <1>7, <1>9 DEF RestWritten
  <2>5. CASE c.pc = "remove"
    <3>1. Removed = Removed' \cup c.prev /\ Added' = Added
      BY <1>1, <1>2, <2>5 DEF Added, Removed
    <3>. QED
      BY <3>1, <2>1, <2>2, <2>3, <2>5, <1>7, <1>9 DEF RestWritten
  <2>. QED
    BY <1>4, <2>4, <2>5
<1>12. Follows'
  <2>1. ASSUME faults = 0 PROVE RBSFollow'
    <3>1. RBSFollow
      BY <2>1, <1>8, MovesOwned DEF DefinitionsInv, Follows
    <3>. QED
      BY <3>1, <1>1, <1>2, <1>5 DEF RBSFollow
  <2>. QED
    BY <2>1, <1>2, <1>9 DEF Follows
<1>. QED
  BY <1>9, <1>10, <1>11, <1>12 DEF DefinitionsInv

LEMMA StepKeeps ==
  ASSUME DefinitionsInv, Step
  PROVE  DefinitionsInv'
<1>1. PICK c \in calls :
        \/ GetStep(c) \/ SetStep(c) \/ IncrStep(c) \/ DecrStep(c) \/ DelTypeStep(c)
        \/ SetsStep(c) \/ DelStep(c) \/ TillStep(c) \/ RBStep(c) \/ KeysStep(c)
  BY DEF Step
<1>2. Running(c)
  BY DEF Step, Running
<1>. QED
  BY <1>1, <1>2, GetStepKeeps, SetStepKeeps, IncrStepKeeps, DecrStepKeeps, DelTypeStepKeeps, SetsStepKeeps,
     DelStepKeeps, TillStepKeeps, RBStepKeeps, KeysStepKeeps

-----------------------------------------------------------------------------
\* What the consumers record has no key of these.
LEMMA DefinitionsRest ==
  ASSUME DefinitionsInv, UNCHANGED definitionVars
  PROVE  DefinitionsInv'
<1>1. UNCHANGED <<remote, link, calls, upstream, last, late, updates, faults>>
  BY DEF definitionVars
<1>2. DefinitionsTypeOK' /\ Written' /\ Follows'
  <2>1. link' \in {"connecting", "clearing", "ready", "failed"} /\ faults' \in Nat
    BY <1>1 DEF DefinitionsInv, DefinitionsTypeOK
  <2>. QED
    BY <1>1, <2>1, DefinitionsFrame
<1>3. Owned'
  BY <1>1 DEF DefinitionsInv, Owned, StoredKeys
<1>. QED
  BY <1>2, <1>3 DEF DefinitionsInv

LEMMA DefinitionsInvariance == Spec => []DefinitionsInv
<1>1. Init => DefinitionsInv
  BY DefinitionsInitInv DEF Init
<1>2. DefinitionsInv /\ [Next]_vars => DefinitionsInv'
  <2> SUFFICES ASSUME DefinitionsInv, [Next]_vars PROVE DefinitionsInv'
    OBVIOUS
  <2>1. CASE UNCHANGED definitionVars
    BY <2>1, DefinitionsRest
  <2>2. CASE ConnectProducer
    BY <2>2, ConnectProducerKeeps
  <2>3. CASE ClearKeys
    BY <2>3, ClearKeysKeeps
  <2>4. CASE SetHash
    BY <2>4, SetHashKeeps
  <2>5. CASE ConnectProducerFails
    BY <2>5, ConnectProducerFailsKeeps
  <2>6. CASE Restart
    BY <2>6, RestartKeeps
  <2>7. CASE BeginUpdate
    BY <2>7, BeginUpdateKeeps
  <2>8. CASE UpdateRBSegments
    BY <2>8, UpdateRBSegmentsKeeps
  <2>9. CASE UpdateSegment
    BY <2>9, UpdateSegmentKeeps
  <2>10. CASE KillLocally
    BY <2>10, KillLocallyKeeps
  <2>11. CASE Step
    BY <2>11, StepKeeps
  <2>12. CASE CommandFails
    BY <2>12, CommandFailsKeeps
  <2>. QED
    BY <2>1, <2>2, <2>3, <2>4, <2>5, <2>6, <2>7, <2>8, <2>9, <2>10, <2>11, <2>12 DEF Next, vars, Consuming
<1>. QED
  BY <1>1, <1>2, PTL DEF Spec

\* A producer that is ready has nothing of another SDK key in its storage, wherever
\* the clearing was cut off, and an update whose promise resolved is in the storage
\* as a whole (clear and the update methods of the definitions, rule-based segments
\* and segments caches in Redis and pluggable storages): whatever the batches, the
\* order of the parallel commands, and the commands that failed before.
THEOREM AnswersCorrect == Spec => []AnsweredIsStored
<1>1. DefinitionsInv => AnsweredIsStored
  <2> SUFFICES ASSUME DefinitionsInv PROVE AnsweredIsStored
    OBVIOUS
  <2>1. link = "ready" => \A n \in DOMAIN remote.defs : remote.defs[n].env = Ours
    BY DEF DefinitionsInv, Owned
  <2>2. ASSUME Settled, last.outcome = "ok", ~late
        PROVE  /\ \A d \in last.toAdd : Get(remote.defs, d.name) = d
               /\ last.toRemove \cap DOMAIN remote.defs = {}
               /\ StoredKeys = last.keys
               /\ last.part # "none" => ChangeNumber(last.part) = updates
    <3>1. calls = {} /\ DefsWritten /\ RestWritten
      BY <2>2 DEF DefinitionsInv, Written, Fresh, Settled
    <3>2. Added = {} /\ Removed = {}
      BY <3>1 DEF Added, Removed
    <3>. QED
      BY <3>1, <3>2 DEF DefsWritten, RestWritten, Get
  <2>. QED
    BY <2>1, <2>2 DEF AnsweredIsStored
<1>. QED
  BY <1>1, DefinitionsInvariance, PTL

\* While no command failed, a storage whose calls are over has the definitions and
\* the rule-based segments of the backend, each flag set lists exactly the
\* definitions that are in it and pass the filter, and no traffic type is counted
\* more often than it occurs (_updateSets, _incrementCounts, _decrementCounts),
\* whatever the rules, the updates and the order in which their commands ran.
THEOREM IndexesCorrect == Spec => []IndexesFollow
<1>1. DefinitionsInv => IndexesFollow
  <2> SUFFICES ASSUME DefinitionsInv, Settled, faults = 0
               PROVE  /\ remote.defs = upstream.defs
                      /\ DOMAIN remote.rbs = upstream.rbs
                      /\ \A s \in FlagSet :
                           NamesBySet(s) =
                             IF Passes(s) THEN {n \in DOMAIN remote.defs : s \in remote.defs[n].sets} ELSE {}
                      /\ \A t \in DOMAIN remote.tts : TrafficTypeExists(t) =>
                           remote.tts[t] <= Cardinality({n \in DOMAIN remote.defs : remote.defs[n].trafficType = t})
    BY DEF IndexesFollow
  <2>1. /\ calls = {} /\ DefsFollow /\ RBSFollow /\ SetsFollow /\ TypesFollow
        /\ DefsOf(remote.defs) /\ DefsOf(upstream.defs) /\ DOMAIN remote.tts \subseteq Types
        /\ DOMAIN remote.rbs \subseteq RBNames /\ upstream.rbs \in SUBSET RBNames
    BY DEF DefinitionsInv, Owned, Follows, DefinitionsTypeOK, Settled
  <2>2. \A n : ~CallOn(n)
    BY <2>1 DEF CallOn
  <2>3. \A n \in DOMAIN remote.defs : n \in Names /\ Def(n) = remote.defs[n] /\ Def(n) # NoDefinition
    BY <2>1, DefsReal DEF DefsOf, Def
  <2>4. \A n : n \notin DOMAIN remote.defs => Def(n) = NoDefinition
    BY DEF Def
  <2>5. remote.defs = upstream.defs
    <3>1. \A n \in Names : Same(n)
      BY <2>1, <2>2 DEF DefsFollow
    <3>2. DOMAIN remote.defs = DOMAIN upstream.defs
      BY <3>1, <2>1 DEF Same, DefsOf
    <3>3. \A n \in DOMAIN remote.defs : remote.defs[n] = upstream.defs[n]
      BY <3>1, <2>3 DEF Same
    <3>. QED
      BY <3>2, <3>3, <2>1 DEF DefsOf
  <2>6. DOMAIN remote.rbs = upstream.rbs
    BY <2>1 DEF RBSFollow
  <2>7. \A n, s : Indexed(n, s) <=> n \in DOMAIN remote.defs /\ s \in remote.defs[n].sets
    BY <2>2, <2>3, <2>4 DEF Indexed, Sets
  <2>8. \A n, t : CountedFor(n, t) <=> n \in DOMAIN remote.defs /\ remote.defs[n].trafficType = t
    BY <2>2, <2>3, <2>4 DEF CountedFor, HasType
  <2>9. \A s \in FlagSet :
          NamesBySet(s) = IF Passes(s) THEN {n \in DOMAIN remote.defs : s \in remote.defs[n].sets} ELSE {}
    BY <2>1, <2>3, <2>7 DEF SetsFollow
  <2>10. ASSUME NEW t \in DOMAIN remote.tts
         PROVE  remote.tts[t] <= Cardinality({n \in DOMAIN remote.defs : remote.defs[n].trafficType = t})
    <3>1. Counted(t) = {n \in DOMAIN remote.defs : remote.defs[n].trafficType = t}
      BY <2>3, <2>8 DEF Counted
    <3>2. NumberAt(remote.tts, t) <= Cardinality(Counted(t))
      BY <2>1, <2>10 DEF TypesFollow
    <3>. QED
      BY <3>1, <3>2 DEF NumberAt
  <2>. QED
    BY <2>5, <2>6, <2>9, <2>10
<1>. QED
  BY <1>1, DefinitionsInvariance, PTL
=============================================================================
