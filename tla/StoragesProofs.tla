--------------------------- MODULE StoragesProofs ---------------------------
(***************************************************************************)
(* Proofs about the synchronous storages, for any rules, keys, segments,   *)
(* configurations, filters and plans, and any number of updates, sessions  *)
(* and failed or lost saves.                                               *)
(*                                                                         *)
(* The caches are built by folds over sets.  No prover here takes an       *)
(* operator as a parameter, so there is one lemma for each operator that   *)
(* is folded, from the least set where its conclusion would fail (Folds).  *)
(* With them every operation of the caches keeps its counts and indexes    *)
(* equal to what its rules say, in memory (the lemmas named IsExact) and   *)
(* in the items of the local storages (Tallied); the reset of memberships  *)
(* gives the listed segments, and a plan gives the storage it came from.   *)
(*                                                                         *)
(* StoragesInv says of a session what the properties need: the types and   *)
(* the exactness of memory, items and every copy of them (Typed,           *)
(* ItemsAreExact, CopiesAreExact), the chain of saves (ChainOfSaves), and  *)
(* of which configuration the rules are (Labels, MemoryIsOurs).  The last  *)
(* is not what CacheIsOurs says: between sessions the items are of the     *)
(* configuration of their hash, and items that have no change number,      *)
(* which is how validateCache knows that there is no cache, have no rules  *)
(* either (Whole).                                                         *)
(***************************************************************************)
EXTENDS Storages, FiniteSetTheorems, WellFoundedInduction, TLAPS

\* Finite sets have least members, which is induction without a predicate.
LEMMA LeastSet ==
  ASSUME NEW S, IsFiniteSet(S), NEW B \in SUBSET (SUBSET S), B # {}
  PROVE  \E s \in B : \A r \in B : r \subseteq s => r = s
<1>1. IsWellFoundedOn(StrictSubsetOrdering(S), FiniteSubsetsOf(S))
  BY FS_StrictSubsetOrderingWellFounded
<1>2. FiniteSubsetsOf(S) = SUBSET S
  BY FS_FiniteSubsetsOfFinite
<1>3. PICK s \in B : \A r \in B : ~ <<r, s>> \in StrictSubsetOrdering(S)
  BY <1>1, <1>2, WFMin
<1> QED
  BY <1>3 DEF StrictSubsetOrdering

\* The element that a fold takes next, and what it leaves.
First(s) == CHOOSE x \in s : TRUE
Rest(s) == s \ {First(s)}

LEMMA RestOf ==
  ASSUME NEW s, s # {} PROVE First(s) \in s /\ Rest(s) \subseteq s /\ Rest(s) # s
BY DEF First, Rest

\* What holds of the empty set, and of a set when it holds of the rest.
LEMMA SubsetInduction ==
  ASSUME NEW S, IsFiniteSet(S), NEW A, {} \in A,
         \A s \in SUBSET S : s # {} /\ Rest(s) \in A => s \in A
  PROVE  \A s \in SUBSET S : s \in A
<1> DEFINE B == {s \in SUBSET S : s \notin A}
<1> SUFFICES ASSUME B # {} PROVE FALSE
  OBVIOUS
<1>1. PICK s \in B : \A r \in B : r \subseteq s => r = s
  <2>1. B \in SUBSET (SUBSET S)
    OBVIOUS
  <2> HIDE DEF B
  <2> QED BY <2>1, LeastSet
<1>2. s # {}
  BY <1>1
<1>3. Rest(s) \subseteq s /\ Rest(s) # s
  BY <1>2, RestOf
<1>4. Rest(s) \in A
  BY <1>1, <1>3
<1> QED
  BY <1>1, <1>2, <1>4

\* f is the fold of G from c over the subsets of S.
Folds(f, S, c, G) ==
  \A s \in SUBSET S : f[s] = IF s = {} THEN c ELSE G[<<First(s), f[Rest(s)]>>]

LEMMA FoldIsUnique ==
  ASSUME NEW S, IsFiniteSet(S), NEW c, NEW G, NEW f, NEW U, Folds(f, U, c, G), S \subseteq U,
         NEW g, Folds(g, S, c, G)
  PROVE  f[S] = g[S]
<1> DEFINE A == {s \in SUBSET S : f[s] = g[s]}
<1>1. {} \in A
  BY DEF Folds
<1>2. ASSUME NEW s \in SUBSET S, s # {}, Rest(s) \in A PROVE s \in A
  BY <1>2 DEF Folds
<1>3. \A s \in SUBSET S : s \in A
  <2> HIDE DEF A
  <2> QED BY <1>1, <1>2, SubsetInduction
<1> QED
  BY <1>3

LEMMA FoldExists ==
  ASSUME NEW S, IsFiniteSet(S), NEW T, NEW Q \in [SUBSET S -> SUBSET T], NEW c \in Q[{}], NEW G,
         \A s \in SUBSET S : \A x \in s : \A a \in Q[s \ {x}] : G[<<x, a>>] \in Q[s]
  PROVE  \E f \in [SUBSET S -> T] : Folds(f, S, c, G) /\ \A s \in SUBSET S : f[s] \in Q[s]
<1> DEFINE Good(f, U) == Folds(f, U, c, G) /\ \A s \in SUBSET U : f[s] \in Q[s]
           A == {U \in SUBSET S : \E f \in [SUBSET U -> T] : Good(f, U)}
           B == {U \in SUBSET S : U \notin A}
<1> SUFFICES ASSUME B # {} PROVE FALSE
  OBVIOUS
<1>1. PICK U \in B : \A r \in B : r \subseteq U => r = U
  <2>1. B \in SUBSET (SUBSET S)
    OBVIOUS
  <2> HIDE DEF B
  <2> QED BY <2>1, LeastSet
<1> DEFINE F(v) == CHOOSE f \in [SUBSET v -> T] : Good(f, v)
           g == [s \in SUBSET U |-> IF s = {} THEN c ELSE G[<<First(s), F(Rest(s))[Rest(s)]>>]]
<1>2. ASSUME NEW s \in SUBSET U, s # {}
      PROVE  /\ First(s) \in s /\ Rest(s) \in SUBSET U /\ Rest(s) \subseteq s /\ Rest(s) = s \ {First(s)}
             /\ F(Rest(s)) \in [SUBSET Rest(s) -> T] /\ Good(F(Rest(s)), Rest(s))
  <2>1. First(s) \in s /\ Rest(s) \subseteq s /\ Rest(s) # s /\ Rest(s) = s \ {First(s)}
    BY <1>2, RestOf DEF Rest
  <2>2. Rest(s) \in A
    BY <1>1, <2>1
  <2> QED
    BY <2>1, <2>2
<1> HIDE DEF F
<1>3. ASSUME NEW s \in SUBSET U PROVE g[s] \in Q[s] /\ g[s] \in T
  <2>1. CASE s = {}
    BY <2>1
  <2>2. CASE s # {}
    <3>1. F(Rest(s))[Rest(s)] \in Q[s \ {First(s)}]
      BY <1>2, <2>2
    <3>2. g[s] = G[<<First(s), F(Rest(s))[Rest(s)]>>]
      BY <2>2
    <3>3. g[s] \in Q[s]
      BY <1>2, <2>2, <3>1, <3>2
    <3> QED
      BY <3>3
  <2> QED
    BY <2>1, <2>2
<1>4. g \in [SUBSET U -> T]
  BY <1>3
<1>5. ASSUME NEW s \in SUBSET U, s # {} PROVE g[s] = G[<<First(s), g[Rest(s)]>>]
  <2>1. g[Rest(s)] = F(Rest(s))[Rest(s)]
    <3>1. CASE Rest(s) = {}
      BY <1>2, <1>5, <3>1 DEF Folds
    <3>2. CASE Rest(s) # {}
      <4> DEFINE v == Rest(s)
      <4>1. g[v] = G[<<First(v), F(Rest(v))[Rest(v)]>>]
        BY <1>2, <1>5, <3>2
      <4>2. F(v)[v] = G[<<First(v), F(v)[Rest(v)]>>]
        BY <1>2, <1>5, <3>2 DEF Folds
      <4>3. F(v)[Rest(v)] = F(Rest(v))[Rest(v)]
        <5>1. Rest(v) \subseteq v /\ IsFiniteSet(Rest(v))
          BY <1>2, <1>5, <3>2, FS_Subset
        <5>2. Folds(F(v), v, c, G) /\ Folds(F(Rest(v)), Rest(v), c, G)
          BY <1>2, <1>5, <3>2
        <5> HIDE DEF v
        <5> QED
          BY <5>1, <5>2, FoldIsUnique
      <4> QED
        BY <4>1, <4>2, <4>3
    <3> QED
      BY <3>1, <3>2
  <2> QED
    BY <1>5, <2>1
<1>6. Folds(g, U, c, G)
  BY <1>5 DEF Folds
<1> QED
  BY <1>1, <1>3, <1>4, <1>6

(***************************************************************************)
(* The folds of the caches, one lemma for each operator folded: what holds  *)
(* before the first element and is passed on from the rest of a set to the  *)
(* set holds at the end.                                                    *)
(***************************************************************************)

IsPlanFold(plan, S, c) == S = DOMAIN plan.segmentChanges /\ c = <<>>
PassingSets(d, S) == S = {s \in d.sets : Passes(s)}
AllSets(d, S) == S = d.sets

LEMMA FoldsAdd ==
  ASSUME NEW S, IsFiniteSet(S), NEW T, NEW Q \in [SUBSET S -> SUBSET T], NEW c \in Q[{}],
         \A s \in SUBSET S : \A x \in s : \A a \in Q[s \ {x}] : AddDefinition(a, x) \in Q[s]
  PROVE  FoldSet(LAMBDA d, acc : AddDefinition(acc, d), c, S) \in Q[S]
<1> DEFINE G == [p \in S \X T |-> AddDefinition(p[2], p[1])]
           I == CHOOSE iter : iter = [s \in SUBSET S |-> IF s = {} THEN c ELSE AddDefinition(iter[s \ {First(s)}], First(s))]
<1>1. \A s \in SUBSET S : \A x \in s : \A a \in Q[s \ {x}] : G[<<x, a>>] = AddDefinition(a, x)
  BY RestOf
<1>2. PICK f \in [SUBSET S -> T] : Folds(f, S, c, G) /\ \A s \in SUBSET S : f[s] \in Q[s]
  <2>1. \A s \in SUBSET S : \A x \in s : \A a \in Q[s \ {x}] : G[<<x, a>>] \in Q[s]
    BY <1>1
  <2> HIDE DEF G, I
  <2> QED BY <2>1, FoldExists
<1>3. f = [s \in SUBSET S |-> IF s = {} THEN c ELSE AddDefinition(f[s \ {First(s)}], First(s))]
  <2>1. ASSUME NEW s \in SUBSET S, s # {} PROVE f[s] = AddDefinition(f[s \ {First(s)}], First(s))
    <3>1. First(s) \in s /\ Rest(s) \in SUBSET S /\ f[Rest(s)] \in Q[Rest(s)] /\ Rest(s) = s \ {First(s)}
      BY <1>2, <2>1, RestOf DEF Rest
    <3>2. f[s] = G[<<First(s), f[Rest(s)]>>]
      BY <1>2, <2>1 DEF Folds
    <3> HIDE DEF G
    <3>3. G[<<First(s), f[Rest(s)]>>] = AddDefinition(f[Rest(s)], First(s))
      BY <1>1, <3>1
    <3> QED BY <3>1, <3>2, <3>3
  <2>2. f[{}] = c
    BY <1>2 DEF Folds
  <2> QED
    BY <1>2, <2>1, <2>2
<1>4. I = [s \in SUBSET S |-> IF s = {} THEN c ELSE AddDefinition(I[s \ {First(s)}], First(s))]
  BY <1>3
<1> HIDE DEF I
<1> DEFINE A == {s \in SUBSET S : I[s] \in Q[s]}
<1>5. {} \in A
  BY <1>4
<1>6. ASSUME NEW s \in SUBSET S, s # {}, Rest(s) \in A PROVE s \in A
  <2>1. First(s) \in s /\ Rest(s) \in SUBSET S /\ Rest(s) = s \ {First(s)}
    BY <1>6, RestOf DEF Rest
  <2>2. I[s] = AddDefinition(I[s \ {First(s)}], First(s))
    BY <1>4, <1>6
  <2> QED
    BY <1>6, <2>1, <2>2
<1>7. S \in A
  <2> HIDE DEF A
  <2> QED BY <1>5, <1>6, SubsetInduction
<1>8. FoldSet(LAMBDA d, acc : AddDefinition(acc, d), c, S) = I[S]
  BY DEF FoldSet, MapThenFoldSet, First, I
<1> QED
  BY <1>7, <1>8

LEMMA FoldsRemove ==
  ASSUME NEW S, IsFiniteSet(S), NEW T, NEW Q \in [SUBSET S -> SUBSET T], NEW c \in Q[{}],
         \A s \in SUBSET S : \A x \in s : \A a \in Q[s \ {x}] : RemoveDefinition(a, x) \in Q[s]
  PROVE  FoldSet(LAMBDA n, acc : RemoveDefinition(acc, n), c, S) \in Q[S]
<1> DEFINE G == [p \in S \X T |-> RemoveDefinition(p[2], p[1])]
           I == CHOOSE iter : iter = [s \in SUBSET S |-> IF s = {} THEN c ELSE RemoveDefinition(iter[s \ {First(s)}], First(s))]
<1>1. \A s \in SUBSET S : \A x \in s : \A a \in Q[s \ {x}] : G[<<x, a>>] = RemoveDefinition(a, x)
  BY RestOf
<1>2. PICK f \in [SUBSET S -> T] : Folds(f, S, c, G) /\ \A s \in SUBSET S : f[s] \in Q[s]
  <2>1. \A s \in SUBSET S : \A x \in s : \A a \in Q[s \ {x}] : G[<<x, a>>] \in Q[s]
    BY <1>1
  <2> HIDE DEF G, I
  <2> QED BY <2>1, FoldExists
<1>3. f = [s \in SUBSET S |-> IF s = {} THEN c ELSE RemoveDefinition(f[s \ {First(s)}], First(s))]
  <2>1. ASSUME NEW s \in SUBSET S, s # {} PROVE f[s] = RemoveDefinition(f[s \ {First(s)}], First(s))
    <3>1. First(s) \in s /\ Rest(s) \in SUBSET S /\ f[Rest(s)] \in Q[Rest(s)] /\ Rest(s) = s \ {First(s)}
      BY <1>2, <2>1, RestOf DEF Rest
    <3>2. f[s] = G[<<First(s), f[Rest(s)]>>]
      BY <1>2, <2>1 DEF Folds
    <3> HIDE DEF G
    <3>3. G[<<First(s), f[Rest(s)]>>] = RemoveDefinition(f[Rest(s)], First(s))
      BY <1>1, <3>1
    <3> QED BY <3>1, <3>2, <3>3
  <2>2. f[{}] = c
    BY <1>2 DEF Folds
  <2> QED
    BY <1>2, <2>1, <2>2
<1>4. I = [s \in SUBSET S |-> IF s = {} THEN c ELSE RemoveDefinition(I[s \ {First(s)}], First(s))]
  BY <1>3
<1> HIDE DEF I
<1> DEFINE A == {s \in SUBSET S : I[s] \in Q[s]}
<1>5. {} \in A
  BY <1>4
<1>6. ASSUME NEW s \in SUBSET S, s # {}, Rest(s) \in A PROVE s \in A
  <2>1. First(s) \in s /\ Rest(s) \in SUBSET S /\ Rest(s) = s \ {First(s)}
    BY <1>6, RestOf DEF Rest
  <2>2. I[s] = RemoveDefinition(I[s \ {First(s)}], First(s))
    BY <1>4, <1>6
  <2> QED
    BY <1>6, <2>1, <2>2
<1>7. S \in A
  <2> HIDE DEF A
  <2> QED BY <1>5, <1>6, SubsetInduction
<1>8. FoldSet(LAMBDA n, acc : RemoveDefinition(acc, n), c, S) = I[S]
  BY DEF FoldSet, MapThenFoldSet, First, I
<1> QED
  BY <1>7, <1>8

LEMMA FoldsPlanSegments ==
  ASSUME NEW S, IsFiniteSet(S), NEW T, NEW Q \in [SUBSET S -> SUBSET T], NEW plan, NEW c \in Q[{}], IsPlanFold(plan, S, c),
         \A s \in SUBSET S : \A x \in s : \A a \in Q[s \ {x}] : UpdateSegment(a, x, plan.segmentChanges[x].keys, {}, plan.segmentChanges[x].till) \in Q[s]
  PROVE  PlanSegments(plan) \in Q[S]
<1> DEFINE G == [p \in S \X T |-> UpdateSegment(p[2], p[1], plan.segmentChanges[p[1]].keys, {}, plan.segmentChanges[p[1]].till)]
           I == CHOOSE iter : iter = [s \in SUBSET S |-> IF s = {} THEN c ELSE UpdateSegment(iter[s \ {First(s)}], First(s), plan.segmentChanges[First(s)].keys, {}, plan.segmentChanges[First(s)].till)]
<1>1. \A s \in SUBSET S : \A x \in s : \A a \in Q[s \ {x}] : G[<<x, a>>] = UpdateSegment(a, x, plan.segmentChanges[x].keys, {}, plan.segmentChanges[x].till)
  BY RestOf
<1>2. PICK f \in [SUBSET S -> T] : Folds(f, S, c, G) /\ \A s \in SUBSET S : f[s] \in Q[s]
  <2>1. \A s \in SUBSET S : \A x \in s : \A a \in Q[s \ {x}] : G[<<x, a>>] \in Q[s]
    BY <1>1
  <2> HIDE DEF G, I
  <2> QED BY <2>1, FoldExists
<1>3. f = [s \in SUBSET S |-> IF s = {} THEN c ELSE UpdateSegment(f[s \ {First(s)}], First(s), plan.segmentChanges[First(s)].keys, {}, plan.segmentChanges[First(s)].till)]
  <2>1. ASSUME NEW s \in SUBSET S, s # {} PROVE f[s] = UpdateSegment(f[s \ {First(s)}], First(s), plan.segmentChanges[First(s)].keys, {}, plan.segmentChanges[First(s)].till)
    <3>1. First(s) \in s /\ Rest(s) \in SUBSET S /\ f[Rest(s)] \in Q[Rest(s)] /\ Rest(s) = s \ {First(s)}
      BY <1>2, <2>1, RestOf DEF Rest
    <3>2. f[s] = G[<<First(s), f[Rest(s)]>>]
      BY <1>2, <2>1 DEF Folds
    <3> HIDE DEF G
    <3>3. G[<<First(s), f[Rest(s)]>>] = UpdateSegment(f[Rest(s)], First(s), plan.segmentChanges[First(s)].keys, {}, plan.segmentChanges[First(s)].till)
      BY <1>1, <3>1
    <3> QED BY <3>1, <3>2, <3>3
  <2>2. f[{}] = c
    BY <1>2 DEF Folds
  <2> QED
    BY <1>2, <2>1, <2>2
<1>4. I = [s \in SUBSET S |-> IF s = {} THEN c ELSE UpdateSegment(I[s \ {First(s)}], First(s), plan.segmentChanges[First(s)].keys, {}, plan.segmentChanges[First(s)].till)]
  BY <1>3
<1> HIDE DEF I
<1> DEFINE A == {s \in SUBSET S : I[s] \in Q[s]}
<1>5. {} \in A
  BY <1>4
<1>6. ASSUME NEW s \in SUBSET S, s # {}, Rest(s) \in A PROVE s \in A
  <2>1. First(s) \in s /\ Rest(s) \in SUBSET S /\ Rest(s) = s \ {First(s)}
    BY <1>6, RestOf DEF Rest
  <2>2. I[s] = UpdateSegment(I[s \ {First(s)}], First(s), plan.segmentChanges[First(s)].keys, {}, plan.segmentChanges[First(s)].till)
    BY <1>4, <1>6
  <2> QED
    BY <1>6, <2>1, <2>2
<1>7. S \in A
  <2> HIDE DEF A
  <2> QED BY <1>5, <1>6, SubsetInduction
<1>8. FoldSet(LAMBDA n, acc : UpdateSegment(acc, n, plan.segmentChanges[n].keys, {}, plan.segmentChanges[n].till), c, S) = I[S]
  BY DEF FoldSet, MapThenFoldSet, First, I
<1> QED
  BY <1>7, <1>8 DEF PlanSegments, IsPlanFold

LEMMA FoldsAddToSets ==
  ASSUME NEW S, IsFiniteSet(S), NEW T, NEW Q \in [SUBSET S -> SUBSET T], NEW d, NEW c \in Q[{}], PassingSets(d, S),
         \A s \in SUBSET S : \A x \in s : \A a \in Q[s \ {x}] : LocalPutName(a, x, d.name) \in Q[s]
  PROVE  LocalAddToSets(c, d) \in Q[S]
<1> DEFINE G == [p \in S \X T |-> LocalPutName(p[2], p[1], d.name)]
           I == CHOOSE iter : iter = [s \in SUBSET S |-> IF s = {} THEN c ELSE LocalPutName(iter[s \ {First(s)}], First(s), d.name)]
<1>1. \A s \in SUBSET S : \A x \in s : \A a \in Q[s \ {x}] : G[<<x, a>>] = LocalPutName(a, x, d.name)
  BY RestOf
<1>2. PICK f \in [SUBSET S -> T] : Folds(f, S, c, G) /\ \A s \in SUBSET S : f[s] \in Q[s]
  <2>1. \A s \in SUBSET S : \A x \in s : \A a \in Q[s \ {x}] : G[<<x, a>>] \in Q[s]
    BY <1>1
  <2> HIDE DEF G, I
  <2> QED BY <2>1, FoldExists
<1>3. f = [s \in SUBSET S |-> IF s = {} THEN c ELSE LocalPutName(f[s \ {First(s)}], First(s), d.name)]
  <2>1. ASSUME NEW s \in SUBSET S, s # {} PROVE f[s] = LocalPutName(f[s \ {First(s)}], First(s), d.name)
    <3>1. First(s) \in s /\ Rest(s) \in SUBSET S /\ f[Rest(s)] \in Q[Rest(s)] /\ Rest(s) = s \ {First(s)}
      BY <1>2, <2>1, RestOf DEF Rest
    <3>2. f[s] = G[<<First(s), f[Rest(s)]>>]
      BY <1>2, <2>1 DEF Folds
    <3> HIDE DEF G
    <3>3. G[<<First(s), f[Rest(s)]>>] = LocalPutName(f[Rest(s)], First(s), d.name)
      BY <1>1, <3>1
    <3> QED BY <3>1, <3>2, <3>3
  <2>2. f[{}] = c
    BY <1>2 DEF Folds
  <2> QED
    BY <1>2, <2>1, <2>2
<1>4. I = [s \in SUBSET S |-> IF s = {} THEN c ELSE LocalPutName(I[s \ {First(s)}], First(s), d.name)]
  BY <1>3
<1> HIDE DEF I
<1> DEFINE A == {s \in SUBSET S : I[s] \in Q[s]}
<1>5. {} \in A
  BY <1>4
<1>6. ASSUME NEW s \in SUBSET S, s # {}, Rest(s) \in A PROVE s \in A
  <2>1. First(s) \in s /\ Rest(s) \in SUBSET S /\ Rest(s) = s \ {First(s)}
    BY <1>6, RestOf DEF Rest
  <2>2. I[s] = LocalPutName(I[s \ {First(s)}], First(s), d.name)
    BY <1>4, <1>6
  <2> QED
    BY <1>6, <2>1, <2>2
<1>7. S \in A
  <2> HIDE DEF A
  <2> QED BY <1>5, <1>6, SubsetInduction
<1>8. FoldSet(LAMBDA s, acc : LocalPutName(acc, s, d.name), c, S) = I[S]
  BY DEF FoldSet, MapThenFoldSet, First, I
<1> QED
  BY <1>7, <1>8 DEF LocalAddToSets, PassingSets

LEMMA FoldsRemoveFromSets ==
  ASSUME NEW S, IsFiniteSet(S), NEW T, NEW Q \in [SUBSET S -> SUBSET T], NEW d, NEW c \in Q[{}], AllSets(d, S),
         \A s \in SUBSET S : \A x \in s : \A a \in Q[s \ {x}] : LocalDropName(a, x, d.name) \in Q[s]
  PROVE  LocalRemoveFromSets(c, d) \in Q[S]
<1> DEFINE G == [p \in S \X T |-> LocalDropName(p[2], p[1], d.name)]
           I == CHOOSE iter : iter = [s \in SUBSET S |-> IF s = {} THEN c ELSE LocalDropName(iter[s \ {First(s)}], First(s), d.name)]
<1>1. \A s \in SUBSET S : \A x \in s : \A a \in Q[s \ {x}] : G[<<x, a>>] = LocalDropName(a, x, d.name)
  BY RestOf
<1>2. PICK f \in [SUBSET S -> T] : Folds(f, S, c, G) /\ \A s \in SUBSET S : f[s] \in Q[s]
  <2>1. \A s \in SUBSET S : \A x \in s : \A a \in Q[s \ {x}] : G[<<x, a>>] \in Q[s]
    BY <1>1
  <2> HIDE DEF G, I
  <2> QED BY <2>1, FoldExists
<1>3. f = [s \in SUBSET S |-> IF s = {} THEN c ELSE LocalDropName(f[s \ {First(s)}], First(s), d.name)]
  <2>1. ASSUME NEW s \in SUBSET S, s # {} PROVE f[s] = LocalDropName(f[s \ {First(s)}], First(s), d.name)
    <3>1. First(s) \in s /\ Rest(s) \in SUBSET S /\ f[Rest(s)] \in Q[Rest(s)] /\ Rest(s) = s \ {First(s)}
      BY <1>2, <2>1, RestOf DEF Rest
    <3>2. f[s] = G[<<First(s), f[Rest(s)]>>]
      BY <1>2, <2>1 DEF Folds
    <3> HIDE DEF G
    <3>3. G[<<First(s), f[Rest(s)]>>] = LocalDropName(f[Rest(s)], First(s), d.name)
      BY <1>1, <3>1
    <3> QED BY <3>1, <3>2, <3>3
  <2>2. f[{}] = c
    BY <1>2 DEF Folds
  <2> QED
    BY <1>2, <2>1, <2>2
<1>4. I = [s \in SUBSET S |-> IF s = {} THEN c ELSE LocalDropName(I[s \ {First(s)}], First(s), d.name)]
  BY <1>3
<1> HIDE DEF I
<1> DEFINE A == {s \in SUBSET S : I[s] \in Q[s]}
<1>5. {} \in A
  BY <1>4
<1>6. ASSUME NEW s \in SUBSET S, s # {}, Rest(s) \in A PROVE s \in A
  <2>1. First(s) \in s /\ Rest(s) \in SUBSET S /\ Rest(s) = s \ {First(s)}
    BY <1>6, RestOf DEF Rest
  <2>2. I[s] = LocalDropName(I[s \ {First(s)}], First(s), d.name)
    BY <1>4, <1>6
  <2> QED
    BY <1>6, <2>1, <2>2
<1>7. S \in A
  <2> HIDE DEF A
  <2> QED BY <1>5, <1>6, SubsetInduction
<1>8. FoldSet(LAMBDA s, acc : LocalDropName(acc, s, d.name), c, S) = I[S]
  BY DEF FoldSet, MapThenFoldSet, First, I
<1> QED
  BY <1>7, <1>8 DEF LocalRemoveFromSets, AllSets

LEMMA FoldsAddRB ==
  ASSUME NEW S, IsFiniteSet(S), NEW T, NEW Q \in [SUBSET S -> SUBSET T], NEW c \in Q[{}],
         \A s \in SUBSET S : \A x \in s : \A a \in Q[s \ {x}] : AddRBSegment(a, x) \in Q[s]
  PROVE  FoldSet(LAMBDA d, acc : AddRBSegment(acc, d), c, S) \in Q[S]
<1> DEFINE G == [p \in S \X T |-> AddRBSegment(p[2], p[1])]
           I == CHOOSE iter : iter = [s \in SUBSET S |-> IF s = {} THEN c ELSE AddRBSegment(iter[s \ {First(s)}], First(s))]
<1>1. \A s \in SUBSET S : \A x \in s : \A a \in Q[s \ {x}] : G[<<x, a>>] = AddRBSegment(a, x)
  BY RestOf
<1>2. PICK f \in [SUBSET S -> T] : Folds(f, S, c, G) /\ \A s \in SUBSET S : f[s] \in Q[s]
  <2>1. \A s \in SUBSET S : \A x \in s : \A a \in Q[s \ {x}] : G[<<x, a>>] \in Q[s]
    BY <1>1
  <2> HIDE DEF G, I
  <2> QED BY <2>1, FoldExists
<1>3. f = [s \in SUBSET S |-> IF s = {} THEN c ELSE AddRBSegment(f[s \ {First(s)}], First(s))]
  <2>1. ASSUME NEW s \in SUBSET S, s # {} PROVE f[s] = AddRBSegment(f[s \ {First(s)}], First(s))
    <3>1. First(s) \in s /\ Rest(s) \in SUBSET S /\ f[Rest(s)] \in Q[Rest(s)] /\ Rest(s) = s \ {First(s)}
      BY <1>2, <2>1, RestOf DEF Rest
    <3>2. f[s] = G[<<First(s), f[Rest(s)]>>]
      BY <1>2, <2>1 DEF Folds
    <3> HIDE DEF G
    <3>3. G[<<First(s), f[Rest(s)]>>] = AddRBSegment(f[Rest(s)], First(s))
      BY <1>1, <3>1
    <3> QED BY <3>1, <3>2, <3>3
  <2>2. f[{}] = c
    BY <1>2 DEF Folds
  <2> QED
    BY <1>2, <2>1, <2>2
<1>4. I = [s \in SUBSET S |-> IF s = {} THEN c ELSE AddRBSegment(I[s \ {First(s)}], First(s))]
  BY <1>3
<1> HIDE DEF I
<1> DEFINE A == {s \in SUBSET S : I[s] \in Q[s]}
<1>5. {} \in A
  BY <1>4
<1>6. ASSUME NEW s \in SUBSET S, s # {}, Rest(s) \in A PROVE s \in A
  <2>1. First(s) \in s /\ Rest(s) \in SUBSET S /\ Rest(s) = s \ {First(s)}
    BY <1>6, RestOf DEF Rest
  <2>2. I[s] = AddRBSegment(I[s \ {First(s)}], First(s))
    BY <1>4, <1>6
  <2> QED
    BY <1>6, <2>1, <2>2
<1>7. S \in A
  <2> HIDE DEF A
  <2> QED BY <1>5, <1>6, SubsetInduction
<1>8. FoldSet(LAMBDA d, acc : AddRBSegment(acc, d), c, S) = I[S]
  BY DEF FoldSet, MapThenFoldSet, First, I
<1> QED
  BY <1>7, <1>8

LEMMA FoldsRemoveRB ==
  ASSUME NEW S, IsFiniteSet(S), NEW T, NEW Q \in [SUBSET S -> SUBSET T], NEW c \in Q[{}],
         \A s \in SUBSET S : \A x \in s : \A a \in Q[s \ {x}] : RemoveRBSegment(a, x) \in Q[s]
  PROVE  FoldSet(LAMBDA n, acc : RemoveRBSegment(acc, n), c, S) \in Q[S]
<1> DEFINE G == [p \in S \X T |-> RemoveRBSegment(p[2], p[1])]
           I == CHOOSE iter : iter = [s \in SUBSET S |-> IF s = {} THEN c ELSE RemoveRBSegment(iter[s \ {First(s)}], First(s))]
<1>1. \A s \in SUBSET S : \A x \in s : \A a \in Q[s \ {x}] : G[<<x, a>>] = RemoveRBSegment(a, x)
  BY RestOf
<1>2. PICK f \in [SUBSET S -> T] : Folds(f, S, c, G) /\ \A s \in SUBSET S : f[s] \in Q[s]
  <2>1. \A s \in SUBSET S : \A x \in s : \A a \in Q[s \ {x}] : G[<<x, a>>] \in Q[s]
    BY <1>1
  <2> HIDE DEF G, I
  <2> QED BY <2>1, FoldExists
<1>3. f = [s \in SUBSET S |-> IF s = {} THEN c ELSE RemoveRBSegment(f[s \ {First(s)}], First(s))]
  <2>1. ASSUME NEW s \in SUBSET S, s # {} PROVE f[s] = RemoveRBSegment(f[s \ {First(s)}], First(s))
    <3>1. First(s) \in s /\ Rest(s) \in SUBSET S /\ f[Rest(s)] \in Q[Rest(s)] /\ Rest(s) = s \ {First(s)}
      BY <1>2, <2>1, RestOf DEF Rest
    <3>2. f[s] = G[<<First(s), f[Rest(s)]>>]
      BY <1>2, <2>1 DEF Folds
    <3> HIDE DEF G
    <3>3. G[<<First(s), f[Rest(s)]>>] = RemoveRBSegment(f[Rest(s)], First(s))
      BY <1>1, <3>1
    <3> QED BY <3>1, <3>2, <3>3
  <2>2. f[{}] = c
    BY <1>2 DEF Folds
  <2> QED
    BY <1>2, <2>1, <2>2
<1>4. I = [s \in SUBSET S |-> IF s = {} THEN c ELSE RemoveRBSegment(I[s \ {First(s)}], First(s))]
  BY <1>3
<1> HIDE DEF I
<1> DEFINE A == {s \in SUBSET S : I[s] \in Q[s]}
<1>5. {} \in A
  BY <1>4
<1>6. ASSUME NEW s \in SUBSET S, s # {}, Rest(s) \in A PROVE s \in A
  <2>1. First(s) \in s /\ Rest(s) \in SUBSET S /\ Rest(s) = s \ {First(s)}
    BY <1>6, RestOf DEF Rest
  <2>2. I[s] = RemoveRBSegment(I[s \ {First(s)}], First(s))
    BY <1>4, <1>6
  <2> QED
    BY <1>6, <2>1, <2>2
<1>7. S \in A
  <2> HIDE DEF A
  <2> QED BY <1>5, <1>6, SubsetInduction
<1>8. FoldSet(LAMBDA n, acc : RemoveRBSegment(acc, n), c, S) = I[S]
  BY DEF FoldSet, MapThenFoldSet, First, I
<1> QED
  BY <1>7, <1>8

LEMMA FoldsLocalAdd ==
  ASSUME NEW S, IsFiniteSet(S), NEW T, NEW Q \in [SUBSET S -> SUBSET T], NEW c \in Q[{}],
         \A s \in SUBSET S : \A x \in s : \A a \in Q[s \ {x}] : LocalAdd(a, x) \in Q[s]
  PROVE  FoldSet(LAMBDA d, acc : LocalAdd(acc, d), c, S) \in Q[S]
<1> DEFINE G == [p \in S \X T |-> LocalAdd(p[2], p[1])]
           I == CHOOSE iter : iter = [s \in SUBSET S |-> IF s = {} THEN c ELSE LocalAdd(iter[s \ {First(s)}], First(s))]
<1>1. \A s \in SUBSET S : \A x \in s : \A a \in Q[s \ {x}] : G[<<x, a>>] = LocalAdd(a, x)
  BY RestOf
<1>2. PICK f \in [SUBSET S -> T] : Folds(f, S, c, G) /\ \A s \in SUBSET S : f[s] \in Q[s]
  <2>1. \A s \in SUBSET S : \A x \in s : \A a \in Q[s \ {x}] : G[<<x, a>>] \in Q[s]
    BY <1>1
  <2> HIDE DEF G, I
  <2> QED BY <2>1, FoldExists
<1>3. f = [s \in SUBSET S |-> IF s = {} THEN c ELSE LocalAdd(f[s \ {First(s)}], First(s))]
  <2>1. ASSUME NEW s \in SUBSET S, s # {} PROVE f[s] = LocalAdd(f[s \ {First(s)}], First(s))
    <3>1. First(s) \in s /\ Rest(s) \in SUBSET S /\ f[Rest(s)] \in Q[Rest(s)] /\ Rest(s) = s \ {First(s)}
      BY <1>2, <2>1, RestOf DEF Rest
    <3>2. f[s] = G[<<First(s), f[Rest(s)]>>]
      BY <1>2, <2>1 DEF Folds
    <3> HIDE DEF G
    <3>3. G[<<First(s), f[Rest(s)]>>] = LocalAdd(f[Rest(s)], First(s))
      BY <1>1, <3>1
    <3> QED BY <3>1, <3>2, <3>3
  <2>2. f[{}] = c
    BY <1>2 DEF Folds
  <2> QED
    BY <1>2, <2>1, <2>2
<1>4. I = [s \in SUBSET S |-> IF s = {} THEN c ELSE LocalAdd(I[s \ {First(s)}], First(s))]
  BY <1>3
<1> HIDE DEF I
<1> DEFINE A == {s \in SUBSET S : I[s] \in Q[s]}
<1>5. {} \in A
  BY <1>4
<1>6. ASSUME NEW s \in SUBSET S, s # {}, Rest(s) \in A PROVE s \in A
  <2>1. First(s) \in s /\ Rest(s) \in SUBSET S /\ Rest(s) = s \ {First(s)}
    BY <1>6, RestOf DEF Rest
  <2>2. I[s] = LocalAdd(I[s \ {First(s)}], First(s))
    BY <1>4, <1>6
  <2> QED
    BY <1>6, <2>1, <2>2
<1>7. S \in A
  <2> HIDE DEF A
  <2> QED BY <1>5, <1>6, SubsetInduction
<1>8. FoldSet(LAMBDA d, acc : LocalAdd(acc, d), c, S) = I[S]
  BY DEF FoldSet, MapThenFoldSet, First, I
<1> QED
  BY <1>7, <1>8

LEMMA FoldsLocalRemove ==
  ASSUME NEW S, IsFiniteSet(S), NEW T, NEW Q \in [SUBSET S -> SUBSET T], NEW c \in Q[{}],
         \A s \in SUBSET S : \A x \in s : \A a \in Q[s \ {x}] : LocalRemove(a, x) \in Q[s]
  PROVE  FoldSet(LAMBDA n, acc : LocalRemove(acc, n), c, S) \in Q[S]
<1> DEFINE G == [p \in S \X T |-> LocalRemove(p[2], p[1])]
           I == CHOOSE iter : iter = [s \in SUBSET S |-> IF s = {} THEN c ELSE LocalRemove(iter[s \ {First(s)}], First(s))]
<1>1. \A s \in SUBSET S : \A x \in s : \A a \in Q[s \ {x}] : G[<<x, a>>] = LocalRemove(a, x)
  BY RestOf
<1>2. PICK f \in [SUBSET S -> T] : Folds(f, S, c, G) /\ \A s \in SUBSET S : f[s] \in Q[s]
  <2>1. \A s \in SUBSET S : \A x \in s : \A a \in Q[s \ {x}] : G[<<x, a>>] \in Q[s]
    BY <1>1
  <2> HIDE DEF G, I
  <2> QED BY <2>1, FoldExists
<1>3. f = [s \in SUBSET S |-> IF s = {} THEN c ELSE LocalRemove(f[s \ {First(s)}], First(s))]
  <2>1. ASSUME NEW s \in SUBSET S, s # {} PROVE f[s] = LocalRemove(f[s \ {First(s)}], First(s))
    <3>1. First(s) \in s /\ Rest(s) \in SUBSET S /\ f[Rest(s)] \in Q[Rest(s)] /\ Rest(s) = s \ {First(s)}
      BY <1>2, <2>1, RestOf DEF Rest
    <3>2. f[s] = G[<<First(s), f[Rest(s)]>>]
      BY <1>2, <2>1 DEF Folds
    <3> HIDE DEF G
    <3>3. G[<<First(s), f[Rest(s)]>>] = LocalRemove(f[Rest(s)], First(s))
      BY <1>1, <3>1
    <3> QED BY <3>1, <3>2, <3>3
  <2>2. f[{}] = c
    BY <1>2 DEF Folds
  <2> QED
    BY <1>2, <2>1, <2>2
<1>4. I = [s \in SUBSET S |-> IF s = {} THEN c ELSE LocalRemove(I[s \ {First(s)}], First(s))]
  BY <1>3
<1> HIDE DEF I
<1> DEFINE A == {s \in SUBSET S : I[s] \in Q[s]}
<1>5. {} \in A
  BY <1>4
<1>6. ASSUME NEW s \in SUBSET S, s # {}, Rest(s) \in A PROVE s \in A
  <2>1. First(s) \in s /\ Rest(s) \in SUBSET S /\ Rest(s) = s \ {First(s)}
    BY <1>6, RestOf DEF Rest
  <2>2. I[s] = LocalRemove(I[s \ {First(s)}], First(s))
    BY <1>4, <1>6
  <2> QED
    BY <1>6, <2>1, <2>2
<1>7. S \in A
  <2> HIDE DEF A
  <2> QED BY <1>5, <1>6, SubsetInduction
<1>8. FoldSet(LAMBDA n, acc : LocalRemove(acc, n), c, S) = I[S]
  BY DEF FoldSet, MapThenFoldSet, First, I
<1> QED
  BY <1>7, <1>8

LEMMA FoldsLocalAddRB ==
  ASSUME NEW S, IsFiniteSet(S), NEW T, NEW Q \in [SUBSET S -> SUBSET T], NEW c \in Q[{}],
         \A s \in SUBSET S : \A x \in s : \A a \in Q[s \ {x}] : LocalAddRB(a, x) \in Q[s]
  PROVE  FoldSet(LAMBDA d, acc : LocalAddRB(acc, d), c, S) \in Q[S]
<1> DEFINE G == [p \in S \X T |-> LocalAddRB(p[2], p[1])]
           I == CHOOSE iter : iter = [s \in SUBSET S |-> IF s = {} THEN c ELSE LocalAddRB(iter[s \ {First(s)}], First(s))]
<1>1. \A s \in SUBSET S : \A x \in s : \A a \in Q[s \ {x}] : G[<<x, a>>] = LocalAddRB(a, x)
  BY RestOf
<1>2. PICK f \in [SUBSET S -> T] : Folds(f, S, c, G) /\ \A s \in SUBSET S : f[s] \in Q[s]
  <2>1. \A s \in SUBSET S : \A x \in s : \A a \in Q[s \ {x}] : G[<<x, a>>] \in Q[s]
    BY <1>1
  <2> HIDE DEF G, I
  <2> QED BY <2>1, FoldExists
<1>3. f = [s \in SUBSET S |-> IF s = {} THEN c ELSE LocalAddRB(f[s \ {First(s)}], First(s))]
  <2>1. ASSUME NEW s \in SUBSET S, s # {} PROVE f[s] = LocalAddRB(f[s \ {First(s)}], First(s))
    <3>1. First(s) \in s /\ Rest(s) \in SUBSET S /\ f[Rest(s)] \in Q[Rest(s)] /\ Rest(s) = s \ {First(s)}
      BY <1>2, <2>1, RestOf DEF Rest
    <3>2. f[s] = G[<<First(s), f[Rest(s)]>>]
      BY <1>2, <2>1 DEF Folds
    <3> HIDE DEF G
    <3>3. G[<<First(s), f[Rest(s)]>>] = LocalAddRB(f[Rest(s)], First(s))
      BY <1>1, <3>1
    <3> QED BY <3>1, <3>2, <3>3
  <2>2. f[{}] = c
    BY <1>2 DEF Folds
  <2> QED
    BY <1>2, <2>1, <2>2
<1>4. I = [s \in SUBSET S |-> IF s = {} THEN c ELSE LocalAddRB(I[s \ {First(s)}], First(s))]
  BY <1>3
<1> HIDE DEF I
<1> DEFINE A == {s \in SUBSET S : I[s] \in Q[s]}
<1>5. {} \in A
  BY <1>4
<1>6. ASSUME NEW s \in SUBSET S, s # {}, Rest(s) \in A PROVE s \in A
  <2>1. First(s) \in s /\ Rest(s) \in SUBSET S /\ Rest(s) = s \ {First(s)}
    BY <1>6, RestOf DEF Rest
  <2>2. I[s] = LocalAddRB(I[s \ {First(s)}], First(s))
    BY <1>4, <1>6
  <2> QED
    BY <1>6, <2>1, <2>2
<1>7. S \in A
  <2> HIDE DEF A
  <2> QED BY <1>5, <1>6, SubsetInduction
<1>8. FoldSet(LAMBDA d, acc : LocalAddRB(acc, d), c, S) = I[S]
  BY DEF FoldSet, MapThenFoldSet, First, I
<1> QED
  BY <1>7, <1>8

LEMMA FoldsLocalRemoveRB ==
  ASSUME NEW S, IsFiniteSet(S), NEW T, NEW Q \in [SUBSET S -> SUBSET T], NEW c \in Q[{}],
         \A s \in SUBSET S : \A x \in s : \A a \in Q[s \ {x}] : LocalRemoveRB(a, x) \in Q[s]
  PROVE  FoldSet(LAMBDA n, acc : LocalRemoveRB(acc, n), c, S) \in Q[S]
<1> DEFINE G == [p \in S \X T |-> LocalRemoveRB(p[2], p[1])]
           I == CHOOSE iter : iter = [s \in SUBSET S |-> IF s = {} THEN c ELSE LocalRemoveRB(iter[s \ {First(s)}], First(s))]
<1>1. \A s \in SUBSET S : \A x \in s : \A a \in Q[s \ {x}] : G[<<x, a>>] = LocalRemoveRB(a, x)
  BY RestOf
<1>2. PICK f \in [SUBSET S -> T] : Folds(f, S, c, G) /\ \A s \in SUBSET S : f[s] \in Q[s]
  <2>1. \A s \in SUBSET S : \A x \in s : \A a \in Q[s \ {x}] : G[<<x, a>>] \in Q[s]
    BY <1>1
  <2> HIDE DEF G, I
  <2> QED BY <2>1, FoldExists
<1>3. f = [s \in SUBSET S |-> IF s = {} THEN c ELSE LocalRemoveRB(f[s \ {First(s)}], First(s))]
  <2>1. ASSUME NEW s \in SUBSET S, s # {} PROVE f[s] = LocalRemoveRB(f[s \ {First(s)}], First(s))
    <3>1. First(s) \in s /\ Rest(s) \in SUBSET S /\ f[Rest(s)] \in Q[Rest(s)] /\ Rest(s) = s \ {First(s)}
      BY <1>2, <2>1, RestOf DEF Rest
    <3>2. f[s] = G[<<First(s), f[Rest(s)]>>]
      BY <1>2, <2>1 DEF Folds
    <3> HIDE DEF G
    <3>3. G[<<First(s), f[Rest(s)]>>] = LocalRemoveRB(f[Rest(s)], First(s))
      BY <1>1, <3>1
    <3> QED BY <3>1, <3>2, <3>3
  <2>2. f[{}] = c
    BY <1>2 DEF Folds
  <2> QED
    BY <1>2, <2>1, <2>2
<1>4. I = [s \in SUBSET S |-> IF s = {} THEN c ELSE LocalRemoveRB(I[s \ {First(s)}], First(s))]
  BY <1>3
<1> HIDE DEF I
<1> DEFINE A == {s \in SUBSET S : I[s] \in Q[s]}
<1>5. {} \in A
  BY <1>4
<1>6. ASSUME NEW s \in SUBSET S, s # {}, Rest(s) \in A PROVE s \in A
  <2>1. First(s) \in s /\ Rest(s) \in SUBSET S /\ Rest(s) = s \ {First(s)}
    BY <1>6, RestOf DEF Rest
  <2>2. I[s] = LocalRemoveRB(I[s \ {First(s)}], First(s))
    BY <1>4, <1>6
  <2> QED
    BY <1>6, <2>1, <2>2
<1>7. S \in A
  <2> HIDE DEF A
  <2> QED BY <1>5, <1>6, SubsetInduction
<1>8. FoldSet(LAMBDA n, acc : LocalRemoveRB(acc, n), c, S) = I[S]
  BY DEF FoldSet, MapThenFoldSet, First, I
<1> QED
  BY <1>7, <1>8

-----------------------------------------------------------------------------
\* Maps: what With and Without make of them, and how many of their values are in
\* a set, which is what the caches count.

Maps(K, V) == UNION {[D -> V] : D \in SUBSET K}

Hits(m, Z) == {k \in DOMAIN m : m[k] \in Z}
Tally(m, Z) == Cardinality(Hits(m, Z))

LEMMA WithIs ==
  ASSUME NEW m, NEW k, NEW v
  PROVE  /\ DOMAIN With(m, k, v) = DOMAIN m \cup {k}
         /\ With(m, k, v)[k] = v
         /\ \A x \in DOMAIN m : x # k => With(m, k, v)[x] = m[x]
         /\ With(m, k, v) = [x \in DOMAIN With(m, k, v) |-> With(m, k, v)[x]]
BY DEF With

LEMMA WithoutIs ==
  ASSUME NEW m, NEW K
  PROVE  /\ DOMAIN Without(m, K) = DOMAIN m \ K
         /\ \A x \in DOMAIN m \ K : Without(m, K)[x] = m[x]
         /\ Without(m, K) = [x \in DOMAIN Without(m, K) |-> Without(m, K)[x]]
BY DEF Without

LEMMA MapIs ==
  ASSUME NEW K, NEW V, NEW m
  PROVE  m \in Maps(K, V) <=> /\ m = [x \in DOMAIN m |-> m[x]]
                              /\ DOMAIN m \subseteq K
                              /\ \A x \in DOMAIN m : m[x] \in V
<1>1. ASSUME m \in Maps(K, V) PROVE m = [x \in DOMAIN m |-> m[x]] /\ DOMAIN m \subseteq K /\ \A x \in DOMAIN m : m[x] \in V
  BY <1>1 DEF Maps
<1>2. ASSUME m = [x \in DOMAIN m |-> m[x]], DOMAIN m \subseteq K, \A x \in DOMAIN m : m[x] \in V PROVE m \in Maps(K, V)
  <2>1. m \in [DOMAIN m -> V]
    BY <1>2
  <2> QED
    BY <1>2, <2>1 DEF Maps
<1> QED
  BY <1>1, <1>2

LEMMA WithMaps ==
  ASSUME NEW K, NEW V, NEW m \in Maps(K, V), NEW k \in K, NEW v \in V
  PROVE  With(m, k, v) \in Maps(K, V)
<1> DEFINE w == With(m, k, v)
<1>1. DOMAIN m \subseteq K /\ \A x \in DOMAIN m : m[x] \in V
  BY MapIs
<1>2. /\ DOMAIN w = DOMAIN m \cup {k} /\ w[k] = v /\ w = [x \in DOMAIN w |-> w[x]]
      /\ \A x \in DOMAIN m : x # k => w[x] = m[x]
  BY DEF With
<1> HIDE DEF w
<1>3. DOMAIN w \subseteq K /\ \A x \in DOMAIN w : w[x] \in V
  BY <1>1, <1>2
<1> QED
  <2>1. w \in Maps(K, V)
    BY <1>2, <1>3, MapIs
  <2> QED BY <2>1 DEF w

LEMMA WithoutMaps ==
  ASSUME NEW K, NEW V, NEW m \in Maps(K, V), NEW L
  PROVE  Without(m, L) \in Maps(K, V)
<1> DEFINE w == Without(m, L)
<1>1. DOMAIN m \subseteq K /\ \A x \in DOMAIN m : m[x] \in V
  BY MapIs
<1>2. /\ DOMAIN w = DOMAIN m \ L /\ w = [x \in DOMAIN w |-> w[x]]
      /\ \A x \in DOMAIN m \ L : w[x] = m[x]
  BY WithoutIs
<1> HIDE DEF w
<1> QED
  <2>1. w \in Maps(K, V)
    BY <1>1, <1>2, MapIs
  <2> QED BY <2>1 DEF w

LEMMA EmptyMap == ASSUME NEW K, NEW V PROVE <<>> \in Maps(K, V) /\ DOMAIN <<>> = {}
<1>1. DOMAIN <<>> = {} /\ <<>> = [x \in DOMAIN <<>> |-> <<>>[x]]
  OBVIOUS
<1> QED
  BY <1>1, MapIs

LEMMA SameMaps ==
  ASSUME NEW K, NEW V, NEW m \in Maps(K, V), NEW l \in Maps(K, V), DOMAIN m = DOMAIN l,
         \A x \in DOMAIN m : m[x] = l[x]
  PROVE  m = l
BY MapIs

LEMMA CountIs == ASSUME NEW b \in BOOLEAN PROVE Count(b) \in {0, 1} /\ (b <=> Count(b) = 1)
BY DEF Count

LEMMA TallyIs ==
  ASSUME NEW m, IsFiniteSet(DOMAIN m), NEW Z
  PROVE  /\ Tally(m, Z) \in Nat
         /\ Tally(m, Z) > 0 <=> \E k \in DOMAIN m : m[k] \in Z
<1>1. Hits(m, Z) \in SUBSET DOMAIN m
  BY DEF Hits
<1>2. IsFiniteSet(Hits(m, Z))
  BY <1>1, FS_Subset
<1>3. Cardinality(Hits(m, Z)) \in Nat /\ (Cardinality(Hits(m, Z)) = 0 <=> Hits(m, Z) = {})
  BY <1>2, FS_CardinalityType, FS_EmptySet
<1> QED
  BY <1>3 DEF Tally, Hits

LEMMA TallyWith ==
  ASSUME NEW m, IsFiniteSet(DOMAIN m), NEW k, NEW v, NEW Z
  PROVE  /\ IsFiniteSet(DOMAIN With(m, k, v))
         /\ Tally(With(m, k, v), Z) = Tally(m, Z) - Count(k \in DOMAIN m /\ m[k] \in Z) + Count(v \in Z)
         /\ Tally(m, Z) - Count(k \in DOMAIN m /\ m[k] \in Z) \in Nat
<1> DEFINE w == With(m, k, v)
           H == Hits(m, Z)
<1>1. IsFiniteSet(H)
  BY FS_Subset DEF Hits
<1>2. Cardinality(H) \in Nat
  BY <1>1, FS_CardinalityType
<1>3. IsFiniteSet(H \ {k}) /\ Cardinality(H \ {k}) = IF k \in H THEN Cardinality(H) - 1 ELSE Cardinality(H)
  BY <1>1, FS_RemoveElement
<1>4. Cardinality(H \ {k}) \in Nat
  BY <1>3, FS_CardinalityType
<1>5. Hits(w, Z) = IF v \in Z THEN (H \ {k}) \cup {k} ELSE H \ {k}
  <2>1. DOMAIN w = DOMAIN m \cup {k} /\ w[k] = v /\ \A x \in DOMAIN m : x # k => w[x] = m[x]
    BY DEF With
  <2> HIDE DEF w
  <2> QED BY <2>1 DEF Hits
<1>6. Cardinality((H \ {k}) \cup {k}) = Cardinality(H \ {k}) + 1
  BY <1>3, FS_AddElement
<1>7. Cardinality(Hits(w, Z)) = Cardinality(H \ {k}) + Count(v \in Z)
  BY <1>4, <1>5, <1>6 DEF Count
<1>8. Cardinality(H \ {k}) = Cardinality(H) - Count(k \in DOMAIN m /\ m[k] \in Z)
  BY <1>2, <1>3 DEF Count, Hits
<1>9. IsFiniteSet(DOMAIN w)
  <2>1. DOMAIN w = DOMAIN m \cup {k}
    BY DEF With
  <2> QED BY <2>1, FS_AddElement
<1> QED
  BY <1>4, <1>7, <1>8, <1>9 DEF Tally

LEMMA TallyWithout ==
  ASSUME NEW m, IsFiniteSet(DOMAIN m), NEW k, NEW Z
  PROVE  /\ IsFiniteSet(DOMAIN Without(m, {k}))
         /\ Tally(Without(m, {k}), Z) = Tally(m, Z) - Count(k \in DOMAIN m /\ m[k] \in Z)
         /\ Tally(Without(m, {k}), Z) \in Nat
<1> DEFINE H == Hits(m, Z)
<1>1. IsFiniteSet(H)
  BY FS_Subset DEF Hits
<1>2. Cardinality(H) \in Nat
  BY <1>1, FS_CardinalityType
<1>3. IsFiniteSet(H \ {k}) /\ Cardinality(H \ {k}) = IF k \in H THEN Cardinality(H) - 1 ELSE Cardinality(H)
  BY <1>1, FS_RemoveElement
<1>4. Cardinality(H \ {k}) \in Nat
  BY <1>3, FS_CardinalityType
<1>5. Hits(Without(m, {k}), Z) = H \ {k}
  <2> DEFINE w == Without(m, {k})
  <2>1. DOMAIN w = DOMAIN m \ {k} /\ \A x \in DOMAIN m \ {k} : w[x] = m[x]
    BY WithoutIs
  <2> HIDE DEF w
  <2>2. Hits(w, Z) = H \ {k}
    BY <2>1 DEF Hits
  <2> QED BY <2>2 DEF w
<1>6. Cardinality(H \ {k}) = Cardinality(H) - Count(k \in DOMAIN m /\ m[k] \in Z)
  BY <1>2, <1>3 DEF Count, Hits
<1>7. IsFiniteSet(DOMAIN Without(m, {k}))
  BY WithoutIs, FS_Subset
<1> QED
  BY <1>4, <1>5, <1>6, <1>7 DEF Tally

LEMMA NamesAreFinite ==
  ASSUME NEW S, IsFiniteSet(S)
  PROVE  IsFiniteSet(NamesIn(S))
<1> DEFINE f == [r \in S |-> r.name]
<1>1. f \in Surjection(S, NamesIn(S))
  BY DEF Surjection, NamesIn
<1> QED
  BY <1>1, FS_Surjection

-----------------------------------------------------------------------------
\* The caches in memory, and what it is for their counts and indexes to be exact.

DefNames == NamesIn(Rules)
RBNames == NamesIn(RBRules)
Matcher == UNION {r.matchers : r \in Rules \cup RBRules}

Def ==
  [name : DefNames, trafficType : TrafficType, sets : SUBSET FlagSet, matchers : SUBSET Matcher,
   segments : SUBSET Segment, excluded : SUBSET Segment, env : Hashes, killed : BOOLEAN, cn : Nat]
RBSeg ==
  [name : RBNames, matchers : SUBSET Matcher, segments : SUBSET Segment, excluded : SUBSET Segment,
   env : Hashes]

DefMaps == {m \in Maps(DefNames, Def) : \A n \in DOMAIN m : m[n].name = n}
RBMaps == {m \in Maps(RBNames, RBSeg) : \A n \in DOMAIN m : m[n].name = n}

OfType(t) == {d \in Def : d.trafficType = t}
Using == {d \in Def : UsesSegments(d)}
UsingRB == {r \in RBSeg : UsesSegments(r)}
InSet(m, s) == {n \in DOMAIN m : s \in m[n].sets /\ Passes(s)}

DefCaches ==
  [defs : DefMaps, tts : [TrafficType -> Int], sets : [FlagSet -> SUBSET DefNames],
   segments : Int, cn : Int]
RBCaches == [rbs : RBMaps, segments : Int, cn : Int]

ExactDefs ==
  {c \in DefCaches : /\ \A t \in TrafficType : c.tts[t] = Tally(c.defs, OfType(t))
                     /\ \A s \in FlagSet : c.sets[s] = InSet(c.defs, s)
                     /\ c.segments = Tally(c.defs, Using)}
ExactRBs == {c \in RBCaches : c.segments = Tally(c.rbs, UsingRB)}

LEMMA MapsAreFinite ==
  /\ \A m \in DefMaps : IsFiniteSet(DOMAIN m)
  /\ \A m \in RBMaps : IsFiniteSet(DOMAIN m)
<1>1. IsFiniteSet(DefNames) /\ IsFiniteSet(RBNames)
  BY NamesAreFinite, StoragesAssumption DEF DefNames, RBNames
<1>2. \A m \in DefMaps : DOMAIN m \in SUBSET DefNames
  BY MapIs DEF DefMaps
<1>3. \A m \in RBMaps : DOMAIN m \in SUBSET RBNames
  BY MapIs DEF RBMaps
<1> QED
  BY <1>1, <1>2, <1>3, FS_Subset

LEMMA DefWith ==
  ASSUME NEW m \in DefMaps
  PROVE  /\ \A n \in DOMAIN m : n \in DefNames /\ m[n] \in Def /\ m[n].name = n
         /\ \A d \in Def : With(m, d.name, d) \in DefMaps
         /\ \A K : Without(m, K) \in DefMaps
<1>1. m \in Maps(DefNames, Def) /\ \A n \in DOMAIN m : m[n].name = n
  BY DEF DefMaps
<1>2. \A n \in DOMAIN m : n \in DefNames /\ m[n] \in Def
  BY <1>1, MapIs
<1>3. ASSUME NEW d \in Def PROVE With(m, d.name, d) \in DefMaps
  <2>1. d.name \in DefNames
    BY DEF Def
  <2>2. With(m, d.name, d) \in Maps(DefNames, Def)
    BY <1>1, <2>1, WithMaps
  <2>3. \A n \in DOMAIN With(m, d.name, d) : With(m, d.name, d)[n].name = n
    BY <1>1 DEF With
  <2> QED
    BY <2>2, <2>3 DEF DefMaps
<1>4. ASSUME NEW K PROVE Without(m, K) \in DefMaps
  <2>1. Without(m, K) \in Maps(DefNames, Def)
    BY <1>1, WithoutMaps
  <2>2. \A n \in DOMAIN Without(m, K) : Without(m, K)[n].name = n
    BY <1>1 DEF Without
  <2> QED
    BY <2>1, <2>2 DEF DefMaps
<1> QED
  BY <1>1, <1>2, <1>3, <1>4

LEMMA RBWith ==
  ASSUME NEW m \in RBMaps
  PROVE  /\ \A n \in DOMAIN m : n \in RBNames /\ m[n] \in RBSeg /\ m[n].name = n
         /\ \A r \in RBSeg : With(m, r.name, r) \in RBMaps
         /\ \A K : Without(m, K) \in RBMaps
<1>1. m \in Maps(RBNames, RBSeg) /\ \A n \in DOMAIN m : m[n].name = n
  BY DEF RBMaps
<1>2. \A n \in DOMAIN m : n \in RBNames /\ m[n] \in RBSeg
  BY <1>1, MapIs
<1>3. ASSUME NEW r \in RBSeg PROVE With(m, r.name, r) \in RBMaps
  <2>1. r.name \in RBNames
    BY DEF RBSeg
  <2>2. With(m, r.name, r) \in Maps(RBNames, RBSeg)
    BY <1>1, <2>1, WithMaps
  <2>3. \A n \in DOMAIN With(m, r.name, r) : With(m, r.name, r)[n].name = n
    BY <1>1 DEF With
  <2> QED
    BY <2>2, <2>3 DEF RBMaps
<1>4. ASSUME NEW K PROVE Without(m, K) \in RBMaps
  <2>1. Without(m, K) \in Maps(RBNames, RBSeg)
    BY <1>1, WithoutMaps
  <2>2. \A n \in DOMAIN Without(m, K) : Without(m, K)[n].name = n
    BY <1>1 DEF Without
  <2> QED
    BY <2>1, <2>2 DEF RBMaps
<1> QED
  BY <1>1, <1>2, <1>3, <1>4

\* Taking the version of the cache out of the counts.
LEMMA UncountIs ==
  ASSUME NEW c \in DefCaches, NEW d \in Def
  PROVE  /\ Uncount(c, d) \in DefCaches
         /\ Uncount(c, d).defs = c.defs /\ Uncount(c, d).cn = c.cn
         /\ \A t \in TrafficType : Uncount(c, d).tts[t] = c.tts[t] - Count(d.trafficType = t)
         /\ \A s \in FlagSet : Uncount(c, d).sets[s] = IF s \in d.sets THEN c.sets[s] \ {d.name} ELSE c.sets[s]
         /\ Uncount(c, d).segments = c.segments - Count(UsesSegments(d))
<1>1. Count(UsesSegments(d)) \in Int /\ d.trafficType \in TrafficType
  BY DEF Count, Def
<1>2. RemoveFromFlagSets(c.sets, d) \in [FlagSet -> SUBSET DefNames]
  BY DEF RemoveFromFlagSets, DefCaches
<1>3. \A s \in FlagSet : RemoveFromFlagSets(c.sets, d)[s] = IF s \in d.sets THEN c.sets[s] \ {d.name} ELSE c.sets[s]
  BY DEF RemoveFromFlagSets
<1>4. [c.tts EXCEPT ![d.trafficType] = @ - 1] \in [TrafficType -> Int]
  BY <1>1 DEF DefCaches
<1>5. \A t \in TrafficType : [c.tts EXCEPT ![d.trafficType] = @ - 1][t] = c.tts[t] - Count(d.trafficType = t)
  BY <1>1 DEF DefCaches, Count
<1>6. Uncount(c, d) = [defs |-> c.defs, tts |-> [c.tts EXCEPT ![d.trafficType] = @ - 1],
                        sets |-> RemoveFromFlagSets(c.sets, d),
                        segments |-> c.segments - Count(UsesSegments(d)), cn |-> c.cn]
  <2>1. Uncount(c, d) = [c EXCEPT !.tts[d.trafficType] = @ - 1, !.sets = RemoveFromFlagSets(@, d),
                                  !.segments = @ - Count(UsesSegments(d))]
    BY DEF Uncount
  <2>2. c = [defs |-> c.defs, tts |-> c.tts, sets |-> c.sets, segments |-> c.segments, cn |-> c.cn]
    BY DEF DefCaches
  <2> QED
    BY <2>1, <2>2
<1>7. c.defs \in DefMaps /\ c.segments - Count(UsesSegments(d)) \in Int /\ c.cn \in Int
  BY <1>1 DEF DefCaches
<1> QED
  BY <1>2, <1>3, <1>4, <1>5, <1>6, <1>7 DEF DefCaches

\* An addition keeps the counts and the indexes exact: it first takes out the
\* version that it replaces.
LEMMA AddDefinitionIsExact ==
  ASSUME NEW c \in ExactDefs, NEW d \in Def
  PROVE  /\ AddDefinition(c, d) \in ExactDefs
         /\ AddDefinition(c, d).defs = With(c.defs, d.name, d)
         /\ AddDefinition(c, d).cn = c.cn
<1> DEFINE had == d.name \in DOMAIN c.defs
           old == IF had THEN Uncount(c, c.defs[d.name]) ELSE c
           new == AddDefinition(c, d)
<1>1. c \in DefCaches /\ c.defs \in DefMaps
  BY DEF ExactDefs, DefCaches
<1>2. had => c.defs[d.name] \in Def /\ c.defs[d.name].name = d.name
  BY <1>1, DefWith
<1>3. /\ old \in DefCaches /\ old.defs = c.defs /\ old.cn = c.cn
      /\ \A t \in TrafficType : old.tts[t] = c.tts[t] - Count(had /\ c.defs[d.name] \in OfType(t))
      /\ \A s \in FlagSet : old.sets[s] = IF had /\ s \in c.defs[d.name].sets THEN c.sets[s] \ {d.name} ELSE c.sets[s]
      /\ old.segments = c.segments - Count(had /\ c.defs[d.name] \in Using)
  <2>1. CASE had
    BY <1>1, <1>2, <2>1, UncountIs DEF OfType, Using, Count
  <2>2. CASE ~had
    BY <1>1, <2>2 DEF Count, DefCaches
  <2> QED
    BY <2>1, <2>2
<1>4. new = [old EXCEPT !.defs = With(@, d.name, d), !.tts[d.trafficType] = @ + 1,
                        !.sets = AddToFlagSets(@, d), !.segments = @ + Count(UsesSegments(d))]
  BY DEF AddDefinition
<1>5. Count(UsesSegments(d)) \in Int /\ d.trafficType \in TrafficType /\ d.name \in DefNames
  BY DEF Count, Def
<1>6. /\ AddToFlagSets(old.sets, d) \in [FlagSet -> SUBSET DefNames]
      /\ \A s \in FlagSet : AddToFlagSets(old.sets, d)[s] =
           IF s \in d.sets /\ Passes(s) THEN old.sets[s] \cup {d.name} ELSE old.sets[s]
  BY <1>3, <1>5 DEF AddToFlagSets, DefCaches
<1> HIDE DEF old, had
<1>7. /\ new \in DefCaches /\ new.defs = With(c.defs, d.name, d) /\ new.cn = c.cn
      /\ new.sets = AddToFlagSets(old.sets, d)
      /\ \A t \in TrafficType : new.tts[t] = old.tts[t] + Count(d.trafficType = t)
      /\ new.segments = old.segments + Count(UsesSegments(d))
  <2>1. With(c.defs, d.name, d) \in DefMaps
    BY <1>1, DefWith
  <2>2. [old.tts EXCEPT ![d.trafficType] = @ + 1] \in [TrafficType -> Int]
    BY <1>3, <1>5 DEF DefCaches
  <2>3. \A t \in TrafficType : [old.tts EXCEPT ![d.trafficType] = @ + 1][t] = old.tts[t] + Count(d.trafficType = t)
    BY <1>3, <1>5 DEF DefCaches, Count
  <2>4. new = [defs |-> With(old.defs, d.name, d), tts |-> [old.tts EXCEPT ![d.trafficType] = @ + 1],
               sets |-> AddToFlagSets(old.sets, d), segments |-> old.segments + Count(UsesSegments(d)),
               cn |-> old.cn]
    BY <1>3, <1>4 DEF DefCaches
  <2>5. old.segments + Count(UsesSegments(d)) \in Int /\ old.cn \in Int
    BY <1>3, <1>5 DEF DefCaches
  <2> HIDE DEF new
  <2> QED
    BY <1>3, <1>6, <2>1, <2>2, <2>3, <2>4, <2>5 DEF DefCaches
<1> HIDE DEF new
<1>8. IsFiniteSet(DOMAIN c.defs)
  BY <1>1, MapsAreFinite
<1>9. ASSUME NEW t \in TrafficType PROVE new.tts[t] = Tally(new.defs, OfType(t))
  <2>1. c.tts[t] = Tally(c.defs, OfType(t))
    BY DEF ExactDefs
  <2>2. Tally(With(c.defs, d.name, d), OfType(t)) =
          Tally(c.defs, OfType(t)) - Count(had /\ c.defs[d.name] \in OfType(t)) + Count(d \in OfType(t))
    BY <1>8, TallyWith DEF had
  <2>3. d \in OfType(t) <=> d.trafficType = t
    BY DEF OfType
  <2> QED
    BY <1>3, <1>7, <2>1, <2>2, <2>3 DEF Count
<1>10. new.segments = Tally(new.defs, Using)
  <2>1. c.segments = Tally(c.defs, Using)
    BY DEF ExactDefs
  <2>2. Tally(With(c.defs, d.name, d), Using) =
          Tally(c.defs, Using) - Count(had /\ c.defs[d.name] \in Using) + Count(d \in Using)
    BY <1>8, TallyWith DEF had
  <2>3. d \in Using <=> UsesSegments(d)
    BY DEF Using
  <2> QED
    BY <1>3, <1>7, <2>1, <2>2, <2>3 DEF Count
<1>11. ASSUME NEW s \in FlagSet PROVE new.sets[s] = InSet(new.defs, s)
  <2>1. c.sets[s] = InSet(c.defs, s)
    BY DEF ExactDefs
  <2>2. InSet(With(c.defs, d.name, d), s) =
          IF s \in d.sets /\ Passes(s) THEN InSet(c.defs, s) \cup {d.name} ELSE InSet(c.defs, s) \ {d.name}
    BY DEF InSet, With
  <2>3. had /\ s \notin c.defs[d.name].sets => d.name \notin InSet(c.defs, s)
    BY DEF InSet
  <2>4. ~had => d.name \notin InSet(c.defs, s)
    BY DEF InSet, had
  <2>5. new.sets[s] = IF s \in d.sets /\ Passes(s) THEN old.sets[s] \cup {d.name} ELSE old.sets[s]
    BY <1>6, <1>7
  <2>6. old.sets[s] \ {d.name} = InSet(c.defs, s) \ {d.name}
    BY <1>3, <2>1
  <2>7. old.sets[s] = InSet(c.defs, s) \ {d.name}
    BY <1>3, <2>1, <2>3, <2>4
  <2> QED
    BY <1>7, <2>2, <2>5, <2>7
<1>12. new \in ExactDefs
  BY <1>7, <1>9, <1>10, <1>11 DEF ExactDefs
<1> QED
  BY <1>7, <1>12 DEF new

\* So does a removal.
LEMMA RemoveDefinitionIsExact ==
  ASSUME NEW c \in ExactDefs, NEW name
  PROVE  /\ RemoveDefinition(c, name) \in ExactDefs
         /\ RemoveDefinition(c, name).defs = Without(c.defs, {name})
         /\ RemoveDefinition(c, name).cn = c.cn
<1>1. c \in DefCaches /\ c.defs \in DefMaps /\ IsFiniteSet(DOMAIN c.defs)
  BY MapsAreFinite DEF ExactDefs, DefCaches
<1>2. CASE name \notin DOMAIN c.defs
  <2>1. Without(c.defs, {name}) = c.defs
    BY <1>1, <1>2, MapIs DEF Without, DefMaps
  <2> QED
    BY <1>2, <2>1 DEF RemoveDefinition
<1>3. CASE name \in DOMAIN c.defs
  <2> DEFINE d == c.defs[name]
             old == Uncount(c, d)
             new == [old EXCEPT !.defs = Without(@, {name})]
  <2>1. d \in Def /\ d.name = name
    BY <1>1, <1>3, DefWith
  <2>2. /\ old \in DefCaches /\ old.defs = c.defs /\ old.cn = c.cn
        /\ \A t \in TrafficType : old.tts[t] = c.tts[t] - Count(d.trafficType = t)
        /\ \A s \in FlagSet : old.sets[s] = IF s \in d.sets THEN c.sets[s] \ {d.name} ELSE c.sets[s]
        /\ old.segments = c.segments - Count(UsesSegments(d))
    BY <1>1, <2>1, UncountIs
  <2>3. RemoveDefinition(c, name) = new
    BY <1>3 DEF RemoveDefinition
  <2> HIDE DEF old
  <2>4. Without(c.defs, {name}) \in DefMaps
    BY <1>1, DefWith
  <2>5. /\ new \in DefCaches /\ new.defs = Without(c.defs, {name}) /\ new.cn = c.cn
        /\ new.tts = old.tts /\ new.sets = old.sets /\ new.segments = old.segments
    BY <2>2, <2>4 DEF DefCaches
  <2> HIDE DEF new
  <2>6. ASSUME NEW t \in TrafficType PROVE new.tts[t] = Tally(new.defs, OfType(t))
    <3>1. c.tts[t] = Tally(c.defs, OfType(t))
      BY DEF ExactDefs
    <3>2. Tally(Without(c.defs, {name}), OfType(t)) =
            Tally(c.defs, OfType(t)) - Count(name \in DOMAIN c.defs /\ d \in OfType(t))
      BY <1>1, TallyWithout
    <3>3. d \in OfType(t) <=> d.trafficType = t
      BY <2>1 DEF OfType
    <3> QED
      BY <1>3, <2>2, <2>5, <3>1, <3>2, <3>3 DEF Count
  <2>7. new.segments = Tally(new.defs, Using)
    <3>1. c.segments = Tally(c.defs, Using)
      BY DEF ExactDefs
    <3>2. Tally(Without(c.defs, {name}), Using) =
            Tally(c.defs, Using) - Count(name \in DOMAIN c.defs /\ d \in Using)
      BY <1>1, TallyWithout
    <3>3. d \in Using <=> UsesSegments(d)
      BY <2>1 DEF Using
    <3> QED
      BY <1>3, <2>2, <2>5, <3>1, <3>2, <3>3 DEF Count
  <2>8. ASSUME NEW s \in FlagSet PROVE new.sets[s] = InSet(new.defs, s)
    <3>1. c.sets[s] = InSet(c.defs, s)
      BY DEF ExactDefs
    <3>2. InSet(Without(c.defs, {name}), s) = InSet(c.defs, s) \ {name}
      BY DEF InSet, Without
    <3>3. s \notin d.sets => name \notin InSet(c.defs, s)
      BY DEF InSet
    <3>4. old.sets[s] = InSet(c.defs, s) \ {name}
      BY <2>1, <2>2, <3>1, <3>3
    <3> QED
      BY <2>5, <3>2, <3>4
  <2>9. new \in ExactDefs
    BY <2>5, <2>6, <2>7, <2>8 DEF ExactDefs
  <2> QED
    BY <2>3, <2>5, <2>9
<1> QED
  BY <1>2, <1>3

\* The rule-based segments.
LEMMA AddRBSegmentIsExact ==
  ASSUME NEW c \in ExactRBs, NEW r \in RBSeg
  PROVE  /\ AddRBSegment(c, r) \in ExactRBs
         /\ AddRBSegment(c, r).rbs = With(c.rbs, r.name, r)
         /\ AddRBSegment(c, r).cn = c.cn
<1> DEFINE old == r.name \in DOMAIN c.rbs /\ UsesSegments(c.rbs[r.name])
           new == AddRBSegment(c, r)
<1>1. c = [rbs |-> c.rbs, segments |-> c.segments, cn |-> c.cn] /\ c.rbs \in RBMaps /\ c.cn \in Int
  BY DEF ExactRBs, RBCaches
<1>2. IsFiniteSet(DOMAIN c.rbs) /\ With(c.rbs, r.name, r) \in RBMaps
  BY <1>1, MapsAreFinite, RBWith
<1>3. r.name \in DOMAIN c.rbs => c.rbs[r.name] \in RBSeg
  BY <1>1, RBWith
<1>4. c.segments = Tally(c.rbs, UsingRB)
  BY DEF ExactRBs
<1>5. /\ Tally(With(c.rbs, r.name, r), UsingRB) =
           Tally(c.rbs, UsingRB) - Count(r.name \in DOMAIN c.rbs /\ c.rbs[r.name] \in UsingRB) + Count(r \in UsingRB)
      /\ Tally(c.rbs, UsingRB) \in Nat
  BY <1>2, TallyWith, TallyIs
<1>6. Count(r.name \in DOMAIN c.rbs /\ c.rbs[r.name] \in UsingRB) = Count(old) /\ Count(r \in UsingRB) = Count(UsesSegments(r))
  BY <1>3 DEF Count, UsingRB
<1>7. Count(old) \in Int /\ Count(UsesSegments(r)) \in Int
  BY DEF Count
<1>8. new = [rbs |-> With(c.rbs, r.name, r), segments |-> c.segments - Count(old) + Count(UsesSegments(r)),
             cn |-> c.cn]
  <2>1. new = [c EXCEPT !.rbs = With(@, r.name, r), !.segments = @ - Count(old) + Count(UsesSegments(r))]
    BY DEF AddRBSegment
  <2> HIDE DEF new
  <2> QED BY <1>1, <2>1
<1> HIDE DEF new
<1>9. new \in ExactRBs
  BY <1>1, <1>2, <1>4, <1>5, <1>6, <1>7, <1>8 DEF ExactRBs, RBCaches
<1> QED
  BY <1>8, <1>9 DEF new

LEMMA RemoveRBSegmentIsExact ==
  ASSUME NEW c \in ExactRBs, NEW name
  PROVE  /\ RemoveRBSegment(c, name) \in ExactRBs
         /\ RemoveRBSegment(c, name).rbs = Without(c.rbs, {name})
         /\ RemoveRBSegment(c, name).cn = c.cn
<1>1. c = [rbs |-> c.rbs, segments |-> c.segments, cn |-> c.cn] /\ c.rbs \in RBMaps /\ c.cn \in Int
  BY DEF ExactRBs, RBCaches
<1>2. CASE name \notin DOMAIN c.rbs
  <2>1. c.rbs = [n \in DOMAIN c.rbs |-> c.rbs[n]]
    BY <1>1, MapIs DEF RBMaps
  <2>2. Without(c.rbs, {name}) = c.rbs
    BY <1>2, <2>1 DEF Without
  <2> QED
    BY <1>2, <2>2 DEF RemoveRBSegment
<1>3. CASE name \in DOMAIN c.rbs
  <2> DEFINE new == RemoveRBSegment(c, name)
             used == Count(UsesSegments(c.rbs[name]))
  <2>1. IsFiniteSet(DOMAIN c.rbs) /\ Without(c.rbs, {name}) \in RBMaps /\ c.rbs[name] \in RBSeg
    BY <1>1, <1>3, MapsAreFinite, RBWith
  <2>2. c.segments = Tally(c.rbs, UsingRB)
    BY DEF ExactRBs
  <2>3. /\ Tally(Without(c.rbs, {name}), UsingRB) =
             Tally(c.rbs, UsingRB) - Count(name \in DOMAIN c.rbs /\ c.rbs[name] \in UsingRB)
        /\ Tally(Without(c.rbs, {name}), UsingRB) \in Nat
    BY <2>1, TallyWithout
  <2>4. Count(name \in DOMAIN c.rbs /\ c.rbs[name] \in UsingRB) = used
    BY <1>3, <2>1 DEF Count, UsingRB
  <2>5. new = [rbs |-> Without(c.rbs, {name}), segments |-> c.segments - used, cn |-> c.cn]
    <3>1. new = [c EXCEPT !.rbs = Without(@, {name}), !.segments = @ - Count(UsesSegments(c.rbs[name]))]
      BY <1>3 DEF RemoveRBSegment
    <3> HIDE DEF new
    <3> QED BY <1>1, <3>1
  <2> HIDE DEF new, used
  <2>6. new \in ExactRBs
    BY <1>1, <2>1, <2>2, <2>3, <2>4, <2>5 DEF ExactRBs, RBCaches
  <2> QED
    BY <2>5, <2>6 DEF new
<1> QED
  BY <1>2, <1>3

\* update: every rule is one that was there or one of the additions, every addition
\* that is not removed is there, and counts and indexes are exact again.
LEMMA UpdateDefinitionsIsExact ==
  ASSUME NEW c \in ExactDefs, NEW toAdd \in SUBSET Def, IsFiniteSet(toAdd),
         NEW toRemove, IsFiniteSet(toRemove), NEW till \in Int
  PROVE  LET u == UpdateDefinitions(c, toAdd, toRemove, till)
         IN /\ u \in ExactDefs /\ u.cn = till
            /\ \A n \in DOMAIN u.defs :
                 /\ n \notin toRemove
                 /\ u.defs[n] \in toAdd \/ (n \in DOMAIN c.defs /\ u.defs[n] = c.defs[n])
            /\ \A d \in toAdd : d.name \in toRemove \/ d.name \in DOMAIN u.defs
<1> DEFINE b == FoldSet(LAMBDA d, acc : AddDefinition(acc, d), c, toAdd)
           e == FoldSet(LAMBDA n, acc : RemoveDefinition(acc, n), b, toRemove)
           u == UpdateDefinitions(c, toAdd, toRemove, till)
           Q == [s \in SUBSET toAdd |->
                   {a \in ExactDefs :
                      /\ \A n \in DOMAIN a.defs : a.defs[n] \in s \/ (n \in DOMAIN c.defs /\ a.defs[n] = c.defs[n])
                      /\ \A d \in s : d.name \in DOMAIN a.defs}]
           R == [s \in SUBSET toRemove |->
                   {a \in ExactDefs :
                      /\ \A n \in DOMAIN a.defs : n \notin s /\ n \in DOMAIN b.defs /\ a.defs[n] = b.defs[n]
                      /\ DOMAIN b.defs \ s \subseteq DOMAIN a.defs}]
<1>1. u = [e EXCEPT !.cn = till]
  BY DEF UpdateDefinitions, Update, SetTill
<1>2. b \in Q[toAdd]
  <2>1. Q \in [SUBSET toAdd -> SUBSET ExactDefs] /\ c \in Q[{}]
    OBVIOUS
  <2>2. ASSUME NEW s \in SUBSET toAdd, NEW x \in s, NEW a \in Q[s \ {x}] PROVE AddDefinition(a, x) \in Q[s]
    <3>1. a \in ExactDefs /\ x \in Def
      BY <2>2
    <3>2. AddDefinition(a, x) \in ExactDefs /\ AddDefinition(a, x).defs = With(a.defs, x.name, x)
      BY <3>1, AddDefinitionIsExact
    <3> QED
      BY <2>2, <3>2 DEF With
  <2> HIDE DEF Q
  <2> QED BY <2>1, <2>2, FoldsAdd
<1> HIDE DEF b
<1>3. b \in ExactDefs
  BY <1>2
<1>4. e \in R[toRemove]
  <2>1. R \in [SUBSET toRemove -> SUBSET ExactDefs] /\ b \in R[{}]
    BY <1>3
  <2>2. ASSUME NEW s \in SUBSET toRemove, NEW x \in s, NEW a \in R[s \ {x}] PROVE RemoveDefinition(a, x) \in R[s]
    <3>1. RemoveDefinition(a, x) \in ExactDefs /\ RemoveDefinition(a, x).defs = Without(a.defs, {x})
      BY <2>2, RemoveDefinitionIsExact
    <3> QED
      BY <2>2, <3>1 DEF Without
  <2> HIDE DEF R
  <2> QED BY <2>1, <2>2, FoldsRemove
<1> HIDE DEF e, u
<1>5. e \in ExactDefs /\ e.defs \in DefMaps
  BY <1>4 DEF ExactDefs, DefCaches
<1>6. u \in ExactDefs /\ u.cn = till /\ u.defs = e.defs
  BY <1>1, <1>5 DEF ExactDefs, DefCaches
<1>7. /\ \A n \in DOMAIN u.defs : n \notin toRemove /\ n \in DOMAIN b.defs /\ u.defs[n] = b.defs[n]
      /\ DOMAIN b.defs \ toRemove \subseteq DOMAIN u.defs
  BY <1>4, <1>6
<1>8. /\ \A n \in DOMAIN b.defs : b.defs[n] \in toAdd \/ (n \in DOMAIN c.defs /\ b.defs[n] = c.defs[n])
      /\ \A d \in toAdd : d.name \in DOMAIN b.defs
  BY <1>2
<1> HIDE DEF Q, R
<1>9. /\ \A n \in DOMAIN u.defs :
           /\ n \notin toRemove
           /\ u.defs[n] \in toAdd \/ (n \in DOMAIN c.defs /\ u.defs[n] = c.defs[n])
      /\ \A d \in toAdd : d.name \in toRemove \/ d.name \in DOMAIN u.defs
  BY <1>7, <1>8
<1> QED
  BY <1>6, <1>9 DEF u

LEMMA UpdateRBSegmentsIsExact ==
  ASSUME NEW c \in ExactRBs, NEW toAdd \in SUBSET RBSeg, IsFiniteSet(toAdd),
         NEW toRemove, IsFiniteSet(toRemove), NEW till \in Int
  PROVE  LET u == UpdateRBSegments(c, toAdd, toRemove, till)
         IN /\ u \in ExactRBs /\ u.cn = till
            /\ \A n \in DOMAIN u.rbs :
                 /\ n \notin toRemove
                 /\ u.rbs[n] \in toAdd \/ (n \in DOMAIN c.rbs /\ u.rbs[n] = c.rbs[n])
            /\ \A d \in toAdd : d.name \in toRemove \/ d.name \in DOMAIN u.rbs
<1> DEFINE b == FoldSet(LAMBDA d, acc : AddRBSegment(acc, d), c, toAdd)
           e == FoldSet(LAMBDA n, acc : RemoveRBSegment(acc, n), b, toRemove)
           u == UpdateRBSegments(c, toAdd, toRemove, till)
           Q == [s \in SUBSET toAdd |->
                   {a \in ExactRBs :
                      /\ \A n \in DOMAIN a.rbs : a.rbs[n] \in s \/ (n \in DOMAIN c.rbs /\ a.rbs[n] = c.rbs[n])
                      /\ \A d \in s : d.name \in DOMAIN a.rbs}]
           R == [s \in SUBSET toRemove |->
                   {a \in ExactRBs :
                      /\ \A n \in DOMAIN a.rbs : n \notin s /\ n \in DOMAIN b.rbs /\ a.rbs[n] = b.rbs[n]
                      /\ DOMAIN b.rbs \ s \subseteq DOMAIN a.rbs}]
<1>1. u = [e EXCEPT !.cn = till]
  BY DEF UpdateRBSegments, Update, SetTill
<1>2. b \in Q[toAdd]
  <2>1. Q \in [SUBSET toAdd -> SUBSET ExactRBs] /\ c \in Q[{}]
    OBVIOUS
  <2>2. ASSUME NEW s \in SUBSET toAdd, NEW x \in s, NEW a \in Q[s \ {x}] PROVE AddRBSegment(a, x) \in Q[s]
    <3>1. a \in ExactRBs /\ x \in RBSeg
      BY <2>2
    <3>2. AddRBSegment(a, x) \in ExactRBs /\ AddRBSegment(a, x).rbs = With(a.rbs, x.name, x)
      BY <3>1, AddRBSegmentIsExact
    <3> QED
      BY <2>2, <3>2 DEF With
  <2> HIDE DEF Q
  <2> QED BY <2>1, <2>2, FoldsAddRB
<1> HIDE DEF b
<1>3. b \in ExactRBs
  BY <1>2
<1>4. e \in R[toRemove]
  <2>1. R \in [SUBSET toRemove -> SUBSET ExactRBs] /\ b \in R[{}]
    BY <1>3
  <2>2. ASSUME NEW s \in SUBSET toRemove, NEW x \in s, NEW a \in R[s \ {x}] PROVE RemoveRBSegment(a, x) \in R[s]
    <3>1. RemoveRBSegment(a, x) \in ExactRBs /\ RemoveRBSegment(a, x).rbs = Without(a.rbs, {x})
      BY <2>2, RemoveRBSegmentIsExact
    <3> QED
      BY <2>2, <3>1 DEF Without
  <2> HIDE DEF R
  <2> QED BY <2>1, <2>2, FoldsRemoveRB
<1> HIDE DEF e, u
<1>5. e \in ExactRBs /\ e.rbs \in RBMaps
  BY <1>4 DEF ExactRBs, RBCaches
<1>6. u \in ExactRBs /\ u.cn = till /\ u.rbs = e.rbs
  BY <1>1, <1>5 DEF ExactRBs, RBCaches
<1>7. /\ \A n \in DOMAIN u.rbs : n \notin toRemove /\ n \in DOMAIN b.rbs /\ u.rbs[n] = b.rbs[n]
      /\ DOMAIN b.rbs \ toRemove \subseteq DOMAIN u.rbs
  BY <1>4, <1>6
<1>8. /\ \A n \in DOMAIN b.rbs : b.rbs[n] \in toAdd \/ (n \in DOMAIN c.rbs /\ b.rbs[n] = c.rbs[n])
      /\ \A d \in toAdd : d.name \in DOMAIN b.rbs
  BY <1>2
<1> HIDE DEF Q, R
<1>9. /\ \A n \in DOMAIN u.rbs :
           /\ n \notin toRemove
           /\ u.rbs[n] \in toAdd \/ (n \in DOMAIN c.rbs /\ u.rbs[n] = c.rbs[n])
      /\ \A d \in toAdd : d.name \in toRemove \/ d.name \in DOMAIN u.rbs
  BY <1>7, <1>8
<1> QED
  BY <1>6, <1>9 DEF u

-----------------------------------------------------------------------------
\* The memberships of a key: a finite set of numbers can be sorted, and skipping the
\* common prefix of the sorted lists changes nothing.

LEMMA GreatestOf ==
  ASSUME NEW S \in SUBSET Nat, IsFiniteSet(S), S # {}
  PROVE  \E m \in S : \A x \in S : x <= m
<1> DEFINE A == {s \in SUBSET S : s = {} \/ \E m \in s : \A x \in s : x <= m}
<1>1. {} \in A
  OBVIOUS
<1>2. ASSUME NEW s \in SUBSET S, s # {}, Rest(s) \in A PROVE s \in A
  <2> DEFINE f == First(s)
  <2>1. f \in s /\ Rest(s) = s \ {f}
    BY <1>2, RestOf DEF Rest
  <2>2. CASE Rest(s) = {}
    BY <2>1, <2>2
  <2>3. CASE Rest(s) # {}
    <3>1. PICK m \in Rest(s) : \A x \in Rest(s) : x <= m
      BY <1>2, <2>3
    <3>2. m \in s /\ m \in Nat /\ f \in Nat
      BY <2>1, <3>1
    <3> HIDE DEF f
    <3>3. CASE f <= m
      BY <2>1, <3>1, <3>2, <3>3
    <3>4. CASE ~(f <= m)
      <4>1. \A x \in s : x <= f
        BY <2>1, <3>1, <3>2, <3>4
      <4> QED
        BY <2>1, <4>1
    <3> QED
      BY <3>3, <3>4
  <2> QED
    BY <2>2, <2>3
<1>3. S \in A
  <2> HIDE DEF A
  <2> QED BY <1>1, <1>2, SubsetInduction
<1> QED
  BY <1>3

Numbers(S) == S \subseteq Nat

LEMMA EnumerationExists ==
  ASSUME NEW S, Numbers(S), IsFiniteSet(S)
  PROVE  \E s \in [1..Cardinality(S) -> S] : \A i, j \in 1..Cardinality(S) : i < j => s[i] < s[j]
<1>0. \A C \in SUBSET (SUBSET S) : C # {} => \E U \in C : \A r \in C : r \subseteq U => r = U
  BY LeastSet
<1> DEFINE Up(s, U) == s \in [1..Cardinality(U) -> U] /\ \A i, j \in 1..Cardinality(U) : i < j => s[i] < s[j]
           A == {U \in SUBSET S : \E s \in [1..Cardinality(U) -> U] : Up(s, U)}
           B == {U \in SUBSET S : U \notin A}
<1> SUFFICES ASSUME B # {} PROVE FALSE
  OBVIOUS
<1>1. PICK U \in B : \A r \in B : r \subseteq U => r = U
  <2>1. B \in SUBSET (SUBSET S)
    OBVIOUS
  <2> HIDE DEF B
  <2> QED BY <1>0, <2>1
<1>2. IsFiniteSet(U) /\ U \in SUBSET Nat /\ U \subseteq S
  BY <1>1, FS_Subset DEF Numbers
<1>3. U # {}
  <2> SUFFICES ASSUME U = {} PROVE FALSE
    OBVIOUS
  <2>1. Cardinality(U) = 0
    BY FS_EmptySet
  <2>2. Up([i \in 1..0 |-> 0], U)
    BY <2>1
  <2> QED
    BY <1>1, <2>1, <2>2
<1>4. PICK m \in U : \A x \in U : x <= m
  BY <1>2, <1>3, GreatestOf
<1> DEFINE V == U \ {m}
           n == Cardinality(V)
<1>5. IsFiniteSet(V) /\ n \in Nat /\ Cardinality(U) = n + 1
  <2>1. IsFiniteSet(V) /\ Cardinality(V) = Cardinality(U) - 1 /\ Cardinality(U) \in Nat
    BY <1>2, FS_RemoveElement, FS_CardinalityType
  <2>2. Cardinality(V) \in Nat
    BY <2>1, FS_CardinalityType
  <2> QED
    BY <2>1, <2>2
<1>6. V \in A
  <2>1. V \in SUBSET S /\ V \subseteq U /\ V # U
    BY <1>2
  <2> HIDE DEF V, A
  <2> QED BY <1>1, <2>1
<1>7. PICK f \in [1..n -> V] : Up(f, V)
  BY <1>6
<1> HIDE DEF n
<1> DEFINE g == [i \in 1..(n + 1) |-> IF i = n + 1 THEN m ELSE f[i]]
<1>8. g \in [1..(n + 1) -> U]
  BY <1>5, <1>7
<1>9. ASSUME NEW i \in 1..(n + 1), NEW j \in 1..(n + 1), i < j PROVE g[i] < g[j]
  <2>1. i \in 1..n /\ g[i] = f[i] /\ f[i] \in V
    BY <1>5, <1>7, <1>9
  <2>2. CASE j = n + 1
    <3>1. f[i] <= m /\ f[i] # m /\ f[i] \in Nat /\ m \in Nat
      BY <1>2, <1>4, <2>1
    <3> QED
      BY <2>1, <2>2, <3>1
  <2>3. CASE j # n + 1
    <3>1. j \in 1..n /\ g[j] = f[j]
      BY <1>5, <2>3
    <3> QED
      BY <1>7, <1>9, <2>1, <3>1 DEF n
  <2> QED
    BY <2>2, <2>3
<1>10. Up(g, U)
  <2> HIDE DEF g
  <2> QED BY <1>5, <1>8, <1>9
<1> QED
  BY <1>1, <1>10

LEMMA SortedIs ==
  ASSUME NEW S \in SUBSET Nat, IsFiniteSet(S)
  PROVE  /\ Sorted(S) \in Seq(S) /\ Len(Sorted(S)) = Cardinality(S) /\ Cardinality(S) \in Nat
         /\ \A i, j \in 1..Cardinality(S) : i # j => Sorted(S)[i] # Sorted(S)[j]
         /\ \A x \in S : \E i \in 1..Cardinality(S) : Sorted(S)[i] = x
<1> DEFINE n == Cardinality(S)
           s == Sorted(S)
<1>1. n \in Nat
  BY FS_CardinalityType
<1>2. s \in [1..n -> S] /\ \A i, j \in 1..n : i < j => s[i] < s[j]
  BY EnumerationExists DEF Sorted, Numbers
<1> HIDE DEF n, s
<1>3. s \in Seq(S) /\ Len(s) = n
  BY <1>1, <1>2
<1>4. \A i, j \in 1..n : i # j => s[i] # s[j]
  <2> SUFFICES ASSUME NEW i \in 1..n, NEW j \in 1..n, i # j PROVE s[i] # s[j]
    OBVIOUS
  <2>1. i < j \/ j < i
    BY <1>1
  <2>2. s[i] \in Nat /\ s[j] \in Nat
    BY <1>2
  <2> QED
    BY <1>2, <2>1, <2>2
<1>5. s \in Injection(1..n, S)
  BY <1>2, <1>4 DEF Injection, IsInjective
<1>6. IsFiniteSet(1..n) /\ Cardinality(1..n) = n
  BY <1>1, FS_Interval
<1>7. s \in Surjection(1..n, S)
  BY <1>5, <1>6, FS_Injection DEF n
<1>8. \A x \in S : \E i \in 1..n : s[i] = x
  BY <1>7 DEF Surjection
<1> QED
  BY <1>1, <1>3, <1>4, <1>8 DEF n, s

LEMMA FromIs ==
  ASSUME NEW S, NEW s \in Seq(S), NEW i \in 1..(Len(s) + 1)
  PROVE  From(s, i) = {s[j] : j \in i..Len(s)}
<1> DEFINE t == SubSeq(s, i, Len(s))
<1>1. DOMAIN t = 1..(Len(s) - i + 1) /\ \A j \in 1..(Len(s) - i + 1) : t[j] = s[i + j - 1]
  OBVIOUS
<1>2. From(s, i) = {t[j] : j \in DOMAIN t}
  BY DEF From, ToSet
<1> HIDE DEF t
<1>3. ASSUME NEW j \in 1..(Len(s) - i + 1) PROVE t[j] \in {s[k] : k \in i..Len(s)}
  BY <1>1
<1>4. ASSUME NEW j \in i..Len(s) PROVE s[j] \in {t[k] : k \in DOMAIN t}
  <2>1. j - i + 1 \in 1..(Len(s) - i + 1) /\ i + (j - i + 1) - 1 = j
    OBVIOUS
  <2> QED
    BY <1>1, <2>1
<1> QED
  BY <1>1, <1>2, <1>3, <1>4

\* The memberships that a list leaves are those it names, whatever was stored.
LEMMA ResetSegmentsIs ==
  ASSUME NEW stored \in SUBSET Nat, IsFiniteSet(stored), NEW names \in Seq(Nat)
  PROVE  ResetSegments(stored, names) = ToSet(names)
<1> DEFINE kept == Sorted(stored)
           n == Cardinality(stored)
           same == {i \in 1..Len(names) : i <= Len(kept) /\ \A j \in 1..i : names[j] = kept[j]}
           m == Cardinality(same)
<1>1. /\ kept \in Seq(stored) /\ Len(kept) = n /\ n \in Nat
      /\ \A i, j \in 1..n : i # j => kept[i] # kept[j]
      /\ \A x \in stored : \E i \in 1..n : kept[i] = x
  BY SortedIs
<1> HIDE DEF kept, n
<1>2. m \in Nat /\ same = 1..m
  <2>1. same \in SUBSET (1..Len(names)) /\ Len(names) \in Nat
    OBVIOUS
  <2>2. IsFiniteSet(same) /\ m \in Nat
    <3>1. IsFiniteSet(1..Len(names))
      BY <2>1, FS_Interval
    <3> HIDE DEF same
    <3>2. IsFiniteSet(same)
      BY <2>1, <3>1, FS_Subset
    <3> QED BY <3>2, FS_CardinalityType
  <2>3. CASE same = {}
    <3>1. m = 0
      BY <2>3, FS_EmptySet
    <3> HIDE DEF same, m
    <3> QED BY <2>3, <3>1
  <2>4. CASE same # {}
    <3>1. same \in SUBSET Nat
      BY <2>1
    <3>2. PICK g \in same : \A x \in same : x <= g
      <4> HIDE DEF same
      <4> QED BY <2>2, <2>4, <3>1, GreatestOf
    <3>3. same = 1..g /\ g \in Nat
      BY <1>1, <2>1, <3>2
    <3>4. m = g
      <4> HIDE DEF same
      <4> QED BY <3>3, FS_Interval
    <3> QED
      BY <3>3, <3>4
  <2> QED
    BY <2>3, <2>4
<1>3. m <= Len(names) /\ m <= n /\ \A j \in 1..m : names[j] = kept[j]
  <2> HIDE DEF m
  <2>1. CASE m = 0
    <3>1. Len(names) \in Nat
      OBVIOUS
    <3> HIDE DEF same
    <3> QED BY <1>1, <2>1, <3>1
  <2>2. CASE m # 0
    <3>1. m \in same
      <4> HIDE DEF same
      <4> QED BY <1>2, <2>2
    <3> QED BY <1>1, <3>1
  <2> QED
    BY <2>1, <2>2
<1>4. ResetSegments(stored, names) = (stored \ From(kept, m + 1)) \cup From(names, m + 1)
  BY DEF ResetSegments, kept
<1> HIDE DEF m, same
<1>5. From(kept, m + 1) = {kept[j] : j \in (m + 1)..n}
  <2>1. m + 1 \in 1..(Len(kept) + 1)
    BY <1>1, <1>2, <1>3
  <2>2. From(kept, m + 1) = {kept[j] : j \in (m + 1)..Len(kept)}
    BY <1>1, <2>1, FromIs
  <2> QED
    BY <1>1, <2>2
<1>6. From(names, m + 1) = {names[j] : j \in (m + 1)..Len(names)}
  BY <1>2, <1>3, FromIs
<1>7. stored \ From(kept, m + 1) = {kept[j] : j \in 1..m}
  <2>1. ASSUME NEW x \in stored, x \notin From(kept, m + 1) PROVE x \in {kept[j] : j \in 1..m}
    <3>1. PICK i \in 1..n : kept[i] = x
      BY <1>1
    <3>2. i \in 1..m
      BY <1>1, <1>2, <1>5, <2>1, <3>1
    <3> QED
      BY <3>1, <3>2
  <2>2. ASSUME NEW j \in 1..m PROVE kept[j] \in stored /\ kept[j] \notin From(kept, m + 1)
    <3>1. j \in 1..n /\ \A i \in (m + 1)..n : i \in 1..n /\ i # j
      BY <1>1, <1>2, <1>3
    <3> QED
      BY <1>1, <1>5, <3>1
  <2> QED
    BY <2>1, <2>2
<1>8. ToSet(names) = {names[j] : j \in 1..Len(names)}
  BY DEF ToSet
<1>9. {kept[j] : j \in 1..m} = {names[j] : j \in 1..m}
  BY <1>3
<1>10. {names[j] : j \in 1..m} \cup {names[j] : j \in (m + 1)..Len(names)} = {names[j] : j \in 1..Len(names)}
  <2>1. Len(names) \in Nat
    OBVIOUS
  <2>2. \A j : j \in 1..Len(names) <=> j \in 1..m \/ j \in (m + 1)..Len(names)
    BY <1>2, <1>3, <2>1
  <2> QED
    BY <2>2
<1> QED
  BY <1>4, <1>6, <1>7, <1>8, <1>9, <1>10

-----------------------------------------------------------------------------
\* The rollout plan, and the memory of a storage.

SegmentInfo == [keys : SUBSET Keys, till : Nat]
SegmentMaps == Maps(Segment, SegmentInfo)

Memory ==
  [definitions : ExactDefs, rbSegments : ExactRBs, segments : SegmentMaps,
   memberships : [Keys -> SUBSET Segment]]

LEMMA EmptyTally == ASSUME NEW Z PROVE Tally(<<>>, Z) = 0
<1>1. Hits(<<>>, Z) = {}
  BY EmptyMap DEF Hits
<1> QED
  BY <1>1, FS_EmptySet DEF Tally

LEMMA EmptyIsExact == EmptyDefinitions \in ExactDefs /\ EmptyRBSegments \in ExactRBs
<1>1. <<>> \in DefMaps /\ <<>> \in RBMaps
  BY EmptyMap DEF DefMaps, RBMaps
<1>2. \A s : InSet(<<>>, s) = {}
  BY EmptyMap DEF InSet
<1>3. EmptyDefinitions \in DefCaches
  BY <1>1 DEF EmptyDefinitions, DefCaches
<1>4. /\ EmptyDefinitions.defs = <<>> /\ EmptyDefinitions.segments = 0
      /\ \A t \in TrafficType : EmptyDefinitions.tts[t] = 0
      /\ \A s \in FlagSet : EmptyDefinitions.sets[s] = {}
  BY DEF EmptyDefinitions
<1>5. EmptyDefinitions \in ExactDefs
  BY <1>2, <1>3, <1>4, EmptyTally DEF ExactDefs
<1>6. EmptyRBSegments \in RBCaches /\ EmptyRBSegments.rbs = <<>> /\ EmptyRBSegments.segments = 0
  BY <1>1 DEF EmptyRBSegments, RBCaches
<1> QED
  BY <1>5, <1>6, EmptyTally DEF ExactRBs

LEMMA RangeIsFinite == ASSUME NEW m, m = [x \in DOMAIN m |-> m[x]], IsFiniteSet(DOMAIN m) PROVE IsFiniteSet(Range(m))
<1>1. m \in Surjection(DOMAIN m, Range(m))
  BY DEF Surjection, Range
<1> QED
  BY <1>1, FS_Surjection

LEMMA RangesAreFinite ==
  /\ \A m \in DefMaps : IsFiniteSet(Range(m)) /\ Range(m) \subseteq Def
  /\ \A m \in RBMaps : IsFiniteSet(Range(m)) /\ Range(m) \subseteq RBSeg
<1>1. ASSUME NEW m \in DefMaps PROVE IsFiniteSet(Range(m)) /\ Range(m) \subseteq Def
  <2>1. m = [x \in DOMAIN m |-> m[x]] /\ \A x \in DOMAIN m : m[x] \in Def
    BY MapIs DEF DefMaps
  <2> QED
    BY <2>1, MapsAreFinite, RangeIsFinite DEF Range
<1>2. ASSUME NEW m \in RBMaps PROVE IsFiniteSet(Range(m)) /\ Range(m) \subseteq RBSeg
  <2>1. m = [x \in DOMAIN m |-> m[x]] /\ \A x \in DOMAIN m : m[x] \in RBSeg
    BY MapIs DEF RBMaps
  <2> QED
    BY <2>1, MapsAreFinite, RangeIsFinite DEF Range
<1> QED
  BY <1>1, <1>2

\* Rules, named by their change numbers, make exact caches: there is one for them.
LEMMA DefsAreEnough ==
  ASSUME NEW a \in ExactDefs, NEW b \in ExactDefs, a.defs = b.defs, a.cn = b.cn
  PROVE  a = b
<1>1. /\ a = [defs |-> a.defs, tts |-> a.tts, sets |-> a.sets, segments |-> a.segments, cn |-> a.cn]
      /\ b = [defs |-> b.defs, tts |-> b.tts, sets |-> b.sets, segments |-> b.segments, cn |-> b.cn]
      /\ a.tts \in [TrafficType -> Int] /\ b.tts \in [TrafficType -> Int]
      /\ a.sets \in [FlagSet -> SUBSET DefNames] /\ b.sets \in [FlagSet -> SUBSET DefNames]
  BY DEF ExactDefs, DefCaches
<1>2. \A t \in TrafficType : a.tts[t] = b.tts[t]
  BY DEF ExactDefs
<1>3. \A s \in FlagSet : a.sets[s] = b.sets[s]
  BY DEF ExactDefs
<1>4. a.tts = b.tts
  BY <1>1, <1>2
<1>5. a.sets = b.sets
  BY <1>1, <1>3
<1>6. a.segments = b.segments
  BY DEF ExactDefs
<1> QED
  BY <1>1, <1>4, <1>5, <1>6

LEMMA PlanDefinitionsRoundtrip ==
  ASSUME NEW c \in ExactDefs
  PROVE  UpdateDefinitions(EmptyDefinitions, Range(c.defs), {}, c.cn) = c
<1> DEFINE u == UpdateDefinitions(EmptyDefinitions, Range(c.defs), {}, c.cn)
<1>1. c.defs \in DefMaps /\ c.cn \in Int /\ \A n \in DOMAIN c.defs : c.defs[n].name = n
  BY DEF ExactDefs, DefCaches, DefMaps
<1>2. IsFiniteSet(Range(c.defs)) /\ Range(c.defs) \in SUBSET Def /\ IsFiniteSet({}) /\ EmptyDefinitions \in ExactDefs
  BY <1>1, RangesAreFinite, EmptyIsExact, FS_EmptySet
<1>3. EmptyDefinitions.defs = <<>> /\ DOMAIN <<>> = {}
  BY EmptyMap DEF EmptyDefinitions
<1>4. /\ u \in ExactDefs /\ u.cn = c.cn
      /\ \A n \in DOMAIN u.defs :
           u.defs[n] \in Range(c.defs) \/ (n \in DOMAIN EmptyDefinitions.defs /\ u.defs[n] = EmptyDefinitions.defs[n])
      /\ \A d \in Range(c.defs) : d.name \in {} \/ d.name \in DOMAIN u.defs
  BY <1>1, <1>2, UpdateDefinitionsIsExact
<1> HIDE DEF u
<1>5. u.defs \in DefMaps /\ \A n \in DOMAIN u.defs : u.defs[n].name = n
  BY <1>4 DEF ExactDefs, DefCaches, DefMaps
<1>6. \A n \in DOMAIN u.defs : n \in DOMAIN c.defs /\ u.defs[n] = c.defs[n]
  BY <1>1, <1>3, <1>4, <1>5 DEF Range
<1>7. DOMAIN c.defs \subseteq DOMAIN u.defs
  BY <1>1, <1>4 DEF Range
<1>8. u.defs = c.defs
  BY <1>1, <1>5, <1>6, <1>7, SameMaps DEF DefMaps
<1>9. u = c
  BY <1>4, <1>8, DefsAreEnough
<1> QED
  BY <1>9 DEF u

LEMMA PlanRBSegmentsRoundtrip ==
  ASSUME NEW c \in ExactRBs
  PROVE  UpdateRBSegments(EmptyRBSegments, Range(c.rbs), {}, c.cn) = c
<1> DEFINE u == UpdateRBSegments(EmptyRBSegments, Range(c.rbs), {}, c.cn)
<1>1. /\ c.rbs \in RBMaps /\ c.cn \in Int /\ \A n \in DOMAIN c.rbs : c.rbs[n].name = n
      /\ c = [rbs |-> c.rbs, segments |-> c.segments, cn |-> c.cn]
      /\ c.segments = Tally(c.rbs, UsingRB)
  BY DEF ExactRBs, RBCaches, RBMaps
<1>2. IsFiniteSet(Range(c.rbs)) /\ Range(c.rbs) \in SUBSET RBSeg /\ IsFiniteSet({}) /\ EmptyRBSegments \in ExactRBs
  BY <1>1, RangesAreFinite, EmptyIsExact, FS_EmptySet
<1>3. EmptyRBSegments.rbs = <<>> /\ DOMAIN <<>> = {}
  BY EmptyMap DEF EmptyRBSegments
<1>4. /\ u \in ExactRBs /\ u.cn = c.cn
      /\ \A n \in DOMAIN u.rbs :
           u.rbs[n] \in Range(c.rbs) \/ (n \in DOMAIN EmptyRBSegments.rbs /\ u.rbs[n] = EmptyRBSegments.rbs[n])
      /\ \A d \in Range(c.rbs) : d.name \in {} \/ d.name \in DOMAIN u.rbs
  BY <1>1, <1>2, UpdateRBSegmentsIsExact
<1> HIDE DEF u
<1>5. /\ u.rbs \in RBMaps /\ \A n \in DOMAIN u.rbs : u.rbs[n].name = n
      /\ u = [rbs |-> u.rbs, segments |-> u.segments, cn |-> u.cn]
      /\ u.segments = Tally(u.rbs, UsingRB)
  BY <1>4 DEF ExactRBs, RBCaches, RBMaps
<1>6. \A n \in DOMAIN u.rbs : n \in DOMAIN c.rbs /\ u.rbs[n] = c.rbs[n]
  BY <1>1, <1>3, <1>4, <1>5 DEF Range
<1>7. DOMAIN c.rbs \subseteq DOMAIN u.rbs
  BY <1>1, <1>4 DEF Range
<1>8. u.rbs = c.rbs
  BY <1>1, <1>5, <1>6, <1>7, SameMaps DEF RBMaps
<1>9. u = c
  BY <1>1, <1>4, <1>5, <1>8
<1> QED
  BY <1>9 DEF u

LEMMA PlanSegmentsRoundtrip ==
  ASSUME NEW plan, plan.segmentChanges \in SegmentMaps
  PROVE  PlanSegments(plan) = plan.segmentChanges
<1> DEFINE S == DOMAIN plan.segmentChanges
           Q == [s \in SUBSET S |->
                   {m \in SegmentMaps : DOMAIN m = s /\ \A n \in s : m[n] = plan.segmentChanges[n]}]
<1>1. S \in SUBSET Segment /\ \A n \in S : plan.segmentChanges[n] \in SegmentInfo
  BY MapIs DEF SegmentMaps
<1>2. IsFiniteSet(S)
  BY <1>1, FS_Subset, StoragesAssumption
<1>3. Q \in [SUBSET S -> SUBSET SegmentMaps] /\ <<>> \in Q[{}]
  BY EmptyMap DEF SegmentMaps
<1>4. ASSUME NEW s \in SUBSET S, NEW x \in s, NEW m \in Q[s \ {x}]
      PROVE  UpdateSegment(m, x, plan.segmentChanges[x].keys, {}, plan.segmentChanges[x].till) \in Q[s]
  <2> DEFINE v == plan.segmentChanges[x]
             w == UpdateSegment(m, x, v.keys, {}, v.till)
  <2>1. /\ v \in SegmentInfo /\ x \in Segment
        /\ m \in SegmentMaps /\ DOMAIN m = s \ {x} /\ \A n \in s \ {x} : m[n] = plan.segmentChanges[n]
    BY <1>1, <1>4
  <2>2. w = With(m, x, v)
    <3>1. v.keys \subseteq Keys /\ v = [keys |-> v.keys, till |-> v.till]
      BY <2>1 DEF SegmentInfo
    <3>2. [keys |-> ({} \cup v.keys) \ {}, till |-> v.till] = v
      BY <3>1
    <3> QED BY <2>1, <3>2 DEF UpdateSegment
  <2>3. With(m, x, v) \in SegmentMaps
    BY <2>1, WithMaps DEF SegmentMaps
  <2>4. DOMAIN With(m, x, v) = s /\ \A n \in s : With(m, x, v)[n] = plan.segmentChanges[n]
    BY <2>1 DEF With
  <2> QED
    BY <2>2, <2>3, <2>4
<1>5. PlanSegments(plan) \in Q[S]
  <2>1. \A s \in SUBSET S : \A x \in s : \A a \in Q[s \ {x}] :
          UpdateSegment(a, x, plan.segmentChanges[x].keys, {}, plan.segmentChanges[x].till) \in Q[s]
    BY <1>4
  <2> DEFINE c == <<>>
  <2>2. c \in Q[{}] /\ IsPlanFold(plan, S, c)
    BY <1>3 DEF IsPlanFold
  <2> HIDE DEF Q, S, c
  <2> QED BY <1>2, <1>3, <2>1, <2>2, FoldsPlanSegments
<1>6. PlanSegments(plan) \in SegmentMaps /\ DOMAIN PlanSegments(plan) = S
      /\ \A n \in S : PlanSegments(plan)[n] = plan.segmentChanges[n]
  BY <1>5
<1> QED
  BY <1>6, SameMaps DEF SegmentMaps

LEMMA SortedRange ==
  ASSUME NEW S \in SUBSET Nat, IsFiniteSet(S)
  PROVE  ToSet(Sorted(S)) = S /\ Sorted(S) \in Seq(Nat)
<1> DEFINE s == Sorted(S)
           n == Cardinality(S)
<1>1. s \in Seq(S) /\ Len(s) = n /\ \A x \in S : \E i \in 1..n : s[i] = x
  BY SortedIs
<1> HIDE DEF s, n
<1>2. s \in Seq(Nat) /\ DOMAIN s = 1..n /\ \A i \in DOMAIN s : s[i] \in S
  <2>1. DOMAIN s = 1..n /\ \A i \in DOMAIN s : s[i] \in S
    BY <1>1
  <2>2. s = [i \in 1..n |-> s[i]] /\ n \in Nat
    BY <1>1
  <2>3. s \in [1..n -> Nat]
    BY <2>1, <2>2
  <2> QED
    BY <2>1, <2>2, <2>3
<1>3. ToSet(s) = S
  BY <1>1, <1>2 DEF ToSet
<1> QED
  BY <1>2, <1>3 DEF s

LEMMA PlanMembershipsIs ==
  ASSUME NEW plan, NEW key, NEW stored \in SUBSET Segment, PlanNames(plan, key) \in SUBSET Segment
  PROVE  PlanMemberships(plan, key, stored) = PlanNames(plan, key)
<1> DEFINE listed == PlanNames(plan, key)
<1>1. IsFiniteSet(stored) /\ IsFiniteSet(listed) /\ stored \in SUBSET Nat /\ listed \in SUBSET Nat
  BY FS_Subset, StoragesAssumption
<1>2. ToSet(Sorted(listed)) = listed /\ Sorted(listed) \in Seq(Nat)
  BY <1>1, SortedRange
<1>3. ResetSegments(stored, Sorted(listed)) = listed
  BY <1>1, <1>2, ResetSegmentsIs
<1> QED
  BY <1>3 DEF PlanMemberships

LEMMA PlanRoundtripIsExact ==
  ASSUME NEW m \in Memory
  PROVE  LET plan == GetRolloutPlan(m.definitions, m.rbSegments, m.segments, m.memberships)
         IN /\ PlanDefinitions(plan) = m.definitions
            /\ PlanRBSegments(plan) = m.rbSegments
            /\ PlanSegments(plan) = m.segments
            /\ \A key \in Keys : PlanMemberships(plan, key, {}) = m.memberships[key]
<1> DEFINE plan == GetRolloutPlan(m.definitions, m.rbSegments, m.segments, m.memberships)
<1>1. /\ m.definitions \in ExactDefs /\ m.rbSegments \in ExactRBs /\ m.segments \in SegmentMaps
      /\ m.memberships \in [Keys -> SUBSET Segment]
  BY DEF Memory
<1>2. /\ plan.t = m.definitions.cn /\ plan.d = Range(m.definitions.defs)
      /\ plan.rbt = m.rbSegments.cn /\ plan.rbd = Range(m.rbSegments.rbs)
      /\ plan.segmentChanges = m.segments /\ plan.memberships = m.memberships
  BY DEF GetRolloutPlan
<1> HIDE DEF plan
<1>3. PlanDefinitions(plan) = m.definitions
  BY <1>1, <1>2, PlanDefinitionsRoundtrip DEF PlanDefinitions
<1>4. PlanRBSegments(plan) = m.rbSegments
  BY <1>1, <1>2, PlanRBSegmentsRoundtrip DEF PlanRBSegments
<1>5. PlanSegments(plan) = m.segments
  BY <1>1, <1>2, PlanSegmentsRoundtrip
<1>6. ASSUME NEW key \in Keys PROVE PlanMemberships(plan, key, {}) = m.memberships[key]
  <2>1. PlanNames(plan, key) = m.memberships[key] /\ m.memberships[key] \in SUBSET Segment /\ {} \in SUBSET Segment
    BY <1>1, <1>2 DEF PlanNames
  <2>2. PlanMemberships(plan, key, {}) = PlanNames(plan, key)
    BY <2>1, PlanMembershipsIs
  <2> QED
    BY <2>1, <2>2
<1> QED
  BY <1>3, <1>4, <1>5, <1>6 DEF plan

-----------------------------------------------------------------------------
\* The items of the local storages: a class of keys, or a key, has a type.

ItemKeys ==
  {DefinitionKey(n) : n \in DefNames} \cup {RBSegmentKey(n) : n \in RBNames}
    \cup {TrafficTypeKey(t) : t \in TrafficType} \cup {SetKey(s) : s \in FlagSet}
    \cup {SegmentKey(k, n) : k \in Keys, n \in Segment}
    \cup {TillKey, LastUpdatedKey, UsingSegmentsKey, RBTillKey, HashKey, LastClearKey}

Slot(k) ==
  IF k[1] = "split" THEN {d \in Def : d.name = k[2]}
  ELSE IF k[1] = "rbsegment" THEN {r \in RBSeg : r.name = k[2]}
  ELSE IF k[1] = "flagSet" THEN SUBSET DefNames
  ELSE IF k[1] = "segment" THEN {"1"}
  ELSE IF k[1] = "hash" THEN Hashes
  ELSE IF k[1] = "lastClear" \/ (k[1] = "splits" /\ k[2] = "lastUpdated") THEN {"recent", "old"}
  ELSE Nat

Anything == UNION {Slot(k) : k \in ItemKeys}
Items == {i \in Maps(ItemKeys, Anything) : \A k \in DOMAIN i : i[k] \in Slot(k)}

\* The keys that the rules leave alone.
IsMeta(k) == k[1] \in {"segment", "hash", "lastClear", "rbsegments"} \/ k = TillKey \/ k = LastUpdatedKey
IsCount(k) == k[1] = "trafficType" \/ k = UsingSegmentsKey

DefsOf(i) == [n \in NamesOf(i, "split") |-> i[DefinitionKey(n)]]
RBsOf(i) == [n \in NamesOf(i, "rbsegment") |-> i[RBSegmentKey(n)]]

\* Two maps that agree at a key.
At(i, j, k) == (k \in DOMAIN i <=> k \in DOMAIN j) /\ (k \in DOMAIN i => j[k] = i[k])

LEMMA KeysAre ==
  /\ \A n : DefinitionKey(n)[1] = "split" /\ DefinitionKey(n)[2] = n
  /\ \A n : RBSegmentKey(n)[1] = "rbsegment" /\ RBSegmentKey(n)[2] = n
  /\ \A t : TrafficTypeKey(t)[1] = "trafficType" /\ TrafficTypeKey(t)[2] = t
  /\ \A s : SetKey(s)[1] = "flagSet" /\ SetKey(s)[2] = s
  /\ \A k, n : SegmentKey(k, n)[1] = "segment" /\ SegmentKey(k, n)[2] = k /\ SegmentKey(k, n)[3] = n
  /\ TillKey[1] = "splits" /\ TillKey[2] = "till"
  /\ LastUpdatedKey[1] = "splits" /\ LastUpdatedKey[2] = "lastUpdated"
  /\ UsingSegmentsKey[1] = "splits" /\ UsingSegmentsKey[2] = "usingSegments"
  /\ RBTillKey[1] = "rbsegments" /\ HashKey[1] = "hash" /\ LastClearKey[1] = "lastClear"
BY DEF DefinitionKey, RBSegmentKey, TrafficTypeKey, SetKey, SegmentKey, TillKey, LastUpdatedKey,
       UsingSegmentsKey, RBTillKey, HashKey, LastClearKey

\* A key of a class is the key of what it names.
LEMMA KeysOf ==
  ASSUME NEW k \in ItemKeys
  PROVE  /\ k[1] = "split" => k[2] \in DefNames /\ k = DefinitionKey(k[2])
         /\ k[1] = "rbsegment" => k[2] \in RBNames /\ k = RBSegmentKey(k[2])
         /\ k[1] = "trafficType" => k[2] \in TrafficType /\ k = TrafficTypeKey(k[2])
         /\ k[1] = "flagSet" => k[2] \in FlagSet /\ k = SetKey(k[2])
         /\ k[1] = "segment" => k[2] \in Keys /\ k[3] \in Segment /\ k = SegmentKey(k[2], k[3])
         /\ k[1] = "splits" => k \in {TillKey, LastUpdatedKey, UsingSegmentsKey}
         /\ k[1] = "rbsegments" => k = RBTillKey
         /\ k[1] = "hash" => k = HashKey
         /\ k[1] = "lastClear" => k = LastClearKey
         /\ k[1] \in {"split", "rbsegment", "trafficType", "flagSet", "segment", "splits", "rbsegments", "hash",
                      "lastClear"}
BY KeysAre DEF ItemKeys

LEMMA KeysIn ==
  /\ \A n \in DefNames : DefinitionKey(n) \in ItemKeys
  /\ \A n \in RBNames : RBSegmentKey(n) \in ItemKeys
  /\ \A t \in TrafficType : TrafficTypeKey(t) \in ItemKeys
  /\ \A s \in FlagSet : SetKey(s) \in ItemKeys
  /\ \A k \in Keys, n \in Segment : SegmentKey(k, n) \in ItemKeys
  /\ {TillKey, LastUpdatedKey, UsingSegmentsKey, RBTillKey, HashKey, LastClearKey} \subseteq ItemKeys
BY DEF ItemKeys

LEMMA Slots ==
  /\ \A n : Slot(DefinitionKey(n)) = {d \in Def : d.name = n}
  /\ \A n : Slot(RBSegmentKey(n)) = {r \in RBSeg : r.name = n}
  /\ \A t : Slot(TrafficTypeKey(t)) = Nat
  /\ \A s : Slot(SetKey(s)) = SUBSET DefNames
  /\ \A k, n : Slot(SegmentKey(k, n)) = {"1"}
  /\ Slot(TillKey) = Nat /\ Slot(RBTillKey) = Nat /\ Slot(UsingSegmentsKey) = Nat
  /\ Slot(HashKey) = Hashes
  /\ Slot(LastUpdatedKey) = {"recent", "old"} /\ Slot(LastClearKey) = {"recent", "old"}
BY KeysAre DEF Slot

LEMMA ItemsWith ==
  ASSUME NEW i \in Items
  PROVE  /\ \A k \in DOMAIN i : k \in ItemKeys /\ i[k] \in Slot(k)
         /\ \A k \in ItemKeys : \A v \in Slot(k) : With(i, k, v) \in Items
         /\ \A K : Without(i, K) \in Items
<1>1. i \in Maps(ItemKeys, Anything) /\ \A k \in DOMAIN i : i[k] \in Slot(k)
  BY DEF Items
<1>2. \A k \in DOMAIN i : k \in ItemKeys
  BY <1>1, MapIs
<1>3. ASSUME NEW k \in ItemKeys, NEW v \in Slot(k) PROVE With(i, k, v) \in Items
  <2>1. v \in Anything
    BY DEF Anything
  <2>2. With(i, k, v) \in Maps(ItemKeys, Anything)
    BY <1>1, <2>1, WithMaps
  <2>3. \A x \in DOMAIN With(i, k, v) : With(i, k, v)[x] \in Slot(x)
    BY <1>1 DEF With
  <2> QED
    BY <2>2, <2>3 DEF Items
<1>4. ASSUME NEW K PROVE Without(i, K) \in Items
  <2>1. Without(i, K) \in Maps(ItemKeys, Anything)
    BY <1>1, WithoutMaps
  <2>2. \A x \in DOMAIN Without(i, K) : Without(i, K)[x] \in Slot(x)
    BY <1>1 DEF Without
  <2> QED
    BY <2>1, <2>2 DEF Items
<1> QED
  BY <1>1, <1>2, <1>3, <1>4

LEMMA DefsOfIs ==
  ASSUME NEW i \in Items
  PROVE  /\ DefsOf(i) \in DefMaps /\ RBsOf(i) \in RBMaps
         /\ \A n : n \in DOMAIN DefsOf(i) <=> DefinitionKey(n) \in DOMAIN i
         /\ \A n : n \in DOMAIN RBsOf(i) <=> RBSegmentKey(n) \in DOMAIN i
         /\ \A n \in DOMAIN DefsOf(i) : DefsOf(i)[n] = i[DefinitionKey(n)]
         /\ \A n \in DOMAIN RBsOf(i) : RBsOf(i)[n] = i[RBSegmentKey(n)]
         /\ DOMAIN DefsOf(i) = NamesOf(i, "split") /\ DOMAIN RBsOf(i) = NamesOf(i, "rbsegment")
<1>1. \A k \in DOMAIN i : k \in ItemKeys /\ i[k] \in Slot(k)
  BY ItemsWith
<1>2. /\ DOMAIN DefsOf(i) = NamesOf(i, "split") /\ DOMAIN RBsOf(i) = NamesOf(i, "rbsegment")
      /\ \A n \in DOMAIN DefsOf(i) : DefsOf(i)[n] = i[DefinitionKey(n)]
      /\ \A n \in DOMAIN RBsOf(i) : RBsOf(i)[n] = i[RBSegmentKey(n)]
  BY DEF DefsOf, RBsOf
<1>3. ASSUME NEW n PROVE n \in DOMAIN DefsOf(i) <=> DefinitionKey(n) \in DOMAIN i
  BY <1>1, <1>2, KeysAre, KeysOf DEF NamesOf
<1>4. ASSUME NEW n PROVE n \in DOMAIN RBsOf(i) <=> RBSegmentKey(n) \in DOMAIN i
  BY <1>1, <1>2, KeysAre, KeysOf DEF NamesOf
<1>5. \A n \in DOMAIN DefsOf(i) : n \in DefNames /\ DefsOf(i)[n] \in Def /\ DefsOf(i)[n].name = n
  <2> SUFFICES ASSUME NEW n \in DOMAIN DefsOf(i) PROVE n \in DefNames /\ DefsOf(i)[n] \in Def /\ DefsOf(i)[n].name = n
    OBVIOUS
  <2>1. DefinitionKey(n) \in DOMAIN i /\ DefinitionKey(n) \in ItemKeys
    BY <1>1, <1>3
  <2>2. n \in DefNames
    BY <2>1, KeysAre, KeysOf
  <2>3. i[DefinitionKey(n)] \in {d \in Def : d.name = n}
    BY <1>1, <2>1, Slots
  <2> QED
    BY <1>2, <2>2, <2>3
<1>6. \A n \in DOMAIN RBsOf(i) : n \in RBNames /\ RBsOf(i)[n] \in RBSeg /\ RBsOf(i)[n].name = n
  <2> SUFFICES ASSUME NEW n \in DOMAIN RBsOf(i) PROVE n \in RBNames /\ RBsOf(i)[n] \in RBSeg /\ RBsOf(i)[n].name = n
    OBVIOUS
  <2>1. RBSegmentKey(n) \in DOMAIN i /\ RBSegmentKey(n) \in ItemKeys
    BY <1>1, <1>4
  <2>2. n \in RBNames
    BY <2>1, KeysAre, KeysOf
  <2>3. i[RBSegmentKey(n)] \in {r \in RBSeg : r.name = n}
    BY <1>1, <2>1, Slots
  <2> QED
    BY <1>2, <2>2, <2>3
<1>7. DefsOf(i) = [n \in DOMAIN DefsOf(i) |-> DefsOf(i)[n]] /\ RBsOf(i) = [n \in DOMAIN RBsOf(i) |-> RBsOf(i)[n]]
  BY DEF DefsOf, RBsOf
<1>8. DefsOf(i) \in DefMaps
  BY <1>5, <1>7, MapIs DEF DefMaps
<1>9. RBsOf(i) \in RBMaps
  BY <1>6, <1>7, MapIs DEF RBMaps
<1> QED
  BY <1>2, <1>3, <1>4, <1>8, <1>9

-----------------------------------------------------------------------------
\* What the operations on items do to the counts, to the indexes and to the rest.

Pos(n) == IF n > 0 THEN n ELSE 0

LEMMA NumberIs ==
  ASSUME NEW i \in Items, NEW k \in ItemKeys, IsCount(k)
  PROVE  Number(i, k) \in Nat /\ Slot(k) = Nat
<1>1. Slot(k) = Nat
  BY KeysAre, KeysOf, Slots DEF IsCount
<1> QED
  BY <1>1, ItemsWith DEF Number

LEMMA WithAt ==
  ASSUME NEW i, NEW k, NEW v
  PROVE  \A x : x # k => At(i, With(i, k, v), x) /\ At(i, Without(i, {k}), x)
BY DEF With, Without, At

LEMMA AtIsTransitive ==
  ASSUME NEW i, NEW j, NEW l, NEW k, At(i, j, k), At(j, l, k)
  PROVE  At(i, l, k)
BY DEF At

LEMMA SetCountIs ==
  ASSUME NEW i \in Items, NEW k \in ItemKeys, IsCount(k), NEW n \in Int
  PROVE  /\ SetCount(i, k, n) \in Items
         /\ Number(SetCount(i, k, n), k) = Pos(n)
         /\ \A x : x # k => At(i, SetCount(i, k, n), x)
<1>1. CASE n > 0
  <2>1. n \in Slot(k)
    BY <1>1, NumberIs
  <2>2. With(i, k, n) \in Items
    BY <2>1, ItemsWith
  <2>3. Number(With(i, k, n), k) = n
    BY DEF Number, With
  <2> QED
    BY <1>1, <2>2, <2>3, WithAt DEF SetCount, Pos
<1>2. CASE ~(n > 0)
  <2>1. Without(i, {k}) \in Items
    BY ItemsWith
  <2>2. Number(Without(i, {k}), k) = 0
    BY DEF Number, Without
  <2> QED
    BY <1>2, <2>1, <2>2, WithAt DEF SetCount, Pos
<1> QED
  BY <1>1, <1>2

LEMMA NumberAt ==
  ASSUME NEW i, NEW j, NEW k, At(i, j, k)
  PROVE  Number(j, k) = Number(i, k)
BY DEF At, Number

\* One less, and one more.
LEMMA DecrementIs ==
  ASSUME NEW i \in Items, NEW k \in ItemKeys, IsCount(k)
  PROVE  /\ LocalDecrement(i, k) \in Items
         /\ Number(LocalDecrement(i, k), k) = Pos(Number(i, k) - 1)
         /\ \A x : x # k => At(i, LocalDecrement(i, k), x)
<1>1. Number(i, k) - 1 \in Int
  BY NumberIs
<1> QED
  BY <1>1, SetCountIs DEF LocalDecrement

LEMMA IncrementIs ==
  ASSUME NEW i \in Items, NEW k \in ItemKeys, IsCount(k)
  PROVE  LET j == With(i, k, Number(i, k) + 1)
         IN j \in Items /\ Number(j, k) = Number(i, k) + 1 /\ \A x : x # k => At(i, j, x)
<1>1. Number(i, k) + 1 \in Slot(k)
  BY NumberIs
<1>2. With(i, k, Number(i, k) + 1) \in Items
  BY <1>1, ItemsWith
<1>3. Number(With(i, k, Number(i, k) + 1), k) = Number(i, k) + 1
  BY DEF Number, With
<1> QED
  BY <1>2, <1>3, WithAt

LEMMA CountKeys ==
  /\ \A t \in TrafficType : TrafficTypeKey(t) \in ItemKeys /\ IsCount(TrafficTypeKey(t)) /\ TrafficTypeKey(t) # UsingSegmentsKey
  /\ UsingSegmentsKey \in ItemKeys /\ IsCount(UsingSegmentsKey)
  /\ \A t, u : TrafficTypeKey(t) = TrafficTypeKey(u) => t = u
BY KeysIn, KeysAre DEF IsCount

LEMMA DecrementCountsIs ==
  ASSUME NEW i \in Items, NEW d \in Def
  PROVE  LET j == LocalDecrementCounts(i, d)
         IN /\ j \in Items
            /\ \A t \in TrafficType :
                 Number(j, TrafficTypeKey(t)) = Pos(Number(i, TrafficTypeKey(t)) - Count(d.trafficType = t))
            /\ Number(j, UsingSegmentsKey) = Pos(Number(i, UsingSegmentsKey) - Count(UsesSegments(d)))
            /\ \A x : ~IsCount(x) => At(i, j, x)
<1> DEFINE k == TrafficTypeKey(d.trafficType)
           dec == LocalDecrement(i, k)
           j == LocalDecrementCounts(i, d)
<1>1. d.trafficType \in TrafficType /\ k \in ItemKeys /\ IsCount(k) /\ k # UsingSegmentsKey
  BY CountKeys DEF Def
<1>2. dec \in Items /\ Number(dec, k) = Pos(Number(i, k) - 1) /\ \A x : x # k => At(i, dec, x)
  BY <1>1, DecrementIs
<1>3. j = IF UsesSegments(d) THEN LocalDecrement(dec, UsingSegmentsKey) ELSE dec
  BY DEF LocalDecrementCounts
<1> HIDE DEF dec, j
<1>4. /\ j \in Items
      /\ Number(j, UsingSegmentsKey) = Pos(Number(dec, UsingSegmentsKey) - Count(UsesSegments(d)))
      /\ \A x : x # UsingSegmentsKey => At(dec, j, x)
  <2>1. CASE UsesSegments(d)
    BY <1>2, <1>3, <2>1, DecrementIs, CountKeys DEF Count
  <2>2. CASE ~UsesSegments(d)
    BY <1>2, <1>3, <2>2, NumberIs, CountKeys DEF Count, Pos, At
  <2> QED
    BY <2>1, <2>2
<1>5. Number(dec, UsingSegmentsKey) = Number(i, UsingSegmentsKey)
  BY <1>1, <1>2, NumberAt
<1>6. ASSUME NEW t \in TrafficType
      PROVE  Number(j, TrafficTypeKey(t)) = Pos(Number(i, TrafficTypeKey(t)) - Count(d.trafficType = t))
  <2>1. Number(j, TrafficTypeKey(t)) = Number(dec, TrafficTypeKey(t))
    BY <1>4, NumberAt, CountKeys
  <2>2. CASE d.trafficType = t
    BY <1>2, <2>1, <2>2 DEF Count
  <2>3. CASE d.trafficType # t
    <3>1. Number(dec, TrafficTypeKey(t)) = Number(i, TrafficTypeKey(t))
      BY <1>2, <2>3, NumberAt, CountKeys
    <3>2. Number(i, TrafficTypeKey(t)) \in Nat
      BY NumberIs, CountKeys
    <3> QED
      BY <2>1, <2>3, <3>1, <3>2 DEF Count, Pos
  <2> QED
    BY <2>2, <2>3
<1>7. ASSUME NEW x, ~IsCount(x) PROVE At(i, j, x)
  <2>1. x # k /\ x # UsingSegmentsKey
    BY <1>1, <1>7, CountKeys
  <2> QED
    BY <1>2, <1>4, <2>1, AtIsTransitive
<1> QED
  BY <1>4, <1>5, <1>6, <1>7 DEF j

LEMMA IncrementCountsIs ==
  ASSUME NEW i \in Items, NEW d \in Def
  PROVE  LET j == LocalIncrementCounts(i, d)
         IN /\ j \in Items
            /\ \A t \in TrafficType :
                 Number(j, TrafficTypeKey(t)) = Number(i, TrafficTypeKey(t)) + Count(d.trafficType = t)
            /\ Number(j, UsingSegmentsKey) = Number(i, UsingSegmentsKey) + Count(UsesSegments(d))
            /\ \A x : ~IsCount(x) => At(i, j, x)
<1> DEFINE k == TrafficTypeKey(d.trafficType)
           inc == With(i, k, Number(i, k) + 1)
           j == LocalIncrementCounts(i, d)
<1>1. d.trafficType \in TrafficType /\ k \in ItemKeys /\ IsCount(k) /\ k # UsingSegmentsKey
  BY CountKeys DEF Def
<1>2. inc \in Items /\ Number(inc, k) = Number(i, k) + 1 /\ \A x : x # k => At(i, inc, x)
  BY <1>1, IncrementIs
<1>3. j = IF UsesSegments(d) THEN With(inc, UsingSegmentsKey, Number(inc, UsingSegmentsKey) + 1) ELSE inc
  BY DEF LocalIncrementCounts
<1> HIDE DEF inc, j
<1>4. /\ j \in Items
      /\ Number(j, UsingSegmentsKey) = Number(inc, UsingSegmentsKey) + Count(UsesSegments(d))
      /\ \A x : x # UsingSegmentsKey => At(inc, j, x)
  <2>1. CASE UsesSegments(d)
    BY <1>2, <1>3, <2>1, IncrementIs, CountKeys DEF Count
  <2>2. CASE ~UsesSegments(d)
    BY <1>2, <1>3, <2>2, NumberIs, CountKeys DEF Count, At
  <2> QED
    BY <2>1, <2>2
<1>5. Number(inc, UsingSegmentsKey) = Number(i, UsingSegmentsKey)
  BY <1>1, <1>2, NumberAt
<1>6. ASSUME NEW t \in TrafficType
      PROVE  Number(j, TrafficTypeKey(t)) = Number(i, TrafficTypeKey(t)) + Count(d.trafficType = t)
  <2>1. Number(j, TrafficTypeKey(t)) = Number(inc, TrafficTypeKey(t))
    BY <1>4, NumberAt, CountKeys
  <2>2. CASE d.trafficType = t
    BY <1>2, <2>1, <2>2 DEF Count
  <2>3. CASE d.trafficType # t
    <3>1. Number(inc, TrafficTypeKey(t)) = Number(i, TrafficTypeKey(t))
      BY <1>2, <2>3, NumberAt, CountKeys
    <3>2. Number(i, TrafficTypeKey(t)) \in Nat
      BY NumberIs, CountKeys
    <3> QED
      BY <2>1, <2>3, <3>1, <3>2 DEF Count
  <2> QED
    BY <2>2, <2>3
<1>7. ASSUME NEW x, ~IsCount(x) PROVE At(i, j, x)
  <2>1. x # k /\ x # UsingSegmentsKey
    BY <1>1, <1>7, CountKeys
  <2> QED
    BY <1>2, <1>4, <2>1, AtIsTransitive
<1> QED
  BY <1>4, <1>5, <1>6, <1>7 DEF j

\* The index of a flag set.
LEMMA NamesAt ==
  ASSUME NEW i, NEW j, NEW s, At(i, j, SetKey(s))
  PROVE  LocalNamesBySets(j, s) = LocalNamesBySets(i, s)
BY DEF At, LocalNamesBySets

LEMMA NamesAreNames ==
  ASSUME NEW i \in Items, NEW s \in FlagSet
  PROVE  LocalNamesBySets(i, s) \in SUBSET DefNames
BY ItemsWith, Slots DEF LocalNamesBySets

LEMMA PutNameIs ==
  ASSUME NEW i \in Items, NEW s \in FlagSet, NEW name \in DefNames
  PROVE  /\ LocalPutName(i, s, name) \in Items
         /\ LocalNamesBySets(LocalPutName(i, s, name), s) = LocalNamesBySets(i, s) \cup {name}
         /\ \A x : x # SetKey(s) => At(i, LocalPutName(i, s, name), x)
<1> DEFINE v == LocalNamesBySets(i, s) \cup {name}
<1>1. SetKey(s) \in ItemKeys /\ v \in Slot(SetKey(s))
  BY KeysIn, Slots, NamesAreNames
<1>2. With(i, SetKey(s), v) \in Items
  BY <1>1, ItemsWith
<1>3. LocalNamesBySets(With(i, SetKey(s), v), s) = v
  BY DEF LocalNamesBySets, With
<1> QED
  BY <1>2, <1>3, WithAt DEF LocalPutName

LEMMA DropNameIs ==
  ASSUME NEW i \in Items, NEW s \in FlagSet, NEW name \in DefNames
  PROVE  /\ LocalDropName(i, s, name) \in Items
         /\ LocalNamesBySets(LocalDropName(i, s, name), s) = LocalNamesBySets(i, s) \ {name}
         /\ \A x : x # SetKey(s) => At(i, LocalDropName(i, s, name), x)
<1>1. CASE LocalNamesBySets(i, s) \subseteq {name}
  <2>1. Without(i, {SetKey(s)}) \in Items
    BY ItemsWith
  <2>2. LocalNamesBySets(Without(i, {SetKey(s)}), s) = {}
    BY DEF LocalNamesBySets, Without
  <2>3. LocalNamesBySets(i, s) \ {name} = {}
    BY <1>1
  <2> QED
    BY <1>1, <2>1, <2>2, <2>3, WithAt DEF LocalDropName
<1>2. CASE ~(LocalNamesBySets(i, s) \subseteq {name})
  <2> DEFINE v == i[SetKey(s)] \ {name}
  <2>1. SetKey(s) \in DOMAIN i /\ i[SetKey(s)] = LocalNamesBySets(i, s)
    BY <1>2 DEF LocalNamesBySets
  <2>2. SetKey(s) \in ItemKeys /\ v \in Slot(SetKey(s))
    BY <2>1, KeysIn, Slots, NamesAreNames
  <2>3. With(i, SetKey(s), v) \in Items
    BY <2>2, ItemsWith
  <2>4. LocalNamesBySets(With(i, SetKey(s), v), s) = v
    BY DEF LocalNamesBySets, With
  <2> QED
    BY <1>2, <2>1, <2>3, <2>4, WithAt DEF LocalDropName
<1> QED
  BY <1>1, <1>2

LEMMA AddToSetsIs ==
  ASSUME NEW i \in Items, NEW d \in Def
  PROVE  LET j == LocalAddToSets(i, d)
         IN /\ j \in Items
            /\ \A s \in FlagSet : LocalNamesBySets(j, s) =
                 IF s \in d.sets /\ Passes(s) THEN LocalNamesBySets(i, s) \cup {d.name} ELSE LocalNamesBySets(i, s)
            /\ \A x : x[1] # "flagSet" => At(i, j, x)
<1> DEFINE S == {s \in d.sets : Passes(s)}
           Q == [U \in SUBSET S |->
                   {j \in Items :
                      /\ \A s \in FlagSet : LocalNamesBySets(j, s) =
                           IF s \in U THEN LocalNamesBySets(i, s) \cup {d.name} ELSE LocalNamesBySets(i, s)
                      /\ \A x : x[1] # "flagSet" => At(i, j, x)}]
<1>1. d.name \in DefNames /\ S \in SUBSET FlagSet /\ PassingSets(d, S)
  BY DEF Def, PassingSets
<1>2. IsFiniteSet(S)
  BY <1>1, FS_Subset, StoragesAssumption
<1>3. Q \in [SUBSET S -> SUBSET Items] /\ i \in Q[{}]
  BY DEF At
<1>4. ASSUME NEW U \in SUBSET S, NEW x \in U, NEW a \in Q[U \ {x}] PROVE LocalPutName(a, x, d.name) \in Q[U]
  <2> DEFINE b == LocalPutName(a, x, d.name)
  <2>1. /\ a \in Items /\ x \in FlagSet
        /\ \A s \in FlagSet : LocalNamesBySets(a, s) =
             IF s \in U \ {x} THEN LocalNamesBySets(i, s) \cup {d.name} ELSE LocalNamesBySets(i, s)
        /\ \A k : k[1] # "flagSet" => At(i, a, k)
    BY <1>1, <1>4
  <2>2. /\ b \in Items /\ LocalNamesBySets(b, x) = LocalNamesBySets(a, x) \cup {d.name}
        /\ \A k : k # SetKey(x) => At(a, b, k)
    BY <1>1, <2>1, PutNameIs
  <2> HIDE DEF b, S
  <2>3. ASSUME NEW s \in FlagSet, s # x PROVE LocalNamesBySets(b, s) = LocalNamesBySets(a, s)
    <3>1. SetKey(s) # SetKey(x)
      BY <2>3, KeysAre
    <3>2. At(a, b, SetKey(s))
      BY <2>2, <3>1
    <3> QED
      BY <3>2, NamesAt
  <2>4. \A s \in FlagSet : LocalNamesBySets(b, s) =
          IF s \in U THEN LocalNamesBySets(i, s) \cup {d.name} ELSE LocalNamesBySets(i, s)
    BY <2>1, <2>2, <2>3
  <2>5. ASSUME NEW k, k[1] # "flagSet" PROVE At(i, b, k)
    <3>1. k # SetKey(x)
      BY <2>5, KeysAre
    <3> QED
      BY <2>1, <2>2, <2>5, <3>1, AtIsTransitive
  <2>6. b \in Q[U]
    BY <2>2, <2>4, <2>5
  <2> QED
    BY <2>6 DEF b
<1>5. LocalAddToSets(i, d) \in Q[S]
  <2> HIDE DEF Q, S
  <2> QED BY <1>1, <1>2, <1>3, <1>4, FoldsAddToSets
<1> QED
  BY <1>1, <1>5

LEMMA RemoveFromSetsIs ==
  ASSUME NEW i \in Items, NEW d \in Def
  PROVE  LET j == LocalRemoveFromSets(i, d)
         IN /\ j \in Items
            /\ \A s \in FlagSet : LocalNamesBySets(j, s) =
                 IF s \in d.sets THEN LocalNamesBySets(i, s) \ {d.name} ELSE LocalNamesBySets(i, s)
            /\ \A x : x[1] # "flagSet" => At(i, j, x)
<1> DEFINE S == d.sets
           Q == [U \in SUBSET S |->
                   {j \in Items :
                      /\ \A s \in FlagSet : LocalNamesBySets(j, s) =
                           IF s \in U THEN LocalNamesBySets(i, s) \ {d.name} ELSE LocalNamesBySets(i, s)
                      /\ \A x : x[1] # "flagSet" => At(i, j, x)}]
<1>1. d.name \in DefNames /\ S \in SUBSET FlagSet /\ AllSets(d, S)
  BY DEF Def, AllSets
<1>2. IsFiniteSet(S)
  BY <1>1, FS_Subset, StoragesAssumption
<1>3. Q \in [SUBSET S -> SUBSET Items] /\ i \in Q[{}]
  BY DEF At
<1>4. ASSUME NEW U \in SUBSET S, NEW x \in U, NEW a \in Q[U \ {x}] PROVE LocalDropName(a, x, d.name) \in Q[U]
  <2> DEFINE b == LocalDropName(a, x, d.name)
  <2>1. /\ a \in Items /\ x \in FlagSet
        /\ \A s \in FlagSet : LocalNamesBySets(a, s) =
             IF s \in U \ {x} THEN LocalNamesBySets(i, s) \ {d.name} ELSE LocalNamesBySets(i, s)
        /\ \A k : k[1] # "flagSet" => At(i, a, k)
    BY <1>1, <1>4
  <2>2. /\ b \in Items /\ LocalNamesBySets(b, x) = LocalNamesBySets(a, x) \ {d.name}
        /\ \A k : k # SetKey(x) => At(a, b, k)
    BY <1>1, <2>1, DropNameIs
  <2> HIDE DEF b, S
  <2>3. ASSUME NEW s \in FlagSet, s # x PROVE LocalNamesBySets(b, s) = LocalNamesBySets(a, s)
    <3>1. SetKey(s) # SetKey(x)
      BY <2>3, KeysAre
    <3>2. At(a, b, SetKey(s))
      BY <2>2, <3>1
    <3> QED
      BY <3>2, NamesAt
  <2>4. \A s \in FlagSet : LocalNamesBySets(b, s) =
          IF s \in U THEN LocalNamesBySets(i, s) \ {d.name} ELSE LocalNamesBySets(i, s)
    BY <2>1, <2>2, <2>3
  <2>5. ASSUME NEW k, k[1] # "flagSet" PROVE At(i, b, k)
    <3>1. k # SetKey(x)
      BY <2>5, KeysAre
    <3> QED
      BY <2>1, <2>2, <2>5, <3>1, AtIsTransitive
  <2>6. b \in Q[U]
    BY <2>2, <2>4, <2>5
  <2> QED
    BY <2>6 DEF b
<1>5. LocalRemoveFromSets(i, d) \in Q[S]
  <2> HIDE DEF Q, S
  <2> QED BY <1>1, <1>2, <1>3, <1>4, FoldsRemoveFromSets
<1> QED
  BY <1>1, <1>5

\* Neither a count nor an index: a rule, or a key that the rules leave alone.
IsOther(k) == ~IsCount(k) /\ k[1] # "flagSet"

LEMMA OtherKeys ==
  /\ \A n : IsOther(DefinitionKey(n)) /\ IsOther(RBSegmentKey(n))
  /\ \A k : IsMeta(k) => IsOther(k) /\ k[1] # "split" /\ k[1] # "rbsegment"
  /\ \A k : k[1] \in {"split", "rbsegment"} => IsOther(k)
BY KeysAre DEF IsOther, IsCount, IsMeta

LEMMA ViewsAt ==
  ASSUME NEW i \in Items, NEW j \in Items
  PROVE  /\ (\A x : x[1] = "split" => At(i, j, x)) => DefsOf(j) = DefsOf(i)
         /\ (\A x : x[1] = "rbsegment" => At(i, j, x)) => RBsOf(j) = RBsOf(i)
<1>1. ASSUME \A x : x[1] = "split" => At(i, j, x) PROVE DefsOf(j) = DefsOf(i)
  <2>1. ASSUME NEW n PROVE At(i, j, DefinitionKey(n))
    BY <1>1, KeysAre
  <2>2. \A n : n \in DOMAIN DefsOf(i) <=> n \in DOMAIN DefsOf(j)
    BY <2>1, DefsOfIs DEF At
  <2>3. \A n \in DOMAIN DefsOf(i) : DefsOf(i)[n] = DefsOf(j)[n]
    BY <2>1, <2>2, DefsOfIs DEF At
  <2>4. DefsOf(i) \in Maps(DefNames, Def) /\ DefsOf(j) \in Maps(DefNames, Def)
    BY DefsOfIs DEF DefMaps
  <2>5. DOMAIN DefsOf(i) = DOMAIN DefsOf(j)
    BY <2>2
  <2> QED
    BY <2>3, <2>4, <2>5, SameMaps
<1>2. ASSUME \A x : x[1] = "rbsegment" => At(i, j, x) PROVE RBsOf(j) = RBsOf(i)
  <2>1. ASSUME NEW n PROVE At(i, j, RBSegmentKey(n))
    BY <1>2, KeysAre
  <2>2. \A n : n \in DOMAIN RBsOf(i) <=> n \in DOMAIN RBsOf(j)
    BY <2>1, DefsOfIs DEF At
  <2>3. \A n \in DOMAIN RBsOf(i) : RBsOf(i)[n] = RBsOf(j)[n]
    BY <2>1, <2>2, DefsOfIs DEF At
  <2>4. RBsOf(i) \in Maps(RBNames, RBSeg) /\ RBsOf(j) \in Maps(RBNames, RBSeg)
    BY DefsOfIs DEF RBMaps
  <2>5. DOMAIN RBsOf(i) = DOMAIN RBsOf(j)
    BY <2>2
  <2> QED
    BY <2>3, <2>4, <2>5, SameMaps
<1> QED
  BY <1>1, <1>2

LEMMA ForgetIs ==
  ASSUME NEW i \in Items, NEW d \in Def
  PROVE  LET j == LocalRemoveFromSets(LocalDecrementCounts(i, d), d)
         IN /\ j \in Items
            /\ \A t \in TrafficType :
                 Number(j, TrafficTypeKey(t)) = Pos(Number(i, TrafficTypeKey(t)) - Count(d.trafficType = t))
            /\ Number(j, UsingSegmentsKey) = Pos(Number(i, UsingSegmentsKey) - Count(UsesSegments(d)))
            /\ \A s \in FlagSet : LocalNamesBySets(j, s) =
                 IF s \in d.sets THEN LocalNamesBySets(i, s) \ {d.name} ELSE LocalNamesBySets(i, s)
            /\ \A x : IsOther(x) => At(i, j, x)
<1> DEFINE l == LocalDecrementCounts(i, d)
           j == LocalRemoveFromSets(l, d)
<1>1. /\ l \in Items
      /\ \A t \in TrafficType :
           Number(l, TrafficTypeKey(t)) = Pos(Number(i, TrafficTypeKey(t)) - Count(d.trafficType = t))
      /\ Number(l, UsingSegmentsKey) = Pos(Number(i, UsingSegmentsKey) - Count(UsesSegments(d)))
      /\ \A x : ~IsCount(x) => At(i, l, x)
  BY DecrementCountsIs
<1> HIDE DEF l
<1>2. /\ j \in Items
      /\ \A s \in FlagSet : LocalNamesBySets(j, s) =
           IF s \in d.sets THEN LocalNamesBySets(l, s) \ {d.name} ELSE LocalNamesBySets(l, s)
      /\ \A x : x[1] # "flagSet" => At(l, j, x)
  BY <1>1, RemoveFromSetsIs
<1> HIDE DEF j
<1>3. ASSUME NEW s \in FlagSet PROVE LocalNamesBySets(l, s) = LocalNamesBySets(i, s)
  <2>1. At(i, l, SetKey(s))
    BY <1>1, KeysAre DEF IsCount
  <2> QED
    BY <2>1, NamesAt
<1>4. ASSUME NEW t \in TrafficType PROVE Number(j, TrafficTypeKey(t)) = Number(l, TrafficTypeKey(t))
  <2>1. At(l, j, TrafficTypeKey(t))
    BY <1>2, KeysAre
  <2> QED
    BY <2>1, NumberAt
<1>5. Number(j, UsingSegmentsKey) = Number(l, UsingSegmentsKey)
  <2>1. At(l, j, UsingSegmentsKey)
    BY <1>2, KeysAre
  <2> QED
    BY <2>1, NumberAt
<1>6. ASSUME NEW x, IsOther(x) PROVE At(i, j, x)
  <2>1. At(i, l, x) /\ At(l, j, x)
    BY <1>1, <1>2, <1>6 DEF IsOther
  <2> QED
    BY <2>1, AtIsTransitive
<1> QED
  BY <1>1, <1>2, <1>3, <1>4, <1>5, <1>6 DEF j, l

LEMMA RememberIs ==
  ASSUME NEW i \in Items, NEW d \in Def
  PROVE  LET j == LocalAddToSets(LocalIncrementCounts(i, d), d)
         IN /\ j \in Items
            /\ \A t \in TrafficType :
                 Number(j, TrafficTypeKey(t)) = Number(i, TrafficTypeKey(t)) + Count(d.trafficType = t)
            /\ Number(j, UsingSegmentsKey) = Number(i, UsingSegmentsKey) + Count(UsesSegments(d))
            /\ \A s \in FlagSet : LocalNamesBySets(j, s) =
                 IF s \in d.sets /\ Passes(s) THEN LocalNamesBySets(i, s) \cup {d.name} ELSE LocalNamesBySets(i, s)
            /\ \A x : IsOther(x) => At(i, j, x)
<1> DEFINE l == LocalIncrementCounts(i, d)
           j == LocalAddToSets(l, d)
<1>1. /\ l \in Items
      /\ \A t \in TrafficType :
           Number(l, TrafficTypeKey(t)) = Number(i, TrafficTypeKey(t)) + Count(d.trafficType = t)
      /\ Number(l, UsingSegmentsKey) = Number(i, UsingSegmentsKey) + Count(UsesSegments(d))
      /\ \A x : ~IsCount(x) => At(i, l, x)
  BY IncrementCountsIs
<1> HIDE DEF l
<1>2. /\ j \in Items
      /\ \A s \in FlagSet : LocalNamesBySets(j, s) =
           IF s \in d.sets /\ Passes(s) THEN LocalNamesBySets(l, s) \cup {d.name} ELSE LocalNamesBySets(l, s)
      /\ \A x : x[1] # "flagSet" => At(l, j, x)
  BY <1>1, AddToSetsIs
<1> HIDE DEF j
<1>3. ASSUME NEW s \in FlagSet PROVE LocalNamesBySets(l, s) = LocalNamesBySets(i, s)
  <2>1. At(i, l, SetKey(s))
    BY <1>1, KeysAre DEF IsCount
  <2> QED
    BY <2>1, NamesAt
<1>4. ASSUME NEW t \in TrafficType PROVE Number(j, TrafficTypeKey(t)) = Number(l, TrafficTypeKey(t))
  <2>1. At(l, j, TrafficTypeKey(t))
    BY <1>2, KeysAre
  <2> QED
    BY <2>1, NumberAt
<1>5. Number(j, UsingSegmentsKey) = Number(l, UsingSegmentsKey)
  <2>1. At(l, j, UsingSegmentsKey)
    BY <1>2, KeysAre
  <2> QED
    BY <2>1, NumberAt
<1>6. ASSUME NEW x, IsOther(x) PROVE At(i, j, x)
  <2>1. At(i, l, x) /\ At(l, j, x)
    BY <1>1, <1>2, <1>6 DEF IsOther
  <2> QED
    BY <2>1, AtIsTransitive
<1> QED
  BY <1>1, <1>2, <1>3, <1>4, <1>5, <1>6 DEF j, l

\* The counts of traffic types and the indexes of flag sets are those of the
\* definitions; the count of rules that use segments is that of all rules.
ExactTypes(i) == \A t \in TrafficType : Number(i, TrafficTypeKey(t)) = Tally(DefsOf(i), OfType(t))
ExactSets(i) == \A s \in FlagSet : LocalNamesBySets(i, s) = InSet(DefsOf(i), s)
ExactUsing(i) == Number(i, UsingSegmentsKey) = Tally(DefsOf(i), Using) + Tally(RBsOf(i), UsingRB)

LEMMA ViewsAreFinite ==
  ASSUME NEW i \in Items
  PROVE  /\ IsFiniteSet(DOMAIN DefsOf(i)) /\ IsFiniteSet(DOMAIN RBsOf(i))
         /\ \A Z : Tally(DefsOf(i), Z) \in Nat /\ Tally(RBsOf(i), Z) \in Nat
BY DefsOfIs, MapsAreFinite, TallyIs

\* An addition to the items.
LEMMA LocalAddIs ==
  ASSUME NEW i \in Items, NEW d \in Def
  PROVE  LET j == LocalAdd(i, d)
         IN /\ j \in Items /\ DefsOf(j) = With(DefsOf(i), d.name, d) /\ RBsOf(j) = RBsOf(i)
            /\ \A x : IsMeta(x) => At(i, j, x)
            /\ ExactTypes(i) => ExactTypes(j)
            /\ ExactSets(i) => ExactSets(j)
            /\ ExactUsing(i) => ExactUsing(j)
<1> DEFINE D == DefsOf(i)
           k == DefinitionKey(d.name)
           had == d.name \in DOMAIN D
           old == IF k \in DOMAIN i THEN LocalRemoveFromSets(LocalDecrementCounts(i, i[k]), i[k]) ELSE i
           mid == With(old, k, d)
           j == LocalAdd(i, d)
<1>1. /\ D \in DefMaps /\ IsFiniteSet(DOMAIN D) /\ (had <=> k \in DOMAIN i) /\ (had => i[k] = D[d.name])
      /\ had => D[d.name] \in Def /\ D[d.name].name = d.name
  BY DefsOfIs, MapsAreFinite, DefWith
<1>2. d.name \in DefNames /\ k \in ItemKeys /\ d \in Slot(k) /\ IsOther(k) /\ k[1] = "split" /\ ~IsMeta(k)
  <2>1. d.name \in DefNames
    BY DEF Def
  <2> QED
    BY <2>1, KeysIn, KeysAre, Slots, OtherKeys
<1>3. /\ old \in Items
      /\ \A t \in TrafficType :
           Number(old, TrafficTypeKey(t)) =
             Pos(Number(i, TrafficTypeKey(t)) - Count(had /\ D[d.name].trafficType = t))
      /\ Number(old, UsingSegmentsKey) = Pos(Number(i, UsingSegmentsKey) - Count(had /\ UsesSegments(D[d.name])))
      /\ \A s \in FlagSet : LocalNamesBySets(old, s) =
           IF had /\ s \in D[d.name].sets THEN LocalNamesBySets(i, s) \ {d.name} ELSE LocalNamesBySets(i, s)
      /\ \A x : IsOther(x) => At(i, old, x)
  <2>1. CASE had
    <3> DEFINE o == D[d.name]
               f == LocalRemoveFromSets(LocalDecrementCounts(i, o), o)
    <3>1. o \in Def /\ old = f /\ o.name = d.name
      BY <1>1, <2>1
    <3>2. /\ f \in Items
          /\ \A t \in TrafficType :
               Number(f, TrafficTypeKey(t)) = Pos(Number(i, TrafficTypeKey(t)) - Count(o.trafficType = t))
          /\ Number(f, UsingSegmentsKey) = Pos(Number(i, UsingSegmentsKey) - Count(UsesSegments(o)))
          /\ \A s \in FlagSet : LocalNamesBySets(f, s) =
               IF s \in o.sets THEN LocalNamesBySets(i, s) \ {o.name} ELSE LocalNamesBySets(i, s)
          /\ \A x : IsOther(x) => At(i, f, x)
      BY <3>1, ForgetIs
    <3> HIDE DEF f, old, D
    <3> QED
      BY <2>1, <3>1, <3>2 DEF Count
  <2>2. CASE ~had
    <3>1. old = i
      BY <1>1, <2>2
    <3>2. \A t \in TrafficType : Number(i, TrafficTypeKey(t)) \in Nat
      BY NumberIs, CountKeys
    <3>3. Number(i, UsingSegmentsKey) \in Nat
      BY NumberIs, CountKeys
    <3> HIDE DEF D
    <3> QED
      BY <2>2, <3>1, <3>2, <3>3 DEF Count, Pos, At
  <2> QED
    BY <2>1, <2>2
<1>4. j = LocalAddToSets(LocalIncrementCounts(mid, d), d)
  BY DEF LocalAdd
<1> HIDE DEF old
<1>5. mid \in Items /\ \A x : x # k => At(old, mid, x)
  BY <1>2, <1>3, ItemsWith, WithAt
<1>6. k \in DOMAIN mid /\ mid[k] = d
  BY DEF With
<1> HIDE DEF mid, j
<1>7. /\ j \in Items
      /\ \A t \in TrafficType :
           Number(j, TrafficTypeKey(t)) = Number(mid, TrafficTypeKey(t)) + Count(d.trafficType = t)
      /\ Number(j, UsingSegmentsKey) = Number(mid, UsingSegmentsKey) + Count(UsesSegments(d))
      /\ \A s \in FlagSet : LocalNamesBySets(j, s) =
           IF s \in d.sets /\ Passes(s) THEN LocalNamesBySets(mid, s) \cup {d.name} ELSE LocalNamesBySets(mid, s)
      /\ \A x : IsOther(x) => At(mid, j, x)
  BY <1>4, <1>5, RememberIs
<1>8. ASSUME NEW x, IsOther(x), x # k PROVE At(i, j, x)
  <2>1. At(i, old, x) /\ At(old, mid, x) /\ At(mid, j, x)
    BY <1>3, <1>5, <1>7, <1>8
  <2> QED
    BY <2>1, AtIsTransitive
<1>9. k \in DOMAIN j /\ j[k] = d
  BY <1>2, <1>6, <1>7 DEF At
<1>10. DefsOf(j) = With(D, d.name, d)
  <2>1. With(D, d.name, d) \in DefMaps /\ DefsOf(j) \in DefMaps
    BY <1>1, <1>7, DefWith, DefsOfIs
  <2>2. \A n : n # d.name => At(i, j, DefinitionKey(n))
    BY <1>8, OtherKeys, KeysAre
  <2>3. \A n : n \in DOMAIN DefsOf(j) <=> n = d.name \/ n \in DOMAIN D
    BY <1>7, <1>9, <2>2, DefsOfIs DEF At
  <2>4. \A n \in DOMAIN DefsOf(j) : DefsOf(j)[n] = IF n = d.name THEN d ELSE D[n]
    BY <1>7, <1>9, <2>2, <2>3, DefsOfIs DEF At
  <2>5. DOMAIN With(D, d.name, d) = DOMAIN DefsOf(j) /\ \A n \in DOMAIN DefsOf(j) : With(D, d.name, d)[n] = DefsOf(j)[n]
    BY <2>3, <2>4 DEF With
  <2> QED
    BY <2>1, <2>5, SameMaps DEF DefMaps
<1>11. RBsOf(j) = RBsOf(i)
  <2>1. \A x : x[1] = "rbsegment" => At(i, j, x)
    BY <1>2, <1>8, OtherKeys
  <2> QED
    BY <1>7, <2>1, ViewsAt
<1>12. \A x : IsMeta(x) => At(i, j, x)
  BY <1>2, <1>8, OtherKeys
<1>13. ASSUME ExactTypes(i), NEW t \in TrafficType
       PROVE  Number(j, TrafficTypeKey(t)) = Tally(With(D, d.name, d), OfType(t))
  <2>1. Number(i, TrafficTypeKey(t)) = Tally(D, OfType(t))
    BY <1>13 DEF ExactTypes
  <2>2. Number(mid, TrafficTypeKey(t)) = Number(old, TrafficTypeKey(t))
    <3>1. At(old, mid, TrafficTypeKey(t))
      BY <1>2, <1>5, KeysAre
    <3> QED BY <3>1, NumberAt
  <2>3. /\ Tally(With(D, d.name, d), OfType(t)) = Tally(D, OfType(t)) - Count(had /\ D[d.name] \in OfType(t)) + Count(d \in OfType(t))
        /\ Tally(D, OfType(t)) - Count(had /\ D[d.name] \in OfType(t)) \in Nat
    BY <1>1, TallyWith
  <2>4. (had => (D[d.name] \in OfType(t) <=> D[d.name].trafficType = t)) /\ (d \in OfType(t) <=> d.trafficType = t)
    BY <1>1 DEF OfType
  <2> HIDE DEF D
  <2> QED
    BY <1>3, <1>7, <2>1, <2>2, <2>3, <2>4 DEF Pos, Count
<1>14. ASSUME ExactSets(i), NEW s \in FlagSet
       PROVE  LocalNamesBySets(j, s) = InSet(With(D, d.name, d), s)
  <2>1. LocalNamesBySets(i, s) = InSet(D, s)
    BY <1>14 DEF ExactSets
  <2>2. LocalNamesBySets(mid, s) = LocalNamesBySets(old, s)
    <3>1. At(old, mid, SetKey(s))
      BY <1>2, <1>5, KeysAre
    <3> QED BY <3>1, NamesAt
  <2> HIDE DEF D
  <2>3. InSet(With(D, d.name, d), s) =
          IF s \in d.sets /\ Passes(s) THEN InSet(D, s) \cup {d.name} ELSE InSet(D, s) \ {d.name}
    BY DEF InSet, With
  <2>4. ~(had /\ s \in D[d.name].sets) => d.name \notin InSet(D, s)
    BY DEF InSet
  <2>5. LocalNamesBySets(old, s) = InSet(D, s) \ {d.name}
    BY <1>3, <2>1, <2>4
  <2> QED
    BY <1>7, <2>2, <2>3, <2>5
<1>15. ASSUME ExactUsing(i)
       PROVE  Number(j, UsingSegmentsKey) = Tally(With(D, d.name, d), Using) + Tally(RBsOf(i), UsingRB)
  <2>1. Number(i, UsingSegmentsKey) = Tally(D, Using) + Tally(RBsOf(i), UsingRB)
    BY <1>15 DEF ExactUsing
  <2>2. Number(mid, UsingSegmentsKey) = Number(old, UsingSegmentsKey)
    <3>1. At(old, mid, UsingSegmentsKey)
      BY <1>2, <1>5, KeysAre
    <3> QED BY <3>1, NumberAt
  <2>3. /\ Tally(With(D, d.name, d), Using) = Tally(D, Using) - Count(had /\ D[d.name] \in Using) + Count(d \in Using)
        /\ Tally(D, Using) - Count(had /\ D[d.name] \in Using) \in Nat
    BY <1>1, TallyWith
  <2>4. (had => (D[d.name] \in Using <=> UsesSegments(D[d.name]))) /\ (d \in Using <=> UsesSegments(d))
    BY <1>1 DEF Using
  <2>5. Tally(RBsOf(i), UsingRB) \in Nat /\ Tally(D, Using) \in Nat
    BY ViewsAreFinite
  <2> HIDE DEF D
  <2> QED
    BY <1>3, <1>7, <2>1, <2>2, <2>3, <2>4, <2>5 DEF Pos, Count
<1>16. ExactTypes(i) => ExactTypes(j)
  BY <1>10, <1>13 DEF ExactTypes
<1>17. ExactSets(i) => ExactSets(j)
  BY <1>10, <1>14 DEF ExactSets
<1>18. ExactUsing(i) => ExactUsing(j)
  BY <1>10, <1>11, <1>15 DEF ExactUsing
<1> QED
  BY <1>7, <1>10, <1>11, <1>12, <1>16, <1>17, <1>18 DEF j

\* What an operation on the items must keep exact.
Tallied(i, j) ==
  /\ ExactTypes(i) => ExactTypes(j)
  /\ ExactSets(i) => ExactSets(j)
  /\ ExactUsing(i) => ExactUsing(j)

\* An operation on the keys that the rules leave alone.
LEMMA OnlyMeta ==
  ASSUME NEW i \in Items, NEW j \in Items, \A x : ~IsMeta(x) => At(i, j, x)
  PROVE  /\ DefsOf(j) = DefsOf(i) /\ RBsOf(j) = RBsOf(i) /\ Tallied(i, j)
         /\ Number(j, UsingSegmentsKey) = Number(i, UsingSegmentsKey)
<1>1. DefsOf(j) = DefsOf(i) /\ RBsOf(j) = RBsOf(i)
  <2>1. \A x : x[1] = "split" \/ x[1] = "rbsegment" => At(i, j, x)
    BY OtherKeys
  <2> QED
    BY <2>1, ViewsAt
<1>2. ASSUME NEW t \in TrafficType PROVE Number(j, TrafficTypeKey(t)) = Number(i, TrafficTypeKey(t))
  <2>1. ~IsMeta(TrafficTypeKey(t))
    BY KeysAre DEF IsMeta
  <2> QED
    BY <2>1, NumberAt
<1>3. ASSUME NEW s \in FlagSet PROVE LocalNamesBySets(j, s) = LocalNamesBySets(i, s)
  <2>1. ~IsMeta(SetKey(s))
    BY KeysAre DEF IsMeta
  <2> QED
    BY <2>1, NamesAt
<1>4. Number(j, UsingSegmentsKey) = Number(i, UsingSegmentsKey)
  <2>1. ~IsMeta(UsingSegmentsKey)
    BY KeysAre DEF IsMeta
  <2> QED
    BY <2>1, NumberAt
<1> QED
  BY <1>1, <1>2, <1>3, <1>4 DEF Tallied, ExactTypes, ExactSets, ExactUsing

\* A removal from the items.
LEMMA LocalRemoveIs ==
  ASSUME NEW i \in Items, NEW name
  PROVE  LET j == LocalRemove(i, name)
         IN /\ j \in Items /\ DefsOf(j) = Without(DefsOf(i), {name}) /\ RBsOf(j) = RBsOf(i)
            /\ \A x : IsMeta(x) => At(i, j, x)
            /\ Tallied(i, j)
<1> DEFINE D == DefsOf(i)
           k == DefinitionKey(name)
           j == LocalRemove(i, name)
<1>1. D \in DefMaps /\ IsFiniteSet(DOMAIN D) /\ (name \in DOMAIN D <=> k \in DOMAIN i)
  BY DefsOfIs, MapsAreFinite
<1>2. CASE k \notin DOMAIN i
  <2>1. j = i
    BY <1>2 DEF LocalRemove
  <2>2. Without(D, {name}) = D
    <3>1. Without(D, {name}) \in DefMaps
      BY <1>1, DefWith
    <3>2. DOMAIN Without(D, {name}) = DOMAIN D /\ \A n \in DOMAIN D : Without(D, {name})[n] = D[n]
      BY <1>1, <1>2 DEF Without
    <3> HIDE DEF D
    <3> QED
      BY <1>1, <3>1, <3>2, SameMaps DEF DefMaps
  <2>3. \A x : At(i, i, x)
    BY DEF At
  <2> HIDE DEF j, D
  <2>4. DefsOf(j) = Without(DefsOf(i), {name})
    BY <2>1, <2>2 DEF D
  <2> QED
    BY <2>1, <2>3, <2>4 DEF Tallied, j
<1>3. CASE k \in DOMAIN i
  <2> DEFINE o == D[name]
             w == Without(i, {k})
  <2>1. o \in Def /\ o.name = name /\ i[k] = o /\ name \in DOMAIN D
    BY <1>1, <1>3, DefsOfIs, DefWith
  <2>2. w \in Items /\ \A x : x # k => At(i, w, x)
    BY ItemsWith, WithAt
  <2>3. k \notin DOMAIN w
    BY DEF Without
  <2>4. j = LocalRemoveFromSets(LocalDecrementCounts(w, o), o)
    BY <1>3, <2>1 DEF LocalRemove
  <2> HIDE DEF w, j, o
  <2>5. /\ j \in Items
        /\ \A t \in TrafficType :
             Number(j, TrafficTypeKey(t)) = Pos(Number(w, TrafficTypeKey(t)) - Count(o.trafficType = t))
        /\ Number(j, UsingSegmentsKey) = Pos(Number(w, UsingSegmentsKey) - Count(UsesSegments(o)))
        /\ \A s \in FlagSet : LocalNamesBySets(j, s) =
             IF s \in o.sets THEN LocalNamesBySets(w, s) \ {o.name} ELSE LocalNamesBySets(w, s)
        /\ \A x : IsOther(x) => At(w, j, x)
    BY <2>1, <2>2, <2>4, ForgetIs
  <2>6. IsOther(k) /\ k[1] = "split" /\ ~IsMeta(k)
    BY KeysAre, OtherKeys
  <2>7. ASSUME NEW x, IsOther(x), x # k PROVE At(i, j, x)
    BY <2>2, <2>5, <2>7, AtIsTransitive
  <2>8. k \notin DOMAIN j
    BY <2>3, <2>5, <2>6 DEF At
  <2>9. DefsOf(j) = Without(D, {name})
    <3>1. Without(D, {name}) \in DefMaps /\ DefsOf(j) \in DefMaps
      BY <1>1, <2>5, DefWith, DefsOfIs
    <3>2. \A n : n # name => At(i, j, DefinitionKey(n))
      BY <2>7, OtherKeys, KeysAre
    <3>3. \A n : n \in DOMAIN DefsOf(j) <=> n # name /\ n \in DOMAIN D
      BY <2>5, <2>8, <3>2, DefsOfIs DEF At
    <3>4. \A n \in DOMAIN DefsOf(j) : DefsOf(j)[n] = D[n]
      BY <2>5, <3>2, <3>3, DefsOfIs DEF At
    <3>5. /\ DOMAIN Without(D, {name}) = DOMAIN DefsOf(j)
          /\ \A n \in DOMAIN DefsOf(j) : Without(D, {name})[n] = DefsOf(j)[n]
      BY <3>3, <3>4 DEF Without
    <3> QED
      BY <3>1, <3>5, SameMaps DEF DefMaps
  <2>10. RBsOf(j) = RBsOf(i)
    <3>1. \A x : x[1] = "rbsegment" => At(i, j, x)
      BY <2>6, <2>7, OtherKeys
    <3> QED
      BY <2>5, <3>1, ViewsAt
  <2>11. \A x : IsMeta(x) => At(i, j, x)
    BY <2>6, <2>7, OtherKeys
  <2>12. ASSUME ExactTypes(i), NEW t \in TrafficType
         PROVE  Number(j, TrafficTypeKey(t)) = Tally(Without(D, {name}), OfType(t))
    <3>1. Number(i, TrafficTypeKey(t)) = Tally(D, OfType(t))
      BY <2>12 DEF ExactTypes
    <3>2. Number(w, TrafficTypeKey(t)) = Number(i, TrafficTypeKey(t))
      <4>1. At(i, w, TrafficTypeKey(t))
        BY <2>2, <2>6, KeysAre
      <4> QED BY <4>1, NumberAt
    <3>3. /\ Tally(Without(D, {name}), OfType(t)) = Tally(D, OfType(t)) - Count(name \in DOMAIN D /\ D[name] \in OfType(t))
          /\ Tally(Without(D, {name}), OfType(t)) \in Nat
      BY <1>1, TallyWithout
    <3>4. Count(name \in DOMAIN D /\ D[name] \in OfType(t)) = Count(o.trafficType = t)
      BY <2>1 DEF OfType, Count, o
    <3> HIDE DEF D
    <3> QED
      BY <2>5, <3>1, <3>2, <3>3, <3>4 DEF Pos
  <2>13. ASSUME ExactSets(i), NEW s \in FlagSet
         PROVE  LocalNamesBySets(j, s) = InSet(Without(D, {name}), s)
    <3>1. LocalNamesBySets(i, s) = InSet(D, s)
      BY <2>13 DEF ExactSets
    <3>2. LocalNamesBySets(w, s) = LocalNamesBySets(i, s)
      <4>1. At(i, w, SetKey(s))
        BY <2>2, <2>6, KeysAre
      <4> QED BY <4>1, NamesAt
    <3>3. s \notin o.sets => name \notin InSet(D, s)
      BY DEF InSet, o
    <3> HIDE DEF D
    <3>4. InSet(Without(D, {name}), s) = InSet(D, s) \ {name}
      BY DEF InSet, Without
    <3> QED
      BY <2>1, <2>5, <3>1, <3>2, <3>3, <3>4
  <2>14. ASSUME ExactUsing(i)
         PROVE  Number(j, UsingSegmentsKey) = Tally(Without(D, {name}), Using) + Tally(RBsOf(i), UsingRB)
    <3>1. Number(i, UsingSegmentsKey) = Tally(D, Using) + Tally(RBsOf(i), UsingRB)
      BY <2>14 DEF ExactUsing
    <3>2. Number(w, UsingSegmentsKey) = Number(i, UsingSegmentsKey)
      <4>1. At(i, w, UsingSegmentsKey)
        BY <2>2, <2>6, KeysAre
      <4> QED BY <4>1, NumberAt
    <3>3. /\ Tally(Without(D, {name}), Using) = Tally(D, Using) - Count(name \in DOMAIN D /\ D[name] \in Using)
          /\ Tally(Without(D, {name}), Using) \in Nat
      BY <1>1, TallyWithout
    <3>4. Count(name \in DOMAIN D /\ D[name] \in Using) = Count(UsesSegments(o)) /\ Count(UsesSegments(o)) \in Int
      BY <2>1 DEF Using, Count, o
    <3>5. Tally(RBsOf(i), UsingRB) \in Nat /\ Tally(D, Using) \in Nat
      BY ViewsAreFinite
    <3> HIDE DEF D
    <3> QED
      BY <2>5, <3>1, <3>2, <3>3, <3>4, <3>5 DEF Pos
  <2>15. Tallied(i, j)
    BY <2>9, <2>10, <2>12, <2>13, <2>14 DEF Tallied, ExactTypes, ExactSets, ExactUsing
  <2> QED
    BY <2>5, <2>9, <2>10, <2>11, <2>15 DEF j
<1> QED
  BY <1>2, <1>3

\* Rule-based segments of the items.
LEMMA RBViews ==
  ASSUME NEW i \in Items, NEW j \in Items, NEW k, k[1] = "rbsegment",
         \A x : x # k /\ x # UsingSegmentsKey => At(i, j, x)
  PROVE  /\ DefsOf(j) = DefsOf(i)
         /\ \A x : IsMeta(x) => At(i, j, x)
         /\ ExactTypes(i) => ExactTypes(j)
         /\ ExactSets(i) => ExactSets(j)
<1>1. ASSUME NEW x, x[1] # "rbsegment", x[1] # "splits" PROVE At(i, j, x)
  BY <1>1, KeysAre
<1>2. DefsOf(j) = DefsOf(i)
  BY <1>1, ViewsAt
<1>3. \A x : IsMeta(x) => At(i, j, x)
  <2>1. \A x : IsMeta(x) => x # k /\ x # UsingSegmentsKey
    BY KeysAre DEF IsMeta
  <2> QED BY <2>1
<1>4. \A t \in TrafficType : Number(j, TrafficTypeKey(t)) = Number(i, TrafficTypeKey(t))
  BY <1>1, KeysAre, NumberAt
<1>5. \A s \in FlagSet : LocalNamesBySets(j, s) = LocalNamesBySets(i, s)
  BY <1>1, KeysAre, NamesAt
<1> QED
  BY <1>2, <1>3, <1>4, <1>5 DEF ExactTypes, ExactSets

LEMMA RBTally ==
  ASSUME NEW R \in RBMaps, NEW n, NEW r
  PROVE  /\ Tally(With(R, n, r), UsingRB) = Tally(R, UsingRB) - Count(n \in DOMAIN R /\ R[n] \in UsingRB) + Count(r \in UsingRB)
         /\ Tally(R, UsingRB) - Count(n \in DOMAIN R /\ R[n] \in UsingRB) \in Nat
<1>1. IsFiniteSet(DOMAIN R)
  BY MapsAreFinite
<1> QED
  BY <1>1, TallyWith

LEMMA LocalAddRBIs ==
  ASSUME NEW i \in Items, NEW r \in RBSeg
  PROVE  LET j == LocalAddRB(i, r)
         IN /\ j \in Items /\ RBsOf(j) = With(RBsOf(i), r.name, r) /\ DefsOf(j) = DefsOf(i)
            /\ \A x : IsMeta(x) => At(i, j, x)
            /\ Tallied(i, j)
<1> DEFINE R == RBsOf(i)
           k == RBSegmentKey(r.name)
           u == UsingSegmentsKey
           had == k \in DOMAIN i /\ UsesSegments(i[k])
           diff == Count(UsesSegments(r)) - Count(had)
           put == With(i, k, r)
           j == LocalAddRB(i, r)
<1>1. /\ R \in RBMaps /\ IsFiniteSet(DOMAIN R) /\ (r.name \in DOMAIN R <=> k \in DOMAIN i)
      /\ r.name \in DOMAIN R => i[k] = R[r.name] /\ R[r.name] \in RBSeg
  BY DefsOfIs, MapsAreFinite, RBWith
<1>2. r.name \in RBNames /\ k \in ItemKeys /\ r \in Slot(k) /\ k[1] = "rbsegment" /\ k # u
  <2>1. r.name \in RBNames
    BY DEF RBSeg
  <2> QED
    BY <2>1, KeysIn, KeysAre, Slots
<1>3. put \in Items /\ (\A x : x # k => At(i, put, x)) /\ k \in DOMAIN put /\ put[k] = r
  <2>1. put \in Items
    BY <1>2, ItemsWith
  <2>2. \A x : x # k => At(i, put, x)
    BY WithAt
  <2>3. k \in DOMAIN put /\ put[k] = r
    BY DEF With
  <2> QED
    BY <2>1, <2>2, <2>3
<1>4. u \in ItemKeys /\ IsCount(u) /\ diff \in Int /\ Number(i, u) \in Nat
  BY NumberIs, CountKeys DEF Count
<1>5. Number(put, u) = Number(i, u)
  BY <1>2, <1>3, NumberAt
<1>6. j = IF diff = 0 THEN put ELSE SetCount(put, u, Number(put, u) + diff)
  BY DEF LocalAddRB
<1> HIDE DEF put, j, diff, u
<1>7. j \in Items /\ Number(j, u) = Pos(Number(i, u) + diff) /\ \A x : x # u => At(put, j, x)
  <2>1. CASE diff = 0
    BY <1>3, <1>4, <1>5, <1>6, <2>1 DEF Pos, At
  <2>2. CASE diff # 0
    BY <1>3, <1>4, <1>5, <1>6, <2>2, SetCountIs
  <2> QED
    BY <2>1, <2>2
<1>8. \A x : x # k /\ x # u => At(i, j, x)
  BY <1>3, <1>7, AtIsTransitive
<1>9. k \in DOMAIN j /\ j[k] = r
  BY <1>2, <1>3, <1>7 DEF At
<1>10. /\ DefsOf(j) = DefsOf(i) /\ (\A x : IsMeta(x) => At(i, j, x))
       /\ (ExactTypes(i) => ExactTypes(j)) /\ (ExactSets(i) => ExactSets(j))
  BY <1>2, <1>7, <1>8, RBViews DEF u
<1>11. RBsOf(j) = With(R, r.name, r)
  <2>1. With(R, r.name, r) \in RBMaps /\ RBsOf(j) \in RBMaps
    BY <1>1, <1>7, RBWith, DefsOfIs
  <2>2. \A n : n # r.name => At(i, j, RBSegmentKey(n))
    BY <1>8, KeysAre DEF u
  <2>3. \A n : n \in DOMAIN RBsOf(j) <=> n = r.name \/ n \in DOMAIN R
    BY <1>7, <1>9, <2>2, DefsOfIs DEF At
  <2>4. \A n \in DOMAIN RBsOf(j) : RBsOf(j)[n] = IF n = r.name THEN r ELSE R[n]
    BY <1>7, <1>9, <2>2, <2>3, DefsOfIs DEF At
  <2>5. DOMAIN With(R, r.name, r) = DOMAIN RBsOf(j) /\ \A n \in DOMAIN RBsOf(j) : With(R, r.name, r)[n] = RBsOf(j)[n]
    BY <2>3, <2>4 DEF With
  <2> QED
    BY <2>1, <2>5, SameMaps DEF RBMaps
<1>12. ASSUME ExactUsing(i)
       PROVE  Number(j, u) = Tally(DefsOf(i), Using) + Tally(With(R, r.name, r), UsingRB)
  <2>1. Number(i, u) = Tally(DefsOf(i), Using) + Tally(R, UsingRB)
    BY <1>12 DEF ExactUsing, u
  <2>2. /\ Tally(With(R, r.name, r), UsingRB) =
             Tally(R, UsingRB) - Count(r.name \in DOMAIN R /\ R[r.name] \in UsingRB) + Count(r \in UsingRB)
        /\ Tally(R, UsingRB) - Count(r.name \in DOMAIN R /\ R[r.name] \in UsingRB) \in Nat
    BY <1>1, RBTally
  <2>3. Count(r.name \in DOMAIN R /\ R[r.name] \in UsingRB) = Count(had) /\ Count(r \in UsingRB) = Count(UsesSegments(r))
    BY <1>1 DEF UsingRB, Count
  <2>4. Count(had) \in {0, 1} /\ Count(UsesSegments(r)) \in {0, 1}
    BY DEF Count
  <2>5. Tally(DefsOf(i), Using) \in Nat /\ Tally(R, UsingRB) \in Nat
    BY ViewsAreFinite
  <2> HIDE DEF R, had
  <2> QED
    BY <1>7, <2>1, <2>2, <2>3, <2>4, <2>5 DEF Pos, diff
<1>13. Tallied(i, j)
  BY <1>10, <1>11, <1>12 DEF Tallied, ExactUsing, u
<1> QED
  BY <1>7, <1>10, <1>11, <1>13 DEF j

LEMMA LocalRemoveRBIs ==
  ASSUME NEW i \in Items, NEW name
  PROVE  LET j == LocalRemoveRB(i, name)
         IN /\ j \in Items /\ RBsOf(j) = Without(RBsOf(i), {name}) /\ DefsOf(j) = DefsOf(i)
            /\ \A x : IsMeta(x) => At(i, j, x)
            /\ Tallied(i, j)
            /\ Number(i, UsingSegmentsKey) = 0 => Number(j, UsingSegmentsKey) = 0
<1> DEFINE R == RBsOf(i)
           k == RBSegmentKey(name)
           u == UsingSegmentsKey
           had == k \in DOMAIN i /\ UsesSegments(i[k])
           del == Without(i, {k})
           j == LocalRemoveRB(i, name)
<1>1. /\ R \in RBMaps /\ IsFiniteSet(DOMAIN R) /\ (name \in DOMAIN R <=> k \in DOMAIN i)
      /\ name \in DOMAIN R => i[k] = R[name] /\ R[name] \in RBSeg
  BY DefsOfIs, MapsAreFinite, RBWith
<1>2. k[1] = "rbsegment" /\ k # u
  BY KeysAre
<1>3. del \in Items /\ (\A x : x # k => At(i, del, x)) /\ k \notin DOMAIN del
  BY <1>2, ItemsWith, WithAt DEF Without
<1>4. u \in ItemKeys /\ IsCount(u) /\ Number(i, u) \in Nat
  BY NumberIs, CountKeys
<1>5. Number(del, u) = Number(i, u)
  BY <1>2, <1>3, NumberAt
<1>6. j = IF had THEN LocalDecrement(del, u) ELSE del
  BY DEF LocalRemoveRB
<1> HIDE DEF del, j, u
<1>7. j \in Items /\ Number(j, u) = Pos(Number(i, u) - Count(had)) /\ \A x : x # u => At(del, j, x)
  <2>1. CASE had
    BY <1>3, <1>4, <1>5, <1>6, <2>1, DecrementIs DEF Count
  <2>2. CASE ~had
    BY <1>3, <1>4, <1>5, <1>6, <2>2 DEF Pos, At, Count
  <2> QED
    BY <2>1, <2>2
<1>8. \A x : x # k /\ x # u => At(i, j, x)
  BY <1>3, <1>7, AtIsTransitive
<1>9. k \notin DOMAIN j
  BY <1>2, <1>3, <1>7 DEF At
<1>10. /\ DefsOf(j) = DefsOf(i) /\ (\A x : IsMeta(x) => At(i, j, x))
       /\ (ExactTypes(i) => ExactTypes(j)) /\ (ExactSets(i) => ExactSets(j))
  BY <1>2, <1>7, <1>8, RBViews DEF u
<1>11. RBsOf(j) = Without(R, {name})
  <2>1. Without(R, {name}) \in RBMaps /\ RBsOf(j) \in RBMaps
    BY <1>1, <1>7, RBWith, DefsOfIs
  <2>2. \A n : n # name => At(i, j, RBSegmentKey(n))
    BY <1>8, KeysAre DEF u
  <2>3. \A n : n \in DOMAIN RBsOf(j) <=> n # name /\ n \in DOMAIN R
    BY <1>7, <1>9, <2>2, DefsOfIs DEF At
  <2>4. \A n \in DOMAIN RBsOf(j) : RBsOf(j)[n] = R[n]
    BY <1>7, <2>2, <2>3, DefsOfIs DEF At
  <2>5. /\ DOMAIN Without(R, {name}) = DOMAIN RBsOf(j)
        /\ \A n \in DOMAIN RBsOf(j) : Without(R, {name})[n] = RBsOf(j)[n]
    BY <2>3, <2>4 DEF Without
  <2> QED
    BY <2>1, <2>5, SameMaps DEF RBMaps
<1>12. ASSUME ExactUsing(i)
       PROVE  Number(j, u) = Tally(DefsOf(i), Using) + Tally(Without(R, {name}), UsingRB)
  <2>1. Number(i, u) = Tally(DefsOf(i), Using) + Tally(R, UsingRB)
    BY <1>12 DEF ExactUsing, u
  <2>2. /\ Tally(Without(R, {name}), UsingRB) = Tally(R, UsingRB) - Count(name \in DOMAIN R /\ R[name] \in UsingRB)
        /\ Tally(Without(R, {name}), UsingRB) \in Nat
    BY <1>1, TallyWithout
  <2>3. Count(name \in DOMAIN R /\ R[name] \in UsingRB) = Count(had) /\ Count(had) \in {0, 1}
    BY <1>1 DEF UsingRB, Count
  <2>4. Tally(DefsOf(i), Using) \in Nat /\ Tally(R, UsingRB) \in Nat
    BY ViewsAreFinite
  <2> HIDE DEF R, had
  <2> QED
    BY <1>7, <2>1, <2>2, <2>3, <2>4 DEF Pos
<1>13. Tallied(i, j)
  BY <1>10, <1>11, <1>12 DEF Tallied, ExactUsing, u
<1>14. Number(i, u) = 0 => Number(j, u) = 0
  BY <1>7 DEF Pos, Count
<1> QED
  BY <1>7, <1>10, <1>11, <1>13, <1>14 DEF j, u

\* The rules of l come from m or are among S.
FromRules(m, l, S) == \A n \in DOMAIN l : l[n] \in S \/ (n \in DOMAIN m /\ l[n] = m[n])

LEMMA LocalSetTillIs ==
  ASSUME NEW i \in Items, NEW till \in Nat, NEW k \in {TillKey, RBTillKey}
  PROVE  LET j == With(With(i, k, till), LastUpdatedKey, "recent")
         IN /\ j \in Items /\ DefsOf(j) = DefsOf(i) /\ RBsOf(j) = RBsOf(i) /\ Tallied(i, j)
            /\ k \in DOMAIN j /\ j[k] = till /\ LastUpdatedKey \in DOMAIN j /\ j[LastUpdatedKey] = "recent"
            /\ \A x : x # k /\ x # LastUpdatedKey => At(i, j, x)
<1> DEFINE w == With(i, k, till)
           j == With(w, LastUpdatedKey, "recent")
<1>1. w \in Items
  BY KeysIn, Slots, ItemsWith
<1>2. j \in Items
  <2> HIDE DEF w
  <2> QED BY <1>1, KeysIn, Slots, ItemsWith
<1>3. k # LastUpdatedKey /\ IsMeta(k) /\ IsMeta(LastUpdatedKey)
  BY KeysAre DEF IsMeta
<1>4. k \in DOMAIN j /\ j[k] = till /\ LastUpdatedKey \in DOMAIN j /\ j[LastUpdatedKey] = "recent"
  BY <1>3 DEF With
<1>5. \A x : x # k => At(i, w, x)
  BY WithAt
<1>6. \A x : x # LastUpdatedKey => At(w, j, x)
  BY WithAt
<1> HIDE DEF w, j
<1>7. \A x : x # k /\ x # LastUpdatedKey => At(i, j, x)
  BY <1>5, <1>6, AtIsTransitive
<1>8. \A x : ~IsMeta(x) => At(i, j, x)
  BY <1>3, <1>7
<1>9. DefsOf(j) = DefsOf(i) /\ RBsOf(j) = RBsOf(i) /\ Tallied(i, j)
  BY <1>2, <1>8, OnlyMeta
<1> QED
  BY <1>2, <1>4, <1>7, <1>9 DEF j, w

LEMMA LocalUpdateIs ==
  ASSUME NEW i \in Items, NEW toAdd \in SUBSET Def, IsFiniteSet(toAdd),
         NEW toRemove, IsFiniteSet(toRemove), NEW till \in Nat
  PROVE  LET u == LocalUpdate(i, toAdd, toRemove, till)
         IN /\ u \in Items /\ Tallied(i, u) /\ RBsOf(u) = RBsOf(i)
            /\ FromRules(DefsOf(i), DefsOf(u), toAdd)
            /\ TillKey \in DOMAIN u /\ u[TillKey] = till
            /\ LastUpdatedKey \in DOMAIN u /\ u[LastUpdatedKey] = "recent"
            /\ \A x : IsMeta(x) /\ x # TillKey /\ x # LastUpdatedKey => At(i, u, x)
<1> DEFINE b == FoldSet(LAMBDA d, acc : LocalAdd(acc, d), i, toAdd)
           e == FoldSet(LAMBDA n, acc : LocalRemove(acc, n), b, toRemove)
           u == LocalUpdate(i, toAdd, toRemove, till)
           Q == [s \in SUBSET toAdd |->
                   {a \in Items : /\ Tallied(i, a) /\ RBsOf(a) = RBsOf(i)
                                  /\ \A x : IsMeta(x) => At(i, a, x)
                                  /\ FromRules(DefsOf(i), DefsOf(a), s)}]
           R == [s \in SUBSET toRemove |->
                   {a \in Items : /\ Tallied(i, a) /\ RBsOf(a) = RBsOf(i)
                                  /\ \A x : IsMeta(x) => At(i, a, x)
                                  /\ FromRules(DefsOf(i), DefsOf(a), toAdd)}]
<1>1. u = LocalSetTill(e, till)
  BY DEF LocalUpdate, Update
<1>2. b \in Q[toAdd]
  <2>1. Q \in [SUBSET toAdd -> SUBSET Items]
    OBVIOUS
  <2>2. i \in Q[{}]
    BY DEF Tallied, At, FromRules
  <2>3. ASSUME NEW s \in SUBSET toAdd, NEW x \in s, NEW a \in Q[s \ {x}] PROVE LocalAdd(a, x) \in Q[s]
    <3> DEFINE l == LocalAdd(a, x)
    <3>1. /\ a \in Items /\ x \in Def /\ Tallied(i, a) /\ RBsOf(a) = RBsOf(i)
          /\ \A k : IsMeta(k) => At(i, a, k)
          /\ FromRules(DefsOf(i), DefsOf(a), s \ {x})
      BY <2>3
    <3>2. /\ l \in Items /\ DefsOf(l) = With(DefsOf(a), x.name, x) /\ RBsOf(l) = RBsOf(a)
          /\ \A k : IsMeta(k) => At(a, l, k)
          /\ Tallied(a, l)
      BY <3>1, LocalAddIs DEF Tallied
    <3> HIDE DEF l
    <3>3. FromRules(DefsOf(i), DefsOf(l), s)
      BY <3>1, <3>2 DEF FromRules, With
    <3>4. Tallied(i, l)
      BY <3>1, <3>2 DEF Tallied
    <3>5. \A k : IsMeta(k) => At(i, l, k)
      BY <3>1, <3>2, AtIsTransitive
    <3>6. l \in Q[s]
      BY <3>1, <3>2, <3>3, <3>4, <3>5
    <3> QED
      BY <3>6 DEF l
  <2> HIDE DEF Q
  <2> QED BY <2>1, <2>2, <2>3, FoldsLocalAdd
<1> HIDE DEF b
<1>3. /\ b \in Items /\ Tallied(i, b) /\ RBsOf(b) = RBsOf(i)
      /\ \A k : IsMeta(k) => At(i, b, k)
      /\ FromRules(DefsOf(i), DefsOf(b), toAdd)
  BY <1>2
<1>4. e \in R[toRemove]
  <2>1. R \in [SUBSET toRemove -> SUBSET Items] /\ b \in R[{}]
    BY <1>3
  <2>2. ASSUME NEW s \in SUBSET toRemove, NEW x \in s, NEW a \in R[s \ {x}] PROVE LocalRemove(a, x) \in R[s]
    <3> DEFINE l == LocalRemove(a, x)
    <3>1. /\ a \in Items /\ Tallied(i, a) /\ RBsOf(a) = RBsOf(i)
          /\ \A k : IsMeta(k) => At(i, a, k)
          /\ FromRules(DefsOf(i), DefsOf(a), toAdd)
      BY <2>2
    <3>2. /\ l \in Items /\ DefsOf(l) = Without(DefsOf(a), {x}) /\ RBsOf(l) = RBsOf(a)
          /\ \A k : IsMeta(k) => At(a, l, k)
          /\ Tallied(a, l)
      BY <3>1, LocalRemoveIs
    <3> HIDE DEF l
    <3>3. FromRules(DefsOf(i), DefsOf(l), toAdd)
      BY <3>1, <3>2 DEF FromRules, Without
    <3>4. Tallied(i, l)
      BY <3>1, <3>2 DEF Tallied
    <3>5. \A k : IsMeta(k) => At(i, l, k)
      BY <3>1, <3>2, AtIsTransitive
    <3>6. l \in R[s]
      BY <3>1, <3>2, <3>3, <3>4, <3>5
    <3> QED
      BY <3>6 DEF l
  <2> HIDE DEF R
  <2> QED BY <2>1, <2>2, FoldsLocalRemove
<1> HIDE DEF e, u
<1>5. /\ e \in Items /\ Tallied(i, e) /\ RBsOf(e) = RBsOf(i)
      /\ \A k : IsMeta(k) => At(i, e, k)
      /\ FromRules(DefsOf(i), DefsOf(e), toAdd)
  BY <1>4
<1> HIDE DEF Q, R
<1>6. /\ u \in Items /\ DefsOf(u) = DefsOf(e) /\ RBsOf(u) = RBsOf(e) /\ Tallied(e, u)
      /\ TillKey \in DOMAIN u /\ u[TillKey] = till /\ LastUpdatedKey \in DOMAIN u /\ u[LastUpdatedKey] = "recent"
      /\ \A x : x # TillKey /\ x # LastUpdatedKey => At(e, u, x)
  BY <1>1, <1>5, LocalSetTillIs DEF LocalSetTill
<1>7. \A x : IsMeta(x) /\ x # TillKey /\ x # LastUpdatedKey => At(i, u, x)
  BY <1>5, <1>6, AtIsTransitive
<1>8. Tallied(i, u)
  BY <1>5, <1>6 DEF Tallied
<1> QED
  BY <1>5, <1>6, <1>7, <1>8 DEF u

LEMMA LocalUpdateRBIs ==
  ASSUME NEW i \in Items, NEW toAdd \in SUBSET RBSeg, IsFiniteSet(toAdd),
         NEW toRemove, IsFiniteSet(toRemove), NEW till \in Nat
  PROVE  LET u == LocalUpdateRB(i, toAdd, toRemove, till)
         IN /\ u \in Items /\ Tallied(i, u) /\ DefsOf(u) = DefsOf(i)
            /\ FromRules(RBsOf(i), RBsOf(u), toAdd)
            /\ RBTillKey \in DOMAIN u /\ u[RBTillKey] = till
            /\ LastUpdatedKey \in DOMAIN u /\ u[LastUpdatedKey] = "recent"
            /\ \A x : IsMeta(x) /\ x # RBTillKey /\ x # LastUpdatedKey => At(i, u, x)
<1> DEFINE b == FoldSet(LAMBDA d, acc : LocalAddRB(acc, d), i, toAdd)
           e == FoldSet(LAMBDA n, acc : LocalRemoveRB(acc, n), b, toRemove)
           u == LocalUpdateRB(i, toAdd, toRemove, till)
           Q == [s \in SUBSET toAdd |->
                   {a \in Items : /\ Tallied(i, a) /\ DefsOf(a) = DefsOf(i)
                                  /\ \A x : IsMeta(x) => At(i, a, x)
                                  /\ FromRules(RBsOf(i), RBsOf(a), s)}]
           R == [s \in SUBSET toRemove |->
                   {a \in Items : /\ Tallied(i, a) /\ DefsOf(a) = DefsOf(i)
                                  /\ \A x : IsMeta(x) => At(i, a, x)
                                  /\ FromRules(RBsOf(i), RBsOf(a), toAdd)}]
<1>1. u = LocalSetRBTill(e, till)
  BY DEF LocalUpdateRB, Update
<1>2. b \in Q[toAdd]
  <2>1. Q \in [SUBSET toAdd -> SUBSET Items]
    OBVIOUS
  <2>2. i \in Q[{}]
    BY DEF Tallied, At, FromRules
  <2>3. ASSUME NEW s \in SUBSET toAdd, NEW x \in s, NEW a \in Q[s \ {x}] PROVE LocalAddRB(a, x) \in Q[s]
    <3> DEFINE l == LocalAddRB(a, x)
    <3>1. /\ a \in Items /\ x \in RBSeg /\ Tallied(i, a) /\ DefsOf(a) = DefsOf(i)
          /\ \A k : IsMeta(k) => At(i, a, k)
          /\ FromRules(RBsOf(i), RBsOf(a), s \ {x})
      BY <2>3
    <3>2. /\ l \in Items /\ RBsOf(l) = With(RBsOf(a), x.name, x) /\ DefsOf(l) = DefsOf(a)
          /\ \A k : IsMeta(k) => At(a, l, k)
          /\ Tallied(a, l)
      BY <3>1, LocalAddRBIs
    <3> HIDE DEF l
    <3>3. FromRules(RBsOf(i), RBsOf(l), s)
      BY <3>1, <3>2 DEF FromRules, With
    <3>4. Tallied(i, l)
      BY <3>1, <3>2 DEF Tallied
    <3>5. \A k : IsMeta(k) => At(i, l, k)
      BY <3>1, <3>2, AtIsTransitive
    <3>6. l \in Q[s]
      BY <3>1, <3>2, <3>3, <3>4, <3>5
    <3> QED
      BY <3>6 DEF l
  <2> HIDE DEF Q
  <2> QED BY <2>1, <2>2, <2>3, FoldsLocalAddRB
<1> HIDE DEF b
<1>3. /\ b \in Items /\ Tallied(i, b) /\ DefsOf(b) = DefsOf(i)
      /\ \A k : IsMeta(k) => At(i, b, k)
      /\ FromRules(RBsOf(i), RBsOf(b), toAdd)
  BY <1>2
<1>4. e \in R[toRemove]
  <2>1. R \in [SUBSET toRemove -> SUBSET Items] /\ b \in R[{}]
    BY <1>3
  <2>2. ASSUME NEW s \in SUBSET toRemove, NEW x \in s, NEW a \in R[s \ {x}] PROVE LocalRemoveRB(a, x) \in R[s]
    <3> DEFINE l == LocalRemoveRB(a, x)
    <3>1. /\ a \in Items /\ Tallied(i, a) /\ DefsOf(a) = DefsOf(i)
          /\ \A k : IsMeta(k) => At(i, a, k)
          /\ FromRules(RBsOf(i), RBsOf(a), toAdd)
      BY <2>2
    <3>2. /\ l \in Items /\ RBsOf(l) = Without(RBsOf(a), {x}) /\ DefsOf(l) = DefsOf(a)
          /\ \A k : IsMeta(k) => At(a, l, k)
          /\ Tallied(a, l)
      BY <3>1, LocalRemoveRBIs
    <3> HIDE DEF l
    <3>3. FromRules(RBsOf(i), RBsOf(l), toAdd)
      BY <3>1, <3>2 DEF FromRules, Without
    <3>4. Tallied(i, l)
      BY <3>1, <3>2 DEF Tallied
    <3>5. \A k : IsMeta(k) => At(i, l, k)
      BY <3>1, <3>2, AtIsTransitive
    <3>6. l \in R[s]
      BY <3>1, <3>2, <3>3, <3>4, <3>5
    <3> QED
      BY <3>6 DEF l
  <2> HIDE DEF R
  <2> QED BY <2>1, <2>2, FoldsLocalRemoveRB
<1> HIDE DEF e, u
<1>5. /\ e \in Items /\ Tallied(i, e) /\ DefsOf(e) = DefsOf(i)
      /\ \A k : IsMeta(k) => At(i, e, k)
      /\ FromRules(RBsOf(i), RBsOf(e), toAdd)
  BY <1>4
<1> HIDE DEF Q, R
<1>6. /\ u \in Items /\ DefsOf(u) = DefsOf(e) /\ RBsOf(u) = RBsOf(e) /\ Tallied(e, u)
      /\ RBTillKey \in DOMAIN u /\ u[RBTillKey] = till /\ LastUpdatedKey \in DOMAIN u /\ u[LastUpdatedKey] = "recent"
      /\ \A x : x # RBTillKey /\ x # LastUpdatedKey => At(e, u, x)
  BY <1>1, <1>5, LocalSetTillIs DEF LocalSetRBTill
<1>7. \A x : IsMeta(x) /\ x # RBTillKey /\ x # LastUpdatedKey => At(i, u, x)
  BY <1>5, <1>6, AtIsTransitive
<1>8. Tallied(i, u)
  BY <1>5, <1>6 DEF Tallied
<1> QED
  BY <1>5, <1>6, <1>7, <1>8 DEF u

\* A kill stores a version of the definition with its change number, or none.
LEMMA LocalKillIs ==
  ASSUME NEW i \in Items, NEW name, NEW till \in Nat
  PROVE  LET u == LocalKill(i, name, till)
         IN /\ u \in Items /\ Tallied(i, u) /\ RBsOf(u) = RBsOf(i)
            /\ \A n \in DOMAIN DefsOf(u) :
                 /\ n \in DOMAIN DefsOf(i)
                 /\ DefsOf(u)[n] = DefsOf(i)[n] \/ DefsOf(u)[n] = Killed(DefsOf(i)[n], till)
            /\ DOMAIN DefsOf(i) = DOMAIN DefsOf(u)
            /\ \A x : IsMeta(x) => At(i, u, x)
<1> DEFINE k == DefinitionKey(name)
           u == LocalKill(i, name, till)
<1>1. CASE k \in DOMAIN i /\ MayKill(i[k], till)
  <2> DEFINE o == i[k]
             d == Killed(o, till)
  <2>1. name \in DOMAIN DefsOf(i) /\ o = DefsOf(i)[name] /\ DefsOf(i) \in DefMaps
    BY <1>1, DefsOfIs
  <2>2. o \in Def /\ o.name = name
    BY <2>1, DefWith
  <2> HIDE DEF o
  <2>3. d \in Def /\ d.name = name
    BY <2>2 DEF Killed, Def
  <2>4. u = LocalAdd(i, d)
    BY <1>1 DEF LocalKill, o
  <2> HIDE DEF u, d
  <2>5. /\ u \in Items /\ DefsOf(u) = With(DefsOf(i), name, d) /\ RBsOf(u) = RBsOf(i)
        /\ (\A x : IsMeta(x) => At(i, u, x))
        /\ Tallied(i, u)
    BY <2>3, <2>4, LocalAddIs DEF Tallied
  <2>6. DOMAIN DefsOf(u) = DOMAIN DefsOf(i)
    BY <2>1, <2>5 DEF With
  <2>7. \A n \in DOMAIN DefsOf(u) : DefsOf(u)[n] = DefsOf(i)[n] \/ DefsOf(u)[n] = Killed(DefsOf(i)[n], till)
    BY <2>1, <2>5, <2>6 DEF With, d
  <2> QED
    BY <2>5, <2>6, <2>7 DEF u
<1>2. CASE ~(k \in DOMAIN i /\ MayKill(i[k], till))
  <2>1. u = i
    BY <1>2 DEF LocalKill
  <2> HIDE DEF u
  <2>2. \A x : At(i, i, x)
    BY DEF At
  <2> QED
    BY <2>1, <2>2 DEF u, Tallied
<1> QED
  BY <1>1, <1>2

-----------------------------------------------------------------------------
\* Clearing, memberships and validation of the items.

LEMMA NoRules ==
  ASSUME NEW m, DOMAIN m = {}
  PROVE  (\A Z : Tally(m, Z) = 0) /\ \A s : InSet(m, s) = {}
<1>1. \A Z : Hits(m, Z) = {}
  BY DEF Hits
<1> QED
  BY <1>1, FS_EmptySet DEF Tally, InSet

LEMMA LocalClearIs ==
  ASSUME NEW i \in Items
  PROVE  LET c == LocalClear(i)
         IN /\ c \in Items /\ ExactTypes(c) /\ ExactSets(c) /\ Number(c, UsingSegmentsKey) = 0
            /\ DOMAIN DefsOf(c) = {} /\ RBsOf(c) = RBsOf(i)
            /\ TillKey \notin DOMAIN c /\ LastUpdatedKey \notin DOMAIN c
            /\ \A x : IsMeta(x) /\ x # TillKey /\ x # LastUpdatedKey => At(i, c, x)
<1> DEFINE K == {k \in DOMAIN i : IsDefinitionsCacheKey(k)}
           c == LocalClear(i)
<1>1. c = Without(i, K)
  BY DEF LocalClear
<1>2. c \in Items
  BY <1>1, ItemsWith
<1>3. /\ DOMAIN c = {x \in DOMAIN i : ~IsDefinitionsCacheKey(x)}
      /\ \A x \in DOMAIN c : c[x] = i[x]
  <2>1. DOMAIN c = DOMAIN i \ K /\ \A x \in DOMAIN i \ K : c[x] = i[x]
    <3> HIDE DEF c, K
    <3> QED BY <1>1, WithoutIs
  <2> QED
    BY <2>1
<1> HIDE DEF c, K
<1>4. \A x : ~IsDefinitionsCacheKey(x) => At(i, c, x)
  BY <1>3 DEF At
<1>5. DOMAIN DefsOf(c) = {}
  BY <1>2, <1>3, DefsOfIs, KeysAre DEF IsDefinitionsCacheKey
<1>6. RBsOf(c) = RBsOf(i)
  <2>1. \A x : x[1] = "rbsegment" => At(i, c, x)
    BY <1>4 DEF IsDefinitionsCacheKey
  <2> QED
    BY <1>2, <2>1, ViewsAt
<1>7. \A t : Number(c, TrafficTypeKey(t)) = 0
  BY <1>3, KeysAre DEF IsDefinitionsCacheKey, Number
<1>8. \A s : LocalNamesBySets(c, s) = {}
  BY <1>3, KeysAre DEF IsDefinitionsCacheKey, LocalNamesBySets
<1>9. Number(c, UsingSegmentsKey) = 0 /\ TillKey \notin DOMAIN c /\ LastUpdatedKey \notin DOMAIN c
  BY <1>3, KeysAre DEF IsDefinitionsCacheKey, Number
<1>10. (\A Z : Tally(DefsOf(c), Z) = 0) /\ \A s : InSet(DefsOf(c), s) = {}
  BY <1>5, NoRules
<1>11. \A x : IsMeta(x) /\ x # TillKey /\ x # LastUpdatedKey => At(i, c, x)
  BY <1>4, KeysAre DEF IsMeta, IsDefinitionsCacheKey
<1>12. ExactTypes(c) /\ ExactSets(c)
  BY <1>7, <1>8, <1>10 DEF ExactTypes, ExactSets
<1> QED
  BY <1>2, <1>5, <1>6, <1>9, <1>11, <1>12 DEF c

LEMMA LocalClearRBIs ==
  ASSUME NEW i \in Items
  PROVE  LET c == LocalClearRB(i)
         IN /\ c \in Items /\ Tallied(i, c) /\ DefsOf(c) = DefsOf(i) /\ DOMAIN RBsOf(c) = {}
            /\ Number(i, UsingSegmentsKey) = 0 => Number(c, UsingSegmentsKey) = 0
            /\ RBTillKey \notin DOMAIN c
            /\ \A x : IsMeta(x) /\ x # RBTillKey => At(i, c, x)
<1> DEFINE S == NamesOf(i, "rbsegment")
           e == FoldSet(LAMBDA n, acc : LocalRemoveRB(acc, n), i, S)
           c == Without(e, {RBTillKey})
           Q == [s \in SUBSET S |->
                   {a \in Items : /\ Tallied(i, a) /\ DefsOf(a) = DefsOf(i)
                                  /\ \A x : IsMeta(x) => At(i, a, x)
                                  /\ DOMAIN RBsOf(a) = DOMAIN RBsOf(i) \ s
                                  /\ Number(i, UsingSegmentsKey) = 0 => Number(a, UsingSegmentsKey) = 0}]
<1>1. c = LocalClearRB(i)
  BY DEF LocalClearRB
<1>2. S = DOMAIN RBsOf(i) /\ IsFiniteSet(S)
  BY DefsOfIs, MapsAreFinite
<1>3. Q \in [SUBSET S -> SUBSET Items]
  OBVIOUS
<1>4. i \in Q[{}]
  BY DEF Tallied, At
<1>5. ASSUME NEW s \in SUBSET S, NEW x \in s, NEW a \in Q[s \ {x}] PROVE LocalRemoveRB(a, x) \in Q[s]
  <2> DEFINE l == LocalRemoveRB(a, x)
  <2>1. /\ a \in Items /\ Tallied(i, a) /\ DefsOf(a) = DefsOf(i)
        /\ \A k : IsMeta(k) => At(i, a, k)
        /\ DOMAIN RBsOf(a) = DOMAIN RBsOf(i) \ (s \ {x})
        /\ Number(i, UsingSegmentsKey) = 0 => Number(a, UsingSegmentsKey) = 0
    BY <1>5
  <2>2. /\ l \in Items /\ RBsOf(l) = Without(RBsOf(a), {x}) /\ DefsOf(l) = DefsOf(a)
        /\ \A k : IsMeta(k) => At(a, l, k)
        /\ Tallied(a, l)
        /\ Number(a, UsingSegmentsKey) = 0 => Number(l, UsingSegmentsKey) = 0
    BY <2>1, LocalRemoveRBIs
  <2> HIDE DEF l
  <2>3. DOMAIN RBsOf(l) = DOMAIN RBsOf(i) \ s
    <3>1. DOMAIN RBsOf(l) = DOMAIN RBsOf(a) \ {x}
      BY <2>2, WithoutIs
    <3> QED
      BY <1>5, <2>1, <3>1
  <2>4. Tallied(i, l)
    BY <2>1, <2>2 DEF Tallied
  <2>5. \A k : IsMeta(k) => At(i, l, k)
    BY <2>1, <2>2, AtIsTransitive
  <2>6. l \in Q[s]
    BY <2>1, <2>2, <2>3, <2>4, <2>5
  <2> QED
    BY <2>6 DEF l
<1>6. e \in Q[S]
  <2> HIDE DEF Q, S
  <2> QED BY <1>2, <1>3, <1>4, <1>5, FoldsLocalRemoveRB
<1> HIDE DEF e
<1>7. /\ e \in Items /\ Tallied(i, e) /\ DefsOf(e) = DefsOf(i)
      /\ \A k : IsMeta(k) => At(i, e, k)
      /\ DOMAIN RBsOf(e) = {}
      /\ Number(i, UsingSegmentsKey) = 0 => Number(e, UsingSegmentsKey) = 0
  BY <1>2, <1>6
<1> HIDE DEF Q
<1>8. c \in Items /\ (\A x : x # RBTillKey => At(e, c, x)) /\ RBTillKey \notin DOMAIN c
  <2>1. c \in Items
    BY <1>7, ItemsWith
  <2>2. \A x : x # RBTillKey => At(e, c, x)
    BY WithAt
  <2>3. RBTillKey \notin DOMAIN c
    BY DEF Without
  <2> QED
    BY <2>1, <2>2, <2>3
<1> HIDE DEF c
<1>9. IsMeta(RBTillKey)
  BY KeysAre DEF IsMeta
<1>10. /\ DefsOf(c) = DefsOf(e) /\ RBsOf(c) = RBsOf(e) /\ Tallied(e, c)
       /\ Number(c, UsingSegmentsKey) = Number(e, UsingSegmentsKey)
  <2>1. \A x : ~IsMeta(x) => At(e, c, x)
    BY <1>8, <1>9
  <2> QED
    BY <1>7, <1>8, <2>1, OnlyMeta
<1>11. \A x : IsMeta(x) /\ x # RBTillKey => At(i, c, x)
  BY <1>7, <1>8, AtIsTransitive
<1>12. Tallied(i, c)
  BY <1>7, <1>10 DEF Tallied
<1> QED
  BY <1>1, <1>7, <1>8, <1>10, <1>11, <1>12

\* Memberships of a key.
LEMMA LocalSegmentsIs ==
  ASSUME NEW i \in Items, NEW key
  PROVE  /\ LocalSegments(i, key) \in SUBSET Segment
         /\ \A n : n \in LocalSegments(i, key) <=> SegmentKey(key, n) \in DOMAIN i
<1>1. \A k \in DOMAIN i : k \in ItemKeys
  BY ItemsWith
<1>2. \A n : n \in LocalSegments(i, key) <=> \E k \in DOMAIN i : k[1] = "segment" /\ k[2] = key /\ n = k[3]
  BY DEF LocalSegments
<1>3. ASSUME NEW n PROVE n \in LocalSegments(i, key) <=> SegmentKey(key, n) \in DOMAIN i
  BY <1>1, <1>2, KeysAre, KeysOf
<1>4. \A n \in LocalSegments(i, key) : n \in Segment
  BY <1>1, <1>2, KeysOf
<1> QED
  BY <1>3, <1>4

LEMMA SegmentsAt ==
  ASSUME NEW i \in Items, NEW j \in Items, NEW key, \A x : x[1] = "segment" => At(i, j, x)
  PROVE  LocalSegments(j, key) = LocalSegments(i, key)
<1>1. \A n : SegmentKey(key, n) \in DOMAIN i <=> SegmentKey(key, n) \in DOMAIN j
  BY KeysAre DEF At
<1>2. \A n : n \in LocalSegments(i, key) <=> n \in LocalSegments(j, key)
  BY <1>1, LocalSegmentsIs
<1> QED
  BY <1>2

LEMMA LocalPutSegmentsIs ==
  ASSUME NEW i \in Items, NEW key \in Keys, NEW names \in SUBSET Segment
  PROVE  LET j == LocalPutSegments(i, key, names)
         IN /\ j \in Items /\ LocalSegments(j, key) = names
            /\ DefsOf(j) = DefsOf(i) /\ RBsOf(j) = RBsOf(i) /\ Tallied(i, j)
            /\ Number(j, UsingSegmentsKey) = Number(i, UsingSegmentsKey)
            /\ \A x : x[1] # "segment" => At(i, j, x)
<1> DEFINE j == LocalPutSegments(i, key, names)
           New == {SegmentKey(key, n) : n \in names}
           Old == {x \in DOMAIN i : x[1] = "segment" => x[2] # key}
<1>1. /\ j = [k \in Old \cup New |-> IF k \in DOMAIN i THEN i[k] ELSE "1"]
      /\ DOMAIN j = Old \cup New
      /\ \A k \in DOMAIN j : j[k] = IF k \in DOMAIN i THEN i[k] ELSE "1"
  BY DEF LocalPutSegments
<1>2. \A k \in DOMAIN i : k \in ItemKeys /\ i[k] \in Slot(k)
  BY ItemsWith
<1>3. \A k \in New : k \in ItemKeys /\ k[1] = "segment" /\ k[2] = key /\ Slot(k) = {"1"}
  BY KeysIn, KeysAre, Slots
<1>4. \A k \in New : \E n \in names : k = SegmentKey(key, n)
  OBVIOUS
<1>5. \A n \in names : SegmentKey(key, n) \in New
  OBVIOUS
<1>6. \A k : k \in Old <=> k \in DOMAIN i /\ (k[1] = "segment" => k[2] # key)
  OBVIOUS
<1>7. j = [k \in DOMAIN j |-> j[k]]
  BY <1>1
<1> HIDE DEF j, New, Old
<1>8. \A k \in DOMAIN j : k \in ItemKeys /\ j[k] \in Slot(k)
  BY <1>1, <1>2, <1>3, <1>6
<1>9. j \in Items
  <2>1. \A k \in DOMAIN j : j[k] \in Anything
    BY <1>8 DEF Anything
  <2>2. j \in Maps(ItemKeys, Anything)
    BY <1>7, <1>8, <2>1, MapIs
  <2> QED
    BY <1>8, <2>2 DEF Items
<1>10. \A x : x[1] # "segment" => At(i, j, x)
  BY <1>1, <1>3, <1>6 DEF At
<1>11. LocalSegments(j, key) = names
  <2>1. \A n : SegmentKey(key, n) \in DOMAIN j <=> SegmentKey(key, n) \in New
    BY <1>1, <1>6, KeysAre
  <2>2. \A n : SegmentKey(key, n) \in New <=> n \in names
    BY <1>4, <1>5, KeysAre
  <2>3. \A n : n \in LocalSegments(j, key) <=> n \in names
    BY <1>9, <2>1, <2>2, LocalSegmentsIs
  <2> QED
    BY <2>3
<1>12. \A x : ~IsMeta(x) => At(i, j, x)
  BY <1>10 DEF IsMeta
<1> QED
  BY <1>9, <1>10, <1>11, <1>12, OnlyMeta DEF j

LEMMA SeqOfNumbers == ASSUME NEW S \in SUBSET Nat, NEW s \in Seq(S) PROVE s \in Seq(Nat)
<1> DEFINE n == Len(s)
<1>1. n \in Nat /\ DOMAIN s = 1..n /\ s = [i \in 1..n |-> s[i]]
  OBVIOUS
<1>2. \A i \in 1..n : s[i] \in S
  OBVIOUS
<1> HIDE DEF n
<1>3. s \in [1..n -> Nat]
  BY <1>1, <1>2
<1> QED
  BY <1>1, <1>3

LEMMA LocalResetIs ==
  ASSUME NEW i \in Items, NEW key, NEW names \in Seq(Segment)
  PROVE  /\ LocalReset(i, key, names) = LocalPutSegments(i, key, ToSet(names))
         /\ ToSet(names) \in SUBSET Segment
<1>1. Segment \subseteq Nat /\ IsFiniteSet(Segment)
  BY StoragesAssumption
<1>2. LocalSegments(i, key) \in SUBSET Segment /\ IsFiniteSet(LocalSegments(i, key))
  BY <1>1, LocalSegmentsIs, FS_Subset
<1>3. names \in Seq(Nat) /\ ToSet(names) \in SUBSET Segment
  <2>1. \A k \in DOMAIN names : names[k] \in Segment
    OBVIOUS
  <2>2. names \in Seq(Nat)
    BY <1>1, SeqOfNumbers
  <2> QED
    BY <2>1, <2>2 DEF ToSet
<1>4. ResetSegments(LocalSegments(i, key), names) = ToSet(names)
  BY <1>1, <1>2, <1>3, ResetSegmentsIs
<1> QED
  BY <1>3, <1>4 DEF LocalReset

\* What a plan sets over the items: its own rules, whatever rules were there. The
\* count of rules that use segments is that of the rules unless an old rule-based
\* segment used them.
LEMMA PlanItemsIs ==
  ASSUME NEW i \in Items, NEW plan, plan.d \in SUBSET Def, IsFiniteSet(plan.d),
         plan.rbd \in SUBSET RBSeg, IsFiniteSet(plan.rbd), plan.t \in Nat, plan.rbt \in Nat,
         PlanNames(plan, MainKey) \in SUBSET Segment
  PROVE  LET j == PlanItems(i, plan)
         IN /\ j \in Items /\ ExactTypes(j) /\ ExactSets(j)
            /\ (\A n \in DOMAIN RBsOf(i) : ~UsesSegments(RBsOf(i)[n])) => ExactUsing(j)
            /\ \A n \in DOMAIN DefsOf(j) : DefsOf(j)[n] \in plan.d
            /\ \A n \in DOMAIN RBsOf(j) : RBsOf(j)[n] \in plan.rbd
            /\ TillKey \in DOMAIN j /\ j[TillKey] = plan.t
            /\ RBTillKey \in DOMAIN j /\ j[RBTillKey] = plan.rbt
            /\ LastUpdatedKey \in DOMAIN j /\ j[LastUpdatedKey] = "recent"
            /\ At(i, j, HashKey)
<1> DEFINE a == LocalClear(i)
           b == LocalUpdate(a, plan.d, {}, plan.t)
           c == LocalClearRB(b)
           d == LocalUpdateRB(c, plan.rbd, {}, plan.rbt)
           j == PlanItems(i, plan)
<1>0. MainKey \in Keys /\ IsFiniteSet({})
  BY StoragesAssumption, FS_EmptySet
<1>1. /\ a \in Items /\ ExactTypes(a) /\ ExactSets(a) /\ Number(a, UsingSegmentsKey) = 0
      /\ DOMAIN DefsOf(a) = {} /\ RBsOf(a) = RBsOf(i)
      /\ \A x : IsMeta(x) /\ x # TillKey /\ x # LastUpdatedKey => At(i, a, x)
  BY LocalClearIs
<1> HIDE DEF a
<1>2. /\ b \in Items /\ Tallied(a, b)
      /\ FromRules(DefsOf(a), DefsOf(b), plan.d)
      /\ TillKey \in DOMAIN b /\ b[TillKey] = plan.t
      /\ \A x : IsMeta(x) /\ x # TillKey /\ x # LastUpdatedKey => At(a, b, x)
  <2> DEFINE toAdd == plan.d
             none == {}
             till == plan.t
             u == LocalUpdate(a, toAdd, none, till)
  <2>1. toAdd \in SUBSET Def /\ IsFiniteSet(toAdd) /\ IsFiniteSet(none) /\ till \in Nat /\ u = b
    BY <1>0
  <2> HIDE DEF toAdd, none, till, b, u
  <2>2. /\ u \in Items /\ Tallied(a, u)
        /\ FromRules(DefsOf(a), DefsOf(u), toAdd)
        /\ TillKey \in DOMAIN u /\ u[TillKey] = till
        /\ \A x : IsMeta(x) /\ x # TillKey /\ x # LastUpdatedKey => At(a, u, x)
    <3>1. a \in Items
      BY <1>1
    <3>2. u \in Items
      BY <3>1, <2>1, LocalUpdateIs DEF u
    <3>3. Tallied(a, u)
      BY <3>1, <2>1, LocalUpdateIs DEF u
    <3>4. FromRules(DefsOf(a), DefsOf(u), toAdd)
      BY <3>1, <2>1, LocalUpdateIs DEF u
    <3>5. TillKey \in DOMAIN u
      BY <3>1, <2>1, LocalUpdateIs DEF u
    <3>6. u[TillKey] = till
      BY <3>1, <2>1, LocalUpdateIs DEF u
    <3>7. \A x : IsMeta(x) /\ x # TillKey /\ x # LastUpdatedKey => At(a, u, x)
      BY <3>1, <2>1, LocalUpdateIs DEF u
    <3> QED BY <3>1, <3>2, <3>3, <3>4, <3>5, <3>6, <3>7
  <2> QED
    BY <2>1, <2>2 DEF toAdd, till
<1> HIDE DEF b
<1>3. /\ c \in Items /\ Tallied(b, c) /\ DefsOf(c) = DefsOf(b) /\ DOMAIN RBsOf(c) = {}
      /\ \A x : IsMeta(x) /\ x # RBTillKey => At(b, c, x)
  BY <1>2, LocalClearRBIs
<1> HIDE DEF c
<1>4. /\ d \in Items /\ Tallied(c, d) /\ DefsOf(d) = DefsOf(c)
      /\ FromRules(RBsOf(c), RBsOf(d), plan.rbd)
      /\ RBTillKey \in DOMAIN d /\ d[RBTillKey] = plan.rbt
      /\ LastUpdatedKey \in DOMAIN d /\ d[LastUpdatedKey] = "recent"
      /\ \A x : IsMeta(x) /\ x # RBTillKey /\ x # LastUpdatedKey => At(c, d, x)
  BY <1>0, <1>3, LocalUpdateRBIs
<1>5. j = LocalPutSegments(d, MainKey, PlanMemberships(plan, MainKey, LocalSegments(d, MainKey)))
  BY DEF PlanItems, d, c, b, a
<1> HIDE DEF d, j
<1>6. PlanMemberships(plan, MainKey, LocalSegments(d, MainKey)) = PlanNames(plan, MainKey)
  BY <1>4, LocalSegmentsIs, PlanMembershipsIs
<1>7. /\ j \in Items /\ DefsOf(j) = DefsOf(d) /\ RBsOf(j) = RBsOf(d) /\ Tallied(d, j)
      /\ \A x : x[1] # "segment" => At(d, j, x)
  BY <1>0, <1>4, <1>5, <1>6, LocalPutSegmentsIs
<1>8. ExactTypes(j) /\ ExactSets(j)
  BY <1>1, <1>2, <1>3, <1>4, <1>7 DEF Tallied
<1>9. ASSUME \A n \in DOMAIN RBsOf(i) : ~UsesSegments(RBsOf(i)[n]) PROVE ExactUsing(j)
  <2>1. Tally(DefsOf(a), Using) = 0
    BY <1>1, NoRules
  <2>2. Hits(RBsOf(a), UsingRB) = {}
    BY <1>1, <1>9 DEF Hits, UsingRB
  <2>3. Tally(RBsOf(a), UsingRB) = 0
    BY <2>2, FS_EmptySet DEF Tally
  <2>4. ExactUsing(a)
    BY <1>1, <2>1, <2>3 DEF ExactUsing
  <2> QED
    BY <1>2, <1>3, <1>4, <1>7, <2>4 DEF Tallied
<1>10. /\ \A n \in DOMAIN DefsOf(j) : DefsOf(j)[n] \in plan.d
       /\ \A n \in DOMAIN RBsOf(j) : RBsOf(j)[n] \in plan.rbd
  BY <1>1, <1>2, <1>3, <1>4, <1>7 DEF FromRules
<1>11. /\ IsMeta(TillKey) /\ TillKey # RBTillKey /\ TillKey # LastUpdatedKey /\ TillKey[1] # "segment"
       /\ IsMeta(HashKey) /\ HashKey # RBTillKey /\ HashKey # LastUpdatedKey /\ HashKey[1] # "segment"
       /\ HashKey # TillKey /\ RBTillKey[1] # "segment" /\ LastUpdatedKey[1] # "segment"
  BY KeysAre DEF IsMeta
<1>12. At(b, j, TillKey)
  <2>1. At(b, c, TillKey) /\ At(c, d, TillKey) /\ At(d, j, TillKey)
    BY <1>3, <1>4, <1>7, <1>11
  <2> QED
    BY <2>1, AtIsTransitive
<1>13. At(d, j, RBTillKey) /\ At(d, j, LastUpdatedKey)
  BY <1>7, <1>11
<1>14. At(i, j, HashKey)
  <2>1. At(i, a, HashKey) /\ At(a, b, HashKey) /\ At(b, c, HashKey) /\ At(c, d, HashKey) /\ At(d, j, HashKey)
    BY <1>1, <1>2, <1>3, <1>4, <1>7, <1>11
  <2> QED
    BY <2>1, AtIsTransitive
<1>15. /\ TillKey \in DOMAIN j /\ j[TillKey] = plan.t
       /\ RBTillKey \in DOMAIN j /\ j[RBTillKey] = plan.rbt
       /\ LastUpdatedKey \in DOMAIN j /\ j[LastUpdatedKey] = "recent"
  BY <1>2, <1>4, <1>12, <1>13 DEF At
<1> QED
  BY <1>7, <1>8, <1>9, <1>10, <1>14, <1>15 DEF j

\* What validateCache makes of the items: they are cleared, or they keep their rules
\* and have the hash of the settings; expired items are cleared and keep their hash.
LEMMA ValidateCacheIs ==
  ASSUME NEW i \in Items, NEW s, s.hash \in Hashes, NEW key \in Keys
  PROVE  LET v == ValidateCache(i, s, key)
         IN /\ v.items \in Items /\ v.cleared \in BOOLEAN
            /\ ExactTypes(i) => ExactTypes(v.items)
            /\ ExactSets(i) => ExactSets(v.items)
            /\ v.cleared =>
                 /\ ExactUsing(v.items)
                 /\ DOMAIN DefsOf(v.items) = {} /\ DOMAIN RBsOf(v.items) = {}
                 /\ {TillKey, RBTillKey, LastUpdatedKey} \cap DOMAIN v.items = {}
            /\ ~v.cleared =>
                 /\ DefsOf(v.items) = DefsOf(i) /\ RBsOf(v.items) = RBsOf(i) /\ Tallied(i, v.items)
                 /\ \A x : x # HashKey => At(i, v.items, x)
                 /\ s.plan \/ TillKey \notin DOMAIN i \/ (HashKey \in DOMAIN i /\ i[HashKey] = s.hash)
            /\ IF IsExpired(i) THEN v.cleared /\ At(i, v.items, HashKey)
               ELSE HashKey \in DOMAIN v.items /\ v.items[HashKey] = s.hash
<1> DEFINE there == Till(i, TillKey) > -1
           w == ValidateExpiration(i, s, there)
           v == ValidateCache(i, s, key)
           a == LocalClear(w.items)
           b == LocalClearRB(a)
           c == LocalReset(b, key, <<>>)
           e == With(c, LastClearKey, "recent")
<1>1. there <=> TillKey \in DOMAIN i
  <2>1. TillKey \in DOMAIN i => i[TillKey] \in Nat
    BY ItemsWith, Slots
  <2> QED
    BY <2>1 DEF Till
<1>2. /\ w.items = i \/ w.items = With(i, HashKey, s.hash)
      /\ w.clear \in BOOLEAN
      /\ IF IsExpired(i) THEN w.clear /\ w.items = i ELSE HashKey \in DOMAIN w.items /\ w.items[HashKey] = s.hash
      /\ ~w.clear => s.plan \/ ~there \/ (HashKey \in DOMAIN i /\ i[HashKey] = s.hash)
  <2> DEFINE other == HashKey \notin DOMAIN i \/ i[HashKey] # s.hash
             now == s.clearOnInit /\ (LastClearKey \notin DOMAIN i \/ i[LastClearKey] = "old")
             hashed == With(i, HashKey, s.hash)
  <2>1. HashKey \in DOMAIN hashed /\ hashed[HashKey] = s.hash
    BY DEF With
  <2>2. w = IF IsExpired(i) THEN [items |-> i, clear |-> TRUE]
            ELSE IF other THEN [items |-> hashed, clear |-> there /\ ~s.plan] ELSE [items |-> i, clear |-> now]
    BY DEF ValidateExpiration
  <2> HIDE DEF w, hashed, there, now
  <2>3. CASE IsExpired(i)
    BY <2>2, <2>3
  <2>4. CASE ~IsExpired(i) /\ other
    BY <2>1, <2>2, <2>4 DEF hashed, there
  <2>5. CASE ~IsExpired(i) /\ ~other
    BY <2>2, <2>5 DEF now
  <2> QED
    BY <2>3, <2>4, <2>5
<1>3. v = IF w.clear THEN [items |-> e, initialCacheLoad |-> TRUE, cleared |-> TRUE]
          ELSE [items |-> w.items, initialCacheLoad |-> ~there, cleared |-> FALSE]
  BY DEF ValidateCache
<1> HIDE DEF w, v, there
<1>4. v.cleared = w.clear /\ v.items = IF w.clear THEN e ELSE w.items
  BY <1>2, <1>3
<1>5. /\ w.items \in Items /\ \A x : x # HashKey => At(i, w.items, x)
      /\ DefsOf(w.items) = DefsOf(i) /\ RBsOf(w.items) = RBsOf(i) /\ Tallied(i, w.items)
  <2>1. w.items \in Items
    BY <1>2, KeysIn, Slots, ItemsWith
  <2>2. \A x : x # HashKey => At(i, w.items, x)
    <3>1. CASE w.items = i
      BY <3>1 DEF At
    <3>2. CASE w.items = With(i, HashKey, s.hash)
      BY <3>2, WithAt
    <3> QED
      BY <1>2, <3>1, <3>2
  <2>3. IsMeta(HashKey)
    BY KeysAre DEF IsMeta
  <2> QED
    BY <2>1, <2>2, <2>3, OnlyMeta
<1>6. /\ a \in Items /\ ExactTypes(a) /\ ExactSets(a) /\ Number(a, UsingSegmentsKey) = 0
      /\ DOMAIN DefsOf(a) = {} /\ TillKey \notin DOMAIN a /\ LastUpdatedKey \notin DOMAIN a
      /\ \A x : IsMeta(x) /\ x # TillKey /\ x # LastUpdatedKey => At(w.items, a, x)
  BY <1>5, LocalClearIs
<1> HIDE DEF a
<1>7. /\ b \in Items /\ Tallied(a, b) /\ DefsOf(b) = DefsOf(a) /\ DOMAIN RBsOf(b) = {}
      /\ Number(b, UsingSegmentsKey) = 0
      /\ RBTillKey \notin DOMAIN b
      /\ \A x : IsMeta(x) /\ x # RBTillKey => At(a, b, x)
  BY <1>6, LocalClearRBIs
<1> HIDE DEF b
<1>8. /\ c \in Items /\ DefsOf(c) = DefsOf(b) /\ RBsOf(c) = RBsOf(b) /\ Tallied(b, c)
      /\ Number(c, UsingSegmentsKey) = Number(b, UsingSegmentsKey)
      /\ \A x : x[1] # "segment" => At(b, c, x)
  <2>1. <<>> \in Seq(Segment)
    OBVIOUS
  <2> DEFINE none == <<>>
  <2> HIDE DEF none
  <2>2. none \in Seq(Segment)
    BY <2>1 DEF none
  <2>3. c = LocalPutSegments(b, key, ToSet(none)) /\ ToSet(none) \in SUBSET Segment
    <3>1. LocalReset(b, key, none) = LocalPutSegments(b, key, ToSet(none)) /\ ToSet(none) \in SUBSET Segment
      BY <1>7, <2>2, LocalResetIs
    <3> QED
      BY <3>1 DEF none
  <2> HIDE DEF c
  <2> QED
    BY <1>7, <2>3, LocalPutSegmentsIs
<1> HIDE DEF c
<1>9. e \in Items /\ \A x : x # LastClearKey => At(c, e, x)
  BY <1>8, KeysIn, Slots, ItemsWith, WithAt
<1> HIDE DEF e
<1>10. IsMeta(LastClearKey)
  BY KeysAre DEF IsMeta
<1>11. /\ DefsOf(e) = DefsOf(c) /\ RBsOf(e) = RBsOf(c) /\ Tallied(c, e)
       /\ Number(e, UsingSegmentsKey) = Number(c, UsingSegmentsKey)
  <2>1. \A x : ~IsMeta(x) => At(c, e, x)
    BY <1>9, <1>10
  <2> QED
    BY <1>8, <1>9, <2>1, OnlyMeta
<1>12. ExactTypes(e) /\ ExactSets(e)
  BY <1>6, <1>7, <1>8, <1>11 DEF Tallied
<1>13. DOMAIN DefsOf(e) = {} /\ DOMAIN RBsOf(e) = {} /\ ExactUsing(e)
  <2>1. DOMAIN DefsOf(e) = {} /\ DOMAIN RBsOf(e) = {} /\ Number(e, UsingSegmentsKey) = 0
    BY <1>6, <1>7, <1>8, <1>11
  <2>2. Tally(DefsOf(e), Using) = 0 /\ Tally(RBsOf(e), UsingRB) = 0
    BY <2>1, NoRules
  <2> QED
    BY <2>1, <2>2 DEF ExactUsing
<1>14. /\ IsMeta(TillKey) /\ TillKey # RBTillKey /\ TillKey # LastClearKey /\ TillKey[1] # "segment"
       /\ IsMeta(LastUpdatedKey) /\ LastUpdatedKey # RBTillKey /\ LastUpdatedKey # LastClearKey
       /\ LastUpdatedKey[1] # "segment" /\ RBTillKey # LastClearKey /\ RBTillKey[1] # "segment"
       /\ IsMeta(HashKey) /\ HashKey # RBTillKey /\ HashKey # LastUpdatedKey /\ HashKey[1] # "segment"
       /\ HashKey # TillKey /\ HashKey # LastClearKey
  BY KeysAre DEF IsMeta
<1>15. {TillKey, RBTillKey, LastUpdatedKey} \cap DOMAIN e = {}
  <2>1. At(a, b, TillKey) /\ At(b, c, TillKey) /\ At(c, e, TillKey)
    BY <1>7, <1>8, <1>9, <1>14
  <2>2. At(a, b, LastUpdatedKey) /\ At(b, c, LastUpdatedKey) /\ At(c, e, LastUpdatedKey)
    BY <1>7, <1>8, <1>9, <1>14
  <2>3. At(b, c, RBTillKey) /\ At(c, e, RBTillKey)
    BY <1>8, <1>9, <1>14
  <2> QED
    BY <1>6, <1>7, <2>1, <2>2, <2>3 DEF At
<1>16. At(w.items, e, HashKey)
  <2>1. At(w.items, a, HashKey) /\ At(a, b, HashKey) /\ At(b, c, HashKey) /\ At(c, e, HashKey)
    BY <1>6, <1>7, <1>8, <1>9, <1>14
  <2> QED
    BY <2>1, AtIsTransitive
<1>17. CASE w.clear
  <2>1. v.items = e /\ v.cleared
    BY <1>4, <1>17
  <2>2. IF IsExpired(i) THEN At(i, v.items, HashKey) ELSE HashKey \in DOMAIN v.items /\ v.items[HashKey] = s.hash
    BY <1>2, <1>16, <2>1 DEF At
  <2> QED
    BY <1>9, <1>12, <1>13, <1>15, <2>1, <2>2 DEF v
<1>18. CASE ~w.clear
  <2>1. v.items = w.items /\ ~v.cleared /\ v.cleared \in BOOLEAN
    BY <1>2, <1>4, <1>18
  <2>2. ~IsExpired(i) /\ HashKey \in DOMAIN v.items /\ v.items[HashKey] = s.hash
    BY <1>2, <1>18, <2>1
  <2>3. s.plan \/ TillKey \notin DOMAIN i \/ (HashKey \in DOMAIN i /\ i[HashKey] = s.hash)
    BY <1>1, <1>2, <1>18
  <2>4. (ExactTypes(i) => ExactTypes(v.items)) /\ (ExactSets(i) => ExactSets(v.items))
    BY <1>5, <2>1 DEF Tallied
  <2> QED
    BY <1>5, <2>1, <2>2, <2>3, <2>4 DEF v
<1> QED
  BY <1>2, <1>17, <1>18

-----------------------------------------------------------------------------
\* What the backend sends, and what the storage makes of it.

LEMMA DefinitionsAre ==
  ASSUME NEW h \in Hashes, NEW till \in Nat
  PROVE  /\ Definitions(h, till) \in SUBSET Def /\ IsFiniteSet(Definitions(h, till))
         /\ \A d \in Definitions(h, till) : d.env = h
<1> DEFINE f == [r \in Rules |-> Definition(r, h, till)]
<1>1. ASSUME NEW r \in Rules PROVE Definition(r, h, till) \in Def /\ Definition(r, h, till).env = h
  <2>1. r.name \in DefNames /\ r.matchers \in SUBSET Matcher
    BY DEF DefNames, NamesIn, Matcher
  <2>2. r.trafficType \in TrafficType /\ r.sets \in SUBSET FlagSet
    BY StoragesAssumption
  <2>3. r.segments \in SUBSET Segment /\ r.excluded \in SUBSET Segment
    BY StoragesAssumption
  <2> QED
    BY <2>1, <2>2, <2>3 DEF Definition, Def
<1>2. f \in Surjection(Rules, Definitions(h, till))
  BY DEF Surjection, Definitions
<1>3. IsFiniteSet(Definitions(h, till))
  BY <1>2, FS_Surjection, StoragesAssumption
<1> QED
  BY <1>1, <1>3 DEF Definitions

LEMMA RBSegmentsAre ==
  ASSUME NEW h \in Hashes
  PROVE  /\ RBSegments(h) \in SUBSET RBSeg /\ IsFiniteSet(RBSegments(h))
         /\ \A r \in RBSegments(h) : r.env = h
<1> DEFINE f == [r \in RBRules |-> RBSegment(r, h)]
<1>1. ASSUME NEW r \in RBRules PROVE RBSegment(r, h) \in RBSeg /\ RBSegment(r, h).env = h
  <2>1. r.name \in RBNames /\ r.matchers \in SUBSET Matcher
    BY DEF RBNames, NamesIn, Matcher
  <2>2. r.segments \in SUBSET Segment /\ r.excluded \in SUBSET Segment
    BY StoragesAssumption
  <2> QED
    BY <2>1, <2>2 DEF RBSegment, RBSeg
<1>2. f \in Surjection(RBRules, RBSegments(h))
  BY DEF Surjection, RBSegments
<1>3. IsFiniteSet(RBSegments(h))
  BY <1>2, FS_Surjection, StoragesAssumption
<1> QED
  BY <1>1, <1>3 DEF RBSegments

LEMMA OneByNameIs ==
  ASSUME NEW S, IsFiniteSet(S)
  PROVE  OneByName(S) \in SUBSET S /\ IsFiniteSet(OneByName(S))
<1>1. ASSUME NEW n \in NamesIn(S) PROVE (CHOOSE r \in S : r.name = n) \in S
  BY DEF NamesIn
<1>2. OneByName(S) \in SUBSET S
  BY <1>1 DEF OneByName
<1> QED
  BY <1>2, FS_Subset

\* A plan of the backend with this hash.
LEMMA APlanIs ==
  ASSUME NEW h \in Hashes, NEW till \in Nat
  PROVE  LET p == APlan(h, till)
         IN /\ p.d \in SUBSET Def /\ IsFiniteSet(p.d) /\ p.rbd \in SUBSET RBSeg /\ IsFiniteSet(p.rbd)
            /\ p.t = till /\ p.rbt = till
            /\ \A d \in p.d : d.env = h /\ MatchFilters(d)
            /\ \A r \in p.rbd : r.env = h
            /\ p.segmentChanges \in SegmentMaps
            /\ PlanNames(p, MainKey) \in SUBSET Segment
<1> DEFINE p == APlan(h, till)
           S == {d \in Definitions(h, till) : MatchFilters(d)}
           R == RBSegments(h)
           c == [n \in Segment |-> [keys |-> {MainKey}, till |-> till]]
<1>1. p.d = OneByName(S) /\ p.rbd = OneByName(R) /\ p.t = till /\ p.rbt = till
  BY DEF APlan
<1>2. p.segmentChanges = c /\ p.memberships = <<>>
  BY DEF APlan
<1>3. S \in SUBSET Definitions(h, till) /\ \A d \in S : MatchFilters(d)
  OBVIOUS
<1> HIDE DEF S, R, p
<1>4. /\ S \in SUBSET Def /\ IsFiniteSet(S) /\ \A d \in S : d.env = h
      /\ R \in SUBSET RBSeg /\ IsFiniteSet(R) /\ \A r \in R : r.env = h
  <2>1. /\ Definitions(h, till) \in SUBSET Def /\ IsFiniteSet(Definitions(h, till))
        /\ \A d \in Definitions(h, till) : d.env = h
    BY DefinitionsAre
  <2>2. IsFiniteSet(S)
    BY <1>3, <2>1, FS_Subset
  <2> QED
    BY <1>3, <2>1, <2>2, RBSegmentsAre DEF R
<1>5. /\ OneByName(S) \in SUBSET S /\ IsFiniteSet(OneByName(S))
      /\ OneByName(R) \in SUBSET R /\ IsFiniteSet(OneByName(R))
  BY <1>4, OneByNameIs
<1>6. c \in SegmentMaps
  <2>1. DOMAIN c = Segment /\ c = [n \in DOMAIN c |-> c[n]]
    OBVIOUS
  <2>2. \A n \in DOMAIN c : c[n] \in SegmentInfo
    BY StoragesAssumption DEF SegmentInfo
  <2> HIDE DEF c
  <2> QED
    BY <2>1, <2>2, MapIs DEF SegmentMaps
<1>7. PlanNames(p, MainKey) \in SUBSET Segment
  <2>1. DOMAIN p.memberships = {} /\ DOMAIN p.segmentChanges = Segment
    BY <1>2
  <2> QED
    BY <2>1 DEF PlanNames
<1> QED
  BY <1>1, <1>2, <1>3, <1>4, <1>5, <1>6, <1>7 DEF p

LEMMA ComputeMutationIs ==
  ASSUME NEW updated, IsFiniteSet(updated), NEW removed, IsFiniteSet(removed), NEW filtered \in BOOLEAN
  PROVE  LET c == ComputeMutation(updated, removed, filtered)
         IN /\ c.updated \in SUBSET updated /\ IsFiniteSet(c.updated) /\ IsFiniteSet(c.removed)
            /\ filtered => \A r \in c.updated : MatchFilters(r)
            /\ (\A r \in updated : ParseSegments(r) \in SUBSET Segment) => c.segments \in SUBSET Segment
<1> DEFINE passing == IF filtered THEN {r \in updated : MatchFilters(r)} ELSE updated
           c == ComputeMutation(updated, removed, filtered)
<1>1. /\ c.updated = passing /\ c.removed = removed \cup NamesIn(updated \ passing)
      /\ c.segments = UNION {ParseSegments(r) : r \in passing}
  BY DEF ComputeMutation
<1>2. passing \in SUBSET updated /\ (filtered => \A r \in passing : MatchFilters(r))
  OBVIOUS
<1> HIDE DEF passing, c
<1>3. IsFiniteSet(passing) /\ IsFiniteSet(updated \ passing)
  BY <1>2, FS_Subset
<1>4. IsFiniteSet(removed \cup NamesIn(updated \ passing))
  BY <1>3, NamesAreFinite, FS_Union
<1> QED
  BY <1>1, <1>2, <1>3, <1>4 DEF c

LEMMA SegmentMapsWith ==
  ASSUME NEW m \in SegmentMaps
  PROVE  /\ \A n \in Segment, added, removed \in SUBSET Keys, till \in Nat :
              UpdateSegment(m, n, added, removed, till) \in SegmentMaps
         /\ \A names \in SUBSET Segment : RegisterSegments(m, names) \in SegmentMaps
<1>1. m \in Maps(Segment, SegmentInfo) /\ DOMAIN m \subseteq Segment /\ \A n \in DOMAIN m : m[n] \in SegmentInfo
  BY MapIs DEF SegmentMaps
<1>2. ASSUME NEW n \in Segment, NEW added \in SUBSET Keys, NEW removed \in SUBSET Keys, NEW till \in Nat
      PROVE  UpdateSegment(m, n, added, removed, till) \in SegmentMaps
  <2> DEFINE keys == IF n \in DOMAIN m THEN m[n].keys ELSE {}
             v == [keys |-> (keys \cup added) \ removed, till |-> till]
  <2>1. v \in SegmentInfo
    BY <1>1 DEF SegmentInfo
  <2>2. UpdateSegment(m, n, added, removed, till) = With(m, n, v)
    BY DEF UpdateSegment
  <2> HIDE DEF v
  <2> QED
    BY <1>1, <2>1, <2>2, WithMaps DEF SegmentMaps
<1>3. ASSUME NEW names \in SUBSET Segment PROVE RegisterSegments(m, names) \in SegmentMaps
  <2> DEFINE w == RegisterSegments(m, names)
             none == [keys |-> {}, till |-> NoTill]
  <2>1. none \in SegmentInfo
    BY DEF SegmentInfo, NoTill
  <2>2. /\ DOMAIN w = DOMAIN m \cup names /\ w = [n \in DOMAIN w |-> w[n]]
        /\ \A n \in DOMAIN w : w[n] = IF n \in DOMAIN m THEN m[n] ELSE none
    BY DEF RegisterSegments
  <2> HIDE DEF w, none
  <2>3. DOMAIN w \subseteq Segment /\ \A n \in DOMAIN w : w[n] \in SegmentInfo
    BY <1>1, <2>1, <2>2
  <2>4. w \in SegmentMaps
    BY <2>2, <2>3, MapIs DEF SegmentMaps
  <2> QED
    BY <2>4 DEF w
<1> QED
  BY <1>2, <1>3

-----------------------------------------------------------------------------
\* The invariant of the sessions.

\* What the wrapper has stored, and the write in flight.
Copies == {disk} \cup ToSet(writes)

Held ==
  /\ phase \in {"off", "loading", "up"}
  /\ kind \in Kinds
  /\ phase # "off" => settings.hash \in Hashes
  /\ phase = "loading" => ~InMemory
  /\ memory \in Memory
  /\ items \in Items

Typed ==
  /\ Held
  /\ Copies \subseteq Items
  /\ writes \in Seq(Items)

\* One write at a time, of a wrapper that is up; and the last write brings what the
\* items are, unless a kill came or another save waits.
ChainOfSaves ==
  /\ queued \in Nat
  /\ Len(writes) <= 1 /\ Len(writes) <= queued
  /\ kind # "wrapper" => queued = 0 /\ ~saved
  /\ phase # "up" => queued = 0 /\ ~saved
  /\ queued = 0 /\ saved /\ ~killed => disk = items
  /\ queued = 1 /\ writes # <<>> /\ ~killed => writes[1] = items

ItemsAreExact ==
  /\ ExactTypes(items) /\ ExactSets(items)
  /\ ~drifted => ExactUsing(items)
  /\ kind # "localStorage" => ~drifted

CopiesAreExact == \A i \in Copies : ExactTypes(i) /\ ExactSets(i) /\ ExactUsing(i)

AnswerIsKept == answer # None => answer.key \in Keys /\ Memberships(answer.key) = ToSet(answer.names)

\* Items of one configuration: without a change number they are as good as none, and
\* rules and change numbers are of the hash, and pass the filters.
Whole(i) ==
  TillKey \notin DOMAIN i =>
    DOMAIN DefsOf(i) = {} /\ DOMAIN RBsOf(i) = {} /\ RBTillKey \notin DOMAIN i /\ LastUpdatedKey \notin DOMAIN i

Mine(i, h) ==
  /\ TillKey \in DOMAIN i => i[TillKey] \in Tills[h]
  /\ RBTillKey \in DOMAIN i => i[RBTillKey] \in Tills[h]
  /\ \A n \in DOMAIN DefsOf(i) : DefsOf(i)[n].env = h /\ MatchFilters(DefsOf(i)[n])
  /\ \A n \in DOMAIN RBsOf(i) : RBsOf(i)[n].env = h

Labelled(i) == HashKey \in DOMAIN i => Mine(i, i[HashKey])
Tagged(i) == TillKey \in DOMAIN i => HashKey \in DOMAIN i

\* The items as they are between sessions, before their validation and after it.
ItemsAreLabelled ==
  /\ Whole(items)
  /\ phase = "off" => Labelled(items)
  /\ phase = "loading" =>
       /\ IF settings.plan THEN Mine(items, settings.hash) ELSE Labelled(items)
       /\ kind = "wrapper" => HashKey \notin DOMAIN items /\ ~IsExpired(items)
  /\ phase = "up" =>
       /\ Mine(items, settings.hash)
       /\ ~HasOtherHash(items)
       /\ kind = "wrapper" => HashKey \in DOMAIN items

CopiesAreLabelled == \A i \in Copies : Whole(i) /\ Labelled(i) /\ Tagged(i)

Labels == mislabelled \/ (CopiesAreLabelled /\ (~InMemory => ItemsAreLabelled))

MemoryIsOurs ==
  phase = "up" /\ InMemory =>
    /\ \A n \in DOMAIN memory.definitions.defs :
         memory.definitions.defs[n].env = settings.hash /\ MatchFilters(memory.definitions.defs[n])
    /\ \A n \in DOMAIN memory.rbSegments.rbs : memory.rbSegments.rbs[n].env = settings.hash
    /\ memory.definitions.cn \in Tills[settings.hash] \cup {-1}

StoragesInv ==
  /\ Typed /\ ChainOfSaves /\ ItemsAreExact /\ CopiesAreExact /\ AnswerIsKept /\ Labels /\ MemoryIsOurs

\* The invariant without what is said of copies.
Current ==
  Held /\ ItemsAreExact /\ AnswerIsKept /\ MemoryIsOurs /\ (mislabelled \/ InMemory \/ ItemsAreLabelled)

LEMMA NoItemsIs ==
  /\ NoItems \in Items /\ DOMAIN NoItems = {}
  /\ DOMAIN DefsOf(NoItems) = {} /\ DOMAIN RBsOf(NoItems) = {}
  /\ ExactTypes(NoItems) /\ ExactSets(NoItems) /\ ExactUsing(NoItems)
  /\ Whole(NoItems) /\ Labelled(NoItems) /\ Tagged(NoItems)
<1>1. DOMAIN NoItems = {} /\ NoItems = [k \in DOMAIN NoItems |-> NoItems[k]]
  BY DEF NoItems
<1>2. NoItems \in Items
  BY <1>1, MapIs DEF Items
<1>3. DOMAIN DefsOf(NoItems) = {} /\ DOMAIN RBsOf(NoItems) = {}
  BY <1>1, <1>2, DefsOfIs
<1>4. /\ \A Z : Tally(DefsOf(NoItems), Z) = 0 /\ Tally(RBsOf(NoItems), Z) = 0
      /\ \A s : InSet(DefsOf(NoItems), s) = {}
  BY <1>3, NoRules
<1>5. (\A k : Number(NoItems, k) = 0) /\ \A s : LocalNamesBySets(NoItems, s) = {}
  BY <1>1 DEF Number, LocalNamesBySets
<1>6. ExactTypes(NoItems) /\ ExactSets(NoItems) /\ ExactUsing(NoItems)
  BY <1>4, <1>5 DEF ExactTypes, ExactSets, ExactUsing
<1> QED
  BY <1>1, <1>2, <1>3, <1>6 DEF Whole, Labelled, Tagged

\* Time passing over the items.
LEMMA AgedIs ==
  ASSUME NEW i \in Items
  PROVE  /\ Aged(i) \in Items /\ DOMAIN Aged(i) = DOMAIN i
         /\ DefsOf(Aged(i)) = DefsOf(i) /\ RBsOf(Aged(i)) = RBsOf(i) /\ Tallied(i, Aged(i))
         /\ \A x : x # LastUpdatedKey /\ x # LastClearKey => At(i, Aged(i), x)
<1> DEFINE j == Aged(i)
<1>1. /\ DOMAIN j = DOMAIN i /\ j = [k \in DOMAIN j |-> j[k]]
      /\ \A k \in DOMAIN i : j[k] = IF k \in {LastUpdatedKey, LastClearKey} THEN "old" ELSE i[k]
  BY DEF Aged
<1> HIDE DEF j
<1>2. \A k \in DOMAIN i : k \in ItemKeys /\ i[k] \in Slot(k)
  BY ItemsWith
<1>3. \A k \in DOMAIN j : k \in ItemKeys /\ j[k] \in Slot(k)
  BY <1>1, <1>2, Slots
<1>4. \A k \in DOMAIN j : j[k] \in Anything
  BY <1>3 DEF Anything
<1>5. j \in Items
  <2>1. j \in Maps(ItemKeys, Anything)
    BY <1>1, <1>3, <1>4, MapIs
  <2> QED
    BY <1>3, <2>1 DEF Items
<1>6. \A x : x # LastUpdatedKey /\ x # LastClearKey => At(i, j, x)
  BY <1>1 DEF At
<1>7. \A x : ~IsMeta(x) => At(i, j, x)
  <2>1. IsMeta(LastUpdatedKey) /\ IsMeta(LastClearKey)
    BY KeysAre DEF IsMeta
  <2> QED
    BY <1>6, <2>1
<1> QED
  BY <1>1, <1>5, <1>6, <1>7, OnlyMeta DEF j

\* Items that agree on their rules, their change numbers and their hash.
LEMMA LabelsAt ==
  ASSUME NEW i, NEW j, DefsOf(j) = DefsOf(i), RBsOf(j) = RBsOf(i),
         At(i, j, TillKey), At(i, j, RBTillKey), NEW h
  PROVE  /\ Mine(i, h) => Mine(j, h)
         /\ (LastUpdatedKey \in DOMAIN j => LastUpdatedKey \in DOMAIN i) => (Whole(i) => Whole(j))
         /\ At(i, j, HashKey) => (Labelled(i) => Labelled(j)) /\ (Tagged(i) => Tagged(j))
<1>1. \A g : Mine(i, g) => Mine(j, g)
  BY DEF At, Mine
<1>2. (LastUpdatedKey \in DOMAIN j => LastUpdatedKey \in DOMAIN i) => (Whole(i) => Whole(j))
  BY DEF At, Whole
<1>3. At(i, j, HashKey) => (Labelled(i) => Labelled(j)) /\ (Tagged(i) => Tagged(j))
  BY <1>1 DEF At, Labelled, Tagged
<1> QED
  BY <1>1, <1>2, <1>3

LEMMA AgedLabels ==
  ASSUME NEW i \in Items
  PROVE  /\ Whole(i) => Whole(Aged(i))
         /\ Labelled(i) => Labelled(Aged(i))
         /\ Tagged(i) => Tagged(Aged(i))
<1> DEFINE j == Aged(i)
<1>1. /\ DOMAIN j = DOMAIN i /\ DefsOf(j) = DefsOf(i) /\ RBsOf(j) = RBsOf(i)
      /\ \A x : x # LastUpdatedKey /\ x # LastClearKey => At(i, j, x)
  BY AgedIs
<1> HIDE DEF j
<1>2. At(i, j, TillKey) /\ At(i, j, RBTillKey) /\ At(i, j, HashKey)
  BY <1>1, KeysAre
<1>3. (Whole(i) => Whole(j)) /\ (Labelled(i) => Labelled(j)) /\ (Tagged(i) => Tagged(j))
  BY <1>1, <1>2, LabelsAt
<1> QED
  BY <1>3 DEF j

-----------------------------------------------------------------------------
\* The chain of saves.

LEMMA OneWrite ==
  ASSUME Typed, Len(writes) <= 1
  PROVE  /\ writes = <<>> \/ (writes = <<writes[1]>> /\ writes[1] \in Items)
         /\ writes # <<>> => Len(writes) = 1 /\ writes[Len(writes)] = writes[1] /\ ToSet(writes) = {writes[1]}
         /\ writes = <<>> => ToSet(writes) = {} /\ Len(writes) = 0
         /\ \A i \in DOMAIN writes : i = 1 /\ RemoveAt(writes, i) = <<>>
<1>1. writes \in Seq(Items)
  BY DEF Typed
<1>2. CASE Len(writes) = 0
  <2>1. writes = <<>>
    BY <1>1, <1>2
  <2>2. DOMAIN writes = {}
    BY <2>1
  <2>3. ToSet(writes) = {}
    BY <2>2 DEF ToSet
  <2> QED
    BY <1>2, <2>1, <2>2, <2>3
<1>3. CASE Len(writes) = 1
  <2>1. DOMAIN writes = {1} /\ writes = <<writes[1]>> /\ writes[1] \in Items
    <3>1. DOMAIN writes = 1..1 /\ 1..1 = {1}
      BY <1>1, <1>3
    <3>2. writes[1] \in Items
      BY <1>1, <1>3
    <3>3. writes = [i \in 1..1 |-> writes[i]] /\ <<writes[1]>> = [i \in 1..1 |-> writes[1]]
      BY <1>1, <1>3
    <3> QED
      BY <3>1, <3>2, <3>3
  <2>2. ToSet(writes) = {writes[1]}
    BY <2>1 DEF ToSet
  <2>3. SubSeq(writes, 1, 0) = <<>> /\ SubSeq(writes, 2, 1) = <<>>
    BY <1>1, <1>3
  <2>4. RemoveAt(writes, 1) = SubSeq(writes, 1, 0) \o SubSeq(writes, 2, 1)
    BY <1>3 DEF RemoveAt
  <2>5. RemoveAt(writes, 1) = <<>>
    BY <2>3, <2>4
  <2>6. writes # <<>>
    BY <1>3
  <2> QED
    BY <1>3, <2>1, <2>2, <2>5, <2>6
<1> QED
  BY <1>1, <1>2, <1>3

\* Every action of the synchronisation is a piece of work.
LEMMA SyncWorks ==
  ASSUME Sync
  PROVE  Works
<1>1. ASSUME NEW a, NEW b, NEW c, NEW d, NEW till, SyncDefinitions(a, b, c, d, till) PROVE Works
  BY <1>1 DEF SyncDefinitions
<1>2. ASSUME NEW name, NEW till, Kill(name, till) PROVE Works
  BY <1>2 DEF Kill
<1>3. ASSUME NEW key, NEW names, SyncMemberships(key, names) PROVE Works
  BY <1>3 DEF SyncMemberships
<1>4. ASSUME NEW key, NEW n, NEW adds, ChangeMemberships(key, n, adds) PROVE Works
  BY <1>4 DEF ChangeMemberships
<1>5. ASSUME NEW n, NEW added, NEW removed, SyncSegment(n, added, removed) PROVE Works
  BY <1>5 DEF SyncSegment
<1> QED
  BY <1>1, <1>2, <1>3, <1>4, <1>5 DEF Sync

LEMMA ChainStep ==
  ASSUME StoragesInv, Next
  PROVE  ChainOfSaves'
<1> USE DEF StoragesInv, Saves, Works, Count
<1>1. /\ queued \in Nat /\ Len(writes) \in Nat /\ Len(writes) <= 1 /\ Len(writes) <= queued
      /\ Typed
  BY DEF ChainOfSaves, Typed
<1>2. ASSUME Session PROVE ChainOfSaves'
  <2>1. ASSUME NEW s, Build(s) PROVE ChainOfSaves'
    BY <1>1, <2>1 DEF ChainOfSaves, Build
  <2>2. ASSUME NEW loads \in BOOLEAN, Validate(loads) PROVE ChainOfSaves'
    BY <1>1, <2>2 DEF ChainOfSaves, Validate
  <2>3. ASSUME NEW landed, NEW aged, End(landed, aged) PROVE ChainOfSaves'
    BY <1>1, <2>3 DEF ChainOfSaves, End
  <2> QED
    BY <1>2, <2>1, <2>2, <2>3 DEF Session
<1>3. ASSUME phase = "up", Sync PROVE ChainOfSaves'
  <2> DEFINE Saved == /\ queued' = queued + (IF kind = "wrapper" THEN 1 ELSE 0) /\ killed' = FALSE
                      /\ UNCHANGED <<kind, phase, disk, writes, saved>>
  <2>1. ASSUME NEW a, NEW b, NEW c, NEW d, NEW till, SyncDefinitions(a, b, c, d, till) PROVE Saved
    BY <2>1 DEF SyncDefinitions
  <2>2. ASSUME NEW name, NEW till, Kill(name, till) PROVE ChainOfSaves'
    BY <1>1, <2>2 DEF ChainOfSaves, Kill
  <2>3. ASSUME NEW key, NEW names, SyncMemberships(key, names) PROVE Saved
    BY <2>3 DEF SyncMemberships
  <2>4. ASSUME NEW key, NEW n, NEW adds, ChangeMemberships(key, n, adds) PROVE Saved
    BY <2>4 DEF ChangeMemberships
  <2>5. ASSUME NEW n, NEW added, NEW removed, SyncSegment(n, added, removed) PROVE ChainOfSaves'
    BY <1>1, <2>5 DEF ChainOfSaves, SyncSegment
  <2>6. ASSUME Saved PROVE ChainOfSaves'
    <3>1. CASE kind = "wrapper"
      <4>1. queued' \in Nat /\ queued' # 0 /\ Len(writes') <= queued' /\ (queued' = 1 => queued = 0)
        BY <1>1, <2>6, <3>1
      <4>2. queued = 0 => writes = <<>>
        BY <1>1, OneWrite
      <4> QED
        BY <1>1, <1>3, <2>6, <3>1, <4>1, <4>2 DEF ChainOfSaves
    <3>2. CASE kind # "wrapper"
      <4>1. queued' = 0 /\ queued = 0 /\ Len(writes) <= 0
        BY <1>1, <2>6, <3>2 DEF ChainOfSaves
      <4>2. writes = <<>>
        BY <1>1, <4>1, OneWrite
      <4> QED
        BY <1>1, <1>3, <2>6, <3>2, <4>1, <4>2 DEF ChainOfSaves
    <3> QED
      BY <3>1, <3>2
  <2> HIDE DEF Saved
  <2> QED
    BY <1>3, <2>1, <2>2, <2>3, <2>4, <2>5, <2>6 DEF Sync
<1>4. ASSUME StartWrite PROVE ChainOfSaves'
  <2>1. writes' = <<items>> /\ Len(writes') = 1 /\ writes'[1] = items /\ writes' # <<>>
    BY <1>4 DEF StartWrite
  <2> QED
    BY <1>1, <1>4, <2>1 DEF ChainOfSaves, StartWrite
<1>5. ASSUME NEW i \in DOMAIN writes, NEW ok \in BOOLEAN, EndWrite(i, ok) PROVE ChainOfSaves'
  <2>1. i = 1 /\ writes' = <<>> /\ writes # <<>> /\ Len(writes) = 1
    BY <1>1, <1>5, OneWrite DEF EndWrite
  <2>2. Len(writes') = 0
    BY <2>1
  <2> QED
    BY <1>1, <1>5, <2>1, <2>2 DEF ChainOfSaves, EndWrite
<1> QED
  BY <1>2, <1>3, <1>4, <1>5 DEF Next

\* What the wrapper has is what it had, aged or not, or the items of a session.
LEMMA CopiesStep ==
  ASSUME StoragesInv, Next, NEW i \in Copies'
  PROVE  \/ i \in Copies
         \/ \E c \in Copies : i = Aged(c)
         \/ i = items /\ kind = "wrapper" /\ phase = "up"
<1> USE DEF StoragesInv, Saves, Works
<1>1. /\ queued \in Nat /\ Len(writes) <= 1
      /\ queued > 0 => kind = "wrapper" /\ phase = "up"
  BY DEF ChainOfSaves
<1>2. /\ writes # <<>> => writes[Len(writes)] \in Copies /\ ToSet(writes) = {writes[1]} /\ writes[1] \in Copies
      /\ ToSet(<<>>) = {} /\ disk \in Copies
  <2>1. ToSet(<<>>) = {}
    BY DEF ToSet
  <2> QED
    BY <1>1, <2>1, OneWrite DEF Copies
<1>3. CASE UNCHANGED <<disk, writes>>
  BY <1>3 DEF Copies
<1>4. ASSUME NEW landed, NEW aged, End(landed, aged) PROVE i \in Copies \/ \E c \in Copies : i = Aged(c)
  <2> DEFINE on == IF landed /\ writes # <<>> THEN writes[Len(writes)] ELSE disk
  <2>1. writes' = <<>> /\ disk' = IF aged THEN Aged(on) ELSE on
    BY <1>4 DEF End
  <2>2. on \in Copies
    BY <1>2
  <2> HIDE DEF on
  <2>3. i = disk'
    BY <1>2, <2>1 DEF Copies
  <2> QED
    BY <2>1, <2>2, <2>3
<1>5. ASSUME StartWrite PROVE i \in Copies \/ (i = items /\ kind = "wrapper" /\ phase = "up")
  <2>1. writes' = <<items>> /\ disk' = disk /\ queued > 0
    BY <1>1, <1>5 DEF StartWrite
  <2>2. ToSet(writes') = {items}
    BY <2>1 DEF ToSet
  <2> QED
    BY <1>1, <1>2, <2>1, <2>2 DEF Copies
<1>6. ASSUME NEW k \in DOMAIN writes, NEW ok, EndWrite(k, ok) PROVE i \in Copies
  <2>1. k = 1 /\ writes' = <<>> /\ writes # <<>>
    BY <1>1, <1>6, OneWrite DEF EndWrite
  <2>2. disk' = writes[1] \/ disk' = disk
    BY <1>6, <2>1 DEF EndWrite
  <2> QED
    BY <1>2, <2>1, <2>2 DEF Copies
<1>7. ASSUME Session PROVE UNCHANGED <<disk, writes>> \/ \E landed, aged \in BOOLEAN : End(landed, aged)
  <2>1. ASSUME NEW s, Build(s) PROVE UNCHANGED <<disk, writes>>
    BY <2>1 DEF Build
  <2>2. ASSUME NEW loads \in BOOLEAN, Validate(loads) PROVE UNCHANGED <<disk, writes>>
    BY <2>2 DEF Validate
  <2> QED
    BY <1>7, <2>1, <2>2 DEF Session
<1>8. ASSUME Sync PROVE UNCHANGED <<disk, writes>>
  BY <1>8, SyncWorks
<1> QED
  BY <1>3, <1>4, <1>5, <1>6, <1>7, <1>8 DEF Next

-----------------------------------------------------------------------------
\* The copies that a step leaves.

LEMMA CopiesKept ==
  ASSUME StoragesInv, Next
  PROVE  /\ (Copies \subseteq Items)'
         /\ CopiesAreExact'
         /\ mislabelled \/ CopiesAreLabelled'
<1>1. \A i \in Copies : i \in Items /\ ExactTypes(i) /\ ExactSets(i) /\ ExactUsing(i)
  BY DEF StoragesInv, Typed, CopiesAreExact
<1>2. mislabelled \/ \A i \in Copies : Whole(i) /\ Labelled(i) /\ Tagged(i)
  BY DEF StoragesInv, Labels, CopiesAreLabelled
<1>3. ASSUME kind = "wrapper", phase = "up"
      PROVE  /\ items \in Items /\ ExactTypes(items) /\ ExactSets(items) /\ ExactUsing(items)
             /\ mislabelled \/ (Whole(items) /\ Labelled(items) /\ Tagged(items))
  <2>1. items \in Items /\ ExactTypes(items) /\ ExactSets(items) /\ ExactUsing(items)
    BY <1>3 DEF StoragesInv, Typed, Held, ItemsAreExact
  <2>2. mislabelled \/ (Whole(items) /\ Mine(items, settings.hash) /\ ~HasOtherHash(items) /\ HashKey \in DOMAIN items)
    BY <1>3 DEF StoragesInv, Labels, ItemsAreLabelled, InMemory
  <2>3. mislabelled \/ (Labelled(items) /\ Tagged(items))
    BY <2>2 DEF Labelled, Tagged, HasOtherHash
  <2> QED
    BY <2>1, <2>2, <2>3
<1>4. ASSUME NEW c \in Copies
      PROVE  /\ Aged(c) \in Items /\ ExactTypes(Aged(c)) /\ ExactSets(Aged(c)) /\ ExactUsing(Aged(c))
             /\ mislabelled \/ (Whole(Aged(c)) /\ Labelled(Aged(c)) /\ Tagged(Aged(c)))
  <2>1. Aged(c) \in Items /\ Tallied(c, Aged(c))
    BY <1>1, AgedIs
  <2>2. ExactTypes(Aged(c)) /\ ExactSets(Aged(c)) /\ ExactUsing(Aged(c))
    BY <1>1, <2>1 DEF Tallied
  <2>3. mislabelled \/ (Whole(Aged(c)) /\ Labelled(Aged(c)) /\ Tagged(Aged(c)))
    BY <1>1, <1>2, AgedLabels
  <2> QED
    BY <2>1, <2>2, <2>3
<1>5. ASSUME NEW i \in Copies'
      PROVE  /\ i \in Items /\ ExactTypes(i) /\ ExactSets(i) /\ ExactUsing(i)
             /\ mislabelled \/ (Whole(i) /\ Labelled(i) /\ Tagged(i))
  <2>1. \/ i \in Copies
        \/ \E c \in Copies : i = Aged(c)
        \/ i = items /\ kind = "wrapper" /\ phase = "up"
    BY CopiesStep
  <2>2. CASE i \in Copies
    BY <1>1, <1>2, <2>2
  <2>3. CASE \E c \in Copies : i = Aged(c)
    <3>1. PICK c \in Copies : i = Aged(c)
      BY <2>3
    <3> QED
      BY <1>4, <3>1
  <2>4. CASE i = items /\ kind = "wrapper" /\ phase = "up"
    BY <1>3, <2>4
  <2> QED
    BY <2>1, <2>2, <2>3, <2>4
<1>6. (Copies \subseteq Items)'
  BY <1>5
<1>7. CopiesAreExact'
  BY <1>5 DEF CopiesAreExact
<1>8. mislabelled \/ CopiesAreLabelled'
  BY <1>5 DEF CopiesAreLabelled
<1> QED
  BY <1>6, <1>7, <1>8

-----------------------------------------------------------------------------
\* A session begins.

LEMMA TillsAre == \A h \in Hashes : \A till \in Tills[h] : till \in Nat
  BY StoragesAssumption

LEMMA NoMemoryIs == NoMemory \in Memory
<1>1. EmptyDefinitions \in ExactDefs /\ EmptyRBSegments \in ExactRBs /\ <<>> \in SegmentMaps
  BY EmptyIsExact, EmptyMap DEF SegmentMaps
<1> QED
  BY <1>1 DEF NoMemory, Memory

LEMMA PlanMemoryIs ==
  ASSUME NEW m \in Memory, NEW h \in Hashes, NEW till \in Tills[h]
  PROVE  LET p == PlanMemory(m, APlan(h, till))
         IN /\ p \in Memory /\ p.definitions.cn = till
            /\ \A n \in DOMAIN p.definitions.defs :
                 p.definitions.defs[n].env = h /\ MatchFilters(p.definitions.defs[n])
            /\ \A n \in DOMAIN p.rbSegments.rbs : p.rbSegments.rbs[n].env = h
<1> DEFINE plan == APlan(h, till)
           d == PlanDefinitions(plan)
           r == PlanRBSegments(plan)
           p == PlanMemory(m, plan)
<1>1. till \in Nat /\ MainKey \in Keys
  BY TillsAre, StoragesAssumption
<1>2. /\ plan.d \in SUBSET Def /\ IsFiniteSet(plan.d) /\ plan.rbd \in SUBSET RBSeg /\ IsFiniteSet(plan.rbd)
      /\ plan.t = till /\ plan.rbt = till
      /\ \A x \in plan.d : x.env = h /\ MatchFilters(x)
      /\ \A x \in plan.rbd : x.env = h
      /\ plan.segmentChanges \in SegmentMaps
      /\ PlanNames(plan, MainKey) \in SUBSET Segment
  BY <1>1, APlanIs
<1> HIDE DEF plan
<1>3. DOMAIN EmptyDefinitions.defs = {} /\ DOMAIN EmptyRBSegments.rbs = {}
  BY DEF EmptyDefinitions, EmptyRBSegments
<1>4. d \in ExactDefs /\ d.cn = till /\ \A n \in DOMAIN d.defs : d.defs[n] \in plan.d
  <2> DEFINE E == EmptyDefinitions
             S == plan.d
             u == UpdateDefinitions(E, S, {}, till)
  <2>1. E \in ExactDefs /\ S \in SUBSET Def /\ IsFiniteSet(S) /\ IsFiniteSet({}) /\ till \in Int
    BY <1>1, <1>2, EmptyIsExact, FS_EmptySet
  <2>2. d = u
    BY <1>2 DEF PlanDefinitions
  <2>3. DOMAIN E.defs = {}
    BY <1>3
  <2> HIDE DEF E, S
  <2>4. u \in ExactDefs /\ u.cn = till
    BY <2>1, UpdateDefinitionsIsExact
  <2>5. \A n \in DOMAIN u.defs : u.defs[n] \in S \/ n \in DOMAIN E.defs
    BY <2>1, UpdateDefinitionsIsExact
  <2> HIDE DEF d, u
  <2> QED
    BY <2>2, <2>3, <2>4, <2>5 DEF S
<1>5. r \in ExactRBs /\ \A n \in DOMAIN r.rbs : r.rbs[n] \in plan.rbd
  <2> DEFINE E == EmptyRBSegments
             S == plan.rbd
             u == UpdateRBSegments(E, S, {}, till)
  <2>1. E \in ExactRBs /\ S \in SUBSET RBSeg /\ IsFiniteSet(S) /\ IsFiniteSet({}) /\ till \in Int
    BY <1>1, <1>2, EmptyIsExact, FS_EmptySet
  <2>2. r = u
    BY <1>2 DEF PlanRBSegments
  <2>3. DOMAIN E.rbs = {}
    BY <1>3
  <2> HIDE DEF E, S
  <2>4. u \in ExactRBs
    BY <2>1, UpdateRBSegmentsIsExact
  <2>5. \A n \in DOMAIN u.rbs : u.rbs[n] \in S \/ n \in DOMAIN E.rbs
    BY <2>1, UpdateRBSegmentsIsExact
  <2> HIDE DEF r, u
  <2> QED
    BY <2>2, <2>3, <2>4, <2>5 DEF S
<1>6. PlanSegments(plan) \in SegmentMaps
  BY <1>2, PlanSegmentsRoundtrip
<1>7. PlanMemberships(plan, MainKey, m.memberships[MainKey]) \in SUBSET Segment
  BY <1>1, <1>2, PlanMembershipsIs DEF Memory
<1> HIDE DEF d, r
<1>8. p \in Memory /\ p.definitions = d /\ p.rbSegments = r
  BY <1>1, <1>4, <1>5, <1>6, <1>7 DEF PlanMemory, Memory, d, r
<1> HIDE DEF p
<1> QED
  BY <1>2, <1>4, <1>5, <1>8 DEF p, plan

LEMMA BuildStep ==
  ASSUME StoragesInv, NEW s, s.hash \in Hashes, Build(s)
  PROVE  Current'
<1>1. PICK till \in Tills[s.hash] :
        /\ memory' = IF InMemory /\ s.plan THEN PlanMemory(NoMemory, APlan(s.hash, till)) ELSE NoMemory
        /\ items' = IF InMemory \/ ~s.plan THEN (IF kind = "wrapper" THEN NoItems ELSE items)
                    ELSE PlanItems(IF kind = "wrapper" THEN NoItems ELSE items, APlan(s.hash, till))
  BY DEF Build
<1>2. /\ phase = "off" /\ settings' = s /\ kind' = kind /\ mislabelled' = mislabelled /\ answer' = None
      /\ phase' = IF InMemory THEN "up" ELSE "loading"
      /\ drifted' = IF kind = "localStorage" /\ s.plan
                    THEN \E n \in NamesOf(items, "rbsegment") : UsesSegments(items[RBSegmentKey(n)]) ELSE drifted
  BY DEF Build
<1>3. /\ kind \in Kinds /\ items \in Items
      /\ ExactTypes(items) /\ ExactSets(items) /\ (~drifted => ExactUsing(items))
      /\ kind # "localStorage" => ~drifted
  BY DEF StoragesInv, Typed, Held, ItemsAreExact
<1> DEFINE plan == APlan(s.hash, till)
           start == IF kind = "wrapper" THEN NoItems ELSE items
<1>4. /\ plan.d \in SUBSET Def /\ IsFiniteSet(plan.d) /\ plan.rbd \in SUBSET RBSeg /\ IsFiniteSet(plan.rbd)
      /\ plan.t = till /\ plan.rbt = till /\ till \in Nat
      /\ \A d \in plan.d : d.env = s.hash /\ MatchFilters(d)
      /\ \A r \in plan.rbd : r.env = s.hash
      /\ PlanNames(plan, MainKey) \in SUBSET Segment
  BY TillsAre, APlanIs
<1>5. /\ start \in Items /\ ExactTypes(start) /\ ExactSets(start) /\ (~drifted => ExactUsing(start))
      /\ kind = "wrapper" => start = NoItems
      /\ kind # "wrapper" => start = items
  BY <1>3, NoItemsIs
<1>6. InMemory' = InMemory
  BY <1>2 DEF InMemory
<1> DEFINE pm == PlanMemory(NoMemory, plan)
           pi == PlanItems(start, plan)
<1>7. memory' = (IF InMemory /\ s.plan THEN pm ELSE NoMemory)
      /\ items' = IF InMemory \/ ~s.plan THEN start ELSE pi
  BY <1>1
<1>8. /\ pm \in Memory /\ pm.definitions.cn = till
      /\ \A n \in DOMAIN pm.definitions.defs :
           pm.definitions.defs[n].env = s.hash /\ MatchFilters(pm.definitions.defs[n])
      /\ \A n \in DOMAIN pm.rbSegments.rbs : pm.rbSegments.rbs[n].env = s.hash
  BY NoMemoryIs, PlanMemoryIs
<1>9. /\ pi \in Items /\ ExactTypes(pi) /\ ExactSets(pi)
      /\ (\A n \in DOMAIN RBsOf(start) : ~UsesSegments(RBsOf(start)[n])) => ExactUsing(pi)
      /\ \A n \in DOMAIN DefsOf(pi) : DefsOf(pi)[n] \in plan.d
      /\ \A n \in DOMAIN RBsOf(pi) : RBsOf(pi)[n] \in plan.rbd
      /\ TillKey \in DOMAIN pi /\ pi[TillKey] = till
      /\ RBTillKey \in DOMAIN pi /\ pi[RBTillKey] = till
      /\ LastUpdatedKey \in DOMAIN pi /\ pi[LastUpdatedKey] = "recent"
      /\ At(start, pi, HashKey)
  <2> HIDE DEF plan, start
  <2> QED
    BY <1>4, <1>5, PlanItemsIs
<1> HIDE DEF plan, start, pm, pi
<1>10. Held'
  <2>1. memory' \in Memory
    BY <1>7, <1>8, NoMemoryIs
  <2>2. items' \in Items
    BY <1>5, <1>7, <1>9
  <2> QED
    BY <1>2, <1>3, <1>6, <2>1, <2>2 DEF Held
<1>11. ItemsAreExact'
  <2>1. ExactTypes(items') /\ ExactSets(items')
    BY <1>5, <1>7, <1>9
  <2>2. ASSUME ~drifted' PROVE ExactUsing(items')
    <3>1. CASE InMemory \/ ~s.plan
      BY <1>2, <1>3, <1>5, <1>7, <2>2, <3>1 DEF InMemory
    <3>2. CASE ~InMemory /\ s.plan
      <4>1. kind = "wrapper" => \A n \in DOMAIN RBsOf(start) : ~UsesSegments(RBsOf(start)[n])
        BY <1>5, NoItemsIs
      <4>2. kind = "localStorage" => \A n \in DOMAIN RBsOf(start) : ~UsesSegments(RBsOf(start)[n])
        BY <1>2, <1>3, <1>5, <2>2, <3>2, DefsOfIs
      <4>3. kind \in {"wrapper", "localStorage"}
        BY <1>3, <3>2, StoragesAssumption DEF InMemory
      <4> QED
        BY <1>7, <1>9, <3>2, <4>1, <4>2, <4>3
    <3> QED
      BY <3>1, <3>2
  <2>3. kind' # "localStorage" => ~drifted'
    BY <1>2, <1>3
  <2> QED
    BY <2>1, <2>2, <2>3 DEF ItemsAreExact
<1>12. AnswerIsKept'
  BY <1>2 DEF AnswerIsKept
<1>13. MemoryIsOurs'
  <2>1. ASSUME InMemory, s.plan
        PROVE  MemoryIsOurs'
    BY <1>2, <1>6, <1>7, <1>8, <2>1 DEF MemoryIsOurs
  <2>2. ASSUME ~s.plan PROVE MemoryIsOurs'
    <3>1. memory' = NoMemory
      BY <1>7, <2>2
    <3> QED
      BY <3>1 DEF MemoryIsOurs, NoMemory, EmptyDefinitions, EmptyRBSegments
  <2>3. ASSUME ~InMemory PROVE MemoryIsOurs'
    BY <1>6, <2>3 DEF MemoryIsOurs
  <2> QED
    BY <2>1, <2>2, <2>3
<1>14. ASSUME ~mislabelled, ~InMemory PROVE ItemsAreLabelled'
  <2>1. Whole(items) /\ Labelled(items)
    BY <1>2, <1>14 DEF StoragesInv, Labels, ItemsAreLabelled
  <2>2. Whole(start) /\ Labelled(start) /\ (kind = "wrapper" => DOMAIN start = {})
    BY <1>5, <2>1, NoItemsIs
  <2>3. phase' = "loading"
    BY <1>2, <1>14
  <2>4. CASE ~s.plan
    <3>1. items' = start
      BY <1>7, <2>4
    <3>2. kind = "wrapper" => HashKey \notin DOMAIN items' /\ ~IsExpired(items')
      BY <2>2, <3>1 DEF IsExpired
    <3> QED
      BY <1>2, <2>2, <2>3, <2>4, <3>1, <3>2 DEF ItemsAreLabelled
  <2>5. CASE s.plan
    <3>1. items' = pi
      BY <1>7, <1>14, <2>5
    <3>2. Mine(pi, s.hash)
      BY <1>4, <1>9 DEF Mine
    <3>3. Whole(pi)
      BY <1>9 DEF Whole
    <3>4. kind = "wrapper" => HashKey \notin DOMAIN pi /\ ~IsExpired(pi)
      BY <1>9, <2>2 DEF IsExpired, At
    <3> QED
      BY <1>2, <2>3, <2>5, <3>1, <3>2, <3>3, <3>4 DEF ItemsAreLabelled
  <2> QED
    BY <2>4, <2>5
<1> QED
  BY <1>2, <1>6, <1>10, <1>11, <1>12, <1>13, <1>14 DEF Current

-----------------------------------------------------------------------------
\* A session validates its items, and ends.

LEMMA MineOfEmpty ==
  ASSUME NEW i, DOMAIN DefsOf(i) = {}, DOMAIN RBsOf(i) = {}, TillKey \notin DOMAIN i, RBTillKey \notin DOMAIN i, NEW h
  PROVE  Mine(i, h)
BY DEF Mine

LEMMA ValidateStep ==
  ASSUME StoragesInv, NEW loads \in BOOLEAN, Validate(loads)
  PROVE  Current'
<1> DEFINE loaded == IF kind = "wrapper" /\ loads THEN disk ELSE items
           v == ValidateCache(loaded, settings, MainKey)
<1>1. /\ phase = "loading" /\ phase' = "up" /\ items' = v.items /\ answer' = None
      /\ kind' = kind /\ settings' = settings /\ memory' = memory
      /\ drifted' = (drifted /\ ~v.cleared)
      /\ mislabelled' = (\/ mislabelled
                         \/ HasOtherHash(loaded) /\ IsExpired(loaded)
                         \/ HasOtherHash(loaded) /\ kind = "wrapper" /\ settings.plan)
  BY DEF Validate
<1>2. /\ kind \in Kinds /\ items \in Items /\ disk \in Items /\ memory \in Memory
      /\ settings.hash \in Hashes /\ ~InMemory
  BY <1>1 DEF StoragesInv, Typed, Held, Copies
<1>3. /\ ExactTypes(items) /\ ExactSets(items) /\ (~drifted => ExactUsing(items))
      /\ kind # "localStorage" => ~drifted
      /\ ExactTypes(disk) /\ ExactSets(disk) /\ ExactUsing(disk)
  BY DEF StoragesInv, ItemsAreExact, CopiesAreExact, Copies
<1>4. /\ loaded \in Items /\ ExactTypes(loaded) /\ ExactSets(loaded) /\ (~drifted => ExactUsing(loaded))
      /\ loaded = items \/ (loaded = disk /\ kind = "wrapper")
  BY <1>2, <1>3
<1> HIDE DEF loaded
<1>5. MainKey \in Keys
  BY StoragesAssumption
<1>6. /\ v.items \in Items /\ v.cleared \in BOOLEAN
      /\ ExactTypes(loaded) => ExactTypes(v.items)
      /\ ExactSets(loaded) => ExactSets(v.items)
      /\ v.cleared => ExactUsing(v.items)
      /\ ~v.cleared => Tallied(loaded, v.items)
  BY <1>2, <1>4, <1>5, ValidateCacheIs
<1>7. v.cleared => /\ DOMAIN DefsOf(v.items) = {} /\ DOMAIN RBsOf(v.items) = {}
                   /\ {TillKey, RBTillKey, LastUpdatedKey} \cap DOMAIN v.items = {}
  BY <1>2, <1>4, <1>5, ValidateCacheIs
<1>8. ~v.cleared => /\ DefsOf(v.items) = DefsOf(loaded) /\ RBsOf(v.items) = RBsOf(loaded)
                    /\ \A x : x # HashKey => At(loaded, v.items, x)
  BY <1>2, <1>4, <1>5, ValidateCacheIs
<1>9. ~v.cleared =>
        settings.plan \/ TillKey \notin DOMAIN loaded \/ (HashKey \in DOMAIN loaded /\ loaded[HashKey] = settings.hash)
  BY <1>2, <1>4, <1>5, ValidateCacheIs
<1>10. IF IsExpired(loaded) THEN v.cleared /\ At(loaded, v.items, HashKey)
       ELSE HashKey \in DOMAIN v.items /\ v.items[HashKey] = settings.hash
  BY <1>2, <1>4, <1>5, ValidateCacheIs
<1> HIDE DEF v
<1>11. InMemory' = InMemory
  BY <1>1 DEF InMemory
<1>12. Held'
  BY <1>1, <1>2, <1>6, <1>11 DEF Held
<1>13. ItemsAreExact'
  <2>1. ExactTypes(items') /\ ExactSets(items')
    BY <1>1, <1>4, <1>6
  <2>2. ~drifted' => ExactUsing(items')
    BY <1>1, <1>4, <1>6 DEF Tallied
  <2>3. kind' # "localStorage" => ~drifted'
    BY <1>1, <1>3
  <2> QED
    BY <2>1, <2>2, <2>3 DEF ItemsAreExact
<1>14. AnswerIsKept' /\ MemoryIsOurs'
  BY <1>1, <1>2, <1>11 DEF AnswerIsKept, MemoryIsOurs
<1>15. ASSUME ~mislabelled' PROVE ItemsAreLabelled'
  <2>1. /\ Whole(disk) /\ Labelled(disk) /\ Tagged(disk)
        /\ Whole(items) /\ IF settings.plan THEN Mine(items, settings.hash) ELSE Labelled(items)
        /\ kind = "wrapper" => HashKey \notin DOMAIN items /\ ~IsExpired(items)
    BY <1>1, <1>2, <1>15 DEF StoragesInv, Labels, CopiesAreLabelled, Copies, ItemsAreLabelled
  <2>2. ~(HasOtherHash(loaded) /\ IsExpired(loaded)) /\ ~(HasOtherHash(loaded) /\ kind = "wrapper" /\ settings.plan)
    BY <1>1, <1>15
  <2>3. Whole(loaded)
    BY <1>4, <2>1
  <2>4. ASSUME IsExpired(loaded)
        PROVE  /\ v.cleared
               /\ ~HasOtherHash(v.items)
               /\ kind = "wrapper" => HashKey \in DOMAIN v.items
    <3>1. v.cleared /\ At(loaded, v.items, HashKey) /\ ~HasOtherHash(loaded)
      BY <1>10, <2>2, <2>4
    <3>2. ~HasOtherHash(v.items)
      BY <3>1 DEF HasOtherHash, At
    <3>3. ASSUME kind = "wrapper" PROVE HashKey \in DOMAIN loaded
      <4>1. loaded = disk /\ LastUpdatedKey \in DOMAIN disk
        BY <1>4, <2>1, <2>4, <3>3 DEF IsExpired
      <4> QED
        BY <2>1, <4>1 DEF Whole, Tagged
    <3> QED
      BY <3>1, <3>2, <3>3 DEF At
  <2>5. ASSUME ~IsExpired(loaded)
        PROVE  ~HasOtherHash(v.items) /\ HashKey \in DOMAIN v.items
    BY <1>10, <2>5 DEF HasOtherHash
  <2>6. ASSUME v.cleared PROVE Whole(v.items) /\ Mine(v.items, settings.hash)
    <3>1. DOMAIN DefsOf(v.items) = {} /\ DOMAIN RBsOf(v.items) = {} /\ TillKey \notin DOMAIN v.items
          /\ RBTillKey \notin DOMAIN v.items /\ LastUpdatedKey \notin DOMAIN v.items
      BY <1>7, <2>6
    <3> QED
      BY <3>1, MineOfEmpty DEF Whole
  <2>7. ASSUME ~v.cleared PROVE Whole(v.items) /\ Mine(v.items, settings.hash)
    <3>1. Mine(loaded, settings.hash)
      <4>1. CASE TillKey \notin DOMAIN loaded
        BY <2>3, <4>1, MineOfEmpty DEF Whole
      <4>2. CASE TillKey \in DOMAIN loaded /\ loaded = items
        BY <1>9, <2>1, <2>7, <4>2 DEF Labelled
      <4>3. CASE TillKey \in DOMAIN loaded /\ loaded = disk /\ kind = "wrapper"
        <5>1. HashKey \in DOMAIN disk /\ Mine(disk, disk[HashKey])
          BY <2>1, <4>3 DEF Labelled, Tagged
        <5>2. disk[HashKey] = settings.hash
          BY <1>9, <2>2, <2>7, <4>3, <5>1 DEF HasOtherHash
        <5> QED
          BY <4>3, <5>1, <5>2
      <4> QED
        BY <1>4, <4>1, <4>2, <4>3
    <3>2. At(loaded, v.items, TillKey) /\ At(loaded, v.items, RBTillKey) /\ At(loaded, v.items, LastUpdatedKey)
      BY <1>8, <2>7, KeysAre
    <3>3. DefsOf(v.items) = DefsOf(loaded) /\ RBsOf(v.items) = RBsOf(loaded)
      BY <1>8, <2>7
    <3>4. LastUpdatedKey \in DOMAIN v.items => LastUpdatedKey \in DOMAIN loaded
      BY <3>2 DEF At
    <3> QED
      BY <2>3, <3>1, <3>2, <3>3, <3>4, LabelsAt
  <2>8. HasOtherHash(items)' <=> (HashKey \in DOMAIN v.items /\ v.items[HashKey] # settings.hash)
    BY <1>1 DEF HasOtherHash
  <2>9. ~HasOtherHash(items)'
    BY <2>4, <2>5, <2>8 DEF HasOtherHash
  <2> QED
    BY <1>1, <2>4, <2>5, <2>6, <2>7, <2>9 DEF ItemsAreLabelled
<1> QED
  BY <1>12, <1>13, <1>14, <1>15 DEF Current

LEMMA EndStep ==
  ASSUME StoragesInv, NEW landed \in BOOLEAN, NEW aged \in BOOLEAN, End(landed, aged)
  PROVE  Current'
<1> DEFINE kept == IF aged THEN Aged(items) ELSE items
<1>1. /\ phase # "off" /\ ~InMemory /\ phase' = "off" /\ answer' = None
      /\ kind' = kind /\ settings' = settings /\ memory' = memory /\ drifted' = drifted
      /\ mislabelled' = (mislabelled \/ (phase = "loading" /\ settings.plan /\ HasOtherHash(items)))
      /\ items' = IF kind = "wrapper" THEN NoItems ELSE kept
  BY DEF End
<1>2. /\ kind \in Kinds /\ items \in Items /\ memory \in Memory
      /\ ExactTypes(items) /\ ExactSets(items) /\ (~drifted => ExactUsing(items))
      /\ kind # "localStorage" => ~drifted
  BY DEF StoragesInv, Typed, Held, ItemsAreExact
<1>3. kept \in Items /\ Tallied(items, kept)
  BY <1>2, AgedIs DEF Tallied
<1>4. /\ Whole(items) => Whole(kept)
      /\ Labelled(items) => Labelled(kept)
  BY <1>2, AgedLabels
<1> HIDE DEF kept
<1>5. InMemory' = InMemory
  BY <1>1 DEF InMemory
<1>6. items' \in Items
  BY <1>1, <1>3, NoItemsIs
<1>7. Held'
  BY <1>1, <1>2, <1>5, <1>6 DEF Held
<1>8. ItemsAreExact'
  <2>1. ExactTypes(items') /\ ExactSets(items') /\ (~drifted => ExactUsing(items'))
    BY <1>1, <1>2, <1>3, NoItemsIs DEF Tallied
  <2> QED
    BY <1>1, <1>2, <2>1 DEF ItemsAreExact
<1>9. AnswerIsKept' /\ MemoryIsOurs'
  BY <1>1 DEF AnswerIsKept, MemoryIsOurs
<1>10. ASSUME ~mislabelled' PROVE ItemsAreLabelled'
  <2>1. ItemsAreLabelled
    BY <1>1, <1>10 DEF StoragesInv, Labels
  <2>2. ~(phase = "loading" /\ settings.plan /\ HasOtherHash(items))
    BY <1>1, <1>10
  <2>3. phase \in {"loading", "up"} => Labelled(items)
    BY <2>1, <2>2 DEF ItemsAreLabelled, Labelled, HasOtherHash
  <2>4. phase \in {"off", "loading", "up"}
    BY DEF StoragesInv, Typed, Held
  <2>5. Whole(items') /\ Labelled(items')
    BY <1>1, <1>4, <2>1, <2>3, <2>4, NoItemsIs DEF ItemsAreLabelled
  <2> QED
    BY <1>1, <2>5 DEF ItemsAreLabelled
<1> QED
  BY <1>7, <1>8, <1>9, <1>10 DEF Current

-----------------------------------------------------------------------------
\* What the synchronisation does with the items, and with the memory.

LEMMA ItemsWork ==
  ASSUME StoragesInv, phase = "up", Works, ~InMemory, memory' = memory, items' \in Items,
         Tallied(items, items'), AnswerIsKept',
         Mine(items, settings.hash) => Mine(items', settings.hash),
         Whole(items) => Whole(items'), At(items, items', HashKey)
  PROVE  Current'
<1>1. /\ kind' = kind /\ phase' = phase /\ settings' = settings /\ drifted' = drifted
      /\ mislabelled' = mislabelled
  BY DEF Works
<1>2. InMemory' = InMemory
  BY <1>1 DEF InMemory
<1>3. Held'
  BY <1>1, <1>2 DEF StoragesInv, Typed, Held
<1>4. ItemsAreExact'
  BY <1>1 DEF StoragesInv, ItemsAreExact, Tallied
<1>5. MemoryIsOurs'
  BY <1>2 DEF MemoryIsOurs
<1>6. ASSUME ~mislabelled PROVE ItemsAreLabelled'
  <2>1. /\ Whole(items) /\ Mine(items, settings.hash) /\ ~HasOtherHash(items)
        /\ kind = "wrapper" => HashKey \in DOMAIN items
    BY <1>6 DEF StoragesInv, Labels, ItemsAreLabelled
  <2>2. ~HasOtherHash(items)'
    BY <1>1, <2>1 DEF HasOtherHash, At
  <2>3. kind' = "wrapper" => HashKey \in DOMAIN items'
    BY <1>1, <2>1 DEF At
  <2> QED
    BY <1>1, <2>1, <2>2, <2>3 DEF ItemsAreLabelled
<1> QED
  BY <1>1, <1>3, <1>4, <1>5, <1>6 DEF Current

LEMMA MemoryWork ==
  ASSUME StoragesInv, phase = "up", Works, InMemory, items' = items, memory' \in Memory, AnswerIsKept',
         \A n \in DOMAIN memory'.definitions.defs :
           memory'.definitions.defs[n].env = settings.hash /\ MatchFilters(memory'.definitions.defs[n]),
         \A n \in DOMAIN memory'.rbSegments.rbs : memory'.rbSegments.rbs[n].env = settings.hash,
         memory'.definitions.cn \in Tills[settings.hash] \cup {-1}
  PROVE  Current'
<1>1. /\ kind' = kind /\ phase' = phase /\ settings' = settings /\ drifted' = drifted
      /\ mislabelled' = mislabelled
  BY DEF Works
<1>2. InMemory' = InMemory
  BY <1>1 DEF InMemory
<1>3. Held'
  BY <1>1, <1>2 DEF StoragesInv, Typed, Held
<1>4. ItemsAreExact'
  BY <1>1 DEF StoragesInv, ItemsAreExact
<1>5. MemoryIsOurs'
  BY <1>1 DEF MemoryIsOurs
<1> QED
  BY <1>1, <1>2, <1>3, <1>4, <1>5 DEF Current

\* The same memory but for the segments and memberships.
LEMMA SegmentsWork ==
  ASSUME StoragesInv, phase = "up", Works, InMemory, items' = items, memory' \in Memory, AnswerIsKept',
         memory'.definitions = memory.definitions, memory'.rbSegments = memory.rbSegments
  PROVE  Current'
<1>1. MemoryIsOurs
  BY DEF StoragesInv
<1> QED
  BY <1>1, MemoryWork DEF MemoryIsOurs

\* A step that leaves the segments of the items alone keeps the answer.
LEMMA SameSegments ==
  ASSUME StoragesInv, Works, UNCHANGED answer,
         IF InMemory THEN memory'.memberships = memory.memberships
         ELSE items' \in Items /\ \A x : IsMeta(x) /\ x[1] = "segment" => At(items, items', x)
  PROVE  AnswerIsKept'
<1>1. kind' = kind /\ answer' = answer
  BY DEF Works
<1>2. InMemory' = InMemory
  BY <1>1 DEF InMemory
<1>3. items \in Items
  BY DEF StoragesInv, Typed, Held
<1>4. ASSUME ~InMemory, NEW key PROVE LocalSegments(items', key) = LocalSegments(items, key)
  <2>1. \A x : x[1] = "segment" => At(items, items', x)
    BY <1>4 DEF IsMeta
  <2> QED
    BY <1>3, <1>4, <2>1, SegmentsAt
<1>5. \A key : Memberships(key)' = Memberships(key)
  BY <1>2, <1>4 DEF Memberships
<1>6. AnswerIsKept
  BY DEF StoragesInv
<1> QED
  BY <1>1, <1>5, <1>6 DEF AnswerIsKept

\* The memberships of a key, replaced.
LEMMA MembershipsWork ==
  ASSUME StoragesInv, phase = "up", Works, NEW key \in Keys, NEW names \in SUBSET Segment,
         memory' = IF InMemory THEN [memory EXCEPT !.memberships[key] = names] ELSE memory,
         items' = IF InMemory THEN items ELSE LocalPutSegments(items, key, names),
         answer' = None \/ (answer'.key = key /\ ToSet(answer'.names) = names)
  PROVE  Current'
<1>1. kind' = kind /\ items \in Items /\ memory \in Memory
  BY DEF Works, StoragesInv, Typed, Held
<1>2. InMemory' = InMemory
  BY <1>1 DEF InMemory
<1>3. CASE InMemory
  <2>1. /\ memory' \in Memory /\ memory'.definitions = memory.definitions /\ memory'.rbSegments = memory.rbSegments
        /\ memory'.memberships[key] = names
    BY <1>1, <1>3 DEF Memory
  <2>2. AnswerIsKept'
    BY <1>2, <1>3, <2>1 DEF AnswerIsKept, Memberships
  <2> QED
    BY <1>3, <2>1, <2>2, SegmentsWork
<1>4. CASE ~InMemory
  <2> DEFINE j == LocalPutSegments(items, key, names)
  <2>1. /\ j \in Items /\ LocalSegments(j, key) = names
        /\ DefsOf(j) = DefsOf(items) /\ RBsOf(j) = RBsOf(items) /\ Tallied(items, j)
        /\ \A x : x[1] # "segment" => At(items, j, x)
    BY <1>1, LocalPutSegmentsIs
  <2> HIDE DEF j
  <2>2. items' = j /\ memory' = memory
    BY <1>4 DEF j
  <2>3. AnswerIsKept'
    BY <1>2, <1>4, <2>1, <2>2 DEF AnswerIsKept, Memberships
  <2>4. At(items, j, TillKey) /\ At(items, j, RBTillKey) /\ At(items, j, HashKey) /\ At(items, j, LastUpdatedKey)
    BY <2>1, KeysAre
  <2>5. (Mine(items, settings.hash) => Mine(j, settings.hash)) /\ (Whole(items) => Whole(j))
    <3>1. LastUpdatedKey \in DOMAIN j => LastUpdatedKey \in DOMAIN items
      BY <2>4 DEF At
    <3> QED
      BY <2>1, <2>4, <3>1, LabelsAt
  <2> QED
    BY <1>4, <2>1, <2>2, <2>3, <2>4, <2>5, ItemsWork
<1> QED
  BY <1>3, <1>4

LEMMA MembershipsAre ==
  ASSUME StoragesInv, NEW key \in Keys
  PROVE  Memberships(key) \in SUBSET Segment
BY LocalSegmentsIs DEF StoragesInv, Typed, Held, Memberships, Memory

LEMMA SyncMembershipsStep ==
  ASSUME StoragesInv, phase = "up", NEW key \in Keys, NEW names \in Answers, SyncMemberships(key, names)
  PROVE  Current'
<1>1. names \in Seq(Segment) /\ Segment \in SUBSET Nat /\ IsFiniteSet(Segment)
  BY StoragesAssumption
<1>2. names \in Seq(Nat)
  BY <1>1, SeqOfNumbers
<1>3. items \in Items /\ memory \in Memory
  BY DEF StoragesInv, Typed, Held
<1>4. memory.memberships[key] \in SUBSET Segment
  BY <1>3 DEF Memory
<1>5. ResetSegments(memory.memberships[key], names) = ToSet(names)
  <2>1. memory.memberships[key] \in SUBSET Nat /\ IsFiniteSet(memory.memberships[key])
    BY <1>1, <1>4, FS_Subset
  <2> QED
    BY <1>2, <2>1, ResetSegmentsIs
<1>6. LocalReset(items, key, names) = LocalPutSegments(items, key, ToSet(names)) /\ ToSet(names) \in SUBSET Segment
  BY <1>1, <1>3, LocalResetIs
<1>7. /\ Works
      /\ memory' = IF InMemory THEN [memory EXCEPT !.memberships[key] = ToSet(names)] ELSE memory
      /\ items' = IF InMemory THEN items ELSE LocalPutSegments(items, key, ToSet(names))
      /\ answer' = [key |-> key, names |-> names]
  BY <1>5, <1>6 DEF SyncMemberships
<1>8. answer'.key = key /\ ToSet(answer'.names) = ToSet(names)
  BY <1>7
<1> QED
  BY <1>6, <1>7, <1>8, MembershipsWork

LEMMA ChangeMembershipsStep ==
  ASSUME StoragesInv, phase = "up", NEW key \in Keys, NEW n \in Segment, NEW adds \in BOOLEAN,
         ChangeMemberships(key, n, adds)
  PROVE  Current'
<1> DEFINE changed == ChangeSegments(Memberships(key), IF adds THEN {n} ELSE {}, IF adds THEN {} ELSE {n})
<1>1. changed \in SUBSET Segment
  BY MembershipsAre DEF ChangeSegments
<1>2. /\ Works
      /\ memory' = IF InMemory THEN [memory EXCEPT !.memberships[key] = changed] ELSE memory
      /\ items' = IF InMemory THEN items ELSE LocalPutSegments(items, key, changed)
      /\ answer' = None
  BY DEF ChangeMemberships
<1> HIDE DEF changed
<1> QED
  BY <1>1, <1>2, MembershipsWork

LEMMA SyncSegmentStep ==
  ASSUME StoragesInv, phase = "up", NEW n \in Segment, NEW added \in SUBSET Keys, NEW removed \in SUBSET Keys,
         SyncSegment(n, added, removed)
  PROVE  Current'
<1>1. PICK till \in Tills[settings.hash] :
        memory' = [memory EXCEPT !.segments = UpdateSegment(@, n, added, removed, till)]
  BY DEF SyncSegment
<1>2. memory \in Memory /\ settings.hash \in Hashes
  BY DEF StoragesInv, Typed, Held
<1>3. till \in Nat
  BY <1>2, TillsAre
<1>4. UpdateSegment(memory.segments, n, added, removed, till) \in SegmentMaps
  BY <1>2, <1>3, SegmentMapsWith DEF Memory
<1>5. /\ memory' \in Memory /\ memory'.definitions = memory.definitions /\ memory'.rbSegments = memory.rbSegments
      /\ memory'.memberships = memory.memberships
  BY <1>1, <1>2, <1>4 DEF Memory
<1>6. Works /\ InMemory /\ items' = items /\ UNCHANGED answer
  BY DEF SyncSegment, InMemory
<1>7. AnswerIsKept'
  BY <1>5, <1>6, SameSegments
<1> QED
  BY <1>5, <1>6, <1>7, SegmentsWork

-----------------------------------------------------------------------------
\* Definitions: a kill, and the answer of splitChanges.

LEMMA KilledIs ==
  ASSUME NEW d \in Def, NEW till \in Nat
  PROVE  /\ Killed(d, till) \in Def /\ Killed(d, till).env = d.env /\ Killed(d, till).name = d.name
         /\ MatchFilters(d) => MatchFilters(Killed(d, till))
BY DEF Killed, Def, MatchFilters

LEMMA KillMemory ==
  ASSUME NEW c \in ExactDefs, NEW name, NEW till \in Nat
  PROVE  LET k == KillLocally(c, name, till)
         IN /\ k \in ExactDefs /\ k.cn = c.cn
            /\ \A n \in DOMAIN k.defs :
                 n \in DOMAIN c.defs /\ (k.defs[n] = c.defs[n] \/ k.defs[n] = Killed(c.defs[n], till))
<1> DEFINE k == KillLocally(c, name, till)
           d == Killed(c.defs[name], till)
<1>1. \A n \in DOMAIN c.defs : c.defs[n] \in Def /\ c.defs[n].name = n
  BY DefWith DEF ExactDefs, DefCaches
<1>2. CASE name \in DOMAIN c.defs /\ MayKill(c.defs[name], till)
  <2>1. d \in Def /\ d.name = name
    BY <1>1, <1>2, KilledIs
  <2>2. k = AddDefinition(c, d)
    BY <1>2 DEF KillLocally
  <2> HIDE DEF d, k
  <2>3. k \in ExactDefs /\ k.cn = c.cn /\ k.defs = With(c.defs, d.name, d)
    BY <2>1, <2>2, AddDefinitionIsExact
  <2>4. k.defs = With(c.defs, name, d)
    BY <2>1, <2>3
  <2>5. DOMAIN k.defs = DOMAIN c.defs \cup {name} /\ k.defs[name] = d
        /\ \A n \in DOMAIN c.defs : n # name => k.defs[n] = c.defs[n]
    BY <2>4 DEF With
  <2> QED
    BY <1>2, <2>3, <2>5 DEF d, k
<1>3. CASE ~(name \in DOMAIN c.defs /\ MayKill(c.defs[name], till))
  BY <1>3 DEF KillLocally
<1> QED
  BY <1>2, <1>3

LEMMA KillStep ==
  ASSUME StoragesInv, phase = "up", NEW name, NEW till \in Tills[settings.hash], Kill(name, till)
  PROVE  Current'
<1>1. items \in Items /\ memory \in Memory /\ settings.hash \in Hashes
  BY DEF StoragesInv, Typed, Held
<1>2. till \in Nat
  BY <1>1, TillsAre
<1>3. Works /\ UNCHANGED answer
  BY DEF Kill
<1>4. CASE InMemory
  <2> DEFINE c == memory.definitions
             k == KillLocally(c, name, till)
  <2>1. c \in ExactDefs
    BY <1>1 DEF Memory
  <2>2. memory' = [memory EXCEPT !.definitions = k] /\ items' = items
    BY <1>4 DEF Kill
  <2> HIDE DEF c
  <2>3. /\ k \in ExactDefs /\ k.cn = c.cn
        /\ \A n \in DOMAIN k.defs :
             n \in DOMAIN c.defs /\ (k.defs[n] = c.defs[n] \/ k.defs[n] = Killed(c.defs[n], till))
    BY <1>2, <2>1, KillMemory
  <2> HIDE DEF k
  <2>4. /\ memory' \in Memory /\ memory'.definitions = k /\ memory'.rbSegments = memory.rbSegments
        /\ memory'.memberships = memory.memberships
    BY <1>1, <2>2, <2>3 DEF Memory
  <2>5. /\ \A n \in DOMAIN c.defs : c.defs[n].env = settings.hash /\ MatchFilters(c.defs[n]) /\ c.defs[n] \in Def
        /\ \A n \in DOMAIN memory.rbSegments.rbs : memory.rbSegments.rbs[n].env = settings.hash
        /\ c.cn \in Tills[settings.hash] \cup {-1}
    BY <1>4, <2>1, DefWith DEF StoragesInv, MemoryIsOurs, c, ExactDefs, DefCaches
  <2>6. \A n \in DOMAIN k.defs : k.defs[n].env = settings.hash /\ MatchFilters(k.defs[n])
    BY <1>2, <2>3, <2>5, KilledIs
  <2>7. AnswerIsKept'
    BY <1>3, <1>4, <2>4, SameSegments
  <2> QED
    BY <1>3, <1>4, <2>2, <2>3, <2>4, <2>5, <2>6, <2>7, MemoryWork
<1>5. CASE ~InMemory
  <2> DEFINE u == LocalKill(items, name, till)
  <2>1. items' = u /\ memory' = memory
    BY <1>5 DEF Kill
  <2>2. /\ u \in Items /\ Tallied(items, u) /\ RBsOf(u) = RBsOf(items)
        /\ \A n \in DOMAIN DefsOf(u) :
             /\ n \in DOMAIN DefsOf(items)
             /\ DefsOf(u)[n] = DefsOf(items)[n] \/ DefsOf(u)[n] = Killed(DefsOf(items)[n], till)
        /\ DOMAIN DefsOf(items) = DOMAIN DefsOf(u)
        /\ \A x : IsMeta(x) => At(items, u, x)
    BY <1>1, <1>2, LocalKillIs
  <2> HIDE DEF u
  <2>3. At(items, u, TillKey) /\ At(items, u, RBTillKey) /\ At(items, u, HashKey) /\ At(items, u, LastUpdatedKey)
    BY <2>2, KeysAre DEF IsMeta
  <2>4. \A n \in DOMAIN DefsOf(items) : DefsOf(items)[n] \in Def
    BY <1>1, DefsOfIs, DefWith
  <2>5. \A n \in DOMAIN DefsOf(items) :
          DefsOf(items)[n].env = settings.hash /\ MatchFilters(DefsOf(items)[n])
            => DefsOf(u)[n].env = settings.hash /\ MatchFilters(DefsOf(u)[n])
    BY <1>2, <2>2, <2>4, KilledIs
  <2>6. Mine(items, settings.hash) => Mine(u, settings.hash)
    BY <2>2, <2>3, <2>5 DEF Mine, At
  <2>7. Whole(items) => Whole(u)
    BY <2>2, <2>3 DEF Whole, At
  <2>8. AnswerIsKept'
    BY <1>3, <1>5, <2>1, <2>2, SameSegments
  <2> QED
    BY <1>3, <1>5, <2>1, <2>2, <2>3, <2>6, <2>7, <2>8, ItemsWork
<1> QED
  BY <1>4, <1>5

LEMMA BatchesAre ==
  ASSUME NEW S, IsFiniteSet(S), NEW B \in Batches(S)
  PROVE  B \in SUBSET S /\ IsFiniteSet(B)
BY FS_Subset DEF Batches

\* The changes of an answer, after the filters.
LEMMA ChangesAre ==
  ASSUME NEW h \in Hashes, NEW till \in Tills[h],
         NEW toAdd \in Batches(Definitions(h, till)), NEW toRemove \in SUBSET NamesIn(Rules),
         NEW rbAdd \in Batches(RBSegments(h)), NEW rbRemove \in SUBSET NamesIn(RBRules)
  PROVE  LET d == ComputeMutation(toAdd, toRemove, TRUE)
             rb == ComputeMutation(rbAdd, rbRemove, FALSE)
         IN /\ d.updated \in SUBSET Def /\ IsFiniteSet(d.updated) /\ IsFiniteSet(d.removed)
            /\ \A x \in d.updated : x.env = h /\ MatchFilters(x)
            /\ rb.updated \in SUBSET RBSeg /\ IsFiniteSet(rb.updated) /\ IsFiniteSet(rb.removed)
            /\ \A x \in rb.updated : x.env = h
            /\ d.segments \cup rb.segments \in SUBSET Segment
<1> DEFINE D == Definitions(h, till)
           R == RBSegments(h)
           d == ComputeMutation(toAdd, toRemove, TRUE)
           rb == ComputeMutation(rbAdd, rbRemove, FALSE)
<1>1. /\ D \in SUBSET Def /\ IsFiniteSet(D) /\ \A x \in D : x.env = h
      /\ R \in SUBSET RBSeg /\ IsFiniteSet(R) /\ \A x \in R : x.env = h
  BY TillsAre, DefinitionsAre, RBSegmentsAre
<1> HIDE DEF D, R
<1>2. toAdd \in SUBSET D /\ IsFiniteSet(toAdd)
  BY <1>1, BatchesAre DEF D
<1>3. rbAdd \in SUBSET R /\ IsFiniteSet(rbAdd)
  BY <1>1, BatchesAre DEF R
<1>4. IsFiniteSet(toRemove) /\ IsFiniteSet(rbRemove)
  BY StoragesAssumption, NamesAreFinite, FS_Subset
<1>5. \A x \in toAdd \cup rbAdd : ParseSegments(x) \in SUBSET Segment
  BY <1>1, <1>2, <1>3 DEF ParseSegments, Def, RBSeg
<1>6. /\ d.updated \in SUBSET toAdd /\ IsFiniteSet(d.updated) /\ IsFiniteSet(d.removed)
      /\ \A x \in d.updated : MatchFilters(x)
      /\ d.segments \in SUBSET Segment
  <2>1. \A x \in toAdd : ParseSegments(x) \in SUBSET Segment
    BY <1>5
  <2> QED
    BY <1>2, <1>4, <2>1, ComputeMutationIs
<1>7. /\ rb.updated \in SUBSET rbAdd /\ IsFiniteSet(rb.updated) /\ IsFiniteSet(rb.removed)
      /\ rb.segments \in SUBSET Segment
  <2>1. \A x \in rbAdd : ParseSegments(x) \in SUBSET Segment
    BY <1>5
  <2> QED
    BY <1>3, <1>4, <2>1, ComputeMutationIs
<1> HIDE DEF d, rb
<1> QED
  BY <1>1, <1>2, <1>3, <1>6, <1>7 DEF d, rb

LEMMA SyncDefinitionsStep ==
  ASSUME StoragesInv, phase = "up", NEW till \in Tills[settings.hash],
         NEW toAdd \in Batches(Definitions(settings.hash, till)), NEW toRemove \in SUBSET NamesIn(Rules),
         NEW rbAdd \in Batches(RBSegments(settings.hash)), NEW rbRemove \in SUBSET NamesIn(RBRules),
         SyncDefinitions(toAdd, toRemove, rbAdd, rbRemove, till)
  PROVE  Current'
<1> DEFINE h == settings.hash
           d == ComputeMutation(toAdd, toRemove, TRUE)
           rb == ComputeMutation(rbAdd, rbRemove, FALSE)
<1>1. items \in Items /\ memory \in Memory /\ h \in Hashes
  BY DEF StoragesInv, Typed, Held
<1>2. till \in Nat
  BY <1>1, TillsAre
<1>3. /\ d.updated \in SUBSET Def /\ IsFiniteSet(d.updated) /\ IsFiniteSet(d.removed)
      /\ \A x \in d.updated : x.env = h /\ MatchFilters(x)
      /\ rb.updated \in SUBSET RBSeg /\ IsFiniteSet(rb.updated) /\ IsFiniteSet(rb.removed)
      /\ \A x \in rb.updated : x.env = h
      /\ d.segments \cup rb.segments \in SUBSET Segment
  BY <1>1, ChangesAre
<1> DEFINE md == UpdateDefinitions(memory.definitions, d.updated, d.removed, till)
           mr == UpdateRBSegments(memory.rbSegments, rb.updated, rb.removed, till)
           u1 == LocalUpdate(items, d.updated, d.removed, till)
           u2 == LocalUpdateRB(u1, rb.updated, rb.removed, till)
<1>4. /\ Works /\ UNCHANGED answer
      /\ memory' = IF ~InMemory THEN memory
                   ELSE [memory EXCEPT
                           !.definitions = md, !.rbSegments = mr,
                           !.segments = IF kind = "server" THEN RegisterSegments(@, d.segments \cup rb.segments)
                                        ELSE @]
      /\ items' = IF InMemory THEN items ELSE u2
  BY DEF SyncDefinitions
<1> HIDE DEF d, rb
<1>5. CASE InMemory
  <2> DEFINE c == memory.definitions
             b == memory.rbSegments
             sg == RegisterSegments(memory.segments, d.segments \cup rb.segments)
  <2>1. c \in ExactDefs /\ b \in ExactRBs
    BY <1>1 DEF Memory
  <2>2. sg \in SegmentMaps
    BY <1>1, <1>3, SegmentMapsWith DEF Memory
  <2>3. /\ md \in ExactDefs /\ md.cn = till
        /\ \A n \in DOMAIN md.defs :
             md.defs[n] \in d.updated \/ (n \in DOMAIN c.defs /\ md.defs[n] = c.defs[n])
    BY <1>2, <1>3, <2>1, UpdateDefinitionsIsExact
  <2>4. /\ mr \in ExactRBs
        /\ \A n \in DOMAIN mr.rbs :
             mr.rbs[n] \in rb.updated \/ (n \in DOMAIN b.rbs /\ mr.rbs[n] = b.rbs[n])
    BY <1>2, <1>3, <2>1, UpdateRBSegmentsIsExact
  <2> HIDE DEF md, mr, sg
  <2>5. /\ memory' \in Memory /\ memory'.definitions = md /\ memory'.rbSegments = mr
        /\ memory'.memberships = memory.memberships
    BY <1>1, <1>4, <1>5, <2>2, <2>3, <2>4 DEF Memory, sg
  <2>6. /\ \A n \in DOMAIN c.defs : c.defs[n].env = h /\ MatchFilters(c.defs[n])
        /\ \A n \in DOMAIN b.rbs : b.rbs[n].env = h
    BY <1>5 DEF StoragesInv, MemoryIsOurs
  <2> HIDE DEF c, b
  <2>7. AnswerIsKept'
    BY <1>4, <1>5, <2>5, SameSegments
  <2>8. /\ \A n \in DOMAIN md.defs : md.defs[n].env = h /\ MatchFilters(md.defs[n])
        /\ \A n \in DOMAIN mr.rbs : mr.rbs[n].env = h
    BY <1>3, <2>3, <2>4, <2>6
  <2> QED
    BY <1>4, <1>5, <2>3, <2>5, <2>7, <2>8, MemoryWork
<1>6. CASE ~InMemory
  <2>1. /\ u1 \in Items /\ Tallied(items, u1) /\ RBsOf(u1) = RBsOf(items)
        /\ FromRules(DefsOf(items), DefsOf(u1), d.updated)
        /\ TillKey \in DOMAIN u1 /\ u1[TillKey] = till
        /\ \A x : IsMeta(x) /\ x # TillKey /\ x # LastUpdatedKey => At(items, u1, x)
    BY <1>1, <1>2, <1>3, LocalUpdateIs
  <2> HIDE DEF u1
  <2>2. /\ u2 \in Items /\ Tallied(u1, u2) /\ DefsOf(u2) = DefsOf(u1)
        /\ FromRules(RBsOf(u1), RBsOf(u2), rb.updated)
        /\ RBTillKey \in DOMAIN u2 /\ u2[RBTillKey] = till
        /\ \A x : IsMeta(x) /\ x # RBTillKey /\ x # LastUpdatedKey => At(u1, u2, x)
    BY <1>2, <1>3, <2>1, LocalUpdateRBIs
  <2> HIDE DEF u2
  <2>3. items' = u2 /\ memory' = memory
    BY <1>4, <1>6
  <2>4. Tallied(items, u2)
    BY <2>1, <2>2 DEF Tallied
  <2>5. TillKey \in DOMAIN u2 /\ u2[TillKey] = till
    <3>1. IsMeta(TillKey) /\ TillKey # RBTillKey /\ TillKey # LastUpdatedKey
      BY KeysAre DEF IsMeta
    <3> QED
      BY <2>1, <2>2, <3>1 DEF At
  <2>6. \A x : x[1] \in {"hash", "segment"} => At(items, u2, x)
    <3>1. ASSUME NEW x, x[1] \in {"hash", "segment"} PROVE At(items, u2, x)
      <4>1. IsMeta(x) /\ x # TillKey /\ x # LastUpdatedKey /\ x # RBTillKey
        BY <3>1, KeysAre DEF IsMeta
      <4> QED
        BY <2>1, <2>2, <4>1, AtIsTransitive
    <3> QED
      BY <3>1
  <2>7. At(items, u2, HashKey)
    BY <2>6, KeysAre
  <2>8. AnswerIsKept'
    BY <1>4, <1>6, <2>2, <2>3, <2>6, SameSegments
  <2>9. Mine(items, h) => Mine(u2, h)
    <3>1. ASSUME Mine(items, h), NEW n \in DOMAIN DefsOf(u2)
          PROVE  DefsOf(u2)[n].env = h /\ MatchFilters(DefsOf(u2)[n])
      BY <1>3, <2>1, <2>2, <3>1 DEF FromRules, Mine
    <3>2. ASSUME Mine(items, h), NEW n \in DOMAIN RBsOf(u2)
          PROVE  RBsOf(u2)[n].env = h
      BY <1>3, <2>1, <2>2, <3>2 DEF FromRules, Mine
    <3> QED
      BY <2>2, <2>5, <3>1, <3>2 DEF Mine
  <2>10. Whole(u2)
    BY <2>5 DEF Whole
  <2> QED
    BY <1>4, <1>6, <2>2, <2>3, <2>4, <2>7, <2>8, <2>9, <2>10, ItemsWork
<1> QED
  BY <1>5, <1>6

-----------------------------------------------------------------------------
\* The saves leave the session as it is.

LEMMA SameSession ==
  ASSUME StoragesInv,
         UNCHANGED <<kind, phase, settings, memory, items, drifted, mislabelled, answer>>
  PROVE  Current'
<1>1. Current
  BY DEF StoragesInv, Typed, Labels, Current
<1> QED
  BY <1>1 DEF Current, Held, ItemsAreExact, AnswerIsKept, MemoryIsOurs, ItemsAreLabelled, Memberships, InMemory,
              HasOtherHash

LEMMA SyncStep ==
  ASSUME StoragesInv, phase = "up", Sync
  PROVE  Current'
<1>1. ASSUME NEW till \in Tills[settings.hash],
             NEW toAdd \in Batches(Definitions(settings.hash, till)), NEW toRemove \in SUBSET NamesIn(Rules),
             NEW rbAdd \in Batches(RBSegments(settings.hash)), NEW rbRemove \in SUBSET NamesIn(RBRules),
             SyncDefinitions(toAdd, toRemove, rbAdd, rbRemove, till)
      PROVE  Current'
  BY <1>1, SyncDefinitionsStep
<1>2. ASSUME NEW till \in Tills[settings.hash], NEW name, Kill(name, till) PROVE Current'
  BY <1>2, KillStep
<1>3. ASSUME NEW key \in Keys, NEW names \in Answers, SyncMemberships(key, names) PROVE Current'
  BY <1>3, SyncMembershipsStep
<1>4. ASSUME NEW key \in Keys, NEW n \in Segment, NEW adds \in BOOLEAN, ChangeMemberships(key, n, adds)
      PROVE  Current'
  BY <1>4, ChangeMembershipsStep
<1>5. ASSUME NEW n \in Segment, NEW added \in SUBSET Keys, NEW removed \in SUBSET Keys,
             SyncSegment(n, added, removed)
      PROVE  Current'
  BY <1>5, SyncSegmentStep
<1> QED
  BY <1>1, <1>2, <1>3, <1>4, <1>5 DEF Sync

LEMMA SessionStep ==
  ASSUME StoragesInv, Session
  PROVE  Current'
<1>1. ASSUME NEW h \in Hashes, NEW p \in BOOLEAN, NEW c \in ClearsOnInit,
             Build([hash |-> h, plan |-> p, clearOnInit |-> c])
      PROVE  Current'
  <2> DEFINE s == [hash |-> h, plan |-> p, clearOnInit |-> c]
  <2>1. s.hash \in Hashes /\ Build(s)
    BY <1>1
  <2> HIDE DEF s
  <2> QED
    BY <2>1, BuildStep
<1> QED
  BY <1>1, ValidateStep, EndStep DEF Session

LEMMA StoragesStep ==
  ASSUME StoragesInv, Next
  PROVE  StoragesInv'
<1>1. Current'
  <2>1. ASSUME StartWrite PROVE Current'
    BY <2>1, SameSession DEF StartWrite
  <2>2. ASSUME NEW i \in DOMAIN writes, NEW ok \in BOOLEAN, EndWrite(i, ok) PROVE Current'
    BY <2>2, SameSession DEF EndWrite
  <2> QED
    BY <2>1, <2>2, SessionStep, SyncStep DEF Next
<1>2. ChainOfSaves'
  BY ChainStep
<1>3. (Copies \subseteq Items)' /\ CopiesAreExact' /\ (mislabelled \/ CopiesAreLabelled')
  BY CopiesKept
<1>4. mislabelled => mislabelled'
  <2>1. ASSUME Session PROVE mislabelled => mislabelled'
    <3>1. ASSUME NEW s, Build(s) PROVE mislabelled => mislabelled'
      BY <3>1 DEF Build
    <3>2. ASSUME NEW loads, Validate(loads) PROVE mislabelled => mislabelled'
      BY <3>2 DEF Validate
    <3>3. ASSUME NEW landed, NEW aged, End(landed, aged) PROVE mislabelled => mislabelled'
      BY <3>3 DEF End
    <3> QED
      BY <2>1, <3>1, <3>2, <3>3 DEF Session
  <2>2. ASSUME Sync PROVE mislabelled => mislabelled'
    BY <2>2, SyncWorks DEF Works
  <2>3. ASSUME StartWrite \/ \E i \in DOMAIN writes, ok \in BOOLEAN : EndWrite(i, ok)
        PROVE  mislabelled => mislabelled'
    BY <2>3 DEF StartWrite, EndWrite
  <2> QED
    BY <2>1, <2>2, <2>3 DEF Next
<1>5. (writes \in Seq(Items))'
  <2>1. writes \in Seq(Items) /\ items \in Items /\ Typed /\ Len(writes) <= 1
    BY DEF StoragesInv, Typed, Held, ChainOfSaves
  <2>2. CASE StartWrite
    BY <2>1, <2>2 DEF StartWrite
  <2>3. ASSUME NEW i \in DOMAIN writes, NEW ok, EndWrite(i, ok) PROVE writes' \in Seq(Items)
    <3>1. writes' = <<>>
      BY <2>1, <2>3, OneWrite DEF EndWrite
    <3> QED
      BY <3>1
  <2>4. ASSUME Session PROVE writes' = writes \/ writes' = <<>>
    <3>1. ASSUME NEW s, Build(s) PROVE writes' = writes
      BY <3>1 DEF Build
    <3>2. ASSUME NEW loads, Validate(loads) PROVE writes' = writes
      BY <3>2 DEF Validate
    <3>3. ASSUME NEW landed, NEW aged, End(landed, aged) PROVE writes' = <<>>
      BY <3>3 DEF End
    <3> QED
      BY <2>4, <3>1, <3>2, <3>3 DEF Session
  <2>5. ASSUME Sync PROVE writes' = writes
    BY <2>5, SyncWorks DEF Works
  <2>6. <<>> \in Seq(Items)
    OBVIOUS
  <2>7. (phase = "up" /\ Sync) \/ Session => writes' \in Seq(Items)
    BY <2>1, <2>4, <2>5, <2>6
  <2>8. (\E i \in DOMAIN writes, ok \in BOOLEAN : EndWrite(i, ok)) => writes' \in Seq(Items)
    BY <2>3
  <2> QED
    BY <2>2, <2>7, <2>8 DEF Next
<1> QED
  BY <1>1, <1>2, <1>3, <1>4, <1>5 DEF Current, StoragesInv, Typed, Labels

LEMMA StoragesStutter ==
  ASSUME StoragesInv, UNCHANGED vars
  PROVE  StoragesInv'
<1>1. Current'
  BY SameSession DEF vars
<1>2. ChainOfSaves' /\ (Copies \subseteq Items)' /\ CopiesAreExact' /\ (writes \in Seq(Items))'
  <2>1. Copies' = Copies
    BY DEF vars, Copies
  <2> QED
    BY <2>1 DEF vars, StoragesInv, Typed, ChainOfSaves, CopiesAreExact
<1>3. mislabelled' \/ CopiesAreLabelled'
  <2>1. Copies' = Copies
    BY DEF vars, Copies
  <2> QED
    BY <2>1 DEF vars, StoragesInv, Labels, CopiesAreLabelled
<1> QED
  BY <1>1, <1>2, <1>3 DEF Current, StoragesInv, Typed, Labels

LEMMA StoragesInit == Init => StoragesInv
<1> SUFFICES ASSUME Init PROVE StoragesInv
  OBVIOUS
<1>1. /\ kind \in Kinds /\ phase = "off" /\ memory = NoMemory /\ items = NoItems /\ disk = NoItems
      /\ queued = 0 /\ writes = <<>> /\ ~saved /\ ~drifted /\ ~mislabelled /\ answer = None
  BY DEF Init
<1>2. /\ NoItems \in Items
      /\ ExactTypes(NoItems) /\ ExactSets(NoItems) /\ ExactUsing(NoItems)
      /\ Whole(NoItems) /\ Labelled(NoItems) /\ Tagged(NoItems)
  BY NoItemsIs
<1>3. NoMemory \in Memory
  BY NoMemoryIs
<1>4. writes \in Seq(Items) /\ Len(writes) = 0 /\ Copies = {NoItems}
  <2>1. ToSet(<<>>) = {}
    BY DEF ToSet
  <2> QED
    BY <1>1, <2>1 DEF Copies
<1>5. Typed
  BY <1>1, <1>2, <1>3, <1>4 DEF Typed, Held
<1>6. ChainOfSaves
  BY <1>1, <1>4 DEF ChainOfSaves
<1>7. ItemsAreExact /\ CopiesAreExact
  BY <1>1, <1>2, <1>4 DEF ItemsAreExact, CopiesAreExact
<1>8. AnswerIsKept /\ MemoryIsOurs
  BY <1>1 DEF AnswerIsKept, MemoryIsOurs
<1>9. Labels
  BY <1>1, <1>2, <1>4 DEF Labels, CopiesAreLabelled, ItemsAreLabelled
<1> QED
  BY <1>5, <1>6, <1>7, <1>8, <1>9 DEF StoragesInv

-----------------------------------------------------------------------------
\* What the invariant says of the views, the cache, the saves and the plan.

LEMMA MemoryViews ==
  ASSUME NEW c \in ExactDefs
  PROVE  /\ \A t \in TrafficType : TrafficTypeExists(c, t) <=> \E d \in Range(c.defs) : d.trafficType = t
         /\ \A s \in FlagSet :
              NamesBySets(c, s) = {d.name : d \in {x \in Range(c.defs) : s \in x.sets /\ Passes(s)}}
         /\ c.segments > 0 <=> \E d \in Range(c.defs) : UsesSegments(d)
<1>1. c.defs \in DefMaps /\ IsFiniteSet(DOMAIN c.defs)
  BY MapsAreFinite DEF ExactDefs, DefCaches
<1>2. \A n \in DOMAIN c.defs : c.defs[n] \in Def /\ c.defs[n].name = n
  BY <1>1, DefWith
<1>3. Range(c.defs) = {c.defs[n] : n \in DOMAIN c.defs}
  BY DEF Range
<1>4. ASSUME NEW t \in TrafficType
      PROVE  TrafficTypeExists(c, t) <=> \E d \in Range(c.defs) : d.trafficType = t
  <2>1. c.tts[t] = Tally(c.defs, OfType(t))
    BY DEF ExactDefs
  <2>2. Tally(c.defs, OfType(t)) > 0 <=> \E n \in DOMAIN c.defs : c.defs[n] \in OfType(t)
    BY <1>1, TallyIs
  <2> QED
    BY <1>2, <1>3, <2>1, <2>2 DEF TrafficTypeExists, OfType
<1>5. ASSUME NEW s \in FlagSet
      PROVE  NamesBySets(c, s) = {d.name : d \in {x \in Range(c.defs) : s \in x.sets /\ Passes(s)}}
  <2>1. c.sets[s] = InSet(c.defs, s)
    BY DEF ExactDefs
  <2> QED
    BY <1>2, <1>3, <2>1 DEF NamesBySets, InSet
<1>6. c.segments > 0 <=> \E d \in Range(c.defs) : UsesSegments(d)
  <2>1. c.segments = Tally(c.defs, Using)
    BY DEF ExactDefs
  <2>2. Tally(c.defs, Using) > 0 <=> \E n \in DOMAIN c.defs : c.defs[n] \in Using
    BY <1>1, TallyIs
  <2> QED
    BY <1>2, <1>3, <2>1, <2>2 DEF Using
<1> QED
  BY <1>4, <1>5, <1>6

LEMMA MemoryRBView ==
  ASSUME NEW c \in ExactRBs
  PROVE  c.segments > 0 <=> \E r \in Range(c.rbs) : UsesSegments(r)
<1>1. c.rbs \in RBMaps /\ IsFiniteSet(DOMAIN c.rbs) /\ c.segments = Tally(c.rbs, UsingRB)
  BY MapsAreFinite DEF ExactRBs, RBCaches
<1>2. \A n \in DOMAIN c.rbs : c.rbs[n] \in RBSeg
  BY <1>1, RBWith
<1>3. Tally(c.rbs, UsingRB) > 0 <=> \E n \in DOMAIN c.rbs : c.rbs[n] \in UsingRB
  BY <1>1, TallyIs
<1> QED
  BY <1>1, <1>2, <1>3 DEF UsingRB, Range

LEMMA ItemsViews ==
  ASSUME NEW i \in Items, ExactTypes(i), ExactSets(i),
         NEW defs, defs = {i[DefinitionKey(n)] : n \in NamesOf(i, "split")},
         NEW rbs, rbs = {i[RBSegmentKey(n)] : n \in NamesOf(i, "rbsegment")}
  PROVE  /\ \A t \in TrafficType : LocalTrafficTypeExists(i, t) <=> \E d \in defs : d.trafficType = t
         /\ \A s \in FlagSet :
              LocalNamesBySets(i, s) = {d.name : d \in {x \in defs : s \in x.sets /\ Passes(s)}}
         /\ ExactUsing(i) => (Number(i, UsingSegmentsKey) > 0 <=> \E r \in defs \cup rbs : UsesSegments(r))
<1>1. /\ DefsOf(i) \in DefMaps /\ RBsOf(i) \in RBMaps
      /\ IsFiniteSet(DOMAIN DefsOf(i)) /\ IsFiniteSet(DOMAIN RBsOf(i))
  BY DefsOfIs, ViewsAreFinite
<1>2. /\ \A n \in DOMAIN DefsOf(i) : DefsOf(i)[n] \in Def /\ DefsOf(i)[n].name = n
      /\ \A n \in DOMAIN RBsOf(i) : RBsOf(i)[n] \in RBSeg
  BY <1>1, DefWith, RBWith
<1>3. /\ defs = {DefsOf(i)[n] : n \in DOMAIN DefsOf(i)}
      /\ rbs = {RBsOf(i)[n] : n \in DOMAIN RBsOf(i)}
  BY DEF DefsOf, RBsOf
<1>4. ASSUME NEW t \in TrafficType
      PROVE  LocalTrafficTypeExists(i, t) <=> \E d \in defs : d.trafficType = t
  <2>1. Number(i, TrafficTypeKey(t)) = Tally(DefsOf(i), OfType(t))
    BY DEF ExactTypes
  <2>2. Tally(DefsOf(i), OfType(t)) > 0 <=> \E n \in DOMAIN DefsOf(i) : DefsOf(i)[n] \in OfType(t)
    BY <1>1, TallyIs
  <2> QED
    BY <1>2, <1>3, <2>1, <2>2 DEF LocalTrafficTypeExists, OfType
<1>5. ASSUME NEW s \in FlagSet
      PROVE  LocalNamesBySets(i, s) = {d.name : d \in {x \in defs : s \in x.sets /\ Passes(s)}}
  <2> DEFINE m == DefsOf(i)
  <2>1. LocalNamesBySets(i, s) = InSet(m, s)
    BY DEF ExactSets
  <2>2. (\A n \in DOMAIN m : m[n].name = n) /\ defs = {m[n] : n \in DOMAIN m}
    BY <1>2, <1>3
  <2> HIDE DEF m
  <2>3. InSet(m, s) = {d.name : d \in {x \in defs : s \in x.sets /\ Passes(s)}}
    <3>1. ASSUME NEW n \in DOMAIN m, s \in m[n].sets, Passes(s)
          PROVE  \E d \in {x \in defs : s \in x.sets /\ Passes(s)} : n = d.name
      BY <2>2, <3>1
    <3>2. ASSUME NEW d \in defs, s \in d.sets, Passes(s)
          PROVE  d.name \in InSet(m, s)
      BY <2>2, <3>2 DEF InSet
    <3> QED
      BY <3>1, <3>2 DEF InSet
  <2> QED
    BY <2>1, <2>3
<1>6. ASSUME ExactUsing(i)
      PROVE  Number(i, UsingSegmentsKey) > 0 <=> \E r \in defs \cup rbs : UsesSegments(r)
  <2>1. Number(i, UsingSegmentsKey) = Tally(DefsOf(i), Using) + Tally(RBsOf(i), UsingRB)
    BY <1>6 DEF ExactUsing
  <2>2. /\ Tally(DefsOf(i), Using) \in Nat /\ Tally(RBsOf(i), UsingRB) \in Nat
        /\ Tally(DefsOf(i), Using) > 0 <=> \E n \in DOMAIN DefsOf(i) : DefsOf(i)[n] \in Using
        /\ Tally(RBsOf(i), UsingRB) > 0 <=> \E n \in DOMAIN RBsOf(i) : RBsOf(i)[n] \in UsingRB
    BY <1>1, TallyIs
  <2>3. Number(i, UsingSegmentsKey) > 0
          <=> Tally(DefsOf(i), Using) > 0 \/ Tally(RBsOf(i), UsingRB) > 0
    BY <2>1, <2>2
  <2>4. (\E n \in DOMAIN DefsOf(i) : DefsOf(i)[n] \in Using) <=> \E r \in defs : UsesSegments(r)
    BY <1>2, <1>3 DEF Using
  <2>5. (\E n \in DOMAIN RBsOf(i) : RBsOf(i)[n] \in UsingRB) <=> \E r \in rbs : UsesSegments(r)
    BY <1>2, <1>3 DEF UsingRB
  <2> QED
    BY <2>2, <2>3, <2>4, <2>5
<1> QED
  BY <1>4, <1>5, <1>6

LEMMA ViewsFollow == StoragesInv => ViewsAreExact
<1> SUFFICES ASSUME StoragesInv PROVE ViewsAreExact
  OBVIOUS
<1>1. /\ memory \in Memory /\ items \in Items
      /\ ExactTypes(items) /\ ExactSets(items) /\ (~drifted => ExactUsing(items))
      /\ answer # None => Memberships(answer.key) = ToSet(answer.names)
  BY DEF StoragesInv, Typed, Held, ItemsAreExact, AnswerIsKept
<1>2. CASE InMemory
  <2> DEFINE c == memory.definitions
             b == memory.rbSegments
  <2>1. c \in ExactDefs /\ b \in ExactRBs
    BY <1>1 DEF Memory
  <2>2. StoredDefinitions = Range(c.defs) /\ StoredRBSegments = Range(b.rbs)
    BY <1>2 DEF StoredDefinitions, StoredRBSegments
  <2> HIDE DEF c, b
  <2>3. /\ \A t \in TrafficType : TrafficTypeExists(c, t) <=> \E d \in Range(c.defs) : d.trafficType = t
        /\ \A s \in FlagSet :
             NamesBySets(c, s) = {d.name : d \in {x \in Range(c.defs) : s \in x.sets /\ Passes(s)}}
        /\ c.segments > 0 <=> \E d \in Range(c.defs) : UsesSegments(d)
    BY <2>1, MemoryViews
  <2>4. b.segments > 0 <=> \E r \in Range(b.rbs) : UsesSegments(r)
    BY <2>1, MemoryRBView
  <2>5. (DefinitionsUseSegments(c) \/ RBSegmentsUseSegments(b))
          <=> (~(c.cn # -1) \/ \E r \in Range(c.defs) \cup Range(b.rbs) : UsesSegments(r))
    BY <2>3, <2>4 DEF DefinitionsUseSegments, RBSegmentsUseSegments
  <2> QED
    BY <1>1, <1>2, <2>2, <2>3, <2>5 DEF ViewsAreExact, c, b
<1>3. CASE ~InMemory
  <2> DEFINE D == {items[DefinitionKey(n)] : n \in NamesOf(items, "split")}
             R == {items[RBSegmentKey(n)] : n \in NamesOf(items, "rbsegment")}
  <2>1. StoredDefinitions = D /\ StoredRBSegments = R
    BY <1>3 DEF StoredDefinitions, StoredRBSegments
  <2>2. /\ \A t \in TrafficType : LocalTrafficTypeExists(items, t) <=> \E d \in D : d.trafficType = t
        /\ \A s \in FlagSet :
             LocalNamesBySets(items, s) = {d.name : d \in {x \in D : s \in x.sets /\ Passes(s)}}
        /\ ExactUsing(items) => (Number(items, UsingSegmentsKey) > 0 <=> \E r \in D \cup R : UsesSegments(r))
    BY <1>1, ItemsViews
  <2> HIDE DEF D, R
  <2>3. drifted \/ ((LocalDefinitionsUseSegments(items, hasSync) \/ LocalRBUseSegments(items))
                      <=> (~hasSync \/ \E r \in D \cup R : UsesSegments(r)))
    BY <1>1, <2>2 DEF LocalDefinitionsUseSegments, LocalRBUseSegments
  <2> QED
    BY <1>1, <1>3, <2>1, <2>2, <2>3 DEF ViewsAreExact
<1> QED
  BY <1>2, <1>3

LEMMA CacheFollows == StoragesInv => LoadedCacheIsOurs
<1> SUFFICES ASSUME StoragesInv, ~mislabelled, phase = "up" PROVE CacheIsOurs
  BY DEF LoadedCacheIsOurs, CacheIsOurs
<1>1. memory \in Memory /\ items \in Items
  BY DEF StoragesInv, Typed, Held
<1>2. CASE InMemory
  <2>1. /\ \A n \in DOMAIN memory.definitions.defs :
             memory.definitions.defs[n].env = settings.hash /\ MatchFilters(memory.definitions.defs[n])
        /\ \A n \in DOMAIN memory.rbSegments.rbs : memory.rbSegments.rbs[n].env = settings.hash
        /\ memory.definitions.cn \in Tills[settings.hash] \cup {-1}
    BY <1>2 DEF StoragesInv, MemoryIsOurs
  <2>2. /\ \A d \in StoredDefinitions : d.env = settings.hash /\ MatchFilters(d)
        /\ \A r \in StoredRBSegments : r.env = settings.hash
    BY <1>2, <2>1 DEF StoredDefinitions, StoredRBSegments, Range
  <2> QED
    BY <1>2, <2>1, <2>2 DEF CacheIsOurs, CurrentTill
<1>3. CASE ~InMemory
  <2>1. Mine(items, settings.hash)
    BY <1>3 DEF StoragesInv, Labels, ItemsAreLabelled
  <2>2. /\ \A d \in StoredDefinitions : d.env = settings.hash /\ MatchFilters(d)
        /\ \A r \in StoredRBSegments : r.env = settings.hash
    BY <1>3, <2>1 DEF StoredDefinitions, StoredRBSegments, Mine, DefsOf, RBsOf
  <2>3. /\ Till(items, TillKey) \in Tills[settings.hash] \cup {-1}
        /\ Till(items, RBTillKey) \in Tills[settings.hash] \cup {-1}
    BY <2>1 DEF Mine, Till
  <2> QED
    BY <1>3, <2>2, <2>3 DEF CacheIsOurs, CurrentTill
<1> QED
  BY <1>2, <1>3

LEMMA SavesFollow == StoragesInv => SavedWhenQuiet
BY DEF StoragesInv, ChainOfSaves, SavedWhenQuiet

LEMMA PlanFollows == StoragesInv => PlanRoundtrip
<1> SUFFICES ASSUME StoragesInv PROVE PlanRoundtrip
  OBVIOUS
<1>1. memory \in Memory
  BY DEF StoragesInv, Typed, Held
<1> QED
  BY <1>1, PlanRoundtripIsExact DEF PlanRoundtrip

-----------------------------------------------------------------------------
\* The theorems.

\* In every session of every kind of storage: the caches have their types, with every
\* count and index equal to what the rules it stands for say, in memory, in the items
\* and in every copy that the wrapper has; at most one write is in flight and the last
\* one brings what the items are; and items carry the hash of the configuration that
\* they come from.
THEOREM StoragesInvariant == Spec => []StoragesInv
<1>1. Init => StoragesInv
  BY StoragesInit
<1>2. StoragesInv /\ [Next]_vars => StoragesInv'
  BY StoragesStep, StoragesStutter
<1> QED
  BY <1>1, <1>2, PTL DEF Spec

\* What a storage answers about traffic types, flag sets and the use of segments is
\* what its stored rules say, and memberships are the listed ones, after any sequence
\* of updates, kills, plans, clears and sessions.
THEOREM ViewsCorrect == Spec => []ViewsAreExact
BY StoragesInvariant, ViewsFollow, PTL

\* A validated storage serves rules and resumes from change numbers of its own SDK
\* key, filters and version only, unless items were left under the hash of another
\* configuration: when they had expired, when a wrapper was loaded over a plan, or when
\* a session with a plan ended before its validation.
THEOREM CacheCorrect == Spec => []LoadedCacheIsOurs
BY StoragesInvariant, CacheFollows, PTL

\* With no save waiting and the last write stored, the wrapper has what the SDK has.
THEOREM SavesCorrect == Spec => []SavedWhenQuiet
BY StoragesInvariant, SavesFollow, PTL

\* The plan taken from a storage in memory builds the same storage again.
THEOREM PlanCorrect == Spec => []PlanRoundtrip
BY StoragesInvariant, PlanFollows, PTL
==============================================================================
