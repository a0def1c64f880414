-------------------------- MODULE ReadinessProofs --------------------------
(***************************************************************************)
(* The safety properties of Readiness, for every set of clients and        *)
(* promises, any listeners and any number of lives: first what the         *)
(* functions of the readiness manager keep, then the steps of the SDK.     *)
(***************************************************************************)
EXTENDS Readiness, TLAPS

\* What a client may hear, as a sequence.
Ordered(s) ==
  /\ IsInjective(s)
  /\ Before(s, SdkFromCache, SdkReady)
  /\ Before(s, SdkReady, SdkUpdate)
  /\ Before(s, SdkTimedOut, SdkReady)

\* What a promise waits for has happened.
Done(m, p) == IF p = "whenReadyFromCache" THEN m.isReadyFromCache ELSE m.isReady

\* The event that resolves it.
Awaited(p) == IF p = "whenReadyFromCache" THEN SdkFromCache ELSE SdkReady

Troubled(m) == \E e \in Throwing : Throws(m, e)

\* What was heard is what the flags say, each event left behind by its flag.
HeardAsFlagged(m) ==
  /\ SdkFromCache \in Range(m.heard) => m.isReadyFromCache
  /\ SdkReady \in Range(m.heard) => m.isReady
  /\ SdkUpdate \in Range(m.heard) => m.isReady
  /\ SdkTimedOut \in Range(m.heard) => m.hasTimedout

\* A promise that waits listens to the event that resolves it and to the one that
\* rejects it, no other event resolves it, and only the listeners the user may add throw.
Listening(m) ==
  /\ \A p \in Promises : m.promise[p] = "pending" =>
       p \in Range(m.listeners[Awaited(p)]) /\ p \in Range(m.listeners[SdkTimedOut])
  /\ \A e \in Events \ {SdkTimedOut}, p \in Promises : p \in Range(m.listeners[e]) => e = Awaited(p)
  /\ \A e \in Events : Throws(m, e) => e \in Throwing

Settled(m) ==
  \A p \in Promises :
    /\ m.promise[p] = "resolved" => Done(m, p)
    /\ m.promise[p] = "rejected" => m.hasTimedout

ManagerOK(m) ==
  /\ m \in Managers
  /\ Ordered(m.heard)
  /\ HeardAsFlagged(m)
  /\ m.isReady => m.isReadyFromCache /\ m.segmentsArrived
  /\ Listening(m)
  /\ Settled(m)

\* No promise waits in vain.
Waits(m) ==
  \/ \A p \in Promises : m.promise[p] = "pending" => ~Done(m, p) /\ ~m.hasTimedout
  \/ Troubled(m)

\* What holds of a client at any time. Of a client that was destroyed nothing is said of
\* the promises, and so of none in a later life.
ClientOK(c, m) ==
  /\ ManagerOK(m)
  /\ ~m.isDestroyed \/ lives = 0 => Waits(m) \/ lives > 1
  /\ m.isReady => definitions.arrived
  /\ m.segmentsArrived => c \in fetched
  /\ definitions.arrived /\ m.segmentsArrived /\ ~m.isDestroyed => m.isReady \/ lives > 1
  /\ firstStart => ~m.segmentsArrived /\ (cache # "preloaded" => ~m.isReadyFromCache)
  /\ lives = 0 => ~m.hasTimedout /\ ~m.armed /\ ~m.leaked

\* Before the first start nothing is fetched, and the storage has not been looked at.
StartOK ==
  /\ firstStart =>
       /\ requests = {}
       /\ ~definitions.arrived
       /\ cache # "preloaded" => ~definitions.cacheLoaded
  /\ lives = 0 => firstStart /\ ~definitions.hasInit

\* The inductive invariant. None of the properties says which flags led to an event, who
\* listens for what, or that the cache is looked at once and before the first fetch.
IInv ==
  /\ TypeOK
  /\ \A c \in created : ClientOK(c, manager[c])
  /\ definitions.arrived => "definitions" \in fetched \/ (Kills /\ cache # "none")
  /\ requests \subseteq created \cup {"definitions"}
  /\ StartOK

-----------------------------------------------------------------------------
(* Emissions                                                                *)

LEMMA AppendFacts ==
  ASSUME NEW T, NEW s \in Seq(T), NEW e \in T, NEW t, t = Append(s, e)
  PROVE  /\ t \in Seq(T)
         /\ DOMAIN t = 1..Len(s) + 1 /\ DOMAIN s = 1..Len(s) /\ Len(s) \in Nat
         /\ t[Len(s) + 1] = e
         /\ \A i \in 1..Len(s) : t[i] = s[i]
  <1>1. /\ t \in Seq(T) /\ Len(t) = Len(s) + 1 /\ Len(s) \in Nat
        /\ t[Len(s) + 1] = e /\ \A i \in 1..Len(s) : t[i] = s[i]
    OBVIOUS
  <1>2. DOMAIN t = 1..Len(s) + 1 /\ DOMAIN s = 1..Len(s)
    BY <1>1
  <1>. QED
    BY <1>1, <1>2

Extended(s, e, t) == Range(t) = Range(s) \cup {e}

LEMMA AppendRange ==
  ASSUME NEW T, NEW s \in Seq(T), NEW e \in T
  PROVE  Extended(s, e, Append(s, e))
<1>. PICK t : t = Append(s, e)
  OBVIOUS
<1>1. /\ DOMAIN t = 1..Len(s) + 1 /\ DOMAIN s = 1..Len(s) /\ Len(s) \in Nat
      /\ t[Len(s) + 1] = e
      /\ \A i \in 1..Len(s) : t[i] = s[i]
  BY AppendFacts
<1>2. ASSUME NEW x \in Range(t) PROVE x \in Range(s) \cup {e}
  <2>1. PICK i \in 1..Len(s) + 1 : t[i] = x
    BY <1>1 DEF Range
  <2>. QED
    BY <1>1, <2>1 DEF Range
<1>3. ASSUME NEW x \in Range(s) \cup {e} PROVE x \in Range(t)
  <2>1. CASE x = e
    BY <1>1, <2>1 DEF Range
  <2>2. CASE x \in Range(s)
    <3>1. PICK i \in 1..Len(s) : s[i] = x
      BY <1>1, <2>2 DEF Range
    <3>2. i \in 1..Len(s) + 1 /\ t[i] = x
      BY <1>1, <3>1
    <3>. QED
      BY <1>1, <3>2 DEF Range
  <2>. QED
    BY <2>1, <2>2
<1>. QED
  BY <1>2, <1>3 DEF Extended

\* An event that was not heard may come after those that do not precede it.
LEMMA HeardBefore ==
  ASSUME NEW s \in Seq(Events), NEW e \in Events, NEW t, t = Append(s, e),
         NEW a \in Events, NEW b \in Events, a # b,
         Before(s, a, b), e = a => b \notin Range(s)
  PROVE  Before(t, a, b)
<1>1. /\ DOMAIN t = 1..Len(s) + 1 /\ DOMAIN s = 1..Len(s) /\ Len(s) \in Nat
      /\ t[Len(s) + 1] = e
      /\ \A i \in 1..Len(s) : t[i] = s[i]
  BY AppendFacts
<1>2. SUFFICES ASSUME NEW i \in 1..Len(s) + 1, NEW j \in 1..Len(s) + 1, t[i] = a, t[j] = b
               PROVE  i < j
  BY <1>1 DEF Before
<1>3. CASE i = Len(s) + 1
  <2>1. j \in 1..Len(s) /\ e = a
    BY <1>1, <1>2, <1>3
  <2>2. s[j] = b /\ j \in DOMAIN s
    BY <1>1, <1>2, <2>1
  <2>. QED
    BY <2>1, <2>2 DEF Range
<1>4. CASE i # Len(s) + 1 /\ j # Len(s) + 1
  <2>1. i \in 1..Len(s) /\ j \in 1..Len(s)
    BY <1>1, <1>4
  <2>. QED
    BY <1>1, <1>2, <2>1 DEF Before
<1>5. CASE i # Len(s) + 1 /\ j = Len(s) + 1
  BY <1>1, <1>5
<1>. QED
  BY <1>3, <1>4, <1>5

LEMMA HeardOnce ==
  ASSUME NEW s \in Seq(Events), NEW e \in Events, NEW t, t = Append(s, e),
         IsInjective(s), e \notin Range(s)
  PROVE  IsInjective(t)
<1>1. /\ DOMAIN t = 1..Len(s) + 1 /\ DOMAIN s = 1..Len(s) /\ Len(s) \in Nat
      /\ t[Len(s) + 1] = e
      /\ \A i \in 1..Len(s) : t[i] = s[i]
  BY AppendFacts
<1>2. \A h \in 1..Len(s) : s[h] # e
  BY <1>1 DEF Range
<1>3. ASSUME NEW i \in 1..Len(s) + 1, NEW j \in 1..Len(s) + 1, t[i] = t[j]
      PROVE  i = j
  <2>1. (i = Len(s) + 1 \/ i \in 1..Len(s)) /\ (j = Len(s) + 1 \/ j \in 1..Len(s))
    BY <1>1
  <2>2. CASE i \in 1..Len(s) /\ j \in 1..Len(s)
    BY <1>1, <1>3, <2>2 DEF IsInjective
  <2>3. CASE i = Len(s) + 1 /\ j \in 1..Len(s)
    <3>1. t[i] = e /\ t[j] = s[j]
      BY <1>1, <2>3
    <3>. QED
      BY <1>2, <1>3, <2>3, <3>1
  <2>4. CASE i \in 1..Len(s) /\ j = Len(s) + 1
    <3>1. t[j] = e /\ t[i] = s[i]
      BY <1>1, <2>4
    <3>. QED
      BY <1>2, <1>3, <2>4, <3>1
  <2>5. CASE i = Len(s) + 1 /\ j = Len(s) + 1
    BY <2>5
  <2>. QED
    BY <2>1, <2>2, <2>3, <2>4, <2>5
<1>4. \A i, j \in DOMAIN t : t[i] = t[j] => i = j
  BY <1>1, <1>3
<1>5. IsInjective(t)
  BY <1>4 DEF IsInjective
<1>. QED
  BY <1>5

\* When an event may be emitted.
MayEmit(m, e) ==
  /\ e # SdkUpdate => e \notin Range(m.heard)
  /\ e = SdkFromCache => m.isReadyFromCache /\ SdkReady \notin Range(m.heard)
  /\ e = SdkReady => m.isReady /\ SdkUpdate \notin Range(m.heard)
  /\ e = SdkUpdate => m.isReady
  /\ e = SdkTimedOut => m.hasTimedout /\ SdkReady \notin Range(m.heard)

SameFlags(m, n) ==
  /\ n.segmentsArrived = m.segmentsArrived
  /\ n.isReady = m.isReady
  /\ n.isReadyFromCache = m.isReadyFromCache
  /\ n.hasTimedout = m.hasTimedout
  /\ n.isDestroyed = m.isDestroyed
  /\ n.armed = m.armed
  /\ n.leaked = m.leaked
  /\ n.listeners = m.listeners

\* What an emission leaves: it is heard, and of the promises that waited for it those
\* before a listener that throws are settled.
Emitted(m, e, n) ==
  /\ ManagerOK(n)
  /\ SameFlags(m, n)
  /\ Range(n.heard) = Range(m.heard) \cup {e}
  /\ \A p \in Promises :
       n.promise[p] = "pending" =>
         m.promise[p] = "pending" /\ (p \notin Range(m.listeners[e]) \/ Throws(m, e))

LEMMA EmitFacts ==
  ASSUME NEW m, ManagerOK(m), NEW e \in Events, MayEmit(m, e)
  PROVE  Emitted(m, e, Emit(m, e))
<1>. PICK n : n = Emit(m, e)
  OBVIOUS
<1>. PICK outcome : outcome = IF e = SdkTimedOut THEN "rejected" ELSE "resolved"
  OBVIOUS
<1>. PICK called : called = {p \in Promises : \E i \in DOMAIN m.listeners[e] :
                               /\ m.listeners[e][i] = p
                               /\ \A j \in 1..i : m.listeners[e][j] # Bad}
  OBVIOUS
<1>. PICK h : h = IF e = SdkUpdate /\ SdkUpdate \in Range(m.heard) THEN m.heard
                  ELSE Append(m.heard, e)
  OBVIOUS
<1>. PICK f : f = [p \in Promises |-> IF p \in called /\ m.promise[p] = "pending" THEN outcome
                                      ELSE m.promise[p]]
  OBVIOUS
<1>0. m \in Managers /\ m.heard \in Seq(Events) /\ m.promise \in [Promises -> Outcome]
      /\ m.listeners[e] \in Seq(Promises \cup {Bad})
  BY DEF ManagerOK, Managers
<1>1. n = [m EXCEPT !.heard = h, !.promise = f]
  BY <1>0 DEF Emit, Managers
<1>. PICK s : s = m.heard
  OBVIOUS
<1>2. /\ s \in Seq(Events) /\ s = m.heard /\ Ordered(s)
      /\ e = SdkUpdate /\ SdkUpdate \in Range(s) => h = s
      /\ ~(e = SdkUpdate /\ SdkUpdate \in Range(s)) => h = Append(s, e) /\ e \notin Range(s)
  BY <1>0 DEF ManagerOK, MayEmit
<1>2a. h \in Seq(Events) /\ Range(h) = Range(m.heard) \cup {e}
  <2>1. CASE e = SdkUpdate /\ SdkUpdate \in Range(s)
    BY <1>2, <2>1
  <2>2. CASE ~(e = SdkUpdate /\ SdkUpdate \in Range(s))
    <3>1. Range(h) = Range(s) \cup {e}
      BY <1>2, <2>2, AppendRange DEF Extended
    <3>. QED
      BY <1>2, <2>2, <3>1
  <2>. QED
    BY <2>1, <2>2
<1>3. Ordered(h)
  <2>1. CASE e = SdkUpdate /\ SdkUpdate \in Range(s)
    BY <1>2, <2>1
  <2>2. CASE ~(e = SdkUpdate /\ SdkUpdate \in Range(s))
    <3>1. h = Append(s, e) /\ e \notin Range(s) /\ IsInjective(s)
          /\ Before(s, SdkFromCache, SdkReady) /\ Before(s, SdkReady, SdkUpdate)
          /\ Before(s, SdkTimedOut, SdkReady)
      BY <1>2, <2>2 DEF Ordered
    <3>2. IsInjective(h)
      BY <1>2, <3>1, HeardOnce
    <3>3. /\ SdkFromCache \in Events /\ SdkReady \in Events /\ SdkUpdate \in Events
          /\ SdkTimedOut \in Events
          /\ SdkFromCache # SdkReady /\ SdkReady # SdkUpdate /\ SdkTimedOut # SdkReady
          /\ e \in {SdkFromCache, SdkTimedOut} => SdkReady \notin Range(s)
          /\ e = SdkReady => SdkUpdate \notin Range(s)
      BY <1>2 DEF MayEmit, Events, SdkFromCache, SdkReady, SdkUpdate, SdkTimedOut
    <3>4. Before(h, SdkFromCache, SdkReady)
      BY <1>2, <3>1, <3>3, HeardBefore
    <3>5. Before(h, SdkReady, SdkUpdate)
      BY <1>2, <3>1, <3>3, HeardBefore
    <3>6. Before(h, SdkTimedOut, SdkReady)
      BY <1>2, <3>1, <3>3, HeardBefore
    <3>. QED
      BY <3>2, <3>4, <3>5, <3>6 DEF Ordered
  <2>. QED
    BY <2>1, <2>2
<1>4. /\ f \in [Promises -> Outcome]
      /\ \A p \in Promises : f[p] = m.promise[p] \/ (p \in Range(m.listeners[e]) /\ f[p] = outcome)
      /\ \A p \in Promises : f[p] = "pending" => m.promise[p] = "pending" /\ p \notin called
  <2>1. \A p \in called : p \in Range(m.listeners[e])
    BY <1>0 DEF Range
  <2>. QED
    BY <1>0, <2>1 DEF Outcome
<1>5. ASSUME NEW p \in Promises, p \notin called, p \in Range(m.listeners[e])
      PROVE  Throws(m, e)
  <2>1. PICK i \in DOMAIN m.listeners[e] : m.listeners[e][i] = p
    BY <1>5 DEF Range
  <2>2. PICK j \in 1..i : m.listeners[e][j] = Bad
    BY <1>5, <2>1
  <2>3. j \in DOMAIN m.listeners[e]
    BY <1>0, <2>1, <2>2
  <2>. QED
    BY <2>2, <2>3 DEF Throws, Range
<1>6. n \in Managers /\ SameFlags(m, n) /\ n.heard = h /\ n.promise = f
  BY <1>0, <1>1, <1>2a, <1>4 DEF Managers, SameFlags
<1>7. HeardAsFlagged(n)
  BY <1>2a, <1>6 DEF HeardAsFlagged, ManagerOK, MayEmit, SameFlags
<1>8. Listening(n)
  <2>1. \A p \in Promises : n.promise[p] = "pending" => m.promise[p] = "pending"
    BY <1>4, <1>6
  <2>2. n.listeners = m.listeners
    BY <1>6 DEF SameFlags
  <2>. QED
    BY <2>1, <2>2 DEF Listening, ManagerOK, Throws
<1>9. Settled(n)
  <2> SUFFICES ASSUME NEW p \in Promises
               PROVE  /\ n.promise[p] = "resolved" => Done(n, p)
                      /\ n.promise[p] = "rejected" => n.hasTimedout
    BY DEF Settled
  <2>0. Done(n, p) = Done(m, p) /\ n.hasTimedout = m.hasTimedout
    BY <1>6 DEF Done, SameFlags
  <2>1. CASE n.promise[p] = m.promise[p]
    BY <2>0, <2>1 DEF ManagerOK, Settled
  <2>2. CASE p \in Range(m.listeners[e]) /\ n.promise[p] = outcome
    <3>1. CASE e = SdkTimedOut
      BY <2>0, <2>2, <3>1 DEF MayEmit
    <3>2. CASE e # SdkTimedOut
      <4>1. e = Awaited(p)
        BY <2>2, <3>2 DEF ManagerOK, Listening
      <4>2. Done(m, p)
        BY <4>1 DEF Awaited, Done, MayEmit, SdkFromCache, SdkReady
      <4>. QED
        BY <2>0, <2>2, <3>2, <4>2
    <3>. QED
      BY <3>1, <3>2
  <2>. QED
    BY <1>4, <1>6, <2>1, <2>2
<1>10. n.isReady => n.isReadyFromCache /\ n.segmentsArrived
  BY <1>6 DEF SameFlags, ManagerOK
<1>11. ManagerOK(n)
  BY <1>3, <1>6, <1>7, <1>8, <1>9, <1>10 DEF ManagerOK
<1>12. \A p \in Promises :
         n.promise[p] = "pending" =>
           m.promise[p] = "pending" /\ (p \notin Range(m.listeners[e]) \/ Throws(m, e))
  BY <1>4, <1>5, <1>6
<1>. QED
  BY <1>2a, <1>6, <1>11, <1>12 DEF Emitted

-----------------------------------------------------------------------------
(* The functions of the readiness manager                                   *)

SameRecord(m, n) ==
  n.heard = m.heard /\ n.promise = m.promise /\ n.listeners = m.listeners

\* A flag that is raised does no harm by itself.
LEMMA RaisedFacts ==
  ASSUME NEW m, ManagerOK(m), NEW n \in Managers, SameRecord(m, n),
         m.isReady => n.isReady, m.isReadyFromCache => n.isReadyFromCache,
         m.hasTimedout => n.hasTimedout,
         n.isReady => n.isReadyFromCache /\ n.segmentsArrived
  PROVE  ManagerOK(n)
<1>1. Ordered(n.heard) /\ HeardAsFlagged(n)
  BY DEF ManagerOK, SameRecord, HeardAsFlagged
<1>2. Listening(n)
  BY DEF ManagerOK, SameRecord, Listening, Throws
<1>3. Settled(n)
  BY DEF ManagerOK, SameRecord, Settled, Done
<1>. QED
  BY <1>1, <1>2, <1>3 DEF ManagerOK

LEMMA WaitsStill ==
  ASSUME NEW m, NEW n, n.listeners = m.listeners, n.isReady = m.isReady,
         n.isReadyFromCache = m.isReadyFromCache, n.hasTimedout = m.hasTimedout,
         \A p \in Promises : n.promise[p] = "pending" => m.promise[p] = "pending", Waits(m)
  PROVE  Waits(n)
  BY DEF Waits, Done, Troubled, Throws

\* Promises that wait for an event are settled by it, unless a listener throws.
LEMMA Untroubled ==
  ASSUME NEW m, ManagerOK(m), ~Troubled(m), NEW e \in Events
  PROVE  ~Throws(m, e)
  BY DEF ManagerOK, Listening, Troubled

LEMMA TimeoutFacts ==
  ASSUME NEW m, ManagerOK(m), NEW n, n = Timeout(m)
  PROVE  /\ ManagerOK(n)
         /\ n.isReady = m.isReady /\ n.isReadyFromCache = m.isReadyFromCache
         /\ n.segmentsArrived = m.segmentsArrived /\ n.isDestroyed = m.isDestroyed
         /\ Waits(m) => Waits(n)
<1>1. CASE m.hasTimedout \/ m.isReady
  BY <1>1 DEF Timeout
<1>2. CASE ~m.hasTimedout /\ ~m.isReady
  <2>. PICK k : k = [m EXCEPT !.hasTimedout = TRUE]
    OBVIOUS
  <2>1. /\ k \in Managers /\ SameRecord(m, k) /\ k.hasTimedout
        /\ k.isReady = m.isReady /\ k.isReadyFromCache = m.isReadyFromCache
        /\ k.segmentsArrived = m.segmentsArrived /\ k.isDestroyed = m.isDestroyed
    BY DEF ManagerOK, Managers, SameRecord
  <2>2. ManagerOK(k)
    BY <1>2, <2>1, RaisedFacts DEF ManagerOK
  <2>3. MayEmit(k, SdkTimedOut) /\ SdkTimedOut \in Events
    BY <1>2, <2>1 DEF MayEmit, ManagerOK, HeardAsFlagged, SameRecord, Events, SdkTimedOut,
                      SdkReady, SdkUpdate, SdkFromCache
  <2>4. Emitted(k, SdkTimedOut, Emit(k, SdkTimedOut))
    BY <2>2, <2>3, EmitFacts
  <2>5. n = Emit(k, SdkTimedOut)
    BY <1>2 DEF Timeout
  <2>6. ~Throws(k, SdkTimedOut)
    BY <2>2, <2>3, ReadinessAssumption DEF ManagerOK, Listening
  <2>7. \A p \in Promises : n.promise[p] # "pending"
    BY <2>2, <2>4, <2>5, <2>6 DEF Emitted, ManagerOK, Listening
  <2>. QED
    BY <2>1, <2>4, <2>5, <2>7 DEF Emitted, SameFlags, Waits
<1>. QED
  BY <1>1, <1>2

LEMMA CacheFacts ==
  ASSUME NEW m, ManagerOK(m), ~m.isReady, ~m.isReadyFromCache,
         NEW n, n = CheckIsReadyFromCache(m)
  PROVE  /\ ManagerOK(n)
         /\ n.isReady = m.isReady /\ n.hasTimedout = m.hasTimedout
         /\ n.segmentsArrived = m.segmentsArrived /\ n.isDestroyed = m.isDestroyed
         /\ n.armed = m.armed /\ n.leaked = m.leaked
         /\ ~m.isDestroyed /\ Waits(m) => Waits(n)
<1>. PICK k : k = [m EXCEPT !.isReadyFromCache = TRUE]
  OBVIOUS
<1>1. /\ k \in Managers /\ SameRecord(m, k) /\ k.isReadyFromCache
      /\ k.isReady = m.isReady /\ k.hasTimedout = m.hasTimedout
      /\ k.segmentsArrived = m.segmentsArrived /\ k.isDestroyed = m.isDestroyed
      /\ k.armed = m.armed /\ k.leaked = m.leaked
  BY DEF ManagerOK, Managers, SameRecord
<1>2. ManagerOK(k)
  BY <1>1, RaisedFacts DEF ManagerOK
<1>3. CASE m.isDestroyed
  BY <1>1, <1>2, <1>3 DEF CheckIsReadyFromCache
<1>4. CASE ~m.isDestroyed
  <2>1. MayEmit(k, SdkFromCache) /\ SdkFromCache \in Events
    BY <1>1 DEF MayEmit, ManagerOK, HeardAsFlagged, SameRecord, Events, SdkTimedOut,
                SdkReady, SdkUpdate, SdkFromCache
  <2>2. Emitted(k, SdkFromCache, Emit(k, SdkFromCache))
    BY <1>2, <2>1, EmitFacts
  <2>3. n = Emit(k, SdkFromCache)
    BY <1>4 DEF CheckIsReadyFromCache
  <2>4. ASSUME Waits(m) PROVE Waits(n)
    <3>1. CASE Troubled(m)
      BY <1>1, <2>2, <2>3, <3>1 DEF Emitted, SameFlags, SameRecord, Waits, Troubled, Throws
    <3>2. CASE ~Troubled(m)
      <4>1. ~Throws(k, SdkFromCache)
        BY <1>1, <2>1, <3>2, Untroubled DEF Throws, SameRecord
      <4>2. ASSUME NEW p \in Promises, n.promise[p] = "pending"
            PROVE  ~Done(n, p) /\ ~n.hasTimedout
        <5>1. m.promise[p] = "pending" /\ p \notin Range(m.listeners[SdkFromCache])
          BY <1>1, <2>2, <2>3, <4>1, <4>2 DEF Emitted, SameRecord
        <5>2. p # "whenReadyFromCache" /\ ~m.hasTimedout
          BY <2>4, <3>2, <5>1 DEF ManagerOK, Listening, Awaited, Waits
        <5>. QED
          BY <1>1, <2>2, <2>3, <5>2 DEF Emitted, SameFlags, Done
      <4>. QED
        BY <4>2 DEF Waits
    <3>. QED
      BY <3>1, <3>2
  <2>. QED
    BY <1>1, <2>2, <2>3, <2>4 DEF Emitted, SameFlags
<1>. QED
  BY <1>3, <1>4

LEMMA BecomeFacts ==
  ASSUME NEW m, ManagerOK(m), ~m.isReady, m.segmentsArrived, NEW n, n = BecomeReady(m)
  PROVE  /\ ManagerOK(n)
         /\ n.isReady /\ n.hasTimedout = m.hasTimedout
         /\ n.segmentsArrived = m.segmentsArrived /\ n.isDestroyed = m.isDestroyed
         /\ ~n.armed /\ n.leaked = m.leaked
         /\ Waits(m) => Waits(n)
<1>. PICK k : k = [m EXCEPT !.armed = FALSE, !.isReady = TRUE, !.isReadyFromCache = TRUE]
  OBVIOUS
<1>. PICK f : f = IF m.isReadyFromCache THEN k ELSE Emit(k, SdkFromCache)
  OBVIOUS
<1>0. /\ SdkFromCache \in Events /\ SdkReady \in Events
      /\ SdkFromCache # SdkReady /\ SdkFromCache # SdkUpdate /\ SdkFromCache # SdkTimedOut
      /\ SdkReady # SdkUpdate /\ SdkReady # SdkTimedOut
  BY DEF Events, SdkTimedOut, SdkReady, SdkUpdate, SdkFromCache
<1>1. /\ k \in Managers /\ SameRecord(m, k) /\ k.isReadyFromCache /\ k.isReady
      /\ k.hasTimedout = m.hasTimedout
      /\ k.segmentsArrived = m.segmentsArrived /\ k.isDestroyed = m.isDestroyed
      /\ ~k.armed /\ k.leaked = m.leaked
  BY DEF ManagerOK, Managers, SameRecord
<1>2. ManagerOK(k)
  BY <1>1, RaisedFacts DEF ManagerOK
<1>3. SdkReady \notin Range(m.heard) /\ SdkUpdate \notin Range(m.heard)
      /\ (~m.isReadyFromCache => SdkFromCache \notin Range(m.heard))
  BY DEF ManagerOK, HeardAsFlagged
<1>4. /\ ManagerOK(f) /\ SameFlags(k, f)
      /\ SdkReady \notin Range(f.heard) /\ SdkUpdate \notin Range(f.heard)
      /\ \A p \in Promises : f.promise[p] = "pending" => m.promise[p] = "pending"
      /\ ~m.isReadyFromCache /\ ~Throws(m, SdkFromCache) =>
           \A p \in Promises : f.promise[p] = "pending" => p \notin Range(m.listeners[SdkFromCache])
  <2>1. CASE m.isReadyFromCache
    BY <1>1, <1>2, <1>3, <2>1 DEF SameFlags, SameRecord
  <2>2. CASE ~m.isReadyFromCache
    <3>1. MayEmit(k, SdkFromCache)
      BY <1>0, <1>1, <1>3, <2>2 DEF MayEmit, SameRecord
    <3>2. Emitted(k, SdkFromCache, f)
      BY <1>0, <1>2, <2>2, <3>1, EmitFacts
    <3>. QED
      BY <1>0, <1>1, <1>3, <3>2 DEF Emitted, SameRecord, Throws
  <2>. QED
    BY <2>1, <2>2
<1>5. f.listeners = m.listeners /\ n = IF ~m.isReadyFromCache /\ Throws(m, SdkFromCache)
                                       THEN f ELSE Emit(f, SdkReady)
  BY <1>1, <1>4 DEF BecomeReady, SameFlags, SameRecord
<1>6. CASE ~m.isReadyFromCache /\ Throws(m, SdkFromCache)
  <2>1. n = f
    BY <1>5, <1>6
  <2>2. SdkFromCache \in Throwing
    BY <1>0, <1>6 DEF ManagerOK, Listening
  <2>3. Waits(n)
    BY <1>5, <1>6, <2>1, <2>2 DEF Waits, Troubled, Throws
  <2>. QED
    BY <1>1, <1>4, <2>1, <2>3 DEF SameFlags
<1>7. CASE ~(~m.isReadyFromCache /\ Throws(m, SdkFromCache))
  <2>1. n = Emit(f, SdkReady)
    BY <1>5, <1>7
  <2>2. MayEmit(f, SdkReady)
    BY <1>0, <1>1, <1>4 DEF MayEmit, SameFlags
  <2>3. Emitted(f, SdkReady, n)
    BY <1>0, <1>4, <2>1, <2>2, EmitFacts
  <2>4. ASSUME Waits(m) PROVE Waits(n)
    <3>1. CASE Troubled(m)
      BY <1>5, <2>3, <3>1 DEF Emitted, SameFlags, Waits, Troubled, Throws
    <3>2. CASE ~Troubled(m)
      <4>1. ~Throws(m, SdkFromCache) /\ ~Throws(m, SdkReady)
        BY <1>0, <3>2, Untroubled
      <4>2. ASSUME NEW p \in Promises, n.promise[p] = "pending"
            PROVE  FALSE
        <5>1. f.promise[p] = "pending" /\ p \notin Range(m.listeners[SdkReady])
          BY <1>5, <2>3, <4>1, <4>2 DEF Emitted, Throws
        <5>2. m.promise[p] = "pending" /\ p \in Range(m.listeners[Awaited(p)])
          BY <1>4, <5>1 DEF ManagerOK, Listening
        <5>3. p = "whenReadyFromCache" /\ p \in Range(m.listeners[SdkFromCache])
          BY <5>1, <5>2 DEF Awaited
        <5>4. m.isReadyFromCache
          BY <1>4, <4>1, <5>1, <5>3
        <5>. QED
          BY <2>4, <3>2, <5>2, <5>3, <5>4 DEF Waits, Done
      <4>. QED
        BY <4>2 DEF Waits
    <3>. QED
      BY <3>1, <3>2
  <2>. QED
    BY <1>1, <1>4, <2>3, <2>4 DEF Emitted, SameFlags
<1>. QED
  BY <1>6, <1>7

\* What the arrival of definitions or memberships makes of a client.
Checked(d, m, n) ==
  /\ ManagerOK(n)
  /\ n.isDestroyed = m.isDestroyed /\ n.segmentsArrived = m.segmentsArrived
  /\ n.hasTimedout = m.hasTimedout /\ n.leaked = m.leaked /\ (n.armed => m.armed)
  /\ m.isReady => n.isReady
  /\ n.isReady => m.isReady \/ d.arrived
  /\ d.arrived /\ m.segmentsArrived /\ ~m.isDestroyed => n.isReady
  /\ Waits(m) => Waits(n)

LEMMA CheckFacts ==
  ASSUME NEW m, ManagerOK(m), NEW d \in Definitions
  PROVE  Checked(d, m, CheckIsReadyOrUpdate(d, m))
<1>. PICK n : n = CheckIsReadyOrUpdate(d, m)
  OBVIOUS
<1>1. CASE m.isDestroyed
  BY <1>1 DEF CheckIsReadyOrUpdate, Checked
<1>2. CASE ~m.isDestroyed /\ m.isReady
  <2>1. MayEmit(m, SdkUpdate) /\ SdkUpdate \in Events
    BY <1>2 DEF MayEmit, Events, SdkTimedOut, SdkReady, SdkUpdate, SdkFromCache
  <2>2. n = Emit(m, SdkUpdate)
    BY <1>2 DEF CheckIsReadyOrUpdate
  <2>3. Emitted(m, SdkUpdate, n)
    BY <2>1, <2>2, EmitFacts
  <2>4. Waits(m) => Waits(n)
    BY <2>3, WaitsStill DEF Emitted, SameFlags
  <2>. QED
    BY <1>2, <2>3, <2>4 DEF Emitted, SameFlags, Checked
<1>3. CASE ~m.isDestroyed /\ ~m.isReady /\ d.arrived /\ m.segmentsArrived
  <2>1. n = BecomeReady(m)
    BY <1>3 DEF CheckIsReadyOrUpdate
  <2>. QED
    BY <1>3, <2>1, BecomeFacts DEF Checked
<1>4. CASE ~m.isDestroyed /\ ~m.isReady /\ ~(d.arrived /\ m.segmentsArrived)
  BY <1>4 DEF CheckIsReadyOrUpdate, Checked
<1>. QED
  BY <1>1, <1>2, <1>3, <1>4

\* The flags, all but those of the timers, and what was heard.
SameButTimers(m, n) ==
  /\ SameRecord(m, n)
  /\ n.isReady = m.isReady /\ n.isReadyFromCache = m.isReadyFromCache
  /\ n.hasTimedout = m.hasTimedout /\ n.segmentsArrived = m.segmentsArrived

LEMMA TimersFacts ==
  ASSUME NEW m, ManagerOK(m), NEW n \in Managers, SameButTimers(m, n)
  PROVE  ManagerOK(n) /\ (Waits(m) => Waits(n))
<1>1. ManagerOK(n)
  BY RaisedFacts DEF SameButTimers, ManagerOK
<1>2. Waits(m) => Waits(n)
  BY WaitsStill DEF SameButTimers, SameRecord
<1>. QED
  BY <1>1, <1>2

LEMMA NewManagerFacts ==
  ASSUME NEW d \in Definitions, NEW n, n = NewManager(d)
  PROVE  /\ ManagerOK(n) /\ Waits(n)
         /\ ~n.isReady /\ ~n.segmentsArrived /\ ~n.hasTimedout /\ ~n.leaked /\ ~n.isDestroyed
         /\ n.isReadyFromCache = d.cacheLoaded /\ (n.armed => d.hasInit)
<1>0. /\ SdkFromCache \in Events /\ SdkReady \in Events /\ SdkTimedOut \in Events
      /\ SdkFromCache # SdkReady /\ SdkFromCache # SdkUpdate /\ SdkFromCache # SdkTimedOut
      /\ SdkReady # SdkUpdate /\ SdkReady # SdkTimedOut
  BY DEF Events, SdkTimedOut, SdkReady, SdkUpdate, SdkFromCache
<1>1. /\ n.heard = << >> /\ n.listeners = ReadyPromise
      /\ n.promise = [p \in Promises |-> IF p = "ready" THEN "pending" ELSE "none"]
      /\ n.isReadyFromCache = d.cacheLoaded /\ n.armed = (ReadyTimeout /\ d.hasInit)
      /\ ~n.isReady /\ ~n.segmentsArrived /\ ~n.hasTimedout /\ ~n.leaked /\ ~n.isDestroyed
  BY DEF NewManager
<1>2. n \in Managers
  <2>1. /\ "ready" \in Promises /\ << >> \in Seq(Events) /\ <<"ready">> \in Seq(Promises \cup {Bad})
        /\ << >> \in Seq(Promises \cup {Bad})
    BY DEF Promises
  <2>2. ReadyPromise \in [Events -> Seq(Promises \cup {Bad})]
    BY <2>1 DEF ReadyPromise
  <2>3. (ReadyTimeout /\ d.hasInit) \in BOOLEAN /\ d.cacheLoaded \in BOOLEAN
    BY DEF Definitions
  <2>. QED
    BY <2>1, <2>2, <2>3 DEF NewManager, Managers, Outcome
<1>3. Range(n.heard) = {} /\ DOMAIN n.heard = {}
  BY <1>1 DEF Range
<1>4. Ordered(n.heard) /\ HeardAsFlagged(n)
  BY <1>3 DEF Ordered, HeardAsFlagged, IsInjective, Before
<1>5. /\ \A e \in {SdkReady, SdkTimedOut} : Range(n.listeners[e]) = {"ready"}
      /\ \A e \in Events \ {SdkReady, SdkTimedOut} : Range(n.listeners[e]) = {}
  <2>1. DOMAIN <<"ready">> = {1} /\ Range(<<"ready">>) = {"ready"} /\ Range(<< >>) = {}
    BY DEF Range
  <2>. QED
    BY <1>0, <1>1, <2>1 DEF ReadyPromise
<1>6. Listening(n)
  <2>1. \A p \in Promises : n.promise[p] = "pending" => p = "ready"
    BY <1>1
  <2>2. Awaited("ready") = SdkReady
    BY DEF Awaited
  <2>3. \A e \in Events : \A p \in Range(n.listeners[e]) :
          p = "ready" /\ e \in {SdkReady, SdkTimedOut}
    BY <1>5
  <2>4. \A e \in Events : ~Throws(n, e)
    BY <2>3 DEF Throws, Bad
  <2>. QED
    BY <1>5, <2>1, <2>2, <2>3, <2>4 DEF Listening
<1>7. Settled(n) /\ Waits(n)
  BY <1>1 DEF Settled, Waits, Done
<1>. QED
  BY <1>1, <1>2, <1>4, <1>6, <1>7 DEF ManagerOK

Listener == Promises \cup {Bad}

LEMMA ListenersGrow ==
  ASSUME NEW a \in Seq(Promises \cup {Bad}), NEW p \in Promises \cup {Bad}
  PROVE  \A q : q \in Range(Append(a, p)) <=> q \in Range(a) \/ q = p
<1>1. a \in Seq(Listener) /\ p \in Listener
  BY DEF Listener
<1>2. Extended(a, p, Append(a, p))
  BY <1>1, AppendRange
<1>. QED
  BY <1>2 DEF Extended

LEMMA WhenFacts ==
  ASSUME NEW m, ManagerOK(m), NEW p \in {"whenReady", "whenReadyFromCache"},
         NEW n, n = WhenCalled(m, p)
  PROVE  /\ ManagerOK(n)
         /\ n.isReady = m.isReady /\ n.isReadyFromCache = m.isReadyFromCache
         /\ n.hasTimedout = m.hasTimedout /\ n.segmentsArrived = m.segmentsArrived
         /\ n.isDestroyed = m.isDestroyed /\ n.armed = m.armed /\ n.leaked = m.leaked
         /\ Waits(m) => Waits(n)
<1>. PICK isDone : isDone = Done(m, p)
  OBVIOUS
<1>. PICK e : e = Awaited(p)
  OBVIOUS
<1>0. /\ e \in Events /\ SdkTimedOut \in Events /\ e # SdkTimedOut /\ p \in Promises
      /\ isDone = IF p = "whenReady" THEN m.isReady ELSE m.isReadyFromCache
      /\ e = IF p = "whenReady" THEN SdkReady ELSE SdkFromCache
      /\ m \in Managers /\ isDone \in BOOLEAN /\ m.hasTimedout \in BOOLEAN
  BY DEF Awaited, Done, Events, SdkReady, SdkTimedOut, SdkFromCache, Promises, ManagerOK, Managers
<1>1. ASSUME NEW outcome \in {"resolved", "rejected"}, n = [m EXCEPT !.promise[p] = outcome],
             outcome = "resolved" => isDone, outcome = "rejected" => m.hasTimedout
      PROVE  /\ ManagerOK(n)
             /\ n.isReady = m.isReady /\ n.isReadyFromCache = m.isReadyFromCache
             /\ n.hasTimedout = m.hasTimedout /\ n.segmentsArrived = m.segmentsArrived
             /\ n.isDestroyed = m.isDestroyed /\ n.armed = m.armed /\ n.leaked = m.leaked
             /\ Waits(m) => Waits(n)
  <2>. PICK f : f = [m.promise EXCEPT ![p] = outcome]
    OBVIOUS
  <2>0. f \in [Promises -> Outcome]
    BY <1>0 DEF Managers, Outcome
  <2>0a. n = [m EXCEPT !.promise = f]
    BY <1>0, <1>1 DEF Managers
  <2>1. /\ n \in Managers /\ n.heard = m.heard /\ n.listeners = m.listeners
        /\ n.promise = [m.promise EXCEPT ![p] = outcome]
        /\ n.isReady = m.isReady /\ n.isReadyFromCache = m.isReadyFromCache
        /\ n.hasTimedout = m.hasTimedout /\ n.segmentsArrived = m.segmentsArrived
        /\ n.isDestroyed = m.isDestroyed /\ n.armed = m.armed /\ n.leaked = m.leaked
    BY <1>0, <2>0, <2>0a DEF Managers
  <2>2. \A q \in Promises : n.promise[q] = IF q = p THEN outcome ELSE m.promise[q]
    BY <1>0, <2>1 DEF Managers
  <2>3. Listening(n)
    BY <1>1, <2>1, <2>2 DEF ManagerOK, Listening, Throws
  <2>4. Settled(n)
    BY <1>0, <1>1, <2>1, <2>2 DEF ManagerOK, Settled, Done
  <2>5. Waits(m) => Waits(n)
    <3>1. \A q \in Promises : n.promise[q] = "pending" => m.promise[q] = "pending"
      BY <1>1, <2>2
    <3>. QED
      BY <2>1, <3>1, WaitsStill
  <2>6. ManagerOK(n)
    BY <2>1, <2>3, <2>4 DEF ManagerOK, HeardAsFlagged
  <2>. QED
    BY <2>1, <2>5, <2>6
<1>2. CASE isDone
  <2>1. n = [m EXCEPT !.promise[p] = "resolved"]
    BY <1>0, <1>2 DEF WhenCalled
  <2>. QED
    BY <1>1, <1>2, <2>1
<1>3. CASE ~isDone /\ m.hasTimedout
  <2>1. n = [m EXCEPT !.promise[p] = "rejected"]
    BY <1>0, <1>3 DEF WhenCalled
  <2>. QED
    BY <1>1, <1>3, <2>1
<1>4. CASE ~isDone /\ ~m.hasTimedout
  <2>. PICK l : l = [m.listeners EXCEPT ![e] = Append(@, p), ![SdkTimedOut] = Append(@, p)]
    OBVIOUS
  <2>. PICK f : f = [m.promise EXCEPT ![p] = "pending"]
    OBVIOUS
  <2>1. n = [m EXCEPT !.promise[p] = "pending",
                      !.listeners[e] = Append(@, p), !.listeners[SdkTimedOut] = Append(@, p)]
    BY <1>0, <1>4 DEF WhenCalled
  <2>2. n = [m EXCEPT !.promise = f, !.listeners = l]
    BY <1>0, <2>1 DEF Managers
  <2>3. /\ m.listeners \in [Events -> Seq(Promises \cup {Bad})]
        /\ l \in [Events -> Seq(Promises \cup {Bad})]
        /\ \A x \in Events : l[x] = IF x \in {e, SdkTimedOut} THEN Append(m.listeners[x], p)
                                                               ELSE m.listeners[x]
    <3>. PICK a : a = Append(m.listeners[e], p)
      OBVIOUS
    <3>. PICK b : b = Append(m.listeners[SdkTimedOut], p)
      OBVIOUS
    <3>1. m.listeners \in [Events -> Seq(Promises \cup {Bad})]
      BY <1>0 DEF Managers
    <3>2. a \in Seq(Promises \cup {Bad}) /\ b \in Seq(Promises \cup {Bad})
      BY <1>0, <3>1
    <3>3. l = [m.listeners EXCEPT ![e] = a, ![SdkTimedOut] = b]
      BY <1>0, <3>1
    <3>. QED
      BY <1>0, <3>1, <3>2, <3>3
  <2>4. /\ n \in Managers /\ n.heard = m.heard /\ n.listeners = l
        /\ n.promise = [m.promise EXCEPT ![p] = "pending"]
        /\ n.isReady = m.isReady /\ n.isReadyFromCache = m.isReadyFromCache
        /\ n.hasTimedout = m.hasTimedout /\ n.segmentsArrived = m.segmentsArrived
        /\ n.isDestroyed = m.isDestroyed /\ n.armed = m.armed /\ n.leaked = m.leaked
    <3>1. f \in [Promises -> Outcome]
      BY <1>0 DEF Managers, Outcome
    <3>. QED
      BY <1>0, <2>2, <2>3, <3>1 DEF Managers
  <2>5. \A q \in Promises : n.promise[q] = IF q = p THEN "pending" ELSE m.promise[q]
    BY <1>0, <2>4 DEF Managers
  <2>6. ASSUME NEW x \in Events
        PROVE  \A q : q \in Range(n.listeners[x]) <=>
                        q \in Range(m.listeners[x]) \/ (x \in {e, SdkTimedOut} /\ q = p)
    <3>1. CASE x \in {e, SdkTimedOut}
      <4>1. \A q : q \in Range(Append(m.listeners[x], p)) <=> q \in Range(m.listeners[x]) \/ q = p
        BY <1>0, <2>3, ListenersGrow
      <4>2. n.listeners[x] = Append(m.listeners[x], p)
        BY <2>3, <2>4, <3>1
      <4>. QED
        BY <3>1, <4>1, <4>2
    <3>2. CASE x \notin {e, SdkTimedOut}
      BY <2>3, <2>4, <3>2
    <3>. QED
      BY <3>1, <3>2
  <2>7. Listening(n)
    <3>1. \A q \in Promises : n.promise[q] = "pending" =>
            q \in Range(n.listeners[Awaited(q)]) /\ q \in Range(n.listeners[SdkTimedOut])
      <4>1. ASSUME NEW q \in Promises PROVE Awaited(q) \in Events
        BY DEF Awaited, Events
      <4>. QED
        BY <1>0, <2>5, <2>6, <4>1 DEF ManagerOK, Listening
    <3>2. ASSUME NEW x \in Events \ {SdkTimedOut}, NEW q \in Promises, q \in Range(n.listeners[x])
          PROVE  x = Awaited(q)
      <4>1. q \in Range(m.listeners[x]) \/ (x = e /\ q = p)
        BY <2>6, <3>2
      <4>. QED
        BY <4>1 DEF ManagerOK, Listening
    <3>3. ASSUME NEW x \in Events, Throws(n, x) PROVE x \in Throwing
      <4>1. Throws(m, x)
        BY <1>0, <2>6, <3>3 DEF Throws, Promises, Bad
      <4>. QED
        BY <4>1 DEF ManagerOK, Listening
    <3>. QED
      BY <3>1, <3>2, <3>3 DEF Listening
  <2>8. Settled(n)
    BY <2>4, <2>5 DEF ManagerOK, Settled, Done
  <2>9. ManagerOK(n)
    BY <2>4, <2>7, <2>8 DEF ManagerOK, HeardAsFlagged
  <2>10. ASSUME Waits(m) PROVE Waits(n)
    <3>1. CASE Troubled(m)
      <4>1. PICK x \in Throwing : Throws(m, x)
        BY <3>1 DEF Troubled
      <4>2. x \in Events
        BY ReadinessAssumption
      <4>. QED
        BY <2>6, <4>1, <4>2 DEF Throws, Troubled, Waits
    <3>2. CASE ~Troubled(m)
      BY <1>0, <1>4, <2>4, <2>5, <2>10, <3>2 DEF Waits, Done
    <3>. QED
      BY <3>1, <3>2
  <2>. QED
    BY <2>4, <2>9, <2>10
<1>. QED
  BY <1>0, <1>2, <1>3, <1>4

LEMMA ListenFacts ==
  ASSUME NEW m, ManagerOK(m), NEW e \in Throwing,
         NEW n, n = [m EXCEPT !.listeners[e] = Append(@, Bad)]
  PROVE  /\ ManagerOK(n) /\ Waits(n)
         /\ n.isReady = m.isReady /\ n.isReadyFromCache = m.isReadyFromCache
         /\ n.hasTimedout = m.hasTimedout /\ n.segmentsArrived = m.segmentsArrived
         /\ n.isDestroyed = m.isDestroyed /\ n.armed = m.armed /\ n.leaked = m.leaked
<1>. PICK l : l = [m.listeners EXCEPT ![e] = Append(@, Bad)]
  OBVIOUS
<1>0. m \in Managers /\ e \in Events /\ e # SdkTimedOut
  BY ReadinessAssumption DEF ManagerOK
<1>1. /\ m.listeners \in [Events -> Seq(Promises \cup {Bad})]
      /\ l \in [Events -> Seq(Promises \cup {Bad})]
      /\ \A x \in Events : l[x] = IF x = e THEN Append(m.listeners[x], Bad) ELSE m.listeners[x]
  BY <1>0 DEF Managers
<1>2. n = [m EXCEPT !.listeners = l]
  BY <1>0 DEF Managers
<1>3. /\ n \in Managers /\ n.heard = m.heard /\ n.listeners = l /\ n.promise = m.promise
      /\ n.isReady = m.isReady /\ n.isReadyFromCache = m.isReadyFromCache
      /\ n.hasTimedout = m.hasTimedout /\ n.segmentsArrived = m.segmentsArrived
      /\ n.isDestroyed = m.isDestroyed /\ n.armed = m.armed /\ n.leaked = m.leaked
  BY <1>0, <1>1, <1>2 DEF Managers
<1>4. ASSUME NEW x \in Events
      PROVE  \A q : q \in Range(n.listeners[x]) <=>
                      q \in Range(m.listeners[x]) \/ (x = e /\ q = Bad)
  <2>1. CASE x = e
    <3>1. \A q : q \in Range(Append(m.listeners[x], Bad)) <=> q \in Range(m.listeners[x]) \/ q = Bad
      BY <1>1, ListenersGrow
    <3>2. n.listeners[x] = Append(m.listeners[x], Bad)
      BY <1>1, <1>3, <2>1
    <3>. QED
      BY <2>1, <3>1, <3>2
  <2>2. CASE x # e
    BY <1>1, <1>3, <2>2
  <2>. QED
    BY <2>1, <2>2
<1>5. Listening(n)
  <2>1. ASSUME NEW q \in Promises, n.promise[q] = "pending"
        PROVE  q \in Range(n.listeners[Awaited(q)]) /\ q \in Range(n.listeners[SdkTimedOut])
    <3>1. Awaited(q) \in Events /\ SdkTimedOut \in Events
      BY DEF Awaited, Events
    <3>2. q \in Range(m.listeners[Awaited(q)]) /\ q \in Range(m.listeners[SdkTimedOut])
      BY <1>3, <2>1 DEF ManagerOK, Listening
    <3>. QED
      BY <1>4, <3>1, <3>2
  <2>2. ASSUME NEW x \in Events \ {SdkTimedOut}, NEW q \in Promises, q \in Range(n.listeners[x])
        PROVE  x = Awaited(q)
    <3>1. q \in Range(m.listeners[x])
      BY <1>4, <2>2 DEF Promises, Bad
    <3>. QED
      BY <3>1 DEF ManagerOK, Listening
  <2>3. ASSUME NEW x \in Events, Throws(n, x) PROVE x \in Throwing
    <3>1. Throws(m, x) \/ x = e
      BY <1>4, <2>3 DEF Throws
    <3>. QED
      BY <3>1 DEF ManagerOK, Listening
  <2>. QED
    BY <2>1, <2>2, <2>3 DEF Listening
<1>6. Settled(n)
  BY <1>3 DEF ManagerOK, Settled, Done
<1>7. ManagerOK(n)
  BY <1>3, <1>5, <1>6 DEF ManagerOK, HeardAsFlagged
<1>8. Waits(n)
  <2>1. Bad \in Range(n.listeners[e])
    BY <1>0, <1>4
  <2>2. Throws(n, e)
    BY <2>1 DEF Throws
  <2>. QED
    BY <2>2 DEF Waits, Troubled
<1>. QED
  BY <1>3, <1>7, <1>8

-----------------------------------------------------------------------------
(* The steps of the SDK                                                     *)

\* A client that the step does not concern.
LEMMA ClientStays ==
  ASSUME NEW c, NEW m, ClientOK(c, m), UNCHANGED <<lives, cache>>, firstStart' => firstStart,
         definitions'.arrived = definitions.arrived, fetched \subseteq fetched'
  PROVE  ClientOK(c, m)'
  BY DEF ClientOK

LEMMA OneManager ==
  ASSUME IInv, NEW c \in created, NEW n, ClientOK(c, n)', manager' = [manager EXCEPT ![c] = n],
         UNCHANGED <<lives, cache, firstStart>>,
         definitions'.arrived = definitions.arrived, fetched \subseteq fetched'
  PROVE  /\ manager' \in [created -> Managers] /\ created' = created
         /\ \A x \in created : ClientOK(x, manager[x])'
<1>1. manager \in [created -> Managers] /\ n \in Managers
  BY DEF IInv, TypeOK, ClientOK, ManagerOK
<1>2. manager' \in [created -> Managers] /\ created' = created
      /\ \A x \in created : manager'[x] = IF x = c THEN n ELSE manager[x]
  BY <1>1 DEF created
<1>3. ASSUME NEW x \in created PROVE ClientOK(x, manager[x])'
  <2>1. CASE x = c
    <3>1. manager'[x] = n
      BY <1>2, <2>1
    <3>. QED
      BY <2>1, <3>1 DEF ClientOK
  <2>2. CASE x # c
    <3>. PICK m : m = manager[x]
      OBVIOUS
    <3>1. manager'[x] = m
      BY <1>2, <2>2
    <3>2. ClientOK(x, m)
      BY DEF IInv
    <3>3. ClientOK(x, m)'
      BY <3>2, ClientStays
    <3>. QED
      BY <3>1, <3>3 DEF ClientOK
  <2>. QED
    BY <2>1, <2>2
<1>. QED
  BY <1>2, <1>3

LEMMA AllManagers ==
  ASSUME IInv, NEW f, f = manager', DOMAIN f = created, f = [x \in created |-> f[x]],
         \A x \in created : ClientOK(x, f[x])'
  PROVE  /\ manager' \in [created -> Managers] /\ created' = created
         /\ \A x \in created : ClientOK(x, manager[x])'
<1>1. \A x \in created : f[x] \in Managers
  BY DEF ClientOK, ManagerOK
<1>2. f \in [created -> Managers] /\ created' = created
  BY <1>1 DEF created
<1>3. ASSUME NEW x \in created PROVE ClientOK(x, manager[x])'
  <2>1. ClientOK(x, f[x])' /\ manager'[x] = f[x]
    OBVIOUS
  <2>. QED
    BY <2>1 DEF ClientOK
<1>. QED
  BY <1>2, <1>3

\* A step whose managers are right, and that changes little else.
LEMMA StepKeeps ==
  ASSUME IInv, manager' \in [created -> Managers], created' = created,
         \A x \in created : ClientOK(x, manager[x])',
         UNCHANGED <<side, cache>>, lives' \in 0..MaxLives, firstStart' \in BOOLEAN,
         removed' \subseteq Clients \ {Main}, fetched' \subseteq Clients \cup {"definitions"},
         definitions' \in Definitions, requests' \subseteq created \cup {"definitions"},
         (definitions.arrived => "definitions" \in fetched \/ (Kills /\ cache # "none"))',
         StartOK'
  PROVE  IInv'
<1>1. TypeOK'
  BY DEF IInv, TypeOK
<1>. QED
  BY <1>1 DEF IInv

-----------------------------------------------------------------------------
LEMMA InitIInv == Init => IInv
<1> SUFFICES ASSUME Init PROVE IInv
  OBVIOUS
<1>. PICK fresh : fresh = [arrived |-> FALSE, cacheLoaded |-> FALSE, hasInit |-> FALSE]
  OBVIOUS
<1>. PICK m : m = NewManager(fresh)
  OBVIOUS
<1>. PICK n : n = IF cache = "preloaded" THEN CheckIsReadyFromCache(m) ELSE m
  OBVIOUS
<1>1. /\ definitions = [fresh EXCEPT !.cacheLoaded = (cache = "preloaded")]
      /\ manager = [c \in {Main} |-> n]
      /\ side \in Side /\ cache \in Cache /\ firstStart = TRUE /\ requests = {}
      /\ removed = {} /\ fetched = {} /\ lives = 0
  BY DEF Init
<1>2. fresh \in Definitions /\ ~fresh.cacheLoaded /\ ~fresh.hasInit
  BY DEF Definitions
<1>3. /\ ManagerOK(m) /\ Waits(m)
      /\ ~m.isReady /\ ~m.segmentsArrived /\ ~m.hasTimedout /\ ~m.leaked /\ ~m.isDestroyed
      /\ ~m.isReadyFromCache /\ ~m.armed
  BY <1>2, NewManagerFacts
<1>4. /\ ManagerOK(n) /\ Waits(n)
      /\ ~n.isReady /\ ~n.segmentsArrived /\ ~n.hasTimedout /\ ~n.leaked /\ ~n.armed
      /\ (cache # "preloaded" => ~n.isReadyFromCache)
  <2>1. CASE cache = "preloaded"
    <3>1. n = CheckIsReadyFromCache(m)
      BY <2>1
    <3>. QED
      BY <1>3, <2>1, <3>1, CacheFacts
  <2>2. CASE cache # "preloaded"
    BY <1>3, <2>2
  <2>. QED
    BY <2>1, <2>2
<1>5. /\ definitions \in Definitions /\ ~definitions.arrived /\ ~definitions.hasInit
      /\ (cache # "preloaded" => ~definitions.cacheLoaded)
  BY <1>1 DEF Definitions
<1>6. created = {Main} /\ manager[Main] = n /\ manager \in [created -> Managers]
  BY <1>1, <1>4 DEF created, ManagerOK
<1>7. ClientOK(Main, n)
  BY <1>1, <1>4, <1>5 DEF ClientOK
<1>8. TypeOK
  <2>1. 0 \in 0..MaxLives
    BY ClientsAssumption
  <2>. QED
    BY <1>1, <1>5, <1>6, <2>1, ClientsAssumption DEF TypeOK
<1>9. StartOK
  BY <1>1, <1>5 DEF StartOK
<1>. QED
  BY <1>1, <1>5, <1>6, <1>7, <1>8, <1>9 DEF IInv

LEMMA InitSdkKeeps == ASSUME IInv, InitSdk PROVE IInv'
<1>. PICK f : f = [c \in created |-> Init_(manager[c])]
  OBVIOUS
<1>0. TypeOK /\ MaxLives \in Nat
  BY ClientsAssumption DEF IInv
<1>1. /\ lives \in 0..MaxLives /\ lives < MaxLives /\ lives' = lives + 1
      /\ definitions' = [definitions EXCEPT !.hasInit = TRUE] /\ manager' = f
      /\ UNCHANGED <<side, cache, firstStart, requests, removed, fetched>>
  BY <1>0 DEF InitSdk, TypeOK
<1>2. lives' \in 0..MaxLives /\ lives' # 0 /\ (lives # 0 => lives' > 1)
  BY <1>0, <1>1
<1>3. /\ definitions' \in Definitions /\ definitions'.arrived = definitions.arrived
      /\ definitions'.cacheLoaded = definitions.cacheLoaded
  BY <1>0, <1>1 DEF TypeOK, Definitions
<1>4. ASSUME NEW c \in created PROVE ClientOK(c, f[c])'
  <2>. PICK m : m = manager[c]
    OBVIOUS
  <2>. PICK n : n = Init_(m)
    OBVIOUS
  <2>1. f[c] = n /\ ClientOK(c, m) /\ m \in Managers
    BY DEF IInv, ClientOK, ManagerOK
  <2>2. /\ n \in Managers /\ SameButTimers(m, n) /\ ~n.isDestroyed
    BY <2>1, ReadinessAssumption DEF Init_, Managers, SameButTimers, SameRecord
  <2>3. ManagerOK(n) /\ (Waits(m) => Waits(n))
    BY <2>1, <2>2, TimersFacts DEF ClientOK
  <2>4. lives = 0 => Waits(m) /\ ~definitions.arrived
    <3>1. lives = 0 => ~(lives > 1)
      OBVIOUS
    <3>. QED
      BY <2>1, <3>1 DEF ClientOK, IInv, StartOK
  <2>5. ClientOK(c, n)'
    BY <1>1, <1>2, <1>3, <2>1, <2>2, <2>3, <2>4 DEF ClientOK, SameButTimers
  <2>. QED
    BY <2>1, <2>5
<1>5. /\ manager' \in [created -> Managers] /\ created' = created
      /\ \A x \in created : ClientOK(x, manager[x])'
  BY <1>1, <1>4, AllManagers
<1>6. StartOK'
  BY <1>1, <1>2, <1>3 DEF IInv, StartOK
<1>7. IInv'
  BY <1>1, <1>2, <1>3, <1>5, <1>6, StepKeeps DEF IInv, TypeOK
<1>. QED
  BY <1>7

LEMMA CacheValidatedKeeps == ASSUME IInv, CacheValidated PROVE IInv'
<1>0. TypeOK /\ StartOK /\ definitions.hasInit /\ firstStart /\ lives # 0 /\ ~definitions.arrived
  BY DEF IInv, StartOK, CacheValidated
<1>1. firstStart' = FALSE /\ UNCHANGED <<side, cache, requests, removed, fetched, lives>>
  BY DEF CacheValidated
<1>2. CASE cache = "stored"
  <2>. PICK f : f = [c \in created |-> CheckIsReadyFromCache(manager[c])]
    OBVIOUS
  <2>1. definitions' = [definitions EXCEPT !.cacheLoaded = TRUE] /\ manager' = f
    BY <1>2 DEF CacheValidated
  <2>2. definitions' \in Definitions /\ definitions'.arrived = definitions.arrived
    BY <1>0, <2>1 DEF TypeOK, Definitions
  <2>3. ASSUME NEW c \in created PROVE ClientOK(c, f[c])'
    <3>. PICK m : m = manager[c]
      OBVIOUS
    <3>. PICK n : n = CheckIsReadyFromCache(m)
      OBVIOUS
    <3>1. f[c] = n /\ ClientOK(c, m)
      BY DEF IInv
    <3>2. ManagerOK(m) /\ ~m.isReady /\ ~m.isReadyFromCache
      BY <1>0, <1>2, <3>1 DEF ClientOK
    <3>3. /\ ManagerOK(n)
          /\ n.isReady = m.isReady /\ n.hasTimedout = m.hasTimedout
          /\ n.segmentsArrived = m.segmentsArrived /\ n.isDestroyed = m.isDestroyed
          /\ n.armed = m.armed /\ n.leaked = m.leaked
          /\ ~m.isDestroyed /\ Waits(m) => Waits(n)
      BY <3>2, CacheFacts
    <3>4. ClientOK(c, n)'
      BY <1>0, <1>1, <2>2, <3>1, <3>3 DEF ClientOK
    <3>. QED
      BY <3>1, <3>4
  <2>4. /\ manager' \in [created -> Managers] /\ created' = created
        /\ \A x \in created : ClientOK(x, manager[x])'
    BY <2>1, <2>3, AllManagers
  <2>5. StartOK'
    BY <1>0, <1>1 DEF StartOK
  <2>. QED
    BY <1>0, <1>1, <2>2, <2>4, <2>5, StepKeeps DEF IInv, TypeOK
<1>3. CASE cache # "stored"
  <2>1. UNCHANGED <<definitions, manager>>
    BY <1>3 DEF CacheValidated
  <2>2. created' = created /\ manager' \in [created -> Managers]
    BY <1>0, <2>1 DEF created, TypeOK
  <2>3. ASSUME NEW x \in created PROVE ClientOK(x, manager[x])'
    BY <1>0, <1>1, <2>1 DEF IInv, ClientOK
  <2>4. StartOK'
    BY <1>0, <1>1 DEF StartOK
  <2>. QED
    BY <1>0, <1>1, <2>1, <2>2, <2>3, <2>4, StepKeeps DEF IInv, TypeOK
<1>. QED
  BY <1>2, <1>3

LEMMA ShareKeeps == ASSUME IInv, NEW c \in Clients, Share(c) PROVE IInv'
<1>. PICK n : n = NewManager(definitions)
  OBVIOUS
<1>0. TypeOK /\ StartOK /\ c \notin created
  BY DEF IInv, Share
<1>1. /\ manager' = [x \in created \cup {c} |-> IF x = c THEN n ELSE manager[x]]
      /\ UNCHANGED <<side, definitions, cache, firstStart, requests, removed, fetched, lives>>
  BY DEF Share
<1>2. /\ ManagerOK(n) /\ Waits(n)
      /\ ~n.isReady /\ ~n.segmentsArrived /\ ~n.hasTimedout /\ ~n.leaked /\ ~n.isDestroyed
      /\ n.isReadyFromCache = definitions.cacheLoaded /\ (n.armed => definitions.hasInit)
  BY <1>0, NewManagerFacts DEF TypeOK
<1>3. ClientOK(c, n)
  BY <1>0, <1>2 DEF ClientOK, StartOK
<1>4. created' = created \cup {c} /\ manager' \in [created \cup {c} -> Managers]
  <2>1. \A x \in created : manager[x] \in Managers
    BY <1>0 DEF TypeOK
  <2>2. n \in Managers
    BY <1>2 DEF ManagerOK
  <2>. QED
    BY <1>1, <2>1, <2>2 DEF created
<1>5. ASSUME NEW x \in created \cup {c} PROVE ClientOK(x, manager[x])'
  <2>. PICK m : m = IF x = c THEN n ELSE manager[x]
    OBVIOUS
  <2>1. manager'[x] = m
    BY <1>1
  <2>2. ClientOK(x, m)
    BY <1>3 DEF IInv
  <2>3. ClientOK(x, m)'
    BY <1>1, <2>2, ClientStays
  <2>. QED
    BY <2>1, <2>3 DEF ClientOK
<1>6. TypeOK'
  BY <1>0, <1>1, <1>4 DEF TypeOK
<1>7. StartOK'
  BY <1>0, <1>1 DEF StartOK
<1>. QED
  BY <1>1, <1>4, <1>5, <1>6, <1>7 DEF IInv

LEMMA DestroyClientKeeps == ASSUME IInv, NEW c \in Clients, DestroyClient(c) PROVE IInv'
<1>. PICK m : m = manager[c]
  OBVIOUS
<1>. PICK n : n = Destroy(m)
  OBVIOUS
<1>0. TypeOK /\ StartOK /\ c \in created /\ ClientOK(c, m)
  BY DEF IInv, DestroyClient
<1>1. manager' = [manager EXCEPT ![c] = n]
      /\ UNCHANGED <<side, cache, firstStart, requests, fetched, lives>>
  BY <1>0 DEF DestroyClient, created
<1>2. /\ definitions' \in Definitions /\ definitions'.arrived = definitions.arrived
      /\ definitions'.cacheLoaded = definitions.cacheLoaded
      /\ (definitions'.hasInit => definitions.hasInit)
      /\ removed' \subseteq Clients \ {Main}
  <2>1. CASE c = Main
    <3>1. definitions' = [definitions EXCEPT !.hasInit = FALSE] /\ removed' = removed
      BY <2>1 DEF DestroyClient
    <3>. QED
      BY <1>0, <3>1 DEF TypeOK, Definitions
  <2>2. CASE c # Main
    BY <1>0, <2>2 DEF TypeOK, DestroyClient
  <2>. QED
    BY <2>1, <2>2
<1>3. /\ n \in Managers /\ SameButTimers(m, n) /\ n.isDestroyed /\ ~n.armed /\ n.leaked = m.leaked
  BY <1>0 DEF Destroy, ClientOK, ManagerOK, Managers, SameButTimers, SameRecord
<1>4. ManagerOK(n) /\ (Waits(m) => Waits(n))
  BY <1>0, <1>3, TimersFacts DEF ClientOK
<1>5. ClientOK(c, n)'
  BY <1>0, <1>1, <1>2, <1>3, <1>4 DEF ClientOK, SameButTimers
<1>6. /\ manager' \in [created -> Managers] /\ created' = created
      /\ \A x \in created : ClientOK(x, manager[x])'
  BY <1>0, <1>1, <1>2, <1>5, OneManager
<1>7. StartOK'
  BY <1>0, <1>1, <1>2 DEF StartOK
<1>. QED
  BY <1>0, <1>1, <1>2, <1>6, <1>7, StepKeeps DEF IInv, TypeOK

\* What is fetched has been asked for after the start, for a client that was created.
LEMMA AnsweredFacts ==
  ASSUME IInv, NEW x, Answered(x)
  PROVE  /\ ~firstStart /\ lives # 0 /\ x \in created \cup {"definitions"}
         /\ requests' \subseteq created \cup {"definitions"}
         /\ UNCHANGED <<side, cache, firstStart, removed, lives>>
  BY DEF IInv, StartOK, Answered

\* A step that leaves the managers alone.
LEMMA NoManager ==
  ASSUME IInv, UNCHANGED <<manager, definitions, lives, cache, firstStart>>, fetched \subseteq fetched'
  PROVE  /\ manager' \in [created -> Managers] /\ created' = created
         /\ \A x \in created : ClientOK(x, manager[x])'
<1>1. manager' \in [created -> Managers] /\ created' = created
  BY DEF IInv, TypeOK, created
<1>2. ASSUME NEW x \in created PROVE ClientOK(x, manager[x])'
  BY DEF IInv, ClientOK
<1>. QED
  BY <1>1, <1>2

LEMMA FetchKeeps ==
  ASSUME IInv, NEW x \in Clients \cup {"definitions"}, Fetch(x) \/ FetchFails(x)
  PROVE  IInv'
<1>1. /\ UNCHANGED <<side, definitions, manager, cache, firstStart, removed, fetched, lives>>
      /\ requests' \subseteq created \cup {"definitions"} /\ ~firstStart
  <2>1. CASE Fetch(x)
    BY <2>1 DEF Fetch, IInv
  <2>2. CASE FetchFails(x)
    BY <2>2, AnsweredFacts DEF FetchFails
  <2>. QED
    BY <2>1, <2>2
<1>2. /\ manager' \in [created -> Managers] /\ created' = created
      /\ \A c \in created : ClientOK(c, manager[c])'
  BY <1>1, NoManager
<1>3. StartOK'
  BY <1>1 DEF IInv, StartOK
<1>. QED
  BY <1>1, <1>2, <1>3, StepKeeps DEF IInv, TypeOK

\* Definitions that arrive, after the start.
LEMMA ArrivalFacts ==
  ASSUME IInv, EmitDefinitionsArrived(FALSE), ~firstStart, lives # 0,
         UNCHANGED <<lives, cache, firstStart>>, fetched \subseteq fetched'
  PROVE  /\ manager' \in [created -> Managers] /\ created' = created
         /\ \A x \in created : ClientOK(x, manager[x])'
         /\ definitions' \in Definitions /\ definitions'.arrived
         /\ definitions'.hasInit = definitions.hasInit
<1>. PICK d : d = [definitions EXCEPT !.arrived = @ \/ ~FALSE]
  OBVIOUS
<1>. PICK f : f = [c \in created |-> CheckIsReadyOrUpdate(d, manager[c])]
  OBVIOUS
<1>1. definitions' = d /\ manager' = f
  BY DEF EmitDefinitionsArrived
<1>2. d \in Definitions /\ d.arrived /\ d.hasInit = definitions.hasInit
  BY DEF IInv, TypeOK, Definitions
<1>3. ASSUME NEW c \in created PROVE ClientOK(c, f[c])'
  <2>. PICK m : m = manager[c]
    OBVIOUS
  <2>. PICK n : n = CheckIsReadyOrUpdate(d, m)
    OBVIOUS
  <2>1. f[c] = n /\ ClientOK(c, m)
    BY DEF IInv
  <2>2. Checked(d, m, n)
    BY <1>2, <2>1, CheckFacts DEF ClientOK
  <2>3. ClientOK(c, n)'
    BY <1>1, <1>2, <2>1, <2>2 DEF ClientOK, Checked
  <2>. QED
    BY <2>1, <2>3
<1>4. /\ manager' \in [created -> Managers] /\ created' = created
      /\ \A x \in created : ClientOK(x, manager[x])'
  BY <1>1, <1>3, AllManagers
<1>. QED
  BY <1>1, <1>2, <1>4

LEMMA DefinitionsFetchedKeeps ==
  ASSUME IInv, NEW changed \in BOOLEAN, DefinitionsFetched(changed)
  PROVE  IInv'
<1>0. Answered("definitions") /\ fetched' = fetched \cup {"definitions"} /\ TypeOK
  BY DEF DefinitionsFetched, IInv
<1>1. /\ ~firstStart /\ lives # 0 /\ requests' \subseteq created \cup {"definitions"}
      /\ UNCHANGED <<side, cache, firstStart, removed, lives>>
  BY <1>0, AnsweredFacts
<1>2. /\ manager' \in [created -> Managers] /\ created' = created
      /\ \A x \in created : ClientOK(x, manager[x])'
      /\ definitions' \in Definitions
  <2>1. CASE ~definitions.arrived \/ changed
    <3>1. EmitDefinitionsArrived(FALSE)
      BY <2>1 DEF DefinitionsFetched
    <3>. QED
      BY <1>0, <1>1, <3>1, ArrivalFacts
  <2>2. CASE ~(~definitions.arrived \/ changed)
    <3>1. UNCHANGED <<definitions, manager>>
      BY <2>2 DEF DefinitionsFetched
    <3>. QED
      BY <1>0, <1>1, <3>1, NoManager DEF TypeOK
  <2>. QED
    BY <2>1, <2>2
<1>3. StartOK'
  BY <1>1 DEF StartOK
<1>. QED
  BY <1>0, <1>1, <1>2, <1>3, StepKeeps DEF TypeOK

LEMMA MembershipsFetchedKeeps ==
  ASSUME IInv, NEW c \in Clients, NEW changed \in BOOLEAN, MembershipsFetched(c, changed)
  PROVE  IInv'
<1>0. Answered(c) /\ fetched' = fetched \cup {c} /\ TypeOK
  BY DEF MembershipsFetched, IInv
<1>1. /\ ~firstStart /\ lives # 0 /\ requests' \subseteq created \cup {"definitions"}
      /\ UNCHANGED <<side, cache, firstStart, removed, lives>> /\ c \in created
  BY <1>0, AnsweredFacts, ClientsAssumption
<1>2. UNCHANGED definitions
  BY DEF MembershipsFetched, EmitSegmentsArrived
<1>3. /\ manager' \in [created -> Managers] /\ created' = created
      /\ \A x \in created : ClientOK(x, manager[x])'
  <2>1. CASE c \notin fetched \/ changed
    <3>. PICK m : m = manager[c]
      OBVIOUS
    <3>. PICK k : k = [m EXCEPT !.segmentsArrived = TRUE]
      OBVIOUS
    <3>. PICK n : n = CheckIsReadyOrUpdate(definitions, k)
      OBVIOUS
    <3>1. manager' = [manager EXCEPT ![c] = n]
      BY <1>1, <2>1 DEF MembershipsFetched, EmitSegmentsArrived, SegmentsArrived, created
    <3>2. ClientOK(c, m) /\ m \in Managers
      BY <1>1 DEF IInv, ClientOK, ManagerOK
    <3>3. /\ k \in Managers /\ SameRecord(m, k) /\ k.segmentsArrived
          /\ k.isReady = m.isReady /\ k.isReadyFromCache = m.isReadyFromCache
          /\ k.hasTimedout = m.hasTimedout /\ k.isDestroyed = m.isDestroyed
      BY <3>2 DEF Managers, SameRecord
    <3>4. ManagerOK(k)
      BY <3>2, <3>3, RaisedFacts DEF ClientOK, ManagerOK
    <3>5. Waits(m) => Waits(k)
      BY <3>3 DEF SameRecord, Waits, Done, Troubled, Throws
    <3>6. Checked(definitions, k, n)
      BY <1>0, <3>4, CheckFacts DEF TypeOK
    <3>7. ClientOK(c, n)'
      BY <1>0, <1>1, <1>2, <3>2, <3>3, <3>5, <3>6 DEF ClientOK, Checked
    <3>. QED
      BY <1>0, <1>1, <1>2, <3>1, <3>7, OneManager
  <2>2. CASE ~(c \notin fetched \/ changed)
    <3>1. UNCHANGED manager
      BY <2>2 DEF MembershipsFetched
    <3>. QED
      BY <1>0, <1>1, <1>2, <3>1, NoManager
  <2>. QED
    BY <2>1, <2>2
<1>4. StartOK'
  BY <1>1 DEF StartOK
<1>. QED
  BY <1>0, <1>1, <1>2, <1>3, <1>4, StepKeeps DEF IInv, TypeOK

LEMMA KillDefinitionKeeps == ASSUME IInv, KillDefinition PROVE IInv'
<1>0. /\ TypeOK /\ StartOK /\ ~firstStart /\ lives # 0 /\ EmitDefinitionsArrived(FALSE)
      /\ Kills /\ (cache # "none" \/ "definitions" \in fetched)
      /\ UNCHANGED <<side, cache, firstStart, requests, removed, fetched, lives>>
  BY DEF IInv, StartOK, KillDefinition
<1>1. /\ manager' \in [created -> Managers] /\ created' = created
      /\ \A x \in created : ClientOK(x, manager[x])'
      /\ definitions' \in Definitions
  BY <1>0, ArrivalFacts
<1>2. StartOK'
  BY <1>0 DEF StartOK
<1>. QED
  BY <1>0, <1>1, <1>2, StepKeeps DEF IInv, TypeOK

\* A step of one manager alone.
LEMMA ManagerStep ==
  ASSUME IInv, NEW c \in created, NEW n, ClientOK(c, n), manager' = [manager EXCEPT ![c] = n],
         UNCHANGED <<side, definitions, cache, firstStart, requests, removed, fetched, lives>>
  PROVE  IInv'
<1>1. ClientOK(c, n)'
  BY ClientStays
<1>2. /\ manager' \in [created -> Managers] /\ created' = created
      /\ \A x \in created : ClientOK(x, manager[x])'
  BY <1>1, OneManager
<1>3. StartOK'
  BY DEF IInv, StartOK
<1>. QED
  BY <1>2, <1>3, StepKeeps DEF IInv, TypeOK

LEMMA ForbiddenKeeps == ASSUME IInv, Forbidden PROVE IInv'
<1>. PICK m : m = manager[Main]
  OBVIOUS
<1>. PICK n : n = [m EXCEPT !.isDestroyed = TRUE]
  OBVIOUS
<1>0. Answered(Main) /\ UNCHANGED <<definitions, fetched>> /\ TypeOK
  BY DEF Forbidden, IInv
<1>1. /\ ~firstStart /\ lives # 0 /\ requests' \subseteq created \cup {"definitions"}
      /\ UNCHANGED <<side, cache, firstStart, removed, lives>> /\ Main \in created
  BY <1>0, AnsweredFacts, ClientsAssumption
<1>2. ClientOK(Main, m) /\ m \in Managers
  BY <1>1 DEF IInv, ClientOK, ManagerOK
<1>3. /\ n \in Managers /\ SameButTimers(m, n) /\ n.isDestroyed
  BY <1>2 DEF Managers, SameButTimers, SameRecord
<1>4. ManagerOK(n)
  BY <1>2, <1>3, TimersFacts DEF ClientOK
<1>5. ClientOK(Main, n)'
  BY <1>0, <1>1, <1>2, <1>3, <1>4 DEF ClientOK, SameButTimers
<1>6. manager' = [manager EXCEPT ![Main] = n]
  BY <1>0, <1>1 DEF Forbidden, TypeOK
<1>7. /\ manager' \in [created -> Managers] /\ created' = created
      /\ \A x \in created : ClientOK(x, manager[x])'
  BY <1>0, <1>1, <1>5, <1>6, OneManager
<1>8. StartOK'
  BY <1>1 DEF StartOK
<1>. QED
  BY <1>0, <1>1, <1>7, <1>8, StepKeeps DEF IInv, TypeOK

LEMMA TimersKeep ==
  ASSUME IInv, NEW c \in Clients, TimerFires(c) \/ LeakedTimerFires(c)
  PROVE  IInv'
<1>. PICK m : m = manager[c]
  OBVIOUS
<1>. PICK k : k = IF TimerFires(c) THEN [m EXCEPT !.armed = FALSE] ELSE [m EXCEPT !.leaked = FALSE]
  OBVIOUS
<1>. PICK n : n = Timeout(k)
  OBVIOUS
<1>0. /\ c \in created /\ (m.armed \/ m.leaked) /\ TypeOK
      /\ UNCHANGED <<side, definitions, cache, firstStart, requests, removed, fetched, lives>>
  BY DEF TimerFires, LeakedTimerFires, IInv
<1>1. manager' = [manager EXCEPT ![c] = n]
  <2>1. CASE TimerFires(c)
    BY <1>0, <2>1 DEF TimerFires, TypeOK
  <2>2. CASE ~TimerFires(c)
    BY <1>0, <2>2 DEF LeakedTimerFires, TypeOK
  <2>. QED
    BY <2>1, <2>2
<1>2. ClientOK(c, m) /\ m \in Managers /\ lives # 0
  BY <1>0 DEF IInv, ClientOK, ManagerOK
<1>3. k \in Managers /\ SameButTimers(m, k) /\ k.isDestroyed = m.isDestroyed
  BY <1>2 DEF Managers, SameButTimers, SameRecord
<1>4. ManagerOK(k) /\ (Waits(m) => Waits(k))
  BY <1>2, <1>3, TimersFacts DEF ClientOK
<1>5. /\ ManagerOK(n)
      /\ n.isReady = k.isReady /\ n.isReadyFromCache = k.isReadyFromCache
      /\ n.segmentsArrived = k.segmentsArrived /\ n.isDestroyed = k.isDestroyed
      /\ Waits(k) => Waits(n)
  BY <1>4, TimeoutFacts
<1>6. ClientOK(c, n)
  BY <1>2, <1>3, <1>4, <1>5 DEF ClientOK, SameButTimers
<1>. QED
  BY <1>0, <1>1, <1>6, ManagerStep

LEMMA ListenKeeps ==
  ASSUME IInv, NEW c \in Clients, NEW e \in Throwing, Listen(c, e)
  PROVE  IInv'
<1>. PICK m : m = manager[c]
  OBVIOUS
<1>. PICK n : n = [m EXCEPT !.listeners[e] = Append(@, Bad)]
  OBVIOUS
<1>0. /\ c \in created /\ TypeOK
      /\ UNCHANGED <<side, definitions, cache, firstStart, requests, removed, fetched, lives>>
  BY DEF Listen, IInv
<1>1. manager' = [manager EXCEPT ![c] = n]
  BY <1>0 DEF Listen, TypeOK
<1>2. ClientOK(c, m)
  BY <1>0 DEF IInv
<1>3. /\ ManagerOK(n) /\ Waits(n)
      /\ n.isReady = m.isReady /\ n.isReadyFromCache = m.isReadyFromCache
      /\ n.hasTimedout = m.hasTimedout /\ n.segmentsArrived = m.segmentsArrived
      /\ n.isDestroyed = m.isDestroyed /\ n.armed = m.armed /\ n.leaked = m.leaked
  BY <1>2, ListenFacts DEF ClientOK
<1>4. ClientOK(c, n)
  BY <1>2, <1>3 DEF ClientOK
<1>. QED
  BY <1>0, <1>1, <1>4, ManagerStep

LEMMA WhenKeeps ==
  ASSUME IInv, NEW c \in Clients, NEW p \in Promises, <<c, p>> \in Asked, When(c, p)
  PROVE  IInv'
<1>. PICK m : m = manager[c]
  OBVIOUS
<1>. PICK n : n = WhenCalled(m, p)
  OBVIOUS
<1>0. /\ c \in created /\ TypeOK /\ p \in {"whenReady", "whenReadyFromCache"}
      /\ UNCHANGED <<side, definitions, cache, firstStart, requests, removed, fetched, lives>>
  BY ClientsAssumption DEF When, Asked, IInv
<1>1. manager' = [manager EXCEPT ![c] = n]
  BY <1>0 DEF When, TypeOK
<1>2. ClientOK(c, m)
  BY <1>0 DEF IInv
<1>3. /\ ManagerOK(n)
      /\ n.isReady = m.isReady /\ n.isReadyFromCache = m.isReadyFromCache
      /\ n.hasTimedout = m.hasTimedout /\ n.segmentsArrived = m.segmentsArrived
      /\ n.isDestroyed = m.isDestroyed /\ n.armed = m.armed /\ n.leaked = m.leaked
      /\ Waits(m) => Waits(n)
  BY <1>0, <1>2, WhenFacts DEF ClientOK
<1>4. ClientOK(c, n)
  BY <1>2, <1>3 DEF ClientOK
<1>. QED
  BY <1>0, <1>1, <1>4, ManagerStep

LEMMA StutterKeeps == ASSUME IInv, UNCHANGED vars PROVE IInv'
<1>0. UNCHANGED <<side, definitions, manager, cache, firstStart, requests, removed, fetched, lives>>
  BY DEF vars
<1>1. /\ manager' \in [created -> Managers] /\ created' = created
      /\ \A x \in created : ClientOK(x, manager[x])'
  BY <1>0, NoManager
<1>2. StartOK'
  BY <1>0 DEF IInv, StartOK
<1>. QED
  BY <1>0, <1>1, <1>2, StepKeeps DEF IInv, TypeOK

LEMMA Invariance == Spec => []IInv
<1>1. ASSUME IInv, Next PROVE IInv'
  BY <1>1, InitSdkKeeps, CacheValidatedKeeps, FetchKeeps, DefinitionsFetchedKeeps,
     MembershipsFetchedKeeps, ForbiddenKeeps, KillDefinitionKeeps, ShareKeeps,
     DestroyClientKeeps, TimersKeep, ListenKeeps, WhenKeeps DEF Next
<1>2. IInv /\ [Next]_vars => IInv'
  BY <1>1, StutterKeeps
<1>. QED
  BY InitIInv, <1>2, PTL DEF Spec

-----------------------------------------------------------------------------
(* Whatever arrives, fails, times out or is destroyed, in any order, every  *)
(* client hears its events in the order the guards of the managers mean.    *)
THEOREM EventsCorrect == Spec => []EventsInOrder
<1>1. IInv => EventsInOrder
  BY DEF IInv, ClientOK, ManagerOK, Ordered, EventsInOrder, heard
<1>. QED
  BY Invariance, <1>1, PTL

(* No client is ready before its own memberships and the definitions were   *)
(* fetched, for any number of clients and lives, but for a SPLIT_KILL of a  *)
(* cached definition.                                                       *)
THEOREM ReadyCorrect == Spec => []ReadyIsSynced
<1>1. IInv => ReadyIsSynced
  BY DEF IInv, ClientOK, ManagerOK, ReadyIsSynced
<1>. QED
  BY Invariance, <1>1, PTL

(* No client alive misses what arrived, whichever client fetched it and     *)
(* whatever the listeners of the others do.                                 *)
THEOREM ArrivalsCorrect == Spec => []ReadyWhenArrived
<1>1. IInv => ReadyWhenArrived
  BY DEF IInv, ClientOK, ReadyWhenArrived
<1>. QED
  BY Invariance, <1>1, PTL

(* The promises of every client alive agree with its flags, however the     *)
(* calls that ask for them fall between arrivals, timeouts and throws.      *)
THEOREM PromisesCorrect == Spec => []PromisesKept
<1>1. IInv => PromisesKept
  <2> SUFFICES ASSUME IInv, NEW c \in created, NEW p \in Promises, NEW m, m = manager[c],
                      ~m.isDestroyed,
                      NEW outcome, outcome = IF p = "ready" THEN ReadyCalled(m) ELSE m.promise[p]
               PROVE  /\ outcome = "resolved" => Done(m, p)
                      /\ outcome = "rejected" => m.hasTimedout
                      /\ outcome = "pending" =>
                           \/ ~Done(m, p) /\ ~m.hasTimedout
                           \/ \E e \in Throwing : Throws(m, e)
                           \/ lives > 1
    BY DEF PromisesKept, Done
  <2>1. /\ m.promise[p] = "resolved" => Done(m, p)
        /\ m.promise[p] = "rejected" => m.hasTimedout
        /\ Waits(m) \/ lives > 1
    BY DEF IInv, ClientOK, ManagerOK, Settled
  <2>2. CASE p = "ready" /\ m.hasTimedout
    BY <2>2 DEF ReadyCalled, Done
  <2>3. CASE ~(p = "ready" /\ m.hasTimedout)
    <3>1. outcome = m.promise[p]
      BY <2>3 DEF ReadyCalled
    <3>. QED
      BY <2>1, <3>1 DEF Waits, Troubled
  <2>. QED
    BY <2>2, <2>3
<1>. QED
  BY Invariance, <1>1, PTL
=============================================================================
