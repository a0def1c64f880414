------------------------ MODULE DefinitionsSyncProofs ------------------------
(***************************************************************************)
(* The properties of DefinitionsSync, for every set of flags and           *)
(* rule-based segments, every number of changes, retries and failures and  *)
(* any queue of executions.                                                *)
(***************************************************************************)
EXTENDS DefinitionsSync, WellFoundedInduction, TLAPS

\* A payload that is applied as change n follows what the cache has: earlier changes
\* of its kind are in it, and the change number covers them, unless it was set back.
Follows(n) ==
  n # 0 =>
    /\ n \in 1..Len(log)
    /\ \A i \in 1..(n - 1) : KindOf(log[i]) = KindOf(log[n]) =>
         /\ version[log[i]] > 0
         /\ setBack \/ i <= cn[KindOf(log[n])]

\* The payloads that workers keep and executions wait with, 0 for none.
Pending == {worker[k].instant : k \in Kinds} \cup {chain[i].instant : i \in DOMAIN chain}

PayloadsOK == \A n \in Pending : Follows(n)

\* A request asked for what came after the change numbers of the caches, which no
\* other execution has changed since.
FetchOK ==
  IsFetching =>
    /\ chain # << >>
    /\ request.since = cn
    /\ \A k \in Kinds : cn[k] <= request.floor
    /\ request.floor <= Len(log)
    /\ request.retry <= failures

\* Change numbers and definitions come from the log.
CachesOK ==
  /\ \A k \in Kinds : cn[k] # 0 => cn[k] <= Len(log) /\ KindOf(log[cn[k]]) = k
  /\ \A x \in Names : version[x] # 0 => version[x] <= Len(log) /\ log[version[x]] = x
  /\ setBack \/ \A x \in Names : version[x] <= cn[KindOf(x)]

\* What a change number covers is in the cache, even if in an old version.
Present == \A n \in 1..Len(log) : n <= cn[KindOf(log[n])] => version[log[n]] > 0

\* The segments a flag uses were there before it.
LogOK ==
  \A n \in 1..Len(log) : log[n] \in Flags =>
    \A r \in Uses[log[n]] : \E j \in 1..(n - 1) : log[j] = r

\* The inductive invariant. A change is lost long after the payload that causes it
\* was taken for the next one, so NoLostChange needs to know of payloads that wait, and
\* of the request in flight; RefsResolved holds even when changes are lost, by Present.
IInv ==
  /\ TypeOK
  /\ LogOK
  /\ FetchOK
  /\ CachesOK
  /\ Present
  /\ PayloadsOK
  /\ RefsResolved
  /\ NoLostChange

-----------------------------------------------------------------------------
(* Max, of changes among the first v.                                      *)
LEMMA Largest ==
  ASSUME NEW v \in Nat, NEW A \in SUBSET (0..v), 0 \in A
  PROVE  Max(A) \in A /\ \A x \in A : x <= Max(A)
<1>. DEFINE U == {u \in Nat : \A x \in A : x <= u}
<1>1. v \in U
  OBVIOUS
<1>2. PICK u \in U : \A w \in U : ~(<<w, u>> \in OpToRel(<, Nat))
  BY <1>1, NatLessThanWellFounded, WFMin, Zenon
<1>3. \A w \in U : ~(w < u)
  BY <1>2 DEF OpToRel
<1>4. u \in A
  <2>1. CASE u = 0
    BY <2>1
  <2>2. CASE u # 0
    <3>1. u - 1 \in Nat /\ u - 1 < u
      BY <2>2
    <3>2. ~(u - 1 \in U)
      BY <1>3, <3>1
    <3>. QED
      BY <3>1, <3>2
  <2>. QED
    BY <2>1, <2>2
<1>. QED
  BY <1>4 DEF Max

LEMMA KindFacts ==
  ASSUME TypeOK, NEW n \in 1..Len(log)
  PROVE  log[n] \in Names /\ KindOf(log[n]) \in Kinds
  BY DEF TypeOK, KindOf, Kinds

\* The last change of kind k among the first v.
IsLastOf(k, v, m) ==
  /\ m \in 0..v
  /\ m # 0 => KindOf(log[m]) = k
  /\ \A i \in 1..v : KindOf(log[i]) = k => i <= m

LEMMA LastFacts ==
  ASSUME NEW k, NEW v \in Nat
  PROVE  IsLastOf(k, v, LastOf(k, v))
<1>. DEFINE A == {0} \cup {i \in 1..v : KindOf(log[i]) = k}
<1>1. A \in SUBSET (0..v) /\ 0 \in A
  OBVIOUS
<1>2. Max(A) \in A /\ \A x \in A : x <= Max(A)
  BY <1>1, Largest
<1>3. LastOf(k, v) = Max(A)
  BY DEF LastOf
<1>4. \A i \in 1..v : KindOf(log[i]) = k => i \in A
  OBVIOUS
<1>5. Max(A) = 0 \/ Max(A) \in {i \in 1..v : KindOf(log[i]) = k}
  BY <1>2
<1>. HIDE DEF A
<1>. QED
  BY <1>2, <1>3, <1>4, <1>5 DEF IsLastOf

\* The last change of x among the first v.
IsLatestOf(x, v, m) ==
  /\ m \in 0..v
  /\ m # 0 => log[m] = x
  /\ \A i \in 1..v : log[i] = x => i <= m

LEMMA LatestFacts ==
  ASSUME NEW x, NEW v \in Nat
  PROVE  IsLatestOf(x, v, LatestOf(x, v))
<1>. DEFINE A == {0} \cup {i \in 1..v : log[i] = x}
<1>1. A \in SUBSET (0..v) /\ 0 \in A
  OBVIOUS
<1>2. Max(A) \in A /\ \A y \in A : y <= Max(A)
  BY <1>1, Largest
<1>3. LatestOf(x, v) = Max(A)
  BY DEF LatestOf
<1>4. \A i \in 1..v : log[i] = x => i \in A
  OBVIOUS
<1>5. Max(A) = 0 \/ Max(A) \in {i \in 1..v : log[i] = x}
  BY <1>2
<1>. HIDE DEF A
<1>. QED
  BY <1>2, <1>3, <1>4, <1>5 DEF IsLatestOf

-----------------------------------------------------------------------------
(* The workers.                                                            *)

\* What a function of the worker returns, with payloads of the set T only.
Returns(h, T) ==
  /\ h.worker \in Workers /\ h.worker.instant \in T
  /\ h.calls \in Seq(Tasks)
  /\ \A i \in DOMAIN h.calls : h.calls[i].instant \in T

LEMMA RecordFacts ==
  ASSUME NEW T, NEW w \in Workers, w.instant \in T, NEW calls \in Seq(Tasks),
         \A i \in DOMAIN calls : calls[i].instant \in T
  PROVE  Returns([worker |-> w, calls |-> calls], T)
  BY DEF Returns

LEMMA AloneFacts ==
  ASSUME NEW T, NEW w \in Workers, w.instant \in T
  PROVE  Returns([worker |-> w, calls |-> << >>], T)
<1>1. << >> \in Seq(Tasks) /\ DOMAIN << >> = {}
  OBVIOUS
<1>. QED
  BY <1>1 DEF Returns

LEMMA HandleFacts ==
  ASSUME NEW k \in Kinds, NEW w \in Workers, NEW c \in Nat
  PROVE  Returns(Handle(k, w, c), {w.instant})
<1>. DEFINE t == [by |-> k, till |-> IF w.bypass THEN w.max ELSE 0, instant |-> w.instant]
<1>1. t \in Tasks /\ t.instant = w.instant
  BY DEF Tasks, Workers
<1>2. <<t>> \in Seq(Tasks) /\ \A i \in DOMAIN <<t>> : <<t>>[i].instant = w.instant
  BY <1>1
<1>3. [w EXCEPT !.handling = FALSE] \in Workers
      /\ [w EXCEPT !.handling = FALSE].instant = w.instant
  BY DEF Workers
<1>4. [w EXCEPT !.handling = TRUE, !.newEvent = FALSE] \in Workers
      /\ [w EXCEPT !.handling = TRUE, !.newEvent = FALSE].instant = w.instant
  BY DEF Workers
<1>. HIDE DEF t
<1>5. CASE IsSync(w, c)
  BY <1>3, <1>5, AloneFacts DEF Handle
<1>6. CASE ~IsSync(w, c)
  <2>1. Handle(k, w, c) = [worker |-> [w EXCEPT !.handling = TRUE, !.newEvent = FALSE], calls |-> <<t>>]
    BY <1>6 DEF Handle, t
  <2>. PICK u : u = [w EXCEPT !.handling = TRUE, !.newEvent = FALSE]
    OBVIOUS
  <2>2. u \in Workers /\ u.instant = w.instant
    BY <1>4
  <2>3. Handle(k, w, c) = [worker |-> u, calls |-> <<t>>]
    BY <2>1
  <2>. QED
    BY <2>2, <2>3, <1>2, RecordFacts
<1>. QED
  BY <1>5, <1>6

LEMMA ResetFacts ==
  ASSUME NEW w \in Workers
  PROVE  /\ ResetBackoff(w) \in Workers /\ ResetBackoff(w).instant = w.instant
         /\ [ResetBackoff(w) EXCEPT !.bypass = TRUE] \in Workers
         /\ [ResetBackoff(w) EXCEPT !.bypass = TRUE].instant = w.instant
         /\ Stop(w) \in Workers /\ Stop(w).instant = w.instant
<1>. PICK u : u = ResetBackoff(w)
  OBVIOUS
<1>1. 0 \in 0..MaxRetries
  BY WorkerAssumption
<1>2. u \in Workers /\ u.instant = w.instant
  BY <1>1 DEF Workers, ResetBackoff
<1>3. [u EXCEPT !.bypass = TRUE] \in Workers /\ [u EXCEPT !.bypass = TRUE].instant = u.instant
  BY <1>2 DEF Workers
<1>4. [u EXCEPT !.handling = FALSE] \in Workers /\ [u EXCEPT !.handling = FALSE].instant = u.instant
  BY <1>2 DEF Workers
<1>. QED
  BY <1>2, <1>3, <1>4 DEF Stop

LEMMA ContinueFacts ==
  ASSUME NEW k \in Kinds, NEW w \in Workers, NEW c \in Nat, NEW both \in BOOLEAN
  PROVE  Returns(Continue(k, w, c, both), {w.instant})
<1>1. Returns([worker |-> w, calls |-> << >>], {w.instant})
  BY AloneFacts
<1>2. Returns([worker |-> [w EXCEPT !.handling = FALSE], calls |-> << >>], {w.instant})
  <2>1. [w EXCEPT !.handling = FALSE] \in Workers /\ [w EXCEPT !.handling = FALSE].instant = w.instant
    BY DEF Workers
  <2>. QED
    BY <2>1, AloneFacts
<1>3. Returns(Handle(k, w, c), {w.instant})
  BY HandleFacts
<1>4. ASSUME w.attempts + 1 < MaxRetries
      PROVE  Returns([worker |-> [w EXCEPT !.timer = TRUE, !.attempts = @ + 1], calls |-> << >>], {w.instant})
  <2>1. w.attempts + 1 \in 0..MaxRetries
    BY <1>4, WorkerAssumption DEF Workers
  <2>. PICK u : u = [w EXCEPT !.timer = TRUE, !.attempts = @ + 1]
    OBVIOUS
  <2>2. u \in Workers /\ u.instant = w.instant
    BY <2>1 DEF Workers
  <2>. QED
    BY <2>2, AloneFacts
<1>5. Returns(GoOn(k, w, c), {w.instant})
  BY <1>2, ResetFacts, HandleFacts DEF GoOn
<1>. QED
  BY <1>1, <1>2, <1>3, <1>4, <1>5 DEF Continue

LEMMA PutFacts ==
  ASSUME NEW k \in Kinds, NEW w \in Workers, NEW c \in Nat, NEW n \in Nat, NEW isNext \in BOOLEAN
  PROVE  Returns(Put(k, w, c, n, isNext), {w.instant, 0} \cup {m \in {n} : isNext})
<1>. DEFINE q == [w EXCEPT !.max = n, !.newEvent = TRUE, !.bypass = FALSE,
                           !.instant = IF isNext THEN n ELSE 0]
            h == IF w.timer \/ ~w.handling THEN Handle(k, q, c) ELSE [worker |-> q, calls |-> << >>]
            T == {w.instant, 0} \cup {m \in {n} : isNext}
<1>1. q \in Workers /\ q.instant \in T
  BY DEF Workers
<1>2. Returns(Handle(k, q, c), {q.instant})
  BY <1>1, HandleFacts
<1>3. Returns(h, T)
  BY <1>1, <1>2 DEF Returns
<1>4. CASE n <= c \/ n <= w.max
  BY <1>4 DEF Put, Returns
<1>5. CASE ~(n <= c \/ n <= w.max)
  <2>1. Put(k, w, c, n, isNext) = [h EXCEPT !.worker = ResetBackoff(@)]
    BY <1>5 DEF Put
  <2>. HIDE DEF q, T
  <2>2. h.worker = h.worker /\ h = [worker |-> h.worker, calls |-> h.calls]
    BY DEF Handle
  <2>3. ResetBackoff(h.worker) \in Workers /\ ResetBackoff(h.worker).instant = h.worker.instant
    BY <1>3, ResetFacts DEF Returns
  <2>. HIDE DEF h
  <2>4. [h EXCEPT !.worker = ResetBackoff(@)] = [worker |-> ResetBackoff(h.worker), calls |-> h.calls]
    BY <2>2
  <2>. QED
    BY <1>3, <2>1, <2>3, <2>4 DEF Returns, T
<1>. QED
  BY <1>4, <1>5

LEMMA RetryFacts ==
  ASSUME NEW k \in Kinds, NEW w \in Workers, NEW c \in Nat
  PROVE  Returns(Retry(k, w, c), {w.instant})
<1>1. [w EXCEPT !.timer = FALSE] \in Workers /\ [w EXCEPT !.timer = FALSE].instant = w.instant
  BY DEF Workers
<1>. QED
  BY <1>1, HandleFacts DEF Retry

-----------------------------------------------------------------------------
(* What every step keeps.                                                  *)

\* Changes are appended, definitions are not forgotten, and change numbers go on
\* unless a payload sets one back.
Grows ==
  /\ Len(log) <= Len(log') /\ \A i \in 1..Len(log) : log'[i] = log[i]
  /\ \A x \in Names : version[x] > 0 => version'[x] > 0
  /\ setBack' \/ (~setBack /\ \A k \in Kinds : cn[k] <= cn'[k])

LEMMA FollowsStill ==
  ASSUME TypeOK, TypeOK', Grows, NEW n, Follows(n)
  PROVE  Follows(n)'
<1> SUFFICES ASSUME n # 0 PROVE Follows(n)'
  BY DEF Follows
<1>0. Len(log) \in Nat /\ Len(log') \in Nat
  BY DEF TypeOK
<1>1. n \in 1..Len(log) /\ n \in 1..Len(log)' /\ log'[n] = log[n] /\ Len(log) \in Nat
  BY <1>0 DEF Follows, Grows
<1>2. ASSUME NEW i \in 1..(n - 1), KindOf(log'[i]) = KindOf(log'[n])
      PROVE  version'[log'[i]] > 0 /\ (setBack' \/ i <= cn'[KindOf(log'[n])])
  <2>1. i \in 1..Len(log) /\ log'[i] = log[i] /\ i \in Nat
    BY <1>1 DEF Grows
  <2>2. version[log[i]] > 0 /\ (setBack \/ i <= cn[KindOf(log[n])])
    BY <1>1, <1>2, <2>1 DEF Follows
  <2>3. log[i] \in Names /\ KindOf(log[n]) \in Kinds
    BY <1>1, <2>1, KindFacts
  <2>4. version'[log[i]] > 0
    BY <2>2, <2>3 DEF Grows
  <2>5. CASE setBack'
    BY <2>1, <2>4, <2>5
  <2>6. CASE ~setBack'
    <3>1. ~setBack /\ cn[KindOf(log[n])] <= cn'[KindOf(log[n])]
      BY <2>3, <2>6 DEF Grows
    <3>2. cn[KindOf(log[n])] \in Nat /\ cn'[KindOf(log[n])] \in Nat
      BY <2>3, DefinitionsAssumption DEF TypeOK
    <3>. QED
      BY <1>1, <2>1, <2>2, <2>4, <3>1, <3>2
  <2>. QED
    BY <2>5, <2>6
<1>. QED
  BY <1>1, <1>2 DEF Follows

\* Only what waits already waits on, and n, if n is not 0.
Keeps(n) == Pending' \subseteq Pending \cup {0, n}

LEMMA PayloadsStill ==
  ASSUME IInv, TypeOK', Grows, NEW n, Keeps(n), Follows(n)'
  PROVE  PayloadsOK'
<1>1. \A m \in Pending : Follows(m)'
  BY FollowsStill DEF IInv, PayloadsOK
<1>2. Follows(0)'
  BY DEF Follows
<1>. QED
  BY <1>1, <1>2 DEF PayloadsOK, Keeps

LEMMA PendingIs ==
  ASSUME NEW T, \A k \in Kinds : worker'[k].instant \in T,
         \A i \in DOMAIN chain' : chain'[i].instant \in T
  PROVE  Pending' \subseteq T
  BY DEF Pending

\* Executions with payloads of T only.
Carries(q, T) == q \in Seq(Tasks) /\ \A i \in DOMAIN q : q[i].instant \in T

LEMMA QueueFacts ==
  ASSUME NEW s, NEW t, NEW T, Carries(s, T), Carries(t, T)
  PROVE  Carries(s \o t, T)
<1>0. /\ s \in Seq(Tasks) /\ \A i \in DOMAIN s : s[i].instant \in T
      /\ t \in Seq(Tasks) /\ \A i \in DOMAIN t : t[i].instant \in T
  BY DEF Carries
<1>1. s \o t \in Seq(Tasks) /\ Len(s \o t) = Len(s) + Len(t)
  BY <1>0
<1>2. ASSUME NEW i \in 1..Len(s \o t) PROVE (s \o t)[i].instant \in T
  <2>1. CASE i <= Len(s)
    <3>1. i \in DOMAIN s /\ (s \o t)[i] = s[i]
      BY <1>0, <2>1
    <3>. QED
      BY <1>0, <3>1
  <2>2. CASE i > Len(s)
    <3>1. i - Len(s) \in DOMAIN t /\ (s \o t)[i] = t[i - Len(s)]
      BY <1>0, <1>1, <2>2
    <3>. QED
      BY <1>0, <3>1
  <2>. QED
    BY <1>0, <1>1, <2>1, <2>2
<1>. QED
  BY <1>1, <1>2 DEF Carries

\* An execution that ends leaves its payload to the worker that asked for it.
LEMMA CompleteFacts ==
  ASSUME TypeOK, chain # << >>, NEW cn2 \in [Kinds -> 0..MaxChanges],
         NEW version2 \in [Names -> 0..MaxChanges], Complete(cn2, version2)
  PROVE  /\ cn' = cn2 /\ version' = version2 /\ request' = NoRequest
         /\ chain' \in Seq(Tasks) /\ worker' \in [Kinds -> Workers]
         /\ Pending' \subseteq Pending
<1>. PICK k : k = Head(chain).by
  OBVIOUS
<1>. PICK h : h = Continue(k, worker[k], cn2[k], \A j \in Kinds : IsSync(worker[j], cn2[j]))
  OBVIOUS
<1>1. /\ cn' = cn2 /\ version' = version2 /\ request' = NoRequest
      /\ IF k = "poll" THEN chain' = Tail(chain) /\ UNCHANGED worker
         ELSE /\ chain' = Tail(chain) \o h.calls
              /\ worker' = [worker EXCEPT ![k] = h.worker]
  BY DEF Complete
<1>2. /\ Tail(chain) \in Seq(Tasks) /\ k \in Kinds \cup {"poll"}
      /\ \A i \in DOMAIN Tail(chain) : Tail(chain)[i].instant \in Pending
  <2>1. chain \in Seq(Tasks) /\ Head(chain) \in Tasks
    BY DEF TypeOK
  <2>2. Tail(chain) \in Seq(Tasks)
        /\ \A i \in DOMAIN Tail(chain) : i + 1 \in DOMAIN chain /\ Tail(chain)[i] = chain[i + 1]
    BY <2>1
  <2>3. \A i \in DOMAIN chain : chain[i].instant \in Pending
    BY DEF Pending
  <2>. QED
    BY <2>1, <2>2, <2>3 DEF Tasks
<1>3. worker \in [Kinds -> Workers] /\ \A j \in Kinds : worker[j].instant \in Pending
  BY DEF TypeOK, Pending
<1>4. CASE k = "poll"
  BY <1>1, <1>2, <1>3, <1>4, PendingIs
<1>5. CASE k # "poll"
  <2>1. k \in Kinds /\ worker[k] \in Workers /\ cn2[k] \in Nat
    BY <1>2, <1>3, <1>5, DefinitionsAssumption
  <2>2. Returns(h, {worker[k].instant})
    BY <2>1, ContinueFacts
  <2>3. /\ h.worker \in Workers /\ h.worker.instant \in Pending
        /\ h.calls \in Seq(Tasks) /\ \A i \in DOMAIN h.calls : h.calls[i].instant \in Pending
    BY <1>3, <2>1, <2>2 DEF Returns
  <2>4. Carries(Tail(chain), Pending) /\ Carries(h.calls, Pending)
    BY <1>2, <2>3 DEF Carries
  <2>5. Carries(Tail(chain) \o h.calls, Pending)
    BY <2>4, QueueFacts
  <2>6. chain' \in Seq(Tasks) /\ \A i \in DOMAIN chain' : chain'[i].instant \in Pending
    BY <1>1, <1>5, <2>5 DEF Carries
  <2>7. worker' \in [Kinds -> Workers] /\ \A j \in Kinds : worker'[j].instant \in Pending
    BY <1>1, <1>3, <1>5, <2>1, <2>3
  <2>. QED
    BY <1>1, <2>6, <2>7, PendingIs
<1>. QED
  BY <1>4, <1>5

LEMMA WorksFacts ==
  ASSUME TypeOK, NEW k \in Kinds, NEW h, NEW T, Returns(h, T), Works(k, h)
  PROVE  /\ chain' \in Seq(Tasks) /\ worker' \in [Kinds -> Workers]
         /\ Pending' \subseteq Pending \cup T
         /\ chain # << >> => chain' # << >>
<1>1. worker' = [worker EXCEPT ![k] = h.worker] /\ chain' = chain \o h.calls
  BY DEF Works
<1>2. /\ worker \in [Kinds -> Workers] /\ \A j \in Kinds : worker[j].instant \in Pending \cup T
      /\ chain \in Seq(Tasks) /\ \A i \in DOMAIN chain : chain[i].instant \in Pending \cup T
  BY DEF TypeOK, Pending
<1>3. /\ h.worker \in Workers /\ h.worker.instant \in Pending \cup T
      /\ h.calls \in Seq(Tasks) /\ \A i \in DOMAIN h.calls : h.calls[i].instant \in Pending \cup T
  BY DEF Returns
<1>4. chain' \in Seq(Tasks) /\ \A i \in DOMAIN chain' : chain'[i].instant \in Pending \cup T
  <2>1. Carries(chain, Pending \cup T) /\ Carries(h.calls, Pending \cup T)
    BY <1>2, <1>3 DEF Carries
  <2>2. Carries(chain \o h.calls, Pending \cup T)
    BY <2>1, QueueFacts
  <2>. QED
    BY <1>1, <2>2 DEF Carries
<1>5. worker' \in [Kinds -> Workers] /\ \A j \in Kinds : worker'[j].instant \in Pending \cup T
  BY <1>1, <1>2, <1>3
<1>6. chain # << >> => chain' # << >>
  BY <1>1, <1>2, <1>3
<1>. QED
  BY <1>4, <1>5, <1>6, PendingIs

-----------------------------------------------------------------------------
(* Steps that leave the caches alone.                                      *)
LEMMA CalmKeeps ==
  ASSUME IInv, TypeOK', UNCHANGED <<log, cn, version, setBack>>, FetchOK',
         NEW n, Keeps(n), Follows(n)
  PROVE  IInv'
<1>1. \A m : Follows(m) => Follows(m)'
  BY DEF Follows
<1>2. Follows(0)
  BY DEF Follows
<1>3. PayloadsOK'
  BY <1>1, <1>2 DEF IInv, PayloadsOK, Keeps
<1>4. LogOK' /\ CachesOK' /\ Present'
  BY DEF IInv, LogOK, CachesOK, Present
<1>5. RefsResolved' /\ NoLostChange'
  BY DEF IInv, RefsResolved, NoLostChange, NothingWasMissed
<1>. QED
  BY <1>3, <1>4, <1>5 DEF IInv

\* What a worker does between two executions.
LEMMA WorksKeeps ==
  ASSUME IInv, NEW k \in Kinds, NEW h, NEW T, Returns(h, T), Works(k, h),
         NEW n, T \subseteq {worker[k].instant, 0, n}, Follows(n)
  PROVE  IInv'
<1>0. TypeOK
  BY DEF IInv
<1>1. UNCHANGED <<log, cn, version, request, startingUp, failures, setBack>>
  BY DEF Works
<1>2. /\ chain' \in Seq(Tasks) /\ worker' \in [Kinds -> Workers]
      /\ Pending' \subseteq Pending \cup T /\ (chain # << >> => chain' # << >>)
  BY <1>0, WorksFacts
<1>3. TypeOK'
  BY <1>0, <1>1, <1>2 DEF TypeOK
<1>4. FetchOK'
  BY <1>1, <1>2 DEF IInv, FetchOK, IsFetching
<1>5. Keeps(n)
  <2>1. worker[k].instant \in Pending
    BY DEF Pending
  <2>. QED
    BY <1>2, <2>1 DEF Keeps
<1>. QED
  BY <1>1, <1>3, <1>4, <1>5, CalmKeeps

\* What an execution that ends does, when the caches it leaves are in order.
LEMMA CompleteKeeps ==
  ASSUME IInv, chain # << >>, NEW cn2 \in [Kinds -> 0..MaxChanges],
         NEW version2 \in [Names -> 0..MaxChanges], Complete(cn2, version2),
         UNCHANGED log, failures' \in 0..MaxFailures, startingUp' \in BOOLEAN,
         setBack' \in BOOLEAN, Grows, CachesOK', Present', RefsResolved', NoLostChange'
  PROVE  IInv'
<1>0. TypeOK
  BY DEF IInv
<1>1. /\ cn' = cn2 /\ version' = version2 /\ request' = NoRequest
      /\ chain' \in Seq(Tasks) /\ worker' \in [Kinds -> Workers]
      /\ Pending' \subseteq Pending
  BY <1>0, CompleteFacts
<1>2. TypeOK'
  BY <1>0, <1>1 DEF TypeOK
<1>3. FetchOK'
  BY <1>1 DEF FetchOK, IsFetching
<1>4. Keeps(0) /\ Follows(0)'
  BY <1>1 DEF Keeps, Follows
<1>5. PayloadsOK'
  BY <1>2, <1>4, PayloadsStill
<1>6. LogOK'
  BY DEF IInv, LogOK
<1>. QED
  BY <1>2, <1>3, <1>5, <1>6 DEF IInv

-----------------------------------------------------------------------------
(* The steps.                                                              *)
LEMMA InitInv == Init => IInv
<1> SUFFICES ASSUME Init PROVE IInv
  OBVIOUS
<1>1. TypeOK
  <2>1. NewWorker \in Workers
    BY WorkerAssumption DEF NewWorker, Workers
  <2>2. 0 \in 0..MaxChanges /\ 0 \in 0..MaxFailures /\ Len(<< >>) <= MaxChanges
    BY DefinitionsAssumption
  <2>3. log \in Seq(Names) /\ Len(log) <= MaxChanges /\ chain \in Seq(Tasks)
    BY <2>2 DEF Init
  <2>4. cn \in [Kinds -> 0..MaxChanges] /\ version \in [Names -> 0..MaxChanges]
    BY <2>2 DEF Init
  <2>5. worker \in [Kinds -> Workers]
    BY <2>1 DEF Init
  <2>. QED
    BY <2>2, <2>3, <2>4, <2>5 DEF Init, TypeOK
<1>2. LogOK /\ FetchOK /\ CachesOK /\ Present /\ RefsResolved /\ NoLostChange
  <2>1. Len(log) = 0 /\ \A k \in Kinds : cn[k] = 0
    BY DEF Init
  <2>2. \A x \in Names : version[x] = 0 /\ KindOf(x) \in Kinds
    BY DEF Init, Kinds, KindOf
  <2>3. Flags \subseteq Names
    BY DEF Names
  <2>. QED
    BY <2>1, <2>2, <2>3
       DEF Init, LogOK, FetchOK, CachesOK, Present, RefsResolved, NoLostChange, NothingWasMissed, IsFetching
<1>3. PayloadsOK
  <2>1. \A k \in Kinds : worker[k].instant = 0
    BY DEF Init, NewWorker
  <2>2. Pending \subseteq {0}
    BY <2>1 DEF Pending, Init
  <2>. QED
    BY <2>2 DEF PayloadsOK, Follows
<1>. QED
  BY <1>1, <1>2, <1>3 DEF IInv

LEMMA BeginKeeps ==
  ASSUME IInv, Begin
  PROVE  IInv'
<1>. PICK n : n = Head(chain).instant
  OBVIOUS
<1>0. TypeOK /\ chain # << >> /\ UNCHANGED <<log, failures>>
  BY DEF IInv, Begin, Idle
<1>1. n \in Nat /\ Follows(n)
  <2>1. chain \in Seq(Tasks) /\ 1 \in DOMAIN chain /\ Head(chain) = chain[1] /\ chain[1] \in Tasks
    BY <1>0 DEF TypeOK
  <2>2. n \in Pending
    BY <2>1 DEF Pending
  <2>. QED
    BY <2>1, <2>2 DEF IInv, PayloadsOK, Tasks
<1>2. CASE n # 0 /\ IsContained(n)
  <2>. PICK x : x = log[n]
    OBVIOUS
  <2>. PICK k : k = KindOf(x)
    OBVIOUS
  <2>. PICK c2 : c2 = [cn EXCEPT ![k] = n]
    OBVIOUS
  <2>. PICK v2 : v2 = [version EXCEPT ![x] = n]
    OBVIOUS
  <2>1. /\ Complete(c2, v2)
        /\ setBack' = (setBack \/ cn[k] > n)
        /\ startingUp' = FALSE
    BY <1>2 DEF Begin
  <2>2. n \in 1..Len(log) /\ Len(log) \in Nat /\ n <= MaxChanges /\ MaxChanges \in Nat
    BY <1>0, <1>1, <1>2, DefinitionsAssumption DEF Follows, TypeOK
  <2>3. x \in Names /\ k \in Kinds
    BY <1>0, <2>2, KindFacts
  <2>4. cn \in [Kinds -> 0..MaxChanges] /\ version \in [Names -> 0..MaxChanges] /\ setBack \in BOOLEAN
    BY <1>0 DEF TypeOK
  <2>5. c2 \in [Kinds -> 0..MaxChanges] /\ v2 \in [Names -> 0..MaxChanges]
    BY <2>2, <2>3, <2>4
  <2>6. cn' = c2 /\ version' = v2
    BY <1>0, <2>1, <2>5, CompleteFacts
  <2>7. /\ cn'[k] = n /\ \A j \in Kinds : j # k => cn'[j] = cn[j]
        /\ version'[x] = n /\ \A y \in Names : y # x => version'[y] = version[y]
    BY <2>3, <2>4, <2>6
  <2>8. \A y \in Names : version[y] > 0 => version'[y] > 0
    BY <2>2, <2>7
  <2>9. setBack' \/ (~setBack /\ \A j \in Kinds : cn[j] <= cn'[j])
    <3>1. CASE setBack \/ cn[k] > n
      BY <2>1, <3>1
    <3>2. CASE ~setBack /\ ~(cn[k] > n)
      <4>1. cn[k] \in Nat /\ \A j \in Kinds : cn[j] <= cn[j]
        BY <2>3, <2>4, <2>2
      <4>. QED
        BY <2>2, <2>7, <3>2, <4>1
    <3>. QED
      BY <3>1, <3>2
  <2>10. Grows
    BY <1>0, <2>2, <2>8, <2>9 DEF Grows
  <2>11. CachesOK'
    <3>1. \A j \in Kinds : cn'[j] # 0 => cn'[j] <= Len(log)' /\ KindOf(log'[cn'[j]]) = j
      BY <1>0, <2>2, <2>7 DEF IInv, CachesOK
    <3>2. \A y \in Names : version'[y] # 0 => version'[y] <= Len(log)' /\ log'[version'[y]] = y
      BY <1>0, <2>2, <2>7 DEF IInv, CachesOK
    <3>3. ASSUME ~setBack', NEW y \in Names PROVE version'[y] <= cn'[KindOf(y)]
      <4>1. KindOf(y) \in Kinds
        BY DEF KindOf, Kinds
      <4>2. version[y] <= cn[KindOf(y)] /\ cn[KindOf(y)] <= cn'[KindOf(y)]
        BY <2>9, <3>3, <4>1 DEF IInv, CachesOK
      <4>3. /\ version[y] \in Nat /\ cn[KindOf(y)] \in Nat /\ cn'[KindOf(y)] \in Nat
        BY <2>2, <2>4, <2>5, <2>6, <4>1
      <4>. QED
        BY <2>2, <2>7, <4>2, <4>3
    <3>. QED
      BY <3>1, <3>2, <3>3 DEF CachesOK
  <2>12. ASSUME NEW m \in 1..Len(log), m <= cn'[KindOf(log[m])]
         PROVE  /\ version'[log[m]] > 0
                /\ ~setBack' => version'[log[m]] >= m
    <3>1. log[m] \in Names /\ KindOf(log[m]) \in Kinds
      BY <1>0, KindFacts
    <3>2. /\ version[log[m]] \in Nat /\ cn[KindOf(log[m])] \in Nat
          /\ version'[log[m]] = version[log[m]] \/ (log[m] = x /\ version'[log[m]] = n)
      BY <2>2, <2>4, <2>7, <3>1
    <3>3. CASE KindOf(log[m]) # k
      <4>1. m <= cn[KindOf(log[m])] /\ log[m] # x
        BY <2>7, <2>12, <3>1, <3>3
      <4>2. version[log[m]] > 0
        BY <4>1 DEF IInv, Present
      <4>3. setBack \/ version[log[m]] >= m
        BY <4>1 DEF IInv, NoLostChange, NothingWasMissed
      <4>. QED
        BY <2>9, <3>2, <4>1, <4>2, <4>3
    <3>4. CASE KindOf(log[m]) = k /\ log[m] = x
      BY <2>2, <2>7, <2>12, <3>4
    <3>5. CASE KindOf(log[m]) = k /\ log[m] # x
      <4>1. m \in 1..(n - 1)
        BY <2>2, <2>7, <2>12, <3>5
      <4>2. version[log[m]] > 0 /\ (setBack \/ m <= cn[KindOf(log[m])])
        BY <1>1, <1>2, <3>5, <4>1 DEF Follows
      <4>3. setBack \/ version[log[m]] >= m
        BY <4>2 DEF IInv, NoLostChange, NothingWasMissed
      <4>. QED
        BY <2>9, <3>2, <3>5, <4>2, <4>3
    <3>. QED
      BY <3>3, <3>4, <3>5
  <2>13. Present'
    BY <1>0, <2>12 DEF Present
  <2>14. NoLostChange'
    BY <1>0, <2>12 DEF NoLostChange, NothingWasMissed
  <2>15. RefsResolved'
    <3>1. ASSUME NEW y \in Flags, version'[y] > 0, NEW r \in Uses[y] PROVE version'[r] > 0
      <4>1. y \in Names /\ r \in Names
        BY DefinitionsAssumption DEF Names
      <4>2. version[r] > 0
        BY <1>2, <2>7, <3>1, <4>1 DEF IInv, RefsResolved, IsContained
      <4>. QED
        BY <2>8, <4>1, <4>2
    <3>. QED
      BY <3>1 DEF RefsResolved
  <2>16. failures' \in 0..MaxFailures /\ startingUp' \in BOOLEAN /\ setBack' \in BOOLEAN
    BY <1>0, <2>1 DEF TypeOK
  <2>. QED
    BY <1>0, <2>1, <2>5, <2>10, <2>11, <2>13, <2>14, <2>15, <2>16, CompleteKeeps
<1>3. CASE ~(n # 0 /\ IsContained(n))
  <2>1. /\ request' = [since |-> cn, floor |-> Len(log), retry |-> 0]
        /\ UNCHANGED <<log, cn, version, worker, chain, startingUp, failures, setBack>>
    BY <1>3 DEF Begin
  <2>2. request'.since = cn /\ request'.floor = Len(log) /\ request'.retry = 0
    BY <2>1
  <2>3. request' \in Requests
    <3>1. Len(log) \in 0..MaxChanges /\ 0 \in 0..MaxFailures
      BY <1>0, DefinitionsAssumption DEF TypeOK
    <3>. QED
      BY <1>0, <2>1, <3>1 DEF TypeOK, Requests
  <2>4. TypeOK'
    BY <1>0, <2>1, <2>3 DEF TypeOK
  <2>5. FetchOK'
    <3>1. \A k \in Kinds : cn[k] <= Len(log)
      BY <1>0 DEF IInv, CachesOK, TypeOK
    <3>2. 0 <= failures /\ Len(log) <= Len(log)
      BY <1>0 DEF TypeOK
    <3>. QED
      BY <1>0, <2>1, <2>2, <3>1, <3>2 DEF FetchOK
  <2>6. Keeps(0) /\ Follows(0)
    BY <2>1 DEF Keeps, Pending, Follows
  <2>. QED
    BY <2>1, <2>4, <2>5, <2>6, CalmKeeps
<1>. QED
  BY <1>2, <1>3

LEMMA AnswerKeeps ==
  ASSUME IInv, NEW v \in 0..Len(log), Answer(v)
  PROVE  IInv'
<1>. DEFINE last(k)   == LastOf(k, v)
            latest(x) == LatestOf(x, v)
<1>. PICK c2 : c2 = [k \in Kinds |-> last(k)]
  OBVIOUS
<1>. PICK v2 : v2 = [x \in Names |-> IF latest(x) > request.since[KindOf(x)]
                                     THEN latest(x) ELSE version[x]]
  OBVIOUS
<1>1. /\ TypeOK /\ IsFetching /\ chain # << >> /\ request.since = cn
      /\ \A k \in Kinds : cn[k] <= request.floor
      /\ UNCHANGED <<log, failures, setBack>> /\ startingUp' = FALSE
      /\ Complete(c2, v2)
  BY DEF IInv, FetchOK, Answer
<1>2. /\ v \in Nat /\ v <= Len(log) /\ Len(log) <= MaxChanges /\ Len(log) \in Nat
      /\ MaxChanges \in Nat
      /\ cn \in [Kinds -> 0..MaxChanges] /\ version \in [Names -> 0..MaxChanges]
      /\ setBack \in BOOLEAN
  BY <1>1, DefinitionsAssumption DEF TypeOK
<1>3. \A k \in Kinds : IsLastOf(k, v, last(k))
  BY <1>2, LastFacts
<1>4. \A x \in Names : IsLatestOf(x, v, latest(x)) /\ KindOf(x) \in Kinds
  BY <1>2, LatestFacts DEF KindOf, Kinds
<1>5. /\ \A k \in Kinds : c2[k] = last(k) /\ last(k) \in 0..v
      /\ \A x \in Names : /\ latest(x) \in 0..v
                          /\ v2[x] = IF latest(x) > cn[KindOf(x)] THEN latest(x) ELSE version[x]
  BY <1>1, <1>3, <1>4 DEF IsLastOf, IsLatestOf
<1>6. c2 \in [Kinds -> 0..MaxChanges] /\ v2 \in [Names -> 0..MaxChanges]
  <2>1. \A k \in Kinds : last(k) \in 0..MaxChanges
    BY <1>2, <1>5
  <2>2. \A x \in Names : (IF latest(x) > cn[KindOf(x)] THEN latest(x) ELSE version[x]) \in 0..MaxChanges
    BY <1>2, <1>5
  <2>. HIDE DEF last, latest
  <2>. QED
    BY <1>1, <2>1, <2>2
<1>7. cn' = c2 /\ version' = v2
  BY <1>1, <1>6, CompleteFacts
\* No change number goes back.
<1>8. \A k \in Kinds : cn[k] <= last(k)
  <2>1. ASSUME NEW k \in Kinds, Head(chain).till # 0 PROVE cn[k] <= last(k)
    <3>1. cn[k] \in Nat /\ last(k) \in Nat
      BY <1>2, <1>5
    <3>2. v >= request.floor
      BY <2>1 DEF Answer
    <3>3. request.floor \in Nat
      BY <1>1, DefinitionsAssumption DEF TypeOK, IsFetching, Requests
    <3>4. cn[k] <= v
      BY <1>1, <1>2, <3>1, <3>2, <3>3
    <3>5. cn[k] # 0 => cn[k] \in 1..v /\ KindOf(log[cn[k]]) = k
      BY <3>1, <3>4 DEF IInv, CachesOK
    <3>. QED
      BY <1>3, <3>1, <3>5 DEF IsLastOf
  <2>2. ASSUME NEW k \in Kinds, Head(chain).till = 0 PROVE cn[k] <= last(k)
    <3>1. LastOf(k, v) >= request.since[k]
      BY <2>2 DEF Answer
    <3>2. last(k) \in Nat /\ cn[k] \in Nat
      BY <1>2, <1>5
    <3>. QED
      BY <1>1, <3>1, <3>2
  <2>. QED
    BY <2>1, <2>2
<1>. HIDE DEF last, latest
<1>9. \A x \in Names : version[x] > 0 => version'[x] > 0
  BY <1>2, <1>4, <1>5, <1>7
<1>10. Grows
  BY <1>1, <1>2, <1>5, <1>7, <1>8, <1>9 DEF Grows
<1>11. CachesOK'
  <2>1. \A k \in Kinds : cn'[k] # 0 => cn'[k] <= Len(log)' /\ KindOf(log'[cn'[k]]) = k
    BY <1>1, <1>2, <1>3, <1>5, <1>7 DEF IsLastOf
  <2>2. \A x \in Names : version'[x] # 0 => version'[x] <= Len(log)' /\ log'[version'[x]] = x
    <3>1. \A x \in Names : latest(x) # 0 => latest(x) <= Len(log) /\ log[latest(x)] = x
      BY <1>2, <1>4 DEF IsLatestOf
    <3>. QED
      BY <1>1, <1>5, <1>7, <3>1 DEF IInv, CachesOK
  <2>3. ASSUME ~setBack', NEW x \in Names PROVE version'[x] <= cn'[KindOf(x)]
    <3>. PICK k : k = KindOf(x)
      OBVIOUS
    <3>1. k \in Kinds /\ cn'[k] = last(k) /\ cn[k] <= last(k) /\ version[x] <= cn[k]
      BY <1>1, <1>4, <1>5, <1>7, <1>8, <2>3 DEF IInv, CachesOK
    <3>2. cn[k] \in Nat /\ last(k) \in Nat /\ version[x] \in Nat /\ latest(x) \in Nat
      BY <1>2, <1>5, <3>1
    <3>3. latest(x) # 0 => latest(x) <= last(k)
      <4>1. latest(x) # 0 => latest(x) \in 1..v /\ log[latest(x)] = x
        BY <1>2, <1>4, <1>5 DEF IsLatestOf
      <4>. QED
        BY <1>3, <3>1, <4>1 DEF IsLastOf
    <3>. QED
      BY <1>5, <1>7, <3>1, <3>2, <3>3
  <2>. QED
    BY <2>1, <2>2, <2>3 DEF CachesOK
\* Every change up to the new change numbers is in the cache.
<1>12. ASSUME NEW n \in 1..Len(log), n <= cn'[KindOf(log[n])]
       PROVE  /\ version'[log[n]] > 0
              /\ ~setBack' => version'[log[n]] >= n
  <2>. PICK x : x = log[n]
    OBVIOUS
  <2>. PICK k : k = KindOf(x)
    OBVIOUS
  <2>1. x \in Names /\ k \in Kinds
    BY <1>1, KindFacts
  <2>2. /\ n \in 1..v /\ cn[k] \in Nat /\ version[x] \in Nat /\ latest(x) \in Nat
    BY <1>2, <1>5, <1>7, <1>12, <2>1
  <2>3. n <= latest(x)
    BY <1>4, <2>1, <2>2 DEF IsLatestOf
  <2>4. version'[x] = latest(x) \/ (version'[x] = version[x] /\ latest(x) <= cn[k])
    BY <1>5, <1>7, <2>1, <2>2
  <2>5. CASE version'[x] = latest(x)
    BY <2>2, <2>3, <2>5
  <2>6. CASE version'[x] = version[x] /\ latest(x) <= cn[k]
    <3>1. n <= cn[k]
      BY <2>2, <2>3, <2>6
    <3>2. version[x] > 0 /\ (setBack \/ version[x] >= n)
      BY <3>1 DEF IInv, Present, NoLostChange, NothingWasMissed
    <3>. QED
      BY <1>1, <2>6, <3>2
  <2>. QED
    BY <2>4, <2>5, <2>6
<1>13. Present'
  BY <1>1, <1>12 DEF Present
<1>14. NoLostChange'
  BY <1>1, <1>12 DEF NoLostChange, NothingWasMissed
\* A flag that the answer brings was changed after the segments it uses were.
<1>15. RefsResolved'
  <2>1. ASSUME NEW x \in Flags, version'[x] > 0, NEW r \in Uses[x] PROVE version'[r] > 0
    <3>1. x \in Names /\ r \in Names /\ r \in RBSegments /\ KindOf(r) = "rbs" /\ "rbs" \in Kinds
      BY DefinitionsAssumption DEF Names, KindOf, Kinds
    <3>2. CASE version[x] > 0
      BY <1>9, <2>1, <3>1, <3>2 DEF IInv, RefsResolved
    <3>3. CASE ~(version[x] > 0)
      <4>1. latest(x) \in 1..v /\ log[latest(x)] = x
        <5>1. version'[x] = latest(x) /\ latest(x) # 0 /\ latest(x) \in 0..v
          BY <1>5, <1>7, <2>1, <3>1, <3>3
        <5>. QED
          BY <1>2, <1>4, <3>1, <5>1 DEF IsLatestOf
      <4>. PICK m : m = latest(x)
        OBVIOUS
      <4>2. m \in 1..Len(log) /\ log[m] \in Flags /\ r \in Uses[log[m]]
        BY <1>2, <2>1, <4>1
      <4>3. PICK j \in 1..(m - 1) : log[j] = r
        BY <4>2 DEF IInv, LogOK
      <4>4. j \in 1..v /\ j \in 1..Len(log)
        BY <4>1, <1>2
      <4>5. j <= last("rbs") /\ cn'[KindOf(log[j])] = last("rbs")
        BY <1>3, <1>5, <1>7, <3>1, <4>3, <4>4 DEF IsLastOf
      <4>6. version'[log[j]] > 0
        BY <1>12, <4>4, <4>5
      <4>. QED
        BY <4>3, <4>6
    <3>. QED
      BY <3>2, <3>3
  <2>. QED
    BY <2>1 DEF RefsResolved
<1>16. failures' \in 0..MaxFailures /\ startingUp' \in BOOLEAN /\ setBack' \in BOOLEAN
  BY <1>1 DEF TypeOK
<1>. QED
  BY <1>1, <1>6, <1>10, <1>11, <1>13, <1>14, <1>15, <1>16, CompleteKeeps

LEMMA FailKeeps ==
  ASSUME IInv, Fail
  PROVE  IInv'
<1>1. /\ TypeOK /\ IsFetching /\ chain # << >> /\ UNCHANGED <<log, setBack>>
      /\ failures' = failures + 1 /\ failures' \in 0..MaxFailures /\ failures \in Nat
  BY DefinitionsAssumption DEF IInv, FetchOK, Fail, TypeOK
<1>2. CASE startingUp /\ request.retry < RetriesBeforeReady
  <2>1. /\ request' = [request EXCEPT !.retry = @ + 1]
        /\ UNCHANGED <<cn, version, worker, chain, startingUp>>
    BY <1>2 DEF Fail
  <2>2. request \in Requests /\ request.retry <= failures
    BY <1>1 DEF IInv, FetchOK, TypeOK, IsFetching
  <2>3. /\ request'.since = request.since /\ request'.floor = request.floor
        /\ request'.retry = request.retry + 1 /\ request.retry + 1 \in 0..MaxFailures
        /\ request.retry + 1 <= failures'
    BY <1>1, <2>1, <2>2, DefinitionsAssumption DEF Requests
  <2>4. request' \in Requests
    BY <2>1, <2>2, <2>3 DEF Requests
  <2>5. TypeOK'
    BY <1>1, <2>1, <2>4 DEF TypeOK
  <2>6. FetchOK'
    BY <1>1, <2>1, <2>3 DEF IInv, FetchOK
  <2>7. Keeps(0) /\ Follows(0)
    BY <2>1 DEF Keeps, Pending, Follows
  <2>. QED
    BY <1>1, <2>1, <2>5, <2>6, <2>7, CalmKeeps
<1>3. CASE ~(startingUp /\ request.retry < RetriesBeforeReady)
  <2>1. Complete(cn, version) /\ startingUp' = FALSE
    BY <1>3 DEF Fail
  <2>2. /\ cn' = cn /\ version' = version /\ request' = NoRequest
        /\ chain' \in Seq(Tasks) /\ worker' \in [Kinds -> Workers]
        /\ Pending' \subseteq Pending
    <3>1. cn \in [Kinds -> 0..MaxChanges] /\ version \in [Names -> 0..MaxChanges]
      BY <1>1 DEF TypeOK
    <3>. QED
      BY <1>1, <2>1, <3>1, CompleteFacts
  <2>3. TypeOK'
    BY <1>1, <2>1, <2>2 DEF TypeOK
  <2>4. FetchOK'
    BY <2>2 DEF FetchOK, IsFetching
  <2>5. Keeps(0) /\ Follows(0)
    BY <2>2 DEF Keeps, Follows
  <2>. QED
    BY <1>1, <2>2, <2>3, <2>4, <2>5, CalmKeeps
<1>. QED
  BY <1>2, <1>3

LEMMA NotifiedKeeps ==
  ASSUME IInv, NEW n \in 1..Len(log), NEW payload \in BOOLEAN, Notified(n, payload)
  PROVE  IInv'
<1>. PICK k : k = KindOf(log[n])
  OBVIOUS
<1>. PICK isNext : isNext = (payload /\ cn[k] = LastOf(k, n - 1))
  OBVIOUS
<1>. PICK h : h = Put(k, worker[k], cn[k], n, isNext)
  OBVIOUS
<1>. DEFINE T == {worker[k].instant, 0} \cup {m \in {n} : isNext}
<1>0. TypeOK /\ n \in Nat /\ n - 1 \in Nat
  BY DEF IInv
<1>1. k \in Kinds /\ isNext \in BOOLEAN /\ Works(k, h)
  BY <1>0, KindFacts DEF Notified
<1>2. worker[k] \in Workers /\ cn[k] \in Nat
  BY <1>0, <1>1, DefinitionsAssumption DEF TypeOK
<1>3. Returns(h, T)
  BY <1>0, <1>1, <1>2, PutFacts
<1>4. CASE isNext
  <2>1. IsLastOf(k, n - 1, cn[k])
    BY <1>0, <1>4, LastFacts
  <2>2. ASSUME NEW i \in 1..(n - 1), KindOf(log[i]) = k
        PROVE  version[log[i]] > 0 /\ i <= cn[k]
    <3>1. i <= cn[k] /\ i \in 1..Len(log)
      BY <1>0, <2>1, <2>2 DEF IsLastOf, TypeOK
    <3>. QED
      BY <2>2, <3>1 DEF IInv, Present
  <2>3. Follows(n)
    BY <2>2 DEF Follows
  <2>4. T \subseteq {worker[k].instant, 0, n}
    OBVIOUS
  <2>. QED
    BY <1>1, <1>3, <2>3, <2>4, WorksKeeps
<1>5. CASE ~isNext
  <2>1. T \subseteq {worker[k].instant, 0, 0} /\ Follows(0)
    BY <1>5 DEF Follows
  <2>. QED
    BY <1>1, <1>3, <2>1, WorksKeeps
<1>. QED
  BY <1>1, <1>4, <1>5

LEMMA BackoffKeeps ==
  ASSUME IInv, NEW k \in Kinds, BackoffFires(k)
  PROVE  IInv'
<1>. PICK h : h = Retry(k, worker[k], cn[k])
  OBVIOUS
<1>1. Works(k, h)
  BY DEF BackoffFires
<1>2. worker[k] \in Workers /\ cn[k] \in Nat
  BY DefinitionsAssumption DEF IInv, TypeOK
<1>3. Returns(h, {worker[k].instant})
  BY <1>2, RetryFacts
<1>4. {worker[k].instant} \subseteq {worker[k].instant, 0, 0} /\ Follows(0)
  BY DEF Follows
<1>. QED
  BY <1>1, <1>3, <1>4, WorksKeeps

LEMMA StopKeeps ==
  ASSUME IInv, StopWorkers
  PROVE  IInv'
<1>1. /\ TypeOK /\ worker' = [k \in Kinds |-> Stop(worker[k])]
      /\ UNCHANGED <<log, cn, version, chain, request, startingUp, failures, setBack>>
  BY DEF IInv, StopWorkers
<1>2. \A k \in Kinds : Stop(worker[k]) \in Workers /\ Stop(worker[k]).instant = worker[k].instant
  BY <1>1, ResetFacts DEF TypeOK
<1>3. worker' \in [Kinds -> Workers] /\ \A k \in Kinds : worker'[k].instant = worker[k].instant
  BY <1>1, <1>2
<1>4. TypeOK'
  BY <1>1, <1>3 DEF TypeOK
<1>5. FetchOK'
  BY <1>1 DEF IInv, FetchOK, IsFetching
<1>6. Keeps(0) /\ Follows(0)
  BY <1>1, <1>3 DEF Keeps, Pending, Follows
<1>. QED
  BY <1>1, <1>4, <1>5, <1>6, CalmKeeps

LEMMA PollKeeps ==
  ASSUME IInv, Poll
  PROVE  IInv'
<1>1. /\ TypeOK /\ chain' = Append(chain, Periodic) /\ chain \in Seq(Tasks)
      /\ UNCHANGED <<log, cn, version, worker, request, startingUp, failures, setBack>>
  BY DEF IInv, Poll, TypeOK
<1>2. Periodic \in Tasks /\ Periodic.instant = 0
  BY DEF Periodic, Tasks
<1>3. /\ chain' \in Seq(Tasks) /\ chain' # << >>
      /\ \A i \in DOMAIN chain' : chain'[i] = Periodic \/ (i \in DOMAIN chain /\ chain'[i] = chain[i])
  BY <1>1, <1>2
<1>4. TypeOK'
  BY <1>1, <1>3 DEF TypeOK
<1>5. FetchOK'
  BY <1>1, <1>3 DEF IInv, FetchOK, IsFetching
<1>6. Keeps(0) /\ Follows(0)
  BY <1>1, <1>2, <1>3 DEF Keeps, Pending, Follows
<1>. QED
  BY <1>1, <1>4, <1>5, <1>6, CalmKeeps

LEMMA ChangesKeep ==
  ASSUME IInv, NEW x \in Names, ServerChanges(x)
  PROVE  IInv'
<1>1. /\ TypeOK /\ log \in Seq(Names) /\ log' = Append(log, x) /\ Len(log) < MaxChanges
      /\ Len(log) \in Nat /\ MaxChanges \in Nat
      /\ UNCHANGED <<cn, version, worker, chain, request, startingUp, failures, setBack>>
  BY DefinitionsAssumption DEF IInv, ServerChanges, TypeOK
<1>2. /\ log' \in Seq(Names) /\ Len(log') = Len(log) + 1 /\ Len(log') <= MaxChanges
      /\ log'[Len(log) + 1] = x
      /\ \A i \in 1..Len(log) : log'[i] = log[i] /\ i \in 1..Len(log')
  BY <1>1
<1>3. TypeOK'
  BY <1>1, <1>2 DEF TypeOK
<1>4. /\ cn \in [Kinds -> 0..MaxChanges] /\ version \in [Names -> 0..MaxChanges]
      /\ \A k \in Kinds : cn[k] <= Len(log)
      /\ \A y \in Names : version[y] <= Len(log)
  BY <1>1 DEF IInv, TypeOK, CachesOK
<1>5. Grows
  <2>1. setBack \/ (~setBack /\ \A k \in Kinds : cn[k] <= cn'[k])
    BY <1>1, <1>4
  <2>. QED
    BY <1>1, <1>2, <2>1 DEF Grows
<1>6. PayloadsOK'
  <2>1. Keeps(0) /\ Follows(0)'
    BY <1>1 DEF Keeps, Pending, Follows
  <2>. QED
    BY <1>3, <1>5, <2>1, PayloadsStill
<1>7. LogOK'
  <2>1. ASSUME NEW n \in 1..Len(log'), log'[n] \in Flags, NEW r \in Uses[log'[n]]
        PROVE  \E j \in 1..(n - 1) : log'[j] = r
    <3>1. CASE n \in 1..Len(log)
      <4>1. PICK j \in 1..(n - 1) : log[j] = r
        BY <1>2, <2>1, <3>1 DEF IInv, LogOK
      <4>. QED
        BY <1>1, <1>2, <3>1, <4>1
    <3>2. CASE n = Len(log) + 1
      <4>. PICK m : m = LatestOf(r, Len(log))
        OBVIOUS
      <4>1. m > 0 /\ IsLatestOf(r, Len(log), m)
        BY <1>1, <1>2, <2>1, <3>2, LatestFacts DEF ServerChanges
      <4>2. m \in 1..Len(log) /\ log[m] = r
        BY <1>1, <4>1 DEF IsLatestOf
      <4>. QED
        BY <1>1, <1>2, <3>2, <4>2
    <3>. QED
      BY <1>1, <1>2, <3>1, <3>2
  <2>. QED
    BY <2>1 DEF LogOK
<1>8. FetchOK'
  <2>1. IsFetching' = IsFetching
    BY <1>1 DEF IsFetching
  <2>2. IsFetching => request.floor \in Nat
    BY <1>1 DEF TypeOK, IsFetching, Requests
  <2>. QED
    BY <1>1, <1>2, <2>1, <2>2 DEF IInv, FetchOK
<1>9. CachesOK'
  <2>1. ASSUME NEW k \in Kinds, cn[k] # 0
        PROVE  cn[k] <= Len(log') /\ KindOf(log'[cn[k]]) = k
    <3>1. cn[k] \in 1..Len(log) /\ KindOf(log[cn[k]]) = k
      BY <1>1, <1>4, <2>1 DEF IInv, CachesOK
    <3>. QED
      BY <1>1, <1>2, <3>1
  <2>2. ASSUME NEW y \in Names, version[y] # 0
        PROVE  version[y] <= Len(log') /\ log'[version[y]] = y
    <3>1. version[y] \in 1..Len(log) /\ log[version[y]] = y
      BY <1>1, <1>4, <2>2 DEF IInv, CachesOK
    <3>. QED
      BY <1>1, <1>2, <3>1
  <2>3. setBack \/ \A y \in Names : version[y] <= cn[KindOf(y)]
    BY DEF IInv, CachesOK
  <2>. QED
    BY <1>1, <2>1, <2>2, <2>3 DEF CachesOK
<1>10. ASSUME NEW n \in 1..Len(log'), n <= cn[KindOf(log'[n])]
       PROVE  n \in 1..Len(log) /\ log'[n] = log[n]
  <2>1. CASE n \in 1..Len(log)
    BY <1>2, <2>1
  <2>2. CASE n = Len(log) + 1
    <3>1. KindOf(x) \in Kinds
      BY DEF KindOf, Kinds
    <3>. QED
      BY <1>1, <1>2, <1>4, <1>10, <2>2, <3>1
  <2>. QED
    BY <1>1, <1>2, <2>1, <2>2
<1>11. Present'
  BY <1>1, <1>10 DEF IInv, Present
<1>12. NoLostChange'
  BY <1>1, <1>10 DEF IInv, NoLostChange, NothingWasMissed
<1>13. RefsResolved'
  BY <1>1 DEF IInv, RefsResolved
<1>. QED
  BY <1>3, <1>6, <1>7, <1>8, <1>9, <1>11, <1>12, <1>13 DEF IInv

LEMMA NextKeeps ==
  ASSUME IInv, [Next]_vars
  PROVE  IInv'
<1>1. CASE Begin
  BY <1>1, BeginKeeps
<1>2. ASSUME NEW v \in 0..Len(log), Answer(v) PROVE IInv'
  BY <1>2, AnswerKeeps
<1>3. CASE Fail
  BY <1>3, FailKeeps
<1>4. ASSUME NEW n \in 1..Len(log), NEW payload \in BOOLEAN, Notified(n, payload) PROVE IInv'
  BY <1>4, NotifiedKeeps
<1>5. ASSUME NEW k \in Kinds, BackoffFires(k) PROVE IInv'
  BY <1>5, BackoffKeeps
<1>6. CASE StopWorkers
  BY <1>6, StopKeeps
<1>7. CASE Poll
  BY <1>7, PollKeeps
<1>8. ASSUME NEW x \in Names, ServerChanges(x) PROVE IInv'
  BY <1>8, ChangesKeep
<1>9. CASE UNCHANGED vars
  <2>1. UNCHANGED <<log, cn, version, worker, chain, request, startingUp, failures, setBack>>
    BY <1>9 DEF vars
  <2>2. TypeOK'
    BY <2>1 DEF IInv, TypeOK
  <2>3. FetchOK'
    BY <2>1 DEF IInv, FetchOK, IsFetching
  <2>4. Keeps(0) /\ Follows(0)
    BY <2>1 DEF Keeps, Pending, Follows
  <2>. QED
    BY <2>1, <2>2, <2>3, <2>4, CalmKeeps
<1>. QED
  BY <1>1, <1>2, <1>3, <1>4, <1>5, <1>6, <1>7, <1>8, <1>9 DEF Next

LEMMA Invariance == Spec => []IInv
<1>1. Init => IInv
  BY InitInv
<1>2. IInv /\ [Next]_vars => IInv'
  BY NextKeeps
<1>. QED
  BY <1>1, <1>2, PTL DEF Spec

-----------------------------------------------------------------------------
\* Whatever the order of fetches, payloads, stale answers, retries and stops, no change
\* that a change number covers is missing from the cache, as long as no payload has set
\* a change number back (DefinitionsUpdateWorker, definitionChangesUpdater).
THEOREM ChangesCorrect == Spec => []NoLostChange
<1>1. IInv => NoLostChange
  BY DEF IInv
<1>. QED
  BY <1>1, Invariance, PTL

\* Every cached flag refers to cached rule-based segments, even when a change was lost:
\* definitionChangesUpdater takes a payload only if its segments are in the storage, and
\* no answer holds a flag without them.
THEOREM ReferencesCorrect == Spec => []RefsResolved
<1>1. IInv => RefsResolved
  BY DEF IInv
<1>. QED
  BY <1>1, Invariance, PTL
=============================================================================
