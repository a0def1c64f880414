------------------------- MODULE SyncManagerProofs -------------------------
(***************************************************************************)
(* The safety properties of SyncManager, for every set of keys, channels   *)
(* and outcomes and every bound: first what the functions of the push      *)
(* manager do to its state, then the steps of the sync manager.            *)
(***************************************************************************)
EXTENDS SyncManager, FiniteSetTheorems, SequenceTheorems, TLAPS

Quiet(p) ==
  /\ p.conn = "closed"
  /\ ~p.refresh /\ p.sseOpen = NoToken
  /\ ~p.backoff /\ p.attempts = 0

\* The keys of an authentication are those of the clients there were.
Known == {keys \in Token : IsFiniteSet(keys)}

\* A push manager that was never started or stopped has done nothing at all. The key of
\* the main client is registered while it runs, and after that only if disabled.
PushOK(p) ==
  /\ p \in Push
  /\ IsFiniteSet(p.clients)
  /\ p.auths \in Seq(Known)
  /\ p.disconnected = "yes" => Quiet(p)
  /\ p.disconnected = "undefined" => Quiet(p) /\ p.kicks = 0 /\ p.auths = <<>>
  /\ p.disabled => p.disconnected = "yes"
  /\ Main \in p.clients => ~ServerSide(p) /\ (IsRunning(p) \/ p.disabled)

\* An authentication that will not be found stale.
Current(p, keys) == ServerSide(p) \/ Cardinality(keys) >= Cardinality(p.clients)

\* OnItsWay for a reason that its own event will not take away: a reconnection that
\* will connect, an authentication that will be used.
Awake(p, polls) ==
  \/ polls
  \/ p.conn # "closed"
  \/ p.sseOpen # NoToken
  \/ p.backoff
  \/ p.kicks > 0 /\ (ServerSide(p) \/ p.newClient)
  \/ \E i \in 1..Len(p.auths) : Current(p, p.auths[i])

AlwaysAwake(p) == \A polls \in BOOLEAN : Awake(p, polls)

\* The inductive invariant. OneSource says nothing while a start waits for the cache, and
\* a manager that runs then must be on its way already, since `start` does nothing for it;
\* and OnItsWay may hold for a timer that comes to nothing.
IInv ==
  /\ TypeOK
  /\ PushOK(push)
  /\ ~running => ~polling /\ ~IsRunning(push)
  /\ push.disconnected = "undefined" => ~polling
  /\ IsRunning(push) => Awake(push, polling)
  /\ validating <= starts
  /\ push.disabled \/ IsRunning(push) => validating < starts
  /\ running /\ validating = 0 /\ ~IsRunning(push) => push.disabled /\ (polling \/ starts > 1)
  /\ push.conn = "open" /\ IsStreamingUp(keeper) => ~polling

-----------------------------------------------------------------------------
(* The push manager                                                         *)

LEMMA RemoveAtFacts ==
  ASSUME NEW T, NEW s \in Seq(T), NEW i \in 1..Len(s)
  PROVE  /\ RemoveAt(s, i) \in Seq(T)
         /\ Len(RemoveAt(s, i)) = Len(s) - 1
         /\ \A j \in 1..Len(s) : j # i => \E h \in 1..Len(RemoveAt(s, i)) : RemoveAt(s, i)[h] = s[j]
<1>. PICK a : a = SubSeq(s, 1, i-1)
  OBVIOUS
<1>. PICK b : b = SubSeq(s, i+1, Len(s))
  OBVIOUS
<1>0. Len(s) \in Nat /\ i \in Nat /\ i - 1 \in Int /\ i + 1 \in Int
      /\ (\A h \in 1..(i - 1) : s[h] \in T) /\ (\A h \in (i + 1)..Len(s) : s[h] \in T)
  BY LenProperties
<1>1a. /\ a \in Seq(T) /\ Len(a) = IF 1 <= i - 1 THEN i - 1 - 1 + 1 ELSE 0
       /\ \A h \in 1..(i - 1 - 1 + 1) : a[h] = s[1 + h - 1]
  BY <1>0, SubSeqProperties
<1>1b. /\ b \in Seq(T) /\ Len(b) = IF i + 1 <= Len(s) THEN Len(s) - (i + 1) + 1 ELSE 0
       /\ \A h \in 1..(Len(s) - (i + 1) + 1) : b[h] = s[i + 1 + h - 1]
  BY <1>0, SubSeqProperties
<1>1. /\ a \in Seq(T) /\ Len(a) = i - 1
      /\ b \in Seq(T) /\ Len(b) = Len(s) - i
  BY <1>0, <1>1a, <1>1b
<1>2. RemoveAt(s, i) = a \o b
  BY DEF RemoveAt
<1>3. /\ a \o b \in Seq(T) /\ Len(a \o b) = Len(s) - 1
      /\ \A h \in 1..(Len(s) - 1) : (a \o b)[h] = IF h <= i - 1 THEN a[h] ELSE b[h - (i - 1)]
  <2>1. /\ a \o b \in Seq(T) /\ Len(a \o b) = Len(a) + Len(b)
        /\ \A h \in 1..(Len(a) + Len(b)) : (a \o b)[h] = IF h <= Len(a) THEN a[h] ELSE b[h - Len(a)]
    BY <1>1, ConcatProperties
  <2>2. Len(a) + Len(b) = Len(s) - 1
    <3>1. \A n, h \in Int : h - 1 + (n - h) = n - 1
      OBVIOUS
    <3>2. Len(s) \in Int /\ i \in Int
      BY <1>0
    <3>3. i - 1 + (Len(s) - i) = Len(s) - 1
      BY <3>1, <3>2
    <3>. QED
      BY <1>1, <3>3, Zenon
  <2>. QED
    BY <1>1, <2>1, <2>2
<1>4. ASSUME NEW j \in 1..Len(s), j # i
      PROVE  \E h \in 1..Len(a \o b) : (a \o b)[h] = s[j]
  <2>1. CASE j < i
    <3>1. j \in 1..(Len(s) - 1) /\ j <= i - 1
      BY <1>0, <2>1
    <3>2. (a \o b)[j] = a[j]
      BY <1>3, <3>1
    <3>3. a[j] = s[1 + j - 1] /\ 1 + j - 1 = j
      BY <1>0, <1>1a, <3>1
    <3>. QED
      BY <1>3, <3>1, <3>2, <3>3
  <2>2. CASE j > i
    <3>1. j - 1 \in 1..(Len(s) - 1) /\ ~(j - 1 <= i - 1) /\ j - 1 - (i - 1) = j - i
          /\ j - i \in 1..(Len(s) - (i + 1) + 1) /\ i + 1 + (j - i) - 1 = j
      BY <1>0, <2>2
    <3>2. (a \o b)[j - 1] = b[j - i]
      BY <1>3, <3>1
    <3>3. b[j - i] = s[j]
      BY <1>1b, <3>1
    <3>. QED
      BY <1>3, <3>1, <3>2, <3>3
  <2>3. j < i \/ j > i
    BY <1>0, <1>4
  <2>. QED
    BY <2>1, <2>2, <2>3
<1>. QED
  BY <1>2, <1>3, <1>4

(* What a timer that fires leaves, before anything else.                   *)
LEMMA TimerFacts ==
  ASSUME NEW p, PushOK(p)
  PROVE  /\ PushOK([p EXCEPT !.refresh = FALSE])
         /\ PushOK([p EXCEPT !.backoff = FALSE])
         /\ PushOK([p EXCEPT !.sseOpen = NoToken])
         /\ PushOK([p EXCEPT !.newClient = FALSE])
         /\ p.kicks > 0 => PushOK([p EXCEPT !.kicks = @ - 1])
<1>1. PushOK([p EXCEPT !.refresh = FALSE])
  BY DEF PushOK, Push, Quiet, ServerSide, IsRunning
<1>2. PushOK([p EXCEPT !.backoff = FALSE])
  BY DEF PushOK, Push, Quiet, ServerSide, IsRunning
<1>3. PushOK([p EXCEPT !.sseOpen = NoToken])
  BY DEF PushOK, Push, Quiet, ServerSide, IsRunning
<1>4. PushOK([p EXCEPT !.newClient = FALSE])
  BY DEF PushOK, Push, Quiet, ServerSide, IsRunning
<1>5. ASSUME p.kicks > 0 PROVE PushOK([p EXCEPT !.kicks = @ - 1])
  <2>. PICK n : n = p.kicks - 1
    OBVIOUS
  <2>1. n \in Nat /\ p.disconnected # "undefined"
    BY <1>5 DEF PushOK, Push
  <2>2. PushOK([p EXCEPT !.kicks = n])
    BY <2>1 DEF PushOK, Push, Quiet, ServerSide, IsRunning
  <2>. QED
    BY <2>2
<1>. QED
  BY <1>1, <1>2, <1>3, <1>4, <1>5

LEMMA ConnectFacts ==
  ASSUME NEW p, PushOK(p), p.disconnected # "undefined", NEW q, q = ConnectPush(p)
  PROVE  /\ PushOK(q)
         /\ q.disconnected = p.disconnected /\ q.disabled = p.disabled /\ q.conn = p.conn
         /\ IsRunning(q) => AlwaysAwake(q)
<1>1. CASE p.disconnected = "yes"
  BY <1>1 DEF ConnectPush, IsRunning
<1>2. CASE p.disconnected # "yes"
  <2>1. p.disconnected = "no" /\ p.auths \in Seq(Token) /\ p.clients \in Token
    BY <1>2 DEF PushOK, Push
  <2>2. q = [p EXCEPT !.disconnected = "no", !.auths = Append(p.auths, p.clients)]
    BY <1>2 DEF ConnectPush
  <2>2a. p.clients \in Known /\ p.auths \in Seq(Known)
    BY <2>1 DEF PushOK, Known
  <2>2b. Append(p.auths, p.clients) \in Seq(Known)
    BY <2>2a
  <2>3. Append(p.auths, p.clients) \in Seq(Token)
        /\ Len(Append(p.auths, p.clients)) = Len(p.auths) + 1
        /\ Append(p.auths, p.clients)[Len(p.auths) + 1] = p.clients
    BY <2>1
  <2>4. q \in Push
    BY <2>2, <2>3 DEF PushOK, Push
  <2>5. /\ q.disconnected = "no" /\ q.clients = p.clients /\ q.disabled = p.disabled
        /\ q.conn = p.conn /\ q.side = p.side /\ q.auths = Append(p.auths, p.clients)
    BY <2>2 DEF PushOK, Push
  <2>6. PushOK(q)
    BY <2>1, <2>2b, <2>4, <2>5 DEF PushOK, ServerSide, IsRunning
  <2>7. Len(p.auths) + 1 \in 1..Len(q.auths) /\ Current(q, q.auths[Len(p.auths) + 1])
    <3>1. Cardinality(p.clients) \in Nat
      BY FS_CardinalityType DEF PushOK
    <3>. QED
      BY <2>1, <2>3, <2>5, <3>1 DEF Current
  <2>. QED
    BY <2>1, <2>5, <2>6, <2>7 DEF Awake, AlwaysAwake
<1>. QED
  BY <1>1, <1>2

LEMMA DisconnectFacts ==
  ASSUME NEW p, PushOK(p), NEW q, q = DisconnectPush(p)
  PROVE  /\ q \in Push /\ Quiet(q) /\ q.disconnected = "yes"
         /\ q.clients = p.clients /\ q.disabled = p.disabled /\ q.side = p.side
         /\ q.auths = p.auths
<1>1. CASE p.disconnected = "yes"
  BY <1>1 DEF DisconnectPush, PushOK
<1>2. CASE p.disconnected # "yes"
  <2>1. q = [p EXCEPT !.backoff = FALSE, !.attempts = 0, !.conn = "closed",
                      !.disconnected = "yes", !.refresh = FALSE, !.sseOpen = NoToken]
    BY <1>2 DEF DisconnectPush, CloseSse, ResetBackoff, PushOK, Push
  <2>2. 0 \in 0..MaxAttempts
    BY PushAssumption
  <2>3. q \in Push
    BY <2>1, <2>2 DEF PushOK, Push
  <2>4. Quiet(q) /\ q.disconnected = "yes" /\ q.clients = p.clients /\ q.disabled = p.disabled
        /\ q.side = p.side /\ q.auths = p.auths
    BY <2>1 DEF PushOK, Push, Quiet
  <2>. QED
    BY <2>3, <2>4
<1>. QED
  BY <1>1, <1>2

LEMMA StopFacts ==
  ASSUME NEW p, PushOK(p), NEW q, q = StopPush(p)
  PROVE  PushOK(q) /\ q.disconnected = "yes" /\ q.disabled = p.disabled
<1>. PICK d : d = DisconnectPush(p)
  OBVIOUS
<1>1. /\ d \in Push /\ Quiet(d) /\ d.disconnected = "yes"
      /\ d.clients = p.clients /\ d.disabled = p.disabled /\ d.side = p.side /\ d.auths = p.auths
  BY DisconnectFacts
<1>2. CASE ServerSide(p)
  <2>1. q = d
    BY <1>2 DEF StopPush
  <2>. QED
    BY <1>1, <1>2, <2>1 DEF PushOK, ServerSide
<1>3. CASE ~ServerSide(p)
  <2>1. q = [d EXCEPT !.clients = @ \ {Main}]
    BY <1>3 DEF StopPush, RemoveKey
  <2>2. IsFiniteSet(d.clients \ {Main})
    BY <1>1, FS_RemoveElement DEF PushOK
  <2>3. q \in Push /\ q.clients = d.clients \ {Main} /\ q.disconnected = "yes"
        /\ q.disabled = d.disabled /\ Quiet(q) /\ q.auths = d.auths
    BY <1>1, <2>1 DEF Push, Token, Quiet
  <2>. QED
    BY <1>1, <2>2, <2>3 DEF PushOK
<1>. QED
  BY <1>2, <1>3

LEMMA NonRetryableFacts ==
  ASSUME NEW p, PushOK(p), NEW q, q = HandleNonRetryableError(p)
  PROVE  PushOK(q) /\ q.disconnected = "yes" /\ q.disabled /\ q.conn = "closed"
<1>. PICK d : d = DisconnectPush(p)
  OBVIOUS
<1>1. /\ d \in Push /\ Quiet(d) /\ d.disconnected = "yes"
      /\ d.clients = p.clients /\ d.disabled = p.disabled /\ d.side = p.side /\ d.auths = p.auths
  BY DisconnectFacts
<1>2. q = [d EXCEPT !.disabled = TRUE]
  BY DEF HandleNonRetryableError
<1>3. q \in Push /\ Quiet(q) /\ q.disconnected = "yes" /\ q.disabled /\ q.clients = p.clients
      /\ q.side = p.side /\ q.auths = p.auths
  BY <1>1, <1>2 DEF Push, Quiet
<1>. QED
  BY <1>3 DEF PushOK, Quiet, ServerSide

LEMMA RetryableFacts ==
  ASSUME NEW p, PushOK(p), IsRunning(p), NEW q, q = HandleRetryableError(p)
  PROVE  PushOK(q) /\ IsRunning(q) /\ q.backoff /\ q.conn = "closed" /\ q.disabled = p.disabled
<1>. PICK n : n = IF p.attempts < MaxAttempts THEN p.attempts + 1 ELSE p.attempts
  OBVIOUS
<1>1. n \in 0..MaxAttempts
  BY PushAssumption DEF PushOK, Push
<1>2. q = [p EXCEPT !.conn = "closed", !.backoff = TRUE, !.attempts = n]
  BY DEF HandleRetryableError, ScheduleCall, CloseSse, PushOK, Push
<1>. QED
  BY <1>1, <1>2 DEF PushOK, Push, IsRunning, ServerSide

Added(p, k, q) ==
  /\ PushOK(q)
  /\ q.disconnected = p.disconnected /\ q.disabled = p.disabled /\ q.conn = p.conn
  /\ k \notin p.clients /\ IsRunning(p) => AlwaysAwake(q)

LEMMA AddFacts ==
  ASSUME NEW p, PushOK(p), ~ServerSide(p), NEW k \in Key, k = Main => IsRunning(p)
  PROVE  Added(p, k, AddKey(p, k))
<1>. PICK q : q = AddKey(p, k)
  OBVIOUS
<1>1. CASE k \in p.clients
  BY <1>1 DEF AddKey, Added
<1>2. CASE k \notin p.clients
  <2>. PICK n : n = IF IsRunning(p) THEN p.kicks + 1 ELSE p.kicks
    OBVIOUS
  <2>1. n \in Nat /\ (IsRunning(p) => n > 0) /\ (~IsRunning(p) => n = p.kicks)
    BY DEF PushOK, Push
  <2>2. q = [p EXCEPT !.clients = @ \cup {k}, !.newClient = TRUE, !.kicks = n]
    BY <1>2 DEF AddKey
  <2>3. IsFiniteSet(p.clients \cup {k})
    BY FS_AddElement DEF PushOK
  <2>4. /\ q \in Push /\ q.clients = p.clients \cup {k} /\ q.newClient /\ q.kicks = n
        /\ q.disconnected = p.disconnected /\ q.disabled = p.disabled /\ q.conn = p.conn
        /\ q.refresh = p.refresh /\ q.sseOpen = p.sseOpen /\ q.backoff = p.backoff
        /\ q.attempts = p.attempts /\ q.auths = p.auths /\ q.side = p.side
    <3>1. p.clients \cup {k} \in Token
      BY DEF PushOK, Push, Token
    <3>2. q \in Push
      BY <2>1, <2>2, <3>1 DEF PushOK, Push
    <3>. QED
      BY <2>2, <3>2 DEF PushOK, Push
  <2>. QED
    BY <1>2, <2>1, <2>3, <2>4 DEF PushOK, Quiet, IsRunning, ServerSide, Awake,
                                     AlwaysAwake, Added
<1>. QED
  BY <1>1, <1>2

LEMMA StartFacts ==
  ASSUME NEW p, PushOK(p), NEW q, q = StartPush(p)
  PROVE  /\ PushOK(q) /\ q.disabled = p.disabled /\ q.conn = p.conn
         /\ p.disabled \/ IsRunning(p) => q = p
         /\ ~p.disabled => IsRunning(q)
         /\ ~p.disabled /\ ~IsRunning(p) => AlwaysAwake(q)
<1>1. CASE p.disabled \/ IsRunning(p)
  BY <1>1 DEF StartPush
<1>2. CASE ~p.disabled /\ ~IsRunning(p)
  <2>. PICK d : d = [p EXCEPT !.disconnected = "no"]
    OBVIOUS
  <2>1. /\ d \in Push /\ d.disconnected = "no" /\ d.clients = p.clients /\ d.disabled = p.disabled
        /\ d.conn = p.conn /\ d.side = p.side /\ d.kicks = p.kicks /\ d.auths = p.auths
    BY DEF PushOK, Push
  <2>2. PushOK(d) /\ Main \notin d.clients
    BY <1>2, <2>1 DEF PushOK, ServerSide, IsRunning
  <2>3. CASE ServerSide(p)
    <3>1. q = [d EXCEPT !.kicks = @ + 1]
      BY <1>2, <2>3 DEF StartPush
    <3>2. /\ q \in Push /\ q.kicks > 0 /\ q.side = d.side /\ q.disconnected = "no"
          /\ q.clients = d.clients /\ q.disabled = d.disabled /\ q.conn = d.conn
          /\ q.auths = d.auths
      <4>. PICK n : n = d.kicks + 1
        OBVIOUS
      <4>1. n \in Nat /\ n > 0
        BY <2>1 DEF Push
      <4>2. q = [d EXCEPT !.kicks = n]
        BY <3>1
      <4>3. q \in Push
        BY <2>1, <4>1, <4>2 DEF Push
      <4>. QED
        BY <2>1, <4>1, <4>2 DEF Push
    <3>. QED
      BY <1>2, <2>1, <2>2, <2>3, <3>2 DEF PushOK, IsRunning, ServerSide, Awake, AlwaysAwake
  <2>4. CASE ~ServerSide(p)
    <3>1. q = AddKey(d, Main)
      BY <1>2, <2>4 DEF StartPush
    <3>2. ~ServerSide(d) /\ IsRunning(d) /\ Main \in Key
      BY <2>1, <2>4, PushAssumption DEF ServerSide, IsRunning
    <3>3. /\ PushOK(q) /\ q.disconnected = "no" /\ q.disabled = d.disabled /\ q.conn = d.conn
          /\ AlwaysAwake(q)
      <4>1. Added(d, Main, q)
        BY <2>2, <3>1, <3>2, AddFacts
      <4>. QED
        BY <2>1, <2>2, <3>2, <4>1 DEF Added
    <3>. QED
      BY <1>2, <2>1, <3>3 DEF IsRunning
  <2>. QED
    BY <2>3, <2>4
<1>. QED
  BY <1>1, <1>2

LEMMA RemoveFacts ==
  ASSUME NEW p, PushOK(p), NEW k \in Key, NEW b \in BOOLEAN, NEW q, q = RemoveKey(p, k)
  PROVE  /\ PushOK(q)
         /\ q.disconnected = p.disconnected /\ q.disabled = p.disabled /\ q.conn = p.conn
         /\ Awake(p, b) => Awake(q, b)
<1>1. q = [p EXCEPT !.clients = @ \ {k}]
  BY DEF RemoveKey
<1>2. /\ q \in Push /\ q.clients = p.clients \ {k} /\ q.newClient = p.newClient /\ q.kicks = p.kicks
      /\ q.disconnected = p.disconnected /\ q.disabled = p.disabled /\ q.conn = p.conn
      /\ q.refresh = p.refresh /\ q.sseOpen = p.sseOpen /\ q.backoff = p.backoff
      /\ q.attempts = p.attempts /\ q.auths = p.auths /\ q.side = p.side
  BY <1>1 DEF PushOK, Push, Token
<1>3. IsFiniteSet(q.clients) /\ Cardinality(q.clients) <= Cardinality(p.clients)
      /\ Cardinality(q.clients) \in Nat /\ Cardinality(p.clients) \in Nat
  <2>1. IsFiniteSet(p.clients) /\ q.clients \subseteq p.clients
    BY <1>2 DEF PushOK
  <2>. QED
    BY <2>1, FS_Subset, FS_CardinalityType
<1>4. PushOK(q)
  BY <1>2, <1>3 DEF PushOK, Quiet, IsRunning, ServerSide
<1>5. ASSUME NEW i \in 1..Len(p.auths), Current(p, p.auths[i]) PROVE Current(q, q.auths[i])
  <2>1. IsFiniteSet(p.auths[i])
    BY DEF PushOK, Known
  <2>2. Cardinality(p.auths[i]) \in Nat
    BY <2>1, FS_CardinalityType
  <2>. QED
    BY <1>2, <1>3, <1>5, <2>2 DEF Current, ServerSide
<1>. QED
  BY <1>2, <1>4, <1>5 DEF Awake, ServerSide

LEMMA KickFacts ==
  ASSUME NEW p, PushOK(p), p.kicks > 0, NEW b \in BOOLEAN, NEW q, q = Kick(p)
  PROVE  /\ PushOK(q)
         /\ q.disconnected = p.disconnected /\ q.disabled = p.disabled /\ q.conn = p.conn
         /\ IsRunning(p) /\ Awake(p, b) => Awake(q, b)
<1>. PICK r : r = [p EXCEPT !.kicks = @ - 1]
  OBVIOUS
<1>. PICK t : t = [r EXCEPT !.newClient = FALSE]
  OBVIOUS
<1>0. PushOK(r)
  BY TimerFacts
<1>1. /\ PushOK(r) /\ r.disconnected = p.disconnected /\ r.disabled = p.disabled /\ r.conn = p.conn
      /\ r.side = p.side /\ r.newClient = p.newClient /\ r.sseOpen = p.sseOpen
      /\ r.backoff = p.backoff /\ r.auths = p.auths /\ r.clients = p.clients
      /\ r.disconnected # "undefined"
  BY <1>0 DEF PushOK, Push
<1>2a. PushOK(t)
  BY <1>0, TimerFacts
<1>2. /\ PushOK(t) /\ t.disconnected = p.disconnected /\ t.disabled = p.disabled /\ t.conn = p.conn
  BY <1>1, <1>2a DEF PushOK, Push
<1>3. CASE ServerSide(p)
  <2>1. q = ConnectPush(r)
    BY <1>3 DEF Kick
  <2>. QED
    BY <1>1, <2>1, ConnectFacts DEF IsRunning, AlwaysAwake
<1>4. CASE ~ServerSide(p) /\ p.newClient
  <2>1. q = ConnectPush(t)
    BY <1>1, <1>4 DEF Kick
  <2>2. /\ PushOK(q)
        /\ q.disconnected = t.disconnected /\ q.disabled = t.disabled /\ q.conn = t.conn
        /\ IsRunning(q) => AlwaysAwake(q)
    BY <1>1, <1>2, <2>1, ConnectFacts
  <2>. QED
    BY <1>2, <2>2 DEF IsRunning, AlwaysAwake
<1>5. CASE ~ServerSide(p) /\ ~p.newClient
  <2>1. q = r
    BY <1>1, <1>5 DEF Kick
  <2>. QED
    BY <1>1, <1>5, <2>1 DEF Awake, Current, ServerSide
<1>. QED
  BY <1>3, <1>4, <1>5

(* A response takes its authentication away.                               *)
LEMMA ResponseFacts ==
  ASSUME NEW p, PushOK(p), NEW i \in 1..Len(p.auths), NEW b \in BOOLEAN,
         NEW q, q = [p EXCEPT !.auths = RemoveAt(p.auths, i)]
  PROVE  /\ PushOK(q)
         /\ q.disconnected = p.disconnected /\ q.disabled = p.disabled /\ q.conn = p.conn
         /\ q.clients = p.clients /\ q.side = p.side
         /\ Awake(p, b) /\ ~Current(p, p.auths[i]) => Awake(q, b)
<1>. PICK s : s = RemoveAt(p.auths, i)
  OBVIOUS
<1>0. p.auths \in Seq(Known) /\ p.auths \in Seq(Token)
  BY DEF PushOK, Push
<1>1. /\ s \in Seq(Known) /\ s \in Seq(Token)
      /\ \A j \in 1..Len(p.auths) : j # i => \E h \in 1..Len(s) : s[h] = p.auths[j]
  BY <1>0, RemoveAtFacts
<1>2. /\ q \in Push /\ q.auths = s /\ q.clients = p.clients /\ q.newClient = p.newClient
      /\ q.disconnected = p.disconnected /\ q.disabled = p.disabled /\ q.conn = p.conn
      /\ q.refresh = p.refresh /\ q.sseOpen = p.sseOpen /\ q.backoff = p.backoff
      /\ q.attempts = p.attempts /\ q.kicks = p.kicks /\ q.side = p.side
  BY <1>1 DEF PushOK, Push
<1>3. p.auths # <<>>
  BY <1>0
<1>4. PushOK(q)
  BY <1>1, <1>2, <1>3 DEF PushOK, Quiet, IsRunning, ServerSide
<1>5. ASSUME NEW j \in 1..Len(p.auths), Current(p, p.auths[j]), ~Current(p, p.auths[i])
      PROVE  \E h \in 1..Len(q.auths) : Current(q, q.auths[h])
  <2>1. j # i
    BY <1>5
  <2>2. PICK h \in 1..Len(s) : s[h] = p.auths[j]
    BY <1>1, <2>1
  <2>. QED
    BY <1>2, <1>5, <2>2 DEF Current, ServerSide
<1>. QED
  BY <1>2, <1>4, <1>5 DEF Awake, ServerSide

(* What the handlers of the keeper announce is what will pass.             *)
Announced(k, next, event) ==
  /\ next \in Keeper
  /\ event \in Event
  /\ event = "none" => (IsStreamingUp(next) <=> IsStreamingUp(k))
  /\ event = "PUSH_SUBSYSTEM_DOWN" => ~IsStreamingUp(next)

LEMMA OccupancyFacts ==
  ASSUME NEW k \in Keeper, NEW c \in Channel, NEW n \in 0..1, NEW o, o = Occupancy(k, c, n)
  PROVE  Announced(k, o.next, o.event)
<1> DEFINE now == \E d \in Channel : [k.publishers EXCEPT ![c] = n # 0][d]
<1>1. [k.publishers EXCEPT ![c] = n # 0] \in [Channel -> BOOLEAN]
  BY DEF Keeper
<1>2. /\ o.next =
           [k EXCEPT !.publishers = [k.publishers EXCEPT ![c] = n # 0], !.hasPublishers = now]
      /\ o.event =
           CASE k.hasResumed /\ k.hasPublishers /\ ~now -> "PUSH_SUBSYSTEM_DOWN"
             [] k.hasResumed /\ ~k.hasPublishers /\ now -> "PUSH_SUBSYSTEM_UP"
             [] OTHER -> "none"
  BY DEF Occupancy
<1>3. now \in BOOLEAN
  OBVIOUS
<1> HIDE DEF now
<1>4. o.next \in Keeper /\ o.next.hasPublishers = now /\ o.next.hasResumed = k.hasResumed
  BY <1>1, <1>2, <1>3 DEF Keeper
<1>5. k.hasResumed \in BOOLEAN /\ k.hasPublishers \in BOOLEAN
  BY DEF Keeper
<1>. QED
  BY <1>2, <1>3, <1>4, <1>5 DEF IsStreamingUp, Announced, Event

LEMMA ControlFacts ==
  ASSUME NEW k \in Keeper, NEW ctl \in Control, NEW o, o = ControlEvent(k, ctl)
  PROVE  Announced(k, o.next, o.event)
  BY DEF ControlEvent, Keeper, Control, Event, IsStreamingUp, Announced

-----------------------------------------------------------------------------
(* The sync manager                                                         *)

\* What a running push manager may become, and what one that does not run stays.
Follows(q, polls) ==
  IF IsRunning(push)
  THEN \/ IsRunning(q) /\ q.disabled = push.disabled /\ Awake(q, polls)
       \/ q.disconnected = "yes" /\ q.disabled /\ polls
  ELSE q.disconnected = push.disconnected /\ q.disabled = push.disabled /\ polls = polling

LEMMA PushStep ==
  ASSUME IInv, UNCHANGED sync, PushOK(push'), keeper' \in Keeper,
         polling' \in BOOLEAN, stale' \in BOOLEAN, Follows(push', polling'),
         (push.conn = "open" /\ IsStreamingUp(keeper) => ~polling)'
  PROVE  IInv'
<1>1. TypeOK'
  BY DEF IInv, TypeOK, sync, PushOK
<1>2. UNCHANGED <<running, starts, validating>>
  BY DEF sync
<1>3. CASE IsRunning(push)
  BY <1>1, <1>2, <1>3 DEF IInv, Follows, IsRunning
<1>4. CASE ~IsRunning(push)
  BY <1>1, <1>2, <1>4 DEF IInv, Follows, IsRunning
<1>. QED
  BY <1>3, <1>4

\* A step of the push manager alone.
LEMMA SilentStep ==
  ASSUME IInv, UNCHANGED sync, UNCHANGED keeper, NEW q, Silent(q), PushOK(q),
         q.disconnected = push.disconnected, q.disabled = push.disabled,
         IsRunning(push) => Awake(q, polling),
         q.conn = "open" => push.conn = "open"
  PROVE  IInv'
<1>1. push' = q /\ UNCHANGED <<polling, stale, keeper>>
  BY DEF Silent
<1>2. keeper' \in Keeper /\ polling' \in BOOLEAN /\ stale' \in BOOLEAN
  BY <1>1 DEF IInv, TypeOK
<1>3. Follows(push', polling')
  BY <1>1 DEF Follows, IsRunning
<1>4. (push.conn = "open" /\ IsStreamingUp(keeper) => ~polling)'
  BY <1>1 DEF IInv
<1>. QED
  BY <1>1, <1>2, <1>3, <1>4, PushStep

LEMMA NonRetryableKeeps ==
  ASSUME IInv, UNCHANGED sync, keeper' \in Keeper, NEW p, PushOK(p), IsRunning(push),
         NonRetryable(p)
  PROVE  IInv'
<1>1. push' = HandleNonRetryableError(p) /\ polling' = TRUE /\ stale' \in BOOLEAN
  BY DEF NonRetryable, Down, IInv, TypeOK
<1>2. PushOK(push') /\ push'.disconnected = "yes" /\ push'.disabled /\ push'.conn = "closed"
  BY <1>1, NonRetryableFacts
<1>3. Follows(push', polling')
  BY <1>1, <1>2 DEF Follows
<1>4. (push.conn = "open" /\ IsStreamingUp(keeper) => ~polling)'
  BY <1>2
<1>. QED
  BY <1>1, <1>2, <1>3, <1>4, PushStep

LEMMA RetryableKeeps ==
  ASSUME IInv, UNCHANGED sync, UNCHANGED keeper, NEW p, PushOK(p), IsRunning(push), IsRunning(p),
         p.disabled = push.disabled, Retryable(p)
  PROVE  IInv'
<1>1. push' = HandleRetryableError(p) /\ polling' = TRUE /\ stale' \in BOOLEAN /\ keeper' \in Keeper
  BY DEF Retryable, Down, IInv, TypeOK
<1>2. PushOK(push') /\ IsRunning(push') /\ push'.backoff /\ push'.conn = "closed"
      /\ push'.disabled = p.disabled
  BY <1>1, RetryableFacts
<1>3. Follows(push', polling')
  BY <1>2 DEF Follows, Awake
<1>4. (push.conn = "open" /\ IsStreamingUp(keeper) => ~polling)'
  BY <1>2
<1>. QED
  BY <1>1, <1>2, <1>3, <1>4, PushStep

\* A connection that opens or is said to be up.
LEMMA UpKeeps ==
  ASSUME IInv, UNCHANGED sync, keeper' \in Keeper, NEW p, PushOK(p), IsRunning(push), IsRunning(p),
         p.disabled = push.disabled, p.conn # "closed", Up(p)
  PROVE  IInv'
<1>1. push' = [p EXCEPT !.backoff = FALSE, !.attempts = 0] /\ polling' = FALSE /\ stale' = FALSE
  BY DEF Up, HandleUp, ResetBackoff
<1>2. 0 \in 0..MaxAttempts
  BY PushAssumption
<1>3. PushOK(push') /\ IsRunning(push') /\ push'.disabled = p.disabled /\ push'.conn # "closed"
  BY <1>1, <1>2 DEF PushOK, Push, IsRunning, ServerSide
<1>4. Follows(push', polling')
  BY <1>3 DEF Follows, Awake
<1>. QED
  BY <1>1, <1>3, <1>4, PushStep

\* What is connected runs.
LEMMA BusyRuns ==
  ASSUME IInv,
         \/ push.conn # "closed"
         \/ push.sseOpen # NoToken
         \/ push.backoff
         \/ push.refresh
         \/ push.disconnected # "yes" /\ push.auths # <<>>
  PROVE  IsRunning(push)
  BY DEF IInv, PushOK, Push, Quiet, IsRunning

LEMMA DispatchKeeps ==
  ASSUME IInv, UNCHANGED sync, push.conn = "open", NEW event, Announced(keeper, keeper', event),
         Dispatch(event, push)
  PROVE  IInv'
<1>1. IsRunning(push) /\ PushOK(push) /\ keeper' \in Keeper /\ Awake(push, FALSE) /\ Awake(push, TRUE)
  BY BusyRuns DEF IInv, Announced, Awake
<1>2. CASE event = "PUSH_SUBSYSTEM_UP"
  BY <1>1, <1>2, UpKeeps DEF Dispatch
<1>3. CASE event = "PUSH_NONRETRYABLE_ERROR"
  BY <1>1, <1>3, NonRetryableKeeps DEF Dispatch
<1>4. CASE event = "PUSH_SUBSYSTEM_DOWN"
  <2>1. push' = push /\ polling' = TRUE /\ stale' \in BOOLEAN
    BY <1>4 DEF Dispatch, Down, IInv, TypeOK
  <2>2. Follows(push', polling')
    BY <1>1, <2>1 DEF Follows
  <2>3. (push.conn = "open" /\ IsStreamingUp(keeper) => ~polling)'
    BY <1>4 DEF Announced, IsStreamingUp
  <2>. QED
    BY <1>1, <2>1, <2>2, <2>3, PushStep
<1>5. CASE event = "none"
  <2>1. push' = push /\ UNCHANGED <<polling, stale>>
    BY <1>5 DEF Dispatch, Silent
  <2>2. polling' \in BOOLEAN /\ stale' \in BOOLEAN
    BY <2>1 DEF IInv, TypeOK
  <2>3. Follows(push', polling')
    BY <1>1, <2>1, <2>2 DEF Follows
  <2>4. (push.conn = "open" /\ IsStreamingUp(keeper) => ~polling)'
    BY <1>5, <2>1 DEF Announced, IsStreamingUp, IInv
  <2>. QED
    BY <1>1, <2>1, <2>2, <2>3, <2>4, PushStep
<1>. QED
  BY <1>2, <1>3, <1>4, <1>5 DEF Announced, Event

-----------------------------------------------------------------------------
LEMMA InitIInv == Init => IInv
<1> SUFFICES ASSUME Init PROVE IInv
  OBVIOUS
<1>. PICK side \in Side : push = InitPush(side)
  BY DEF Init
<1>1. push \in Push /\ push.auths \in Seq(Known) /\ IsFiniteSet(push.clients)
  <2>1. 0 \in 0..MaxAttempts /\ <<>> \in Seq(Token) /\ <<>> \in Seq(Known) /\ {} \in Token
    BY PushAssumption DEF Token
  <2>2. IsFiniteSet({})
    BY FS_EmptySet
  <2>. QED
    BY <2>1, <2>2 DEF InitPush, Push
<1>2. PushOK(push)
  BY <1>1 DEF PushOK, Quiet, InitPush, IsRunning, ServerSide
<1>3. TypeOK
  <2>1. 0 \in 0..MaxStarts
    BY SyncManagerAssumption
  <2>2. keeper \in Keeper
    BY DEF Init, InitKeeper, Keeper
  <2>. QED
    BY <1>1, <2>1, <2>2 DEF Init, TypeOK
<1>. QED
  BY <1>2, <1>3 DEF Init, IInv, InitPush, IsRunning

LEMMA SyncStartKeeps == ASSUME IInv, SyncStart PROVE IInv'
<1>0. MaxStarts \in Nat
  BY SyncManagerAssumption
<1>1. starts \in Nat /\ validating \in Nat /\ validating <= starts /\ starts < MaxStarts
  BY <1>0 DEF IInv, TypeOK, SyncStart
<1>2. /\ starts' = starts + 1 /\ validating' = validating + 1 /\ running' = TRUE
      /\ UNCHANGED <<startFirstTime, polling, push, keeper, stale>>
  BY DEF SyncStart
<1>3. /\ starts' \in 0..MaxStarts /\ validating' \in 0..MaxStarts /\ validating' <= starts'
      /\ validating' # 0 /\ (validating < starts => validating' < starts')
  BY <1>0, <1>1, <1>2
<1>4. TypeOK'
  BY <1>2, <1>3 DEF IInv, TypeOK
<1>. QED
  BY <1>2, <1>3, <1>4 DEF IInv

LEMMA CacheValidatedKeeps == ASSUME IInv, CacheValidated PROVE IInv'
<1>0. /\ MaxStarts \in Nat /\ validating \in 0..MaxStarts /\ starts \in 0..MaxStarts
      /\ validating > 0 /\ validating <= starts
      /\ validating' = validating - 1 /\ UNCHANGED <<running, starts, polling, keeper>>
  BY SyncManagerAssumption DEF IInv, TypeOK, CacheValidated
<1>1. /\ validating' \in 0..MaxStarts /\ validating' <= starts /\ validating' < starts
      /\ (validating' = 0 /\ validating < starts => starts > 1)
  BY <1>0
<1>2. CASE ~running
  <2>1. UNCHANGED <<startFirstTime, push, stale>>
    BY <1>2 DEF CacheValidated
  <2>. QED
    BY <1>0, <1>1, <1>2, <2>1 DEF IInv, TypeOK
<1>3. CASE running
  <2>1. startFirstTime' = FALSE /\ push' = StartPush(push) /\ stale' \in BOOLEAN
    BY <1>3 DEF CacheValidated, IInv, TypeOK
  <2>2. /\ PushOK(push') /\ push'.disabled = push.disabled /\ push'.conn = push.conn
        /\ push.disabled \/ IsRunning(push) => push' = push
        /\ ~push.disabled => IsRunning(push')
        /\ ~push.disabled /\ ~IsRunning(push) => AlwaysAwake(push')
    BY <2>1, StartFacts DEF IInv
  <2>3. TypeOK'
    BY <1>0, <1>1, <2>1, <2>2 DEF IInv, TypeOK, PushOK
  <2>4. CASE push.disabled \/ IsRunning(push)
    BY <1>0, <1>1, <1>3, <2>2, <2>3, <2>4 DEF IInv
  <2>5. CASE ~push.disabled /\ ~IsRunning(push)
    <3>1. IsRunning(push') /\ Awake(push', polling') /\ ~push'.disabled
      BY <2>2, <2>3, <2>5 DEF AlwaysAwake, TypeOK
    <3>. QED
      BY <1>0, <1>1, <1>3, <2>2, <2>3, <3>1 DEF IInv, IsRunning
  <2>. QED
    BY <2>4, <2>5
<1>. QED
  BY <1>2, <1>3

LEMMA SyncStopKeeps == ASSUME IInv, SyncStop PROVE IInv'
<1>1. /\ running' = FALSE /\ push' = StopPush(push) /\ polling' = FALSE
      /\ UNCHANGED <<startFirstTime, starts, validating, keeper, stale>>
  BY DEF SyncStop
<1>2. PushOK(push') /\ push'.disconnected = "yes" /\ push'.disabled = push.disabled
  BY <1>1, StopFacts DEF IInv
<1>3. TypeOK'
  BY <1>1, <1>2 DEF IInv, TypeOK, PushOK
<1>. QED
  BY <1>1, <1>2, <1>3 DEF IInv, IsRunning

LEMMA ClientsKeep ==
  ASSUME IInv, NEW k \in Key \ {Main}, AddClient(k) \/ RemoveClient(k)
  PROVE  IInv'
<1>0. PushOK(push) /\ polling \in BOOLEAN /\ (IsRunning(push) => Awake(push, polling))
  BY DEF IInv, TypeOK
<1>1. UNCHANGED <<sync, keeper>>
  BY DEF AddClient, RemoveClient, sync
<1>2. CASE AddClient(k)
  <2>1. Silent(AddKey(push, k)) /\ ~ServerSide(push) /\ k \notin push.clients /\ k # Main
    BY <1>2 DEF AddClient, Silent
  <2>2. Added(push, k, AddKey(push, k))
    BY <1>0, <2>1, AddFacts
  <2>. QED
    BY <1>0, <1>1, <2>1, <2>2, SilentStep DEF Added, AlwaysAwake
<1>3. CASE RemoveClient(k)
  <2>1. Silent(RemoveKey(push, k))
    BY <1>3 DEF RemoveClient, Silent
  <2>. PICK q : q = RemoveKey(push, k)
    OBVIOUS
  <2>2. /\ PushOK(q)
        /\ q.disconnected = push.disconnected /\ q.disabled = push.disabled /\ q.conn = push.conn
        /\ Awake(push, polling) => Awake(q, polling)
    BY <1>0, RemoveFacts
  <2>. QED
    BY <1>0, <1>1, <2>1, <2>2, SilentStep
<1>. QED
  BY <1>2, <1>3

LEMMA ReconnectKeeps == ASSUME IInv, Reconnect PROVE IInv'
<1>. PICK q : q = Kick(push)
  OBVIOUS
<1>1. /\ PushOK(push) /\ push.kicks > 0 /\ polling \in BOOLEAN /\ Silent(q)
      /\ (IsRunning(push) => Awake(push, polling)) /\ UNCHANGED sync /\ UNCHANGED keeper
  BY DEF IInv, TypeOK, Reconnect
<1>2. /\ PushOK(q)
      /\ q.disconnected = push.disconnected /\ q.disabled = push.disabled /\ q.conn = push.conn
      /\ IsRunning(push) /\ Awake(push, polling) => Awake(q, polling)
  BY <1>1, KickFacts
<1>. QED
  BY <1>1, <1>2, SilentStep

\* A connection that is attempted while the push manager runs.
LEMMA ConnectKeeps ==
  ASSUME IInv, UNCHANGED sync, UNCHANGED keeper, IsRunning(push), NEW p, PushOK(p),
         p.disconnected = push.disconnected, p.disabled = push.disabled, p.conn = push.conn,
         Silent(ConnectPush(p))
  PROVE  IInv'
<1>. PICK q : q = ConnectPush(p)
  OBVIOUS
<1>1. /\ PushOK(q)
      /\ q.disconnected = p.disconnected /\ q.disabled = p.disabled /\ q.conn = p.conn
      /\ IsRunning(q) => AlwaysAwake(q)
  BY ConnectFacts DEF IsRunning
<1>2. IsRunning(push) => Awake(q, polling)
  BY <1>1 DEF IsRunning, AlwaysAwake, IInv, TypeOK
<1>. QED
  BY <1>1, <1>2, SilentStep

LEMMA TimersKeep == ASSUME IInv, RefreshToken \/ Retry PROVE IInv'
<1>1. IsRunning(push) /\ PushOK(push) /\ UNCHANGED sync /\ UNCHANGED keeper
  BY BusyRuns DEF RefreshToken, Retry, IInv
<1>2. CASE RefreshToken
  <2>. PICK p : p = [push EXCEPT !.refresh = FALSE]
    OBVIOUS
  <2>1. PushOK(p)
    BY <1>1, TimerFacts
  <2>2. p.disconnected = push.disconnected /\ p.disabled = push.disabled /\ p.conn = push.conn
    BY <1>1 DEF PushOK, Push
  <2>3. Silent(ConnectPush(p))
    BY <1>2 DEF RefreshToken
  <2>. QED
    BY <1>1, <2>1, <2>2, <2>3, ConnectKeeps
<1>3. CASE Retry
  <2>. PICK p : p = [push EXCEPT !.backoff = FALSE]
    OBVIOUS
  <2>1. PushOK(p)
    BY <1>1, TimerFacts
  <2>2. p.disconnected = push.disconnected /\ p.disabled = push.disabled /\ p.conn = push.conn
    BY <1>1 DEF PushOK, Push
  <2>3. Silent(ConnectPush(p))
    BY <1>3 DEF Retry
  <2>. QED
    BY <1>1, <2>1, <2>2, <2>3, ConnectKeeps
<1>. QED
  BY <1>2, <1>3

LEMMA OpenConnectionKeeps == ASSUME IInv, OpenConnection PROVE IInv'
<1>. PICK p : p = [push EXCEPT !.sseOpen = NoToken]
  OBVIOUS
<1>. PICK token : token = push.sseOpen
  OBVIOUS
<1>. PICK q : q = [p EXCEPT !.conn = "connecting", !.token = token]
  OBVIOUS
<1>1. IsRunning(push) /\ PushOK(push) /\ UNCHANGED sync /\ UNCHANGED keeper
      /\ polling' = polling /\ stale' = stale /\ polling \in BOOLEAN /\ stale \in BOOLEAN
      /\ keeper \in Keeper
  BY BusyRuns DEF OpenConnection, IInv, TypeOK, Silent
<1>2. push' = q
  BY <1>1 DEF OpenConnection, Silent, OpenSse, IsRunning
<1>3. PushOK(p)
  BY <1>1, TimerFacts
<1>4. /\ PushOK(q) /\ IsRunning(q) /\ q.conn = "connecting" /\ q.disabled = push.disabled
  BY <1>1, <1>3 DEF PushOK, Push, IsRunning, ServerSide
<1>5. Follows(push', polling')
  BY <1>1, <1>2, <1>4 DEF Follows, Awake
<1>. QED
  BY <1>1, <1>2, <1>4, <1>5, PushStep

LEMMA AuthenticatedKeeps ==
  ASSUME IInv, NEW i \in 1..Len(push.auths), NEW outcome \in AuthOutcome, Authenticated(i, outcome)
  PROVE  IInv'
<1>. PICK p : p = [push EXCEPT !.auths = RemoveAt(push.auths, i)]
  OBVIOUS
<1>. PICK keys : keys = push.auths[i]
  OBVIOUS
<1>0. /\ PushOK(push) /\ polling \in BOOLEAN /\ (IsRunning(push) => Awake(push, polling))
      /\ UNCHANGED sync /\ UNCHANGED keeper /\ keeper \in Keeper
  BY DEF IInv, TypeOK, Authenticated
<1>1. /\ PushOK(p)
      /\ p.disconnected = push.disconnected /\ p.disabled = push.disabled /\ p.conn = push.conn
      /\ p.clients = push.clients /\ p.side = push.side
      /\ Awake(push, polling) /\ ~Current(push, keys) => Awake(p, polling)
  BY <1>0, ResponseFacts
<1>2. CASE p.disconnected = "yes"
  <2>1. Silent(p) /\ ~IsRunning(push)
    BY <1>1, <1>2 DEF Authenticated, IsRunning
  <2>. QED
    BY <1>0, <1>1, <2>1, SilentStep
<1>3. CASE p.disconnected # "yes"
  <2>1. IsRunning(push) /\ IsRunning(p) /\ push.auths \in Seq(Token)
    BY <1>0, <1>1, <1>3, BusyRuns DEF IsRunning, PushOK, Push
  <2>2. CASE outcome \in {"pushDisabled", "rejected"}
    <3>1. NonRetryable(p)
      BY <1>3, <2>2 DEF Authenticated
    <3>. QED
      BY <1>0, <1>1, <2>1, <3>1, NonRetryableKeeps
  <2>3. CASE outcome = "failed"
    <3>1. Retryable(p)
      BY <1>3, <2>3 DEF Authenticated
    <3>. QED
      BY <1>0, <1>1, <2>1, <3>1, RetryableKeeps
  <2>4. CASE outcome = "granted" /\ LacksNewClient(p, keys)
    <3>1. Silent(p)
      BY <1>3, <2>4 DEF Authenticated
    <3>2. keys \in Known /\ keys \in Token
      BY <1>0, <2>1 DEF PushOK
    <3>3. Cardinality(keys) \in Nat /\ Cardinality(push.clients) \in Nat
      BY <1>0, <3>2, FS_CardinalityType DEF PushOK, Known
    <3>4. ~Current(push, keys)
      BY <1>1, <2>4, <3>3 DEF LacksNewClient, Current, ServerSide
    <3>. QED
      BY <1>0, <1>1, <2>1, <3>1, <3>4, SilentStep
  <2>5. CASE outcome = "granted" /\ ~LacksNewClient(p, keys)
    <3>. PICK q : q = [p EXCEPT !.refresh = TRUE, !.sseOpen = keys]
      OBVIOUS
    <3>1. Silent(q)
      BY <1>3, <2>5 DEF Authenticated, ScheduleTokenRefreshAndSse
    <3>2. keys \in Token /\ keys # NoToken
      BY <2>1, PushAssumption DEF Token, NoToken
    <3>3. /\ PushOK(q) /\ IsRunning(q) /\ q.disabled = p.disabled /\ q.conn = p.conn
          /\ q.disconnected = p.disconnected /\ q.sseOpen # NoToken
      BY <1>1, <2>1, <3>2 DEF PushOK, Push, IsRunning, ServerSide
    <3>. QED
      BY <1>0, <1>1, <3>1, <3>3, SilentStep DEF Awake
  <2>. QED
    BY <2>2, <2>3, <2>4, <2>5, SyncManagerAssumption
<1>. QED
  BY <1>2, <1>3

LEMMA SseOpensKeeps == ASSUME IInv, SseOpens PROVE IInv'
<1>. PICK p : p = [push EXCEPT !.conn = "open"]
  OBVIOUS
<1>1. IsRunning(push) /\ PushOK(push) /\ UNCHANGED sync /\ UNCHANGED keeper /\ keeper \in Keeper
  BY BusyRuns DEF SseOpens, IInv, TypeOK
<1>2. PushOK(p) /\ IsRunning(p) /\ p.disabled = push.disabled /\ p.conn # "closed"
  BY <1>1 DEF PushOK, Push, IsRunning, ServerSide
<1>3. Up(p)
  BY DEF SseOpens
<1>. QED
  BY <1>1, <1>2, <1>3, UpKeeps

LEMMA SseErrorKeeps == ASSUME IInv, NEW kind, SseError(kind) PROVE IInv'
<1>1. IsRunning(push) /\ PushOK(push) /\ UNCHANGED sync /\ UNCHANGED keeper /\ keeper' \in Keeper
  BY BusyRuns DEF SseError, IInv, TypeOK
<1>2. CASE kind = "retryable"
  BY <1>1, <1>2, RetryableKeeps DEF SseError
<1>3. CASE kind # "retryable"
  BY <1>1, <1>3, NonRetryableKeeps DEF SseError
<1>. QED
  BY <1>2, <1>3

LEMMA SseOccupancyKeeps ==
  ASSUME IInv, NEW c \in Channel, NEW n \in 0..1, SseOccupancy(c, n)
  PROVE  IInv'
<1>. PICK o : o = Occupancy(keeper, c, n)
  OBVIOUS
<1>1. keeper' = o.next /\ Dispatch(o.event, push) /\ UNCHANGED sync /\ push.conn = "open"
  BY DEF SseOccupancy
<1>2. Announced(keeper, keeper', o.event)
  BY <1>1, OccupancyFacts DEF IInv, TypeOK
<1>. QED
  BY <1>1, <1>2, DispatchKeeps

LEMMA SseControlKeeps == ASSUME IInv, NEW ctl \in ControlSent, SseControl(ctl) PROVE IInv'
<1>0. UNCHANGED sync /\ push.conn = "open"
  BY DEF SseControl
<1>1. CASE ctl = "STREAMING_RESET"
  <2>. PICK p : p = [push EXCEPT !.refresh = FALSE]
    OBVIOUS
  <2>1. IsRunning(push) /\ PushOK(push) /\ UNCHANGED keeper
    BY <1>0, <1>1, BusyRuns DEF SseControl, IInv
  <2>2. PushOK(p)
    BY <2>1, TimerFacts
  <2>3. p.disconnected = push.disconnected /\ p.disabled = push.disabled /\ p.conn = push.conn
    BY <2>1 DEF PushOK, Push
  <2>4. Silent(ConnectPush(p))
    BY <1>1, <2>1 DEF SseControl, HandleStreamingReset, IsRunning
  <2>. QED
    BY <1>0, <2>1, <2>2, <2>3, <2>4, ConnectKeeps
<1>2. CASE ctl # "STREAMING_RESET"
  <2>. PICK o : o = ControlEvent(keeper, ctl)
    OBVIOUS
  <2>1. keeper' = o.next /\ Dispatch(o.event, push) /\ ctl \in Control
    BY <1>2, SyncManagerAssumption DEF SseControl
  <2>2. Announced(keeper, keeper', o.event)
    BY <2>1, ControlFacts DEF IInv, TypeOK
  <2>. QED
    BY <1>0, <2>1, <2>2, DispatchKeeps
<1>. QED
  BY <1>1, <1>2

LEMMA StaleKeeps == ASSUME IInv, ServerChanges \/ Poll \/ UNCHANGED vars PROVE IInv'
<1>1. UNCHANGED <<running, startFirstTime, starts, validating, polling, push, keeper>>
      /\ stale' \in BOOLEAN
  BY DEF ServerChanges, Poll, vars, sync, IInv, TypeOK
<1>. QED
  BY <1>1 DEF IInv, TypeOK

LEMMA Invariance == Spec => []IInv
<1>1. IInv /\ [Next]_vars => IInv'
  BY SyncStartKeeps, CacheValidatedKeeps, SyncStopKeeps, ClientsKeep, ReconnectKeeps,
     TimersKeep, OpenConnectionKeeps, AuthenticatedKeeps, SseOpensKeeps, SseErrorKeeps,
     SseOccupancyKeeps, SseControlKeeps, StaleKeeps DEF Next, Responds
<1>. QED
  BY InitIInv, <1>1, PTL DEF Spec

-----------------------------------------------------------------------------
(* Whatever responses, timers and starts from before are still to come, a  *)
(* stopped sync manager neither polls nor streams and a push manager that  *)
(* was stopped or disabled opens no connection, for any number of clients, *)
(* starts, authentications and reconnections in flight.                    *)
THEOREM QuietCorrect == Spec => []DisconnectedIsQuiet
<1>1. IInv => DisconnectedIsQuiet
  BY DEF IInv, PushOK, Quiet, DisconnectedIsQuiet
<1>. QED
  BY Invariance, <1>1, PTL

(* A sync manager that runs always polls, streams or is on its way to one  *)
(* of them, and never polls while streaming is up, whatever ends an        *)
(* authentication or a connection and whichever clients come and go.       *)
THEOREM OneSourceCorrect == Spec => []OneSource
<1>1. IInv => OneSource
  <2> SUFFICES ASSUME IInv, running, validating = 0, ~DisabledBefore PROVE OnItsWay
    BY DEF IInv, OneSource
  <2>1. CASE IsRunning(push)
    <3>1. Awake(push, polling) /\ push.auths \in Seq(Token)
      BY <2>1 DEF IInv, PushOK, Push
    <3>2. (\E i \in 1..Len(push.auths) : Current(push, push.auths[i])) => push.auths # <<>>
      BY <3>1
    <3>. QED
      BY <3>1, <3>2 DEF Awake, OnItsWay
  <2>2. CASE ~IsRunning(push)
    BY <2>2 DEF IInv, DisabledBefore, OnItsWay
  <2>. QED
    BY <2>1, <2>2
<1>. QED
  BY Invariance, <1>1, PTL
=============================================================================
