------------------------- MODULE NotificationsProofs -------------------------
(***************************************************************************)
(* The properties of Notifications, part by part, since a step of it is one *)
(* of a part and leaves the others alone: those of NotificationKeeper for   *)
(* every set of channels, messages and number of connections, those of      *)
(* Memberships for every set of clients, changes and retries.               *)
(***************************************************************************)
EXTENDS Notifications, WellFoundedInduction, TLAPS

KeeperTypeOK ==
  /\ occupancies \in [Channel -> [1..MaxTime -> 0..1]]
  /\ controls \in [Channel -> [1..MaxTime -> Control]]
  /\ delivered \in [Channel -> SUBSET (1..MaxTime)]
  /\ keeper \in Keeper
  /\ oTime \in [Channel -> 0..MaxTime]
  /\ cTime \in [Channel -> 0..MaxTime]
  /\ opens \in Nat
  /\ subsystem \in Event

\* The time that is compared is that of the latest message delivered.
TimeIsLatest(c) ==
  /\ delivered[c] = {} => oTime[c] = 0
  /\ delivered[c] # {} => oTime[c] \in delivered[c]
  /\ \A t \in delivered[c] : t <= oTime[c]

\* The presence kept is what the message of that time said.
PresenceOfTime(c) ==
  keeper.publishers[c] = (oTime[c] = 0 \/ occupancies[c][oTime[c]] # 0)

\* Before the first connection nothing has happened.
UnopenedIsInitial ==
  opens = 0 => keeper.hasResumed /\ keeper.hasPublishers /\ subsystem = "none"

\* The inductive invariant. PresenceIsLatest says nothing of the times that decide
\* which messages are news, and AnnouncedAsFiltered nothing of what the first
\* connection finds.
KeeperInv ==
  /\ KeeperTypeOK
  /\ \A c \in Channel : TimeIsLatest(c) /\ PresenceOfTime(c)
  /\ keeper.hasPublishers = \E c \in Channel : keeper.publishers[c]
  /\ UnopenedIsInitial
  /\ AnnouncedAsFiltered

(* Max is what its name says.                                              *)
LEMMA MaxIs ==
  ASSUME NEW T \in SUBSET Nat, NEW m \in T, \A t \in T : t <= m
  PROVE  Max(T) = m
<1>1. m \in T /\ \A t \in T : m >= t
  OBVIOUS
<1>2. \A n \in T : (\A t \in T : n >= t) => n = m
  OBVIOUS
<1>. QED
  BY <1>1, <1>2 DEF Max

-----------------------------------------------------------------------------
KeeperNext ==
  \/ HandleOpen
  \/ \E c \in Channel, t \in 1..MaxTime :
       HandleOccupancyEvent(c, t) \/ HandleControlEvent(c, t)

LEMMA KeeperStep == ASSUME [Next]_vars PROVE [KeeperNext]_keeperVars
  BY DEF Next, vars, KeeperNext, OfKeeper, OfWorkers, keeperVars

LEMMA KeeperInitInv == Init => KeeperInv
<1> SUFFICES ASSUME KeeperInit PROVE KeeperInv
  BY DEF Init
<1>1. KeeperTypeOK
  BY KeeperAssumption DEF KeeperInit, KeeperTypeOK, InitKeeper, Keeper, Event
<1>2. \A c \in Channel : TimeIsLatest(c) /\ PresenceOfTime(c)
  BY DEF KeeperInit, TimeIsLatest, PresenceOfTime, InitKeeper
<1>3. keeper.hasPublishers = \E c \in Channel : keeper.publishers[c]
  BY ChannelAssumption DEF KeeperInit, InitKeeper
<1>4. UnopenedIsInitial /\ AnnouncedAsFiltered
  BY DEF KeeperInit, InitKeeper, UnopenedIsInitial, AnnouncedAsFiltered, Connected
<1>. QED
  BY <1>1, <1>2, <1>3, <1>4 DEF KeeperInv

\* What the handler of an occupancy message returns.
OccupancyResult(k, c, n, o) ==
  /\ o.next \in Keeper
  /\ o.event \in {"PUSH_SUBSYSTEM_UP", "PUSH_SUBSYSTEM_DOWN", "none"}
  /\ o.next.publishers = [k.publishers EXCEPT ![c] = n # 0]
  /\ o.next.hasPublishers = \E d \in Channel : o.next.publishers[d]
  /\ o.event = "none" => (IsStreamingUp(o.next) <=> IsStreamingUp(k))
  /\ o.event # "none" => (o.event = "PUSH_SUBSYSTEM_UP" <=> IsStreamingUp(o.next))

(* What the two handlers of the keeper return.                             *)
LEMMA OccupancyFacts ==
  ASSUME NEW k \in Keeper, NEW c \in Channel, NEW n \in 0..1, NEW o, o = Occupancy(k, c, n)
  PROVE  OccupancyResult(k, c, n, o)
<1> DEFINE now == \E d \in Channel : [k.publishers EXCEPT ![c] = n # 0][d]
<1>1. [k.publishers EXCEPT ![c] = n # 0] \in [Channel -> BOOLEAN]
  BY DEF Keeper
<1>2. /\ o.next =
           [k EXCEPT !.publishers = [k.publishers EXCEPT ![c] = n # 0], !.hasPublishers = now]
      /\ o.event =
           CASE k.hasResumed /\ k.hasPublishers /\ ~now -> "PUSH_SUBSYSTEM_DOWN"
             [] k.hasResumed /\ ~k.hasPublishers /\ now -> "PUSH_SUBSYSTEM_UP"
             [] OTHER -> "none"
  BY DEF Occupancy
<1>3. now \in BOOLEAN
  OBVIOUS
<1> HIDE DEF now
<1>4. /\ o.next \in Keeper
      /\ o.next.publishers = [k.publishers EXCEPT ![c] = n # 0]
      /\ o.next.hasPublishers = now
      /\ o.next.hasResumed = k.hasResumed
  BY <1>1, <1>2, <1>3 DEF Keeper
<1>5. k.hasResumed \in BOOLEAN /\ k.hasPublishers \in BOOLEAN
  BY DEF Keeper
<1>6. now = \E d \in Channel : o.next.publishers[d]
  BY <1>4 DEF now
<1>. QED
  BY <1>2, <1>3, <1>4, <1>5, <1>6 DEF IsStreamingUp, OccupancyResult

LEMMA ControlFacts ==
  ASSUME NEW k \in Keeper, NEW ctl \in Control, NEW o, o = ControlEvent(k, ctl)
  PROVE  /\ o.next \in Keeper
         /\ o.event \in Event
         /\ o.next.publishers = k.publishers
         /\ o.next.hasPublishers = k.hasPublishers
         /\ o.event = "none" => (IsStreamingUp(o.next) <=> IsStreamingUp(k))
         /\ o.event \notin {"none", "PUSH_NONRETRYABLE_ERROR"} =>
              (o.event = "PUSH_SUBSYSTEM_UP" <=> IsStreamingUp(o.next))
  BY DEF ControlEvent, Keeper, Control, Event, IsStreamingUp

-----------------------------------------------------------------------------
LEMMA OpenKeeps == ASSUME KeeperInv, HandleOpen PROVE KeeperInv'
<1>1. KeeperTypeOK'
  BY DEF KeeperInv, KeeperTypeOK, HandleOpen, Emit, Event
<1>2. UNCHANGED <<occupancies, delivered, keeper, oTime>>
  BY DEF HandleOpen
<1>3. /\ \A c \in Channel : TimeIsLatest(c)' /\ PresenceOfTime(c)'
      /\ (keeper.hasPublishers = \E c \in Channel : keeper.publishers[c])'
  BY <1>2 DEF KeeperInv, TimeIsLatest, PresenceOfTime
<1>4. opens' # 0 /\ (opens' = 1 => opens = 0) /\ subsystem' = "PUSH_SUBSYSTEM_UP"
  BY DEF KeeperInv, KeeperTypeOK, HandleOpen, Emit
<1>5. UnopenedIsInitial' /\ AnnouncedAsFiltered'
  BY <1>2, <1>4 DEF KeeperInv, UnopenedIsInitial, AnnouncedAsFiltered, IsStreamingUp
<1>. QED
  BY <1>1, <1>3, <1>5 DEF KeeperInv

LEMMA OccupancyKeeps ==
  ASSUME KeeperInv, NEW c \in Channel, NEW t \in 1..MaxTime, HandleOccupancyEvent(c, t)
  PROVE  KeeperInv'
<1>. PICK n : n = occupancies[c][t]
  OBVIOUS
<1>. PICK o : o = Occupancy(keeper, c, n)
  OBVIOUS
<1>0. MaxTime \in Nat /\ KeeperTypeOK /\ Connected
  BY KeeperAssumption DEF KeeperInv, HandleOccupancyEvent
<1>1. n \in 0..1 /\ oTime[c] \in 0..MaxTime /\ keeper \in Keeper
  BY <1>0 DEF KeeperTypeOK
<1>2. delivered' = [delivered EXCEPT ![c] = @ \cup {t}] /\ UNCHANGED <<occupancies, controls, cTime, opens>>
  BY DEF HandleOccupancyEvent
<1>3. CASE ~(t > oTime[c])
  <2>1. UNCHANGED <<oTime, keeper, subsystem>>
    BY <1>3 DEF HandleOccupancyEvent, IsNewer
  <2>2. KeeperTypeOK'
    BY <1>0, <1>2, <2>1 DEF KeeperTypeOK
  <2>3. ASSUME NEW d \in Channel PROVE TimeIsLatest(d)' /\ PresenceOfTime(d)'
    BY <1>0, <1>1, <1>2, <1>3, <2>1, <2>3 DEF KeeperInv, KeeperTypeOK, TimeIsLatest, PresenceOfTime
  <2>. QED
    BY <1>2, <2>1, <2>2, <2>3 DEF KeeperInv, UnopenedIsInitial, AnnouncedAsFiltered, Connected
<1>4. CASE t > oTime[c]
  <2>1. /\ oTime' = [oTime EXCEPT ![c] = t]
        /\ keeper' = o.next
        /\ Emit(o.event)
    BY <1>4 DEF HandleOccupancyEvent, IsNewer
  <2>0. OccupancyResult(keeper, c, n, o)
    BY <1>1, OccupancyFacts
  <2>2. /\ o.next \in Keeper
        /\ o.event \in {"PUSH_SUBSYSTEM_UP", "PUSH_SUBSYSTEM_DOWN", "none"}
        /\ o.next.publishers = [keeper.publishers EXCEPT ![c] = n # 0]
        /\ o.next.hasPublishers = \E d \in Channel : o.next.publishers[d]
        /\ o.event = "none" => (IsStreamingUp(o.next) <=> IsStreamingUp(keeper))
        /\ o.event # "none" => (o.event = "PUSH_SUBSYSTEM_UP" <=> IsStreamingUp(o.next))
    BY <2>0 DEF OccupancyResult
  <2>3. KeeperTypeOK'
    BY <1>0, <1>1, <1>2, <2>1, <2>2 DEF KeeperTypeOK, Emit, Event
  <2>4. ASSUME NEW d \in Channel PROVE TimeIsLatest(d)'
    <3>1. TimeIsLatest(d) /\ delivered[d] \in SUBSET (1..MaxTime) /\ oTime[d] \in 0..MaxTime
      BY <1>0 DEF KeeperInv, KeeperTypeOK
    <3>2. CASE d # c
      BY <1>0, <1>2, <2>1, <3>1, <3>2 DEF KeeperTypeOK, TimeIsLatest
    <3>3. CASE d = c
      <4>1. delivered'[c] = delivered[c] \cup {t} /\ oTime'[c] = t
        BY <1>0, <1>2, <2>1 DEF KeeperTypeOK
      <4>. QED
        BY <1>0, <1>1, <1>4, <3>1, <3>3, <4>1 DEF TimeIsLatest
    <3>. QED
      BY <3>2, <3>3
  <2>5. ASSUME NEW d \in Channel PROVE PresenceOfTime(d)'
    <3>1. keeper.publishers \in [Channel -> BOOLEAN]
      BY <1>1 DEF Keeper
    <3>2. PresenceOfTime(d)
      BY DEF KeeperInv
    <3>. QED
      BY <1>0, <1>1, <1>2, <1>4, <2>1, <2>2, <3>1, <3>2 DEF KeeperTypeOK, PresenceOfTime
  <2>6. UnopenedIsInitial'
    BY <1>0, <1>2 DEF UnopenedIsInitial, Connected
  <2>7. AnnouncedAsFiltered'
    BY <1>0, <1>2, <2>1, <2>2 DEF KeeperInv, AnnouncedAsFiltered, Connected, Emit
  <2>. QED
    BY <2>1, <2>2, <2>3, <2>4, <2>5, <2>6, <2>7 DEF KeeperInv
<1>. QED
  BY <1>3, <1>4

LEMMA ControlKeeps ==
  ASSUME KeeperInv, NEW c \in Channel, NEW t \in 1..MaxTime, HandleControlEvent(c, t)
  PROVE  KeeperInv'
<1>. PICK o : o = ControlEvent(keeper, controls[c][t])
  OBVIOUS
<1>0. MaxTime \in Nat /\ KeeperTypeOK /\ Connected
  BY KeeperAssumption DEF KeeperInv, HandleControlEvent
<1>1. controls[c][t] \in Control /\ cTime[c] \in 0..MaxTime /\ keeper \in Keeper
  BY <1>0 DEF KeeperTypeOK
<1>2. UNCHANGED <<occupancies, controls, delivered, oTime, opens>>
  BY DEF HandleControlEvent
<1>3. CASE ~(t > cTime[c])
  <2>1. UNCHANGED <<cTime, keeper, subsystem>>
    BY <1>3 DEF HandleControlEvent, IsNewer
  <2>. QED
    BY <1>2, <2>1 DEF KeeperInv, KeeperTypeOK, TimeIsLatest, PresenceOfTime, UnopenedIsInitial,
                      AnnouncedAsFiltered, Connected
<1>4. CASE t > cTime[c]
  <2>1. /\ cTime' = [cTime EXCEPT ![c] = t]
        /\ keeper' = o.next
        /\ Emit(o.event)
    BY <1>4 DEF HandleControlEvent, IsNewer
  <2>2. /\ o.next \in Keeper
        /\ o.event \in Event
        /\ o.next.publishers = keeper.publishers
        /\ o.next.hasPublishers = keeper.hasPublishers
        /\ o.event = "none" => (IsStreamingUp(o.next) <=> IsStreamingUp(keeper))
        /\ o.event \notin {"none", "PUSH_NONRETRYABLE_ERROR"} =>
             (o.event = "PUSH_SUBSYSTEM_UP" <=> IsStreamingUp(o.next))
    BY <1>1, ControlFacts
  <2>3. KeeperTypeOK'
    BY <1>0, <1>1, <1>2, <2>1, <2>2 DEF KeeperTypeOK, Emit
  <2>4. \A d \in Channel : TimeIsLatest(d)' /\ PresenceOfTime(d)'
    BY <1>2, <2>1, <2>2 DEF KeeperInv, TimeIsLatest, PresenceOfTime
  <2>5. UnopenedIsInitial'
    BY <1>0, <1>2 DEF UnopenedIsInitial, Connected
  <2>6. AnnouncedAsFiltered'
    BY <1>0, <1>2, <2>1, <2>2 DEF KeeperInv, AnnouncedAsFiltered, Connected, Emit
  <2>. QED
    BY <2>1, <2>2, <2>3, <2>4, <2>5, <2>6 DEF KeeperInv
<1>. QED
  BY <1>3, <1>4

LEMMA StutterKeeps == ASSUME KeeperInv, UNCHANGED keeperVars PROVE KeeperInv'
  BY DEF KeeperInv, keeperVars, KeeperTypeOK, TimeIsLatest, PresenceOfTime, UnopenedIsInitial,
         AnnouncedAsFiltered, Connected

LEMMA KeeperInvariance == Spec => []KeeperInv
<1>1. KeeperInv /\ [Next]_vars => KeeperInv'
  BY KeeperStep, OpenKeeps, OccupancyKeeps, ControlKeeps, StutterKeeps DEF KeeperNext
<1>. QED
  BY KeeperInitInv, <1>1, PTL DEF Spec

-----------------------------------------------------------------------------
(* For any number of channels, messages, repetitions and connections, the  *)
(* presence kept is that of the latest message of each channel.            *)
THEOREM PresenceCorrect == Spec => []PresenceIsLatest
<1>1. KeeperInv => PresenceIsLatest
  <2> SUFFICES ASSUME KeeperInv, NEW c \in Channel
               PROVE  keeper.publishers[c] = \/ delivered[c] = {}
                                             \/ occupancies[c][Max(delivered[c])] # 0
    BY DEF KeeperInv, PresenceIsLatest
  <2>1. TimeIsLatest(c) /\ PresenceOfTime(c) /\ KeeperTypeOK /\ delivered[c] \in SUBSET (1..MaxTime)
    BY DEF KeeperInv, KeeperTypeOK
  <2>2. CASE delivered[c] = {}
    BY <2>1, <2>2 DEF TimeIsLatest, PresenceOfTime
  <2>3. CASE delivered[c] # {}
    <3>1. delivered[c] \in SUBSET Nat /\ oTime[c] \in delivered[c] /\ oTime[c] # 0
      BY <2>1, <2>3, KeeperAssumption DEF TimeIsLatest
    <3>2. Max(delivered[c]) = oTime[c]
      BY <2>1, <3>1, MaxIs DEF TimeIsLatest
    <3>. QED
      BY <2>1, <2>3, <3>1, <3>2 DEF PresenceOfTime
  <2>. QED
    BY <2>2, <2>3
<1>. QED
  BY KeeperInvariance, <1>1, PTL

(* Through the first connection, whatever messages it brings and in which  *)
(* order, the last event announced is UP exactly while updates pass.       *)
THEOREM AnnouncementsCorrect == Spec => []AnnouncedAsFiltered
<1>1. KeeperInv => AnnouncedAsFiltered
  BY DEF KeeperInv
<1>. QED
  BY KeeperInvariance, <1>1, PTL

-----------------------------------------------------------------------------
(* The workers of a client, whose events and timers MembershipsWorker has. *)
Clients == [work : [Kinds -> Workers], delay : BOOLEAN,
            armed : Timers \cup {NoTimer}, orphans : SUBSET Timers]

\* An event that is owed is being handled; what is handled is still to be reached.
Sound(w) ==
  /\ w.owed # 0 => w.handling
  /\ w.owed <= w.max
  /\ w.handling => w.max > w.current

Asked(t, calls) == \E i \in DOMAIN calls : calls[i].by = t
Waits(c, t)     == \E d \in c.orphans \cup {c.armed} : d.by = t

\* A worker that handles an event has an execution to come, or a timer.
Tended(c, t, queue) ==
  /\ Sound(c.work[t])
  /\ c.work[t].handling => Asked(t, queue) \/ c.work[t].timer \/ Waits(c, t)

\* What a function of the worker t returns, which leaves the other worker alone but
\* for timers, and the worker sound.
Acts(c, t, r) ==
  /\ r.client \in Clients /\ r.calls \in Seq(Tasks)
  /\ \A u \in Kinds \ {t} : r.client.work[u] = c.work[u] /\ (Waits(c, u) => Waits(r.client, u))
  /\ Sound(r.client.work[t])

\* A worker that is left handling is left with an execution or a timer.
Engages(t, r) ==
  r.client.work[t].handling =>
    Asked(t, r.calls) \/ r.client.work[t].timer \/ Waits(r.client, t)

LEMMA LargerFacts ==
  ASSUME NEW a \in Nat, NEW b \in Nat
  PROVE  /\ Larger(a, b) \in Nat /\ Larger(a, b) \in {a, b}
         /\ Larger(a, b) >= a /\ Larger(a, b) >= b
<1>1. CASE a <= b
  <2>1. Max({a, b}) = b
    BY <1>1, MaxIs
  <2>. QED
    BY <1>1, <2>1 DEF Larger
<1>2. CASE b < a
  <2>1. Max({a, b}) = a
    BY <1>2, MaxIs
  <2>. QED
    BY <1>2, <2>1 DEF Larger
<1>. QED
  BY <1>1, <1>2

LEMMA WithFacts ==
  ASSUME NEW c \in Clients, NEW t \in Kinds, NEW w \in Workers
  PROVE  /\ With(c, t, w) \in Clients
         /\ With(c, t, w).work[t] = w
         /\ \A u \in Kinds \ {t} : With(c, t, w).work[u] = c.work[u]
         /\ With(c, t, w).delay = c.delay
         /\ With(c, t, w).armed = c.armed /\ With(c, t, w).orphans = c.orphans
<1>. PICK f : f = [c.work EXCEPT ![t] = w]
  OBVIOUS
<1>1. c.work \in [Kinds -> Workers]
  BY DEF Clients
<1>2. f \in [Kinds -> Workers] /\ f[t] = w /\ \A u \in Kinds \ {t} : f[u] = c.work[u]
  BY <1>1
<1>3. With(c, t, w) = [c EXCEPT !.work = f]
  BY DEF With
<1>. QED
  BY <1>2, <1>3 DEF Clients

\* What a worker becomes, with no execution asked for.
LEMMA AloneActs ==
  ASSUME NEW c \in Clients, NEW t \in Kinds, NEW w \in Workers, Sound(w)
  PROVE  /\ Acts(c, t, Idle(With(c, t, w)))
         /\ Idle(With(c, t, w)).client.work[t] = w
         /\ Idle(With(c, t, w)).calls = << >>
<1>. PICK d : d = With(c, t, w)
  OBVIOUS
<1>1. /\ d \in Clients /\ d.work[t] = w /\ \A u \in Kinds \ {t} : d.work[u] = c.work[u]
      /\ d.armed = c.armed /\ d.orphans = c.orphans
  BY WithFacts
<1>2. Idle(d).client = d /\ Idle(d).calls = << >> /\ << >> \in Seq(Tasks)
  BY DEF Idle
<1>. QED
  BY <1>1, <1>2 DEF Acts, Waits

LEMMA LeaveFacts ==
  ASSUME NEW w \in Workers
  PROVE  /\ Leave(w) \in Workers /\ Sound(Leave(w))
         /\ ~Leave(w).handling /\ Leave(w).owed = 0
<1>. PICK l : l = Leave(w)
  OBVIOUS
<1>1. l \in Workers /\ ~l.handling /\ l.owed = 0
  BY DEF Leave, Workers
<1>2. 0 <= l.max
  BY <1>1 DEF Workers
<1>. QED
  BY <1>1, <1>2 DEF Sound

LEMMA ResetFacts ==
  ASSUME NEW w \in Workers
  PROVE  /\ ResetBackoff(w) \in Workers
         /\ \A p \in {ResetBackoff(w)} :
              /\ p.max = w.max /\ p.current = w.current /\ p.handling = w.handling
              /\ p.owed = w.owed /\ ~p.timer
         /\ [ResetBackoff(w) EXCEPT !.bypass = TRUE] \in Workers
         /\ \A p \in {[ResetBackoff(w) EXCEPT !.bypass = TRUE]} :
              /\ p.max = w.max /\ p.current = w.current /\ p.handling = w.handling
              /\ p.owed = w.owed
<1>. PICK p : p = ResetBackoff(w)
  OBVIOUS
<1>1. 0 \in 0..MaxRetries
  BY WorkerAssumption
<1>2. /\ p \in Workers /\ p.max = w.max /\ p.current = w.current /\ p.handling = w.handling
      /\ p.owed = w.owed /\ ~p.timer
  BY <1>1 DEF ResetBackoff, Workers
<1>. PICK b : b = [p EXCEPT !.bypass = TRUE]
  OBVIOUS
<1>3. /\ b \in Workers /\ b.max = p.max /\ b.current = p.current /\ b.handling = p.handling
      /\ b.owed = p.owed
  BY <1>2 DEF Workers
<1>. QED
  BY <1>2, <1>3

\* __handleMySegmentsUpdateCall leaves a worker done, or waiting without a backoff.
HandleResult(c, t, cn, r) ==
  /\ Acts(c, t, r)
  /\ r.client.work[t].handling => Asked(t, r.calls) \/ Waits(r.client, t)
  /\ r.client.work[t].owed # c.work[t].owed =>
       /\ c.work[t].max <= Larger(c.work[t].current, cn)
       /\ r.calls = << >>
  /\ c.work[t].max > Larger(c.work[t].current, cn) => r.client.work[t].handling

LEMMA HandleFacts ==
  ASSUME NEW c \in Clients, NEW t \in Kinds, NEW cn \in Nat,
         c.work[t].owed <= c.work[t].max
  PROVE  HandleResult(c, t, cn, Handle(c, t, cn))
<1>. PICK w : w = c.work[t]
  OBVIOUS
<1>. PICK busy : busy = [w EXCEPT !.handling = TRUE, !.newEvent = FALSE]
  OBVIOUS
<1>. PICK m : m = Larger(w.current, cn)
  OBVIOUS
<1>0. w \in Workers /\ w.max \in Nat /\ w.current \in Nat /\ w.owed \in Nat
  BY DEF Clients, Workers
<1>1. m \in Nat /\ m >= w.current
  BY <1>0, LargerFacts
<1>2. CASE w.max <= m
  <2>. PICK l : l = Leave(w)
    OBVIOUS
  <2>1. Handle(c, t, cn) = Idle(With(c, t, l))
    BY <1>0, <1>1, <1>2 DEF Handle
  <2>2. l \in Workers /\ Sound(l) /\ ~l.handling
    BY <1>0, LeaveFacts
  <2>. PICK r : r = Idle(With(c, t, l))
    OBVIOUS
  <2>3. Acts(c, t, r) /\ r.client.work[t] = l /\ r.calls = << >>
    BY <2>2, AloneActs
  <2>. QED
    BY <1>0, <1>1, <1>2, <2>1, <2>2, <2>3 DEF HandleResult
<1>3. CASE w.max > m
  <2>1. /\ busy \in Workers /\ busy.handling /\ busy.owed = w.owed /\ busy.max = w.max
        /\ busy.current = w.current
    BY <1>0 DEF Workers
  <2>2. Sound(busy)
    BY <1>0, <1>1, <1>3, <2>1 DEF Sound
  <2>. PICK b : b = With(c, t, busy)
    OBVIOUS
  <2>3. /\ b \in Clients /\ b.work[t] = busy /\ \A u \in Kinds \ {t} : b.work[u] = c.work[u]
        /\ b.armed = c.armed /\ b.orphans = c.orphans
    BY <2>1, WithFacts
  <2>4. CASE c.delay
    <3>1. PICK a : a = [by |-> t, target |-> w.max]
      OBVIOUS
    <3>2. PICK old : old = IF c.armed = NoTimer THEN {} ELSE {c.armed}
      OBVIOUS
    <3>3. PICK e : e = [b EXCEPT !.armed = a, !.orphans = @ \cup old]
      OBVIOUS
    <3>4. PICK r : r = Idle(e)
      OBVIOUS
    <3>5. Handle(c, t, cn) = r
      BY <1>0, <1>1, <1>3, <2>4, <3>1, <3>2, <3>3, <3>4 DEF Handle
    <3>6. a \in Timers /\ a.by = t /\ old \in SUBSET Timers
      BY <1>0, <3>1, <3>2 DEF Timers, Clients
    <3>7. e \in Clients /\ e.work = b.work /\ e.armed = a /\ e.orphans = c.orphans \cup old
      BY <2>3, <3>3, <3>6 DEF Clients
    <3>8. Waits(e, t) /\ \A u \in Kinds : Waits(c, u) => Waits(e, u)
      BY <3>2, <3>6, <3>7 DEF Waits, NoTimer, Kinds
    <3>9. r.client = e /\ r.calls = << >> /\ r.calls \in Seq(Tasks)
      BY <3>4 DEF Idle
    <3>10. e.work[t] = busy /\ \A u \in Kinds \ {t} : e.work[u] = c.work[u]
      BY <2>3, <3>7
    <3>11. Acts(c, t, r)
      BY <2>2, <3>7, <3>8, <3>9, <3>10 DEF Acts
    <3>12. HandleResult(c, t, cn, r)
      BY <2>1, <3>8, <3>9, <3>10, <3>11 DEF HandleResult
    <3>. QED
      BY <3>5, <3>12
  <2>5. CASE ~c.delay
    <3>. PICK x : x = Execution(w, t, w.max)
      OBVIOUS
    <3>. PICK r : r = [client |-> b, calls |-> <<x>>]
      OBVIOUS
    <3>1. Handle(c, t, cn) = r
      BY <1>0, <1>1, <1>3, <2>5 DEF Handle
    <3>2. x \in Tasks /\ x.by = t
      BY <1>0 DEF Execution, Tasks, Workers
    <3>3. r.client = b /\ r.calls = <<x>> /\ r.calls \in Seq(Tasks) /\ Asked(t, r.calls)
      BY <3>2 DEF Asked
    <3>4. Acts(c, t, r)
      BY <2>2, <2>3, <3>3 DEF Acts, Waits
    <3>5. HandleResult(c, t, cn, r)
      BY <2>1, <2>3, <3>3, <3>4 DEF HandleResult
    <3>. QED
      BY <3>1, <3>5
  <2>. QED
    BY <2>4, <2>5
<1>. QED
  BY <1>0, <1>1, <1>2, <1>3

LEMMA AskedFacts ==
  ASSUME NEW q \in Seq(Tasks), NEW s \in Seq(Tasks), NEW t
  PROVE  q \o s \in Seq(Tasks) /\ (Asked(t, q) \/ Asked(t, s) => Asked(t, q \o s))
<1>1. q \o s \in Seq(Tasks) /\ Len(q \o s) = Len(q) + Len(s)
  OBVIOUS
<1>2. ASSUME NEW i \in DOMAIN q, q[i].by = t PROVE Asked(t, q \o s)
  <2>1. i \in DOMAIN (q \o s) /\ (q \o s)[i] = q[i]
    BY <1>1
  <2>. QED
    BY <1>2, <2>1 DEF Asked
<1>3. ASSUME NEW i \in DOMAIN s, s[i].by = t PROVE Asked(t, q \o s)
  <2>1. i \in 1..Len(s) /\ Len(q) \in Nat /\ Len(s) \in Nat
    OBVIOUS
  <2>2. Len(q) + i \in DOMAIN (q \o s) /\ (q \o s)[Len(q) + i] = s[i]
    BY <1>1, <2>1
  <2>. QED
    BY <1>3, <2>2 DEF Asked
<1>. QED
  BY <1>1, <1>2, <1>3 DEF Asked

\* The executions a worker asks for are put at the end of those of its client.
LEMMA JoinFacts ==
  ASSUME NEW c \in Clients, NEW t \in Kinds, NEW r, Acts(c, t, r), NEW q \in Seq(Tasks),
         \/ Asked(t, q)
         \/ Engages(t, r),
         \A u \in Kinds \ {t} : Tended(c, u, q)
  PROVE  q \o r.calls \in Seq(Tasks) /\ \A u \in Kinds : Tended(r.client, u, q \o r.calls)
<1>1. r.calls \in Seq(Tasks)
  BY DEF Acts
<1>2. PICK p : p = q \o r.calls
  OBVIOUS
<1>3. p \in Seq(Tasks) /\ \A u \in Kinds : Asked(u, q) \/ Asked(u, r.calls) => Asked(u, p)
  BY <1>1, <1>2, AskedFacts
<1>4. Tended(r.client, t, p)
  BY <1>3 DEF Acts, Engages, Tended
<1>5. \A u \in Kinds \ {t} : Tended(r.client, u, p)
  BY <1>3 DEF Acts, Tended
<1>. QED
  BY <1>2, <1>3, <1>4, <1>5

\* What a function does after it has changed the worker t.
LEMMA ActsVia ==
  ASSUME NEW c \in Clients, NEW t \in Kinds, NEW w \in Workers, NEW r, Acts(With(c, t, w), t, r)
  PROVE  Acts(c, t, r)
<1>1. PICK d : d = With(c, t, w)
  OBVIOUS
<1>2. /\ \A u \in Kinds \ {t} : d.work[u] = c.work[u]
      /\ d.armed = c.armed /\ d.orphans = c.orphans
  BY <1>1, WithFacts
<1>3. Acts(d, t, r)
  BY <1>1
<1>. QED
  BY <1>2, <1>3 DEF Acts, Waits

\* A worker that is set to w and then handles its event.
LEMMA HandleOf ==
  ASSUME NEW c \in Clients, NEW t \in Kinds, NEW cn \in Nat, NEW w \in Workers, w.owed <= w.max,
         NEW r, r = Handle(With(c, t, w), t, cn)
  PROVE  /\ Acts(c, t, r)
         /\ r.client.work[t].handling => Asked(t, r.calls) \/ Waits(r.client, t)
         /\ r.client.work[t].owed # w.owed =>
              w.max <= Larger(w.current, cn) /\ r.calls = << >>
         /\ w.max > Larger(w.current, cn) => r.client.work[t].handling
<1>1. PICK d : d = With(c, t, w)
  OBVIOUS
<1>2. d \in Clients /\ d.work[t] = w
  BY <1>1, WithFacts
<1>3. HandleResult(d, t, cn, Handle(d, t, cn))
  BY <1>2, HandleFacts
<1>4. HandleResult(d, t, cn, r)
  BY <1>1, <1>3
<1>5. Acts(c, t, r)
  BY <1>1, <1>4, ActsVia DEF HandleResult
<1>. QED
  BY <1>2, <1>4, <1>5 DEF HandleResult

LEMMA RetryFacts ==
  ASSUME NEW c \in Clients, NEW t \in Kinds, NEW cn \in Nat, Sound(c.work[t]),
         NEW r, r = Retry(c, t, cn)
  PROVE  /\ Acts(c, t, r) /\ Engages(t, r)
         /\ c.work[t].owed # 0 /\ r.client.work[t].owed = 0 =>
              cn >= c.work[t].owed /\ r.calls = << >>
<1>1. PICK w : w = c.work[t]
  OBVIOUS
<1>2. PICK p : p = [w EXCEPT !.timer = FALSE]
  OBVIOUS
<1>3. w \in Workers /\ w.owed \in Nat /\ w.max \in Nat /\ w.current \in Nat
  BY <1>1 DEF Clients, Workers
<1>4. /\ p \in Workers /\ p.owed = w.owed /\ p.max = w.max /\ p.current = w.current
  BY <1>2, <1>3 DEF Workers
<1>5. Sound(w)
  BY <1>1
<1>6. /\ Acts(c, t, r)
      /\ r.client.work[t].handling => Asked(t, r.calls) \/ Waits(r.client, t)
      /\ r.client.work[t].owed # w.owed =>
           w.max <= Larger(w.current, cn) /\ r.calls = << >>
  <2>1. r = Handle(With(c, t, p), t, cn)
    BY <1>1, <1>2 DEF Retry
  <2>2. p.owed <= p.max
    BY <1>4, <1>5 DEF Sound
  <2>. QED
    BY <1>4, <2>1, <2>2, HandleOf
<1>7. Larger(w.current, cn) \in {w.current, cn}
  BY <1>3, LargerFacts
<1>8. w.owed # 0 /\ w.max <= Larger(w.current, cn) => cn >= w.owed
  BY <1>3, <1>5, <1>7 DEF Sound
<1>. QED
  BY <1>1, <1>6, <1>8 DEF Engages

LEMMA ContinueFacts ==
  ASSUME NEW c \in Clients, NEW t \in Kinds, NEW ok \in BOOLEAN, NEW target \in Nat, NEW cn \in Nat,
         Sound(c.work[t]), NEW r, r = Continue(c, t, ok, target, cn)
  PROVE  /\ Acts(c, t, r)
         /\ Engages(t, r)
         /\ c.work[t].owed # 0 /\ r.client.work[t].owed = 0 =>
              \/ cn >= c.work[t].owed
              \/ cn = 0
              \/ c.work[t].bypass /\ c.work[t].attempts + 1 >= MaxRetries
<1>1. PICK w0 : w0 = c.work[t]
  OBVIOUS
<1>2. PICK b : b = Brought(w0, ok, target, cn)
  OBVIOUS
<1>3. PICK w : w = [w0 EXCEPT !.current = b]
  OBVIOUS
<1>4. PICK d : d = With(c, t, w)
  OBVIOUS
<1>5. /\ w0 \in Workers /\ w0.owed \in Nat /\ w0.max \in Nat /\ w0.current \in Nat
      /\ w0.attempts \in 0..MaxRetries /\ w0.bypass \in BOOLEAN /\ MaxRetries \in Nat
      /\ w0.handling \in BOOLEAN /\ w0.newEvent \in BOOLEAN
  BY <1>1, WorkerAssumption DEF Clients, Workers
<1>6. b \in Nat /\ (cn > 0 => b = cn \/ b = w0.current)
  BY <1>2, <1>5, LargerFacts DEF Brought
<1>7. /\ w \in Workers /\ w.owed = w0.owed /\ w.max = w0.max /\ w.current = b
      /\ w.handling = w0.handling /\ w.newEvent = w0.newEvent /\ w.bypass = w0.bypass
      /\ w.attempts = w0.attempts
  BY <1>3, <1>5, <1>6 DEF Workers
<1>8. d \in Clients /\ d.work[t] = w
  BY <1>4, <1>7, WithFacts
<1>9. Sound(w0)
  BY <1>1
<1>10. w0.owed <= w0.max
  BY <1>9 DEF Sound
<1>11. r = CASE ~w.handling -> Idle(c)
             [] w.handling /\ w.newEvent -> Handle(d, t, cn)
             [] w.handling /\ ~w.newEvent /\ w.max <= w.current -> Idle(With(c, t, Leave(w)))
             [] w.handling /\ ~w.newEvent /\ w.max > w.current /\ w.attempts + 1 < MaxRetries ->
                  Idle(With(c, t, [w EXCEPT !.timer = TRUE, !.attempts = @ + 1]))
             [] OTHER -> GoOn(d, t, cn)
  BY <1>1, <1>2, <1>3, <1>4 DEF Continue
\* What is reached was looked at: the change number of the cache.
<1>12. w0.handling /\ w0.max <= Larger(b, cn) => cn >= w0.owed \/ cn = 0
  <2>1. Larger(b, cn) \in {b, cn}
    BY <1>6, LargerFacts
  <2>. QED
    BY <1>5, <1>6, <1>9, <2>1 DEF Sound
<1>13. CASE ~w.handling
  <2>1. r = Idle(c)
    BY <1>11, <1>13
  <2>2. r.client = c /\ r.calls = << >> /\ << >> \in Seq(Tasks)
    BY <2>1 DEF Idle
  <2>. QED
    BY <1>1, <1>7, <1>9, <1>13, <2>2 DEF Acts, Engages
<1>14. CASE w.handling /\ w.newEvent
  <2>1. r = Handle(d, t, cn)
    BY <1>11, <1>14
  <2>2. /\ Acts(c, t, r)
        /\ r.client.work[t].handling => Asked(t, r.calls) \/ Waits(r.client, t)
        /\ r.client.work[t].owed # w.owed => w.max <= Larger(w.current, cn)
    BY <1>4, <1>7, <1>10, <2>1, HandleOf
  <2>. QED
    BY <1>1, <1>7, <1>12, <1>14, <2>2 DEF Engages
<1>15. CASE w.handling /\ ~w.newEvent /\ w.max <= w.current
  <2>1. PICK l : l = Leave(w)
    OBVIOUS
  <2>2. r = Idle(With(c, t, l))
    BY <1>5, <1>6, <1>7, <1>11, <1>15, <2>1
  <2>3. l \in Workers /\ Sound(l) /\ ~l.handling
    BY <1>7, <2>1, LeaveFacts
  <2>4. Acts(c, t, r) /\ r.client.work[t] = l
    BY <2>2, <2>3, AloneActs
  <2>5. w0.max <= Larger(b, cn)
    <3>1. Larger(b, cn) \in Nat /\ Larger(b, cn) >= b
      BY <1>6, LargerFacts
    <3>. QED
      BY <1>5, <1>6, <1>7, <1>15, <3>1
  <2>. QED
    BY <1>1, <1>7, <1>12, <1>15, <2>3, <2>4, <2>5 DEF Engages
<1>16. CASE w.handling /\ ~w.newEvent /\ w.max > w.current /\ w.attempts + 1 < MaxRetries
  <2>1. PICK l : l = [w EXCEPT !.timer = TRUE, !.attempts = @ + 1]
    OBVIOUS
  <2>2. r = Idle(With(c, t, l))
    BY <1>5, <1>6, <1>7, <1>11, <1>16, <2>1
  <2>3. w.attempts + 1 \in 0..MaxRetries
    BY <1>5, <1>7, <1>16
  <2>4. /\ l \in Workers /\ l.timer /\ l.owed = w.owed /\ l.max = w.max /\ l.current = w.current
        /\ l.handling = w.handling
    BY <1>7, <2>1, <2>3 DEF Workers
  <2>5. Sound(l)
    BY <1>7, <1>10, <1>16, <2>4 DEF Sound
  <2>6. Acts(c, t, r) /\ r.client.work[t] = l
    BY <2>2, <2>4, <2>5, AloneActs
  <2>. QED
    BY <1>1, <1>7, <2>4, <2>6 DEF Engages
<1>17. CASE w.handling /\ ~w.newEvent /\ ~(w.max <= w.current) /\ ~(w.attempts + 1 < MaxRetries)
  <2>1. r = GoOn(d, t, cn)
    BY <1>5, <1>6, <1>7, <1>11, <1>17
  <2>2. CASE w.bypass
    <3>1. PICK l : l = Leave(w)
      OBVIOUS
    <3>2. l \in Workers /\ Sound(l) /\ ~l.handling
      BY <1>7, <3>1, LeaveFacts
    <3>3. r = Idle(With(d, t, l))
      BY <1>8, <2>1, <2>2, <3>1 DEF GoOn
    <3>4. Acts(d, t, r) /\ r.client.work[t] = l
      BY <1>8, <3>2, <3>3, AloneActs
    <3>5. Acts(c, t, r)
      BY <1>4, <1>7, <3>4, ActsVia
    <3>6. w0.attempts + 1 >= MaxRetries
      BY <1>5, <1>7, <1>17
    <3>. QED
      BY <1>1, <1>7, <2>2, <3>2, <3>4, <3>5, <3>6 DEF Engages
  <2>3. CASE ~w.bypass
    <3>1. PICK l : l = [ResetBackoff(w) EXCEPT !.bypass = TRUE]
      OBVIOUS
    <3>2. l \in Workers /\ l.max = w.max /\ l.current = w.current /\ l.owed = w.owed
      BY <1>7, <3>1, ResetFacts
    <3>3. r = Handle(With(d, t, l), t, cn)
      BY <1>8, <2>1, <2>3, <3>1 DEF GoOn
    <3>4. /\ Acts(d, t, r)
          /\ r.client.work[t].handling => Asked(t, r.calls) \/ Waits(r.client, t)
          /\ r.client.work[t].owed # l.owed => l.max <= Larger(l.current, cn)
      BY <1>7, <1>8, <1>10, <3>2, <3>3, HandleOf
    <3>5. Acts(c, t, r)
      BY <1>4, <1>7, <3>4, ActsVia
    <3>. QED
      BY <1>1, <1>7, <1>12, <1>17, <3>2, <3>4, <3>5 DEF Engages
  <2>. QED
    BY <2>2, <2>3
<1>. QED
  BY <1>5, <1>6, <1>7, <1>13, <1>14, <1>15, <1>16, <1>17

\* What a notification leaves a client, with the executions q, with: workers that are
\* tended to, and no event dropped that is owed.
Serves(c, q, r) ==
  /\ r.client \in Clients /\ r.calls \in Seq(Tasks) /\ q \o r.calls \in Seq(Tasks)
  /\ \A u \in Kinds : Tended(r.client, u, q \o r.calls)
  /\ \A u \in Kinds : c.work[u].owed # 0 => r.client.work[u].owed # 0

LEMMA PutFacts ==
  ASSUME NEW c \in Clients, NEW t \in Kinds, NEW n \in Nat, NEW payload \in BOOLEAN,
         NEW delayed \in BOOLEAN, NEW cn \in Nat, NEW q \in Seq(Tasks),
         \A u \in Kinds : Tended(c, u, q)
  PROVE  Serves(c, q, Put(c, t, n, payload, delayed, cn))
<1>a. PICK r : r = Put(c, t, n, payload, delayed, cn)
  OBVIOUS
<1>1. PICK w : w = c.work[t]
  OBVIOUS
<1>2. PICK v : v = [w EXCEPT !.max = n, !.newEvent = TRUE, !.bypass = FALSE,
                             !.payload = IF payload THEN n ELSE 0, !.owed = n]
  OBVIOUS
<1>3. PICK e : e = [c EXCEPT !.work[t] = v, !.delay = delayed]
  OBVIOUS
<1>4. PICK h : h = IF w.timer \/ ~w.handling THEN Handle(e, t, cn) ELSE Idle(e)
  OBVIOUS
<1>5. /\ w \in Workers /\ w.owed \in Nat /\ w.max \in Nat /\ w.current \in Nat
      /\ c.work \in [Kinds -> Workers]
  BY <1>1 DEF Clients, Workers
<1>6. Tended(c, t, q) /\ Sound(w)
  BY <1>1 DEF Tended
<1>0. r = CASE n <= Larger(w.current, cn) \/ n <= w.max -> Idle(c)
            [] n > Larger(w.current, cn) /\ n > w.max /\ c.delay ->
                 Idle(With(c, t, [w EXCEPT !.max = n]))
            [] OTHER -> [h EXCEPT !.client.work[t] = ResetBackoff(@)]
  BY <1>a, <1>1, <1>2, <1>3, <1>4 DEF Put
\* It is enough to look at the worker of the event.
<1>7. SUFFICES /\ Acts(c, t, r)
               /\ Asked(t, q) \/ Engages(t, r)
               /\ w.owed # 0 => r.client.work[t].owed # 0
  <2>1. \A u \in Kinds \ {t} : Tended(c, u, q)
    OBVIOUS
  <2>2. q \o r.calls \in Seq(Tasks) /\ \A u \in Kinds : Tended(r.client, u, q \o r.calls)
    BY <1>7, <2>1, JoinFacts
  <2>3. \A u \in Kinds : c.work[u].owed # 0 => r.client.work[u].owed # 0
    BY <1>1, <1>7 DEF Acts
  <2>4. Serves(c, q, r)
    BY <1>7, <2>2, <2>3 DEF Acts, Serves
  <2>. QED
    BY <1>a, <2>4
<1>8. CASE n <= Larger(w.current, cn) \/ n <= w.max
  <2>1. r = Idle(c)
    BY <1>0, <1>5, <1>8, LargerFacts
  <2>2. r.client = c /\ r.calls = << >> /\ << >> \in Seq(Tasks)
    BY <2>1 DEF Idle
  <2>. QED
    BY <1>1, <1>6, <2>2 DEF Acts, Engages, Tended
<1>9. CASE n > Larger(w.current, cn) /\ n > w.max
  <2>0. Larger(w.current, cn) \in Nat /\ Larger(w.current, cn) >= w.current
    BY <1>5, LargerFacts
  <2>1. CASE c.delay
    <3>1. PICK l : l = [w EXCEPT !.max = n]
      OBVIOUS
    <3>2. r = Idle(With(c, t, l))
      BY <1>0, <1>5, <1>9, <2>0, <2>1, <3>1
    <3>3. /\ l \in Workers /\ l.owed = w.owed /\ l.handling = w.handling /\ l.max = n
          /\ l.current = w.current /\ l.timer = w.timer
      BY <1>5, <3>1 DEF Workers
    <3>4. Sound(l)
      BY <1>5, <1>6, <1>9, <3>3 DEF Sound
    <3>5. /\ Acts(c, t, r) /\ r.client.work[t] = l /\ r.client = With(c, t, l)
      BY <3>2, <3>3, <3>4, AloneActs DEF Idle
    <3>6. r.client.armed = c.armed /\ r.client.orphans = c.orphans
      BY <3>3, <3>5, WithFacts
    <3>. QED
      BY <1>1, <1>6, <3>3, <3>5, <3>6 DEF Engages, Tended, Waits
  <2>2. CASE ~c.delay
    <3>1. r = [h EXCEPT !.client.work[t] = ResetBackoff(@)]
      BY <1>0, <1>5, <1>9, <2>0, <2>2
    <3>2. /\ v \in Workers /\ v.owed = n /\ v.handling = w.handling /\ v.max = n
          /\ v.current = w.current /\ v.timer = w.timer
      BY <1>2, <1>5 DEF Workers
    <3>3. /\ e \in Clients /\ e.work[t] = v /\ \A u \in Kinds \ {t} : e.work[u] = c.work[u]
          /\ e.armed = c.armed /\ e.orphans = c.orphans
      <4>1. PICK f : f = [c.work EXCEPT ![t] = v]
        OBVIOUS
      <4>2. f \in [Kinds -> Workers] /\ f[t] = v /\ \A u \in Kinds \ {t} : f[u] = c.work[u]
        BY <1>5, <3>2, <4>1
      <4>3. e = [c EXCEPT !.work = f, !.delay = delayed]
        BY <1>3, <4>1
      <4>. QED
        BY <4>2, <4>3 DEF Clients
    \* What handling the event, or leaving it to what runs, has for it.
    <3>4. /\ Acts(c, t, h) /\ h.client.work[t].owed # 0
          /\ h = [client |-> h.client, calls |-> h.calls]
          /\ Asked(t, q) \/ (h.client.work[t].handling => Asked(t, h.calls) \/ Waits(h.client, t))
      <4>1. CASE w.timer \/ ~w.handling
        <5>1. HandleResult(e, t, cn, h)
          BY <1>4, <1>9, <3>2, <3>3, <4>1, HandleFacts
        <5>2. h.client.work[t].owed = n
          BY <1>9, <2>0, <3>2, <3>3, <5>1 DEF HandleResult
        <5>3. Acts(c, t, h)
          BY <3>3, <5>1 DEF HandleResult, Acts, Waits
        <5>4. h = [client |-> h.client, calls |-> h.calls]
          BY <1>4, <4>1 DEF Handle, Idle
        <5>5. n # 0
          BY <1>5, <1>9
        <5>. QED
          BY <5>1, <5>2, <5>3, <5>4, <5>5 DEF HandleResult
      <4>2. CASE ~w.timer /\ w.handling
        <5>1. h = Idle(e)
          BY <1>4, <4>2
        <5>2. /\ h.client = e /\ h.calls = << >> /\ << >> \in Seq(Tasks)
              /\ h = [client |-> h.client, calls |-> h.calls]
          BY <5>1 DEF Idle
        <5>3. Sound(v)
          BY <1>5, <1>9, <2>0, <3>2, <4>2 DEF Sound
        <5>4. Acts(c, t, h)
          BY <3>3, <5>2, <5>3 DEF Acts, Waits
        <5>5. Asked(t, q) \/ Waits(c, t)
          BY <1>1, <1>6, <4>2 DEF Tended
        <5>6. n # 0
          BY <1>5, <1>9
        <5>. QED
          BY <3>2, <3>3, <5>2, <5>4, <5>5, <5>6 DEF Waits
      <4>. QED
        BY <4>1, <4>2, <1>5 DEF Workers
    <3>5. PICK g : g = h.client
      OBVIOUS
    <3>6. PICK p : p = ResetBackoff(g.work[t])
      OBVIOUS
    <3>7. g \in Clients /\ g.work[t] \in Workers
      BY <3>4, <3>5 DEF Acts, Clients
    <3>8. r = [client |-> With(g, t, p), calls |-> h.calls]
      <4>1. h = [client |-> g, calls |-> h.calls]
        BY <3>4, <3>5
      <4>. QED
        BY <3>1, <3>6, <4>1 DEF With
    <3>9. /\ p \in Workers /\ p.max = g.work[t].max /\ p.current = g.work[t].current
          /\ p.handling = g.work[t].handling /\ p.owed = g.work[t].owed
      BY <3>6, <3>7, ResetFacts
    <3>10. /\ r.client \in Clients /\ r.client.work[t] = p
           /\ \A u \in Kinds \ {t} : r.client.work[u] = g.work[u]
           /\ r.client.armed = g.armed /\ r.client.orphans = g.orphans
           /\ r.calls = h.calls
      BY <3>7, <3>8, <3>9, WithFacts
    <3>11. Sound(p)
      BY <3>4, <3>5, <3>9 DEF Acts, Sound
    <3>12. Acts(c, t, r)
      BY <3>4, <3>5, <3>10, <3>11 DEF Acts, Waits
    <3>. QED
      BY <3>4, <3>5, <3>9, <3>10, <3>12 DEF Engages, Waits
  <2>. QED
    BY <2>1, <2>2
<1>10. (n <= Larger(w.current, cn) \/ n <= w.max) \/ (n > Larger(w.current, cn) /\ n > w.max)
  <2>1. Larger(w.current, cn) \in Nat
    BY <1>5, LargerFacts
  <2>. QED
    BY <1>5, <2>1
<1>. QED
  BY <1>8, <1>9, <1>10

\* Nothing is asked of a client.
LEMMA IdleFacts ==
  ASSUME NEW c \in Clients, NEW q \in Seq(Tasks)
  PROVE  /\ Idle(c).client = c /\ Idle(c).calls = << >> /\ Idle(c).calls \in Seq(Tasks)
         /\ q \o Idle(c).calls = q
<1>1. Idle(c).client = c /\ Idle(c).calls = << >> /\ << >> \in Seq(Tasks)
  BY DEF Idle
<1>2. q \o << >> = q
  OBVIOUS
<1>. QED
  BY <1>1, <1>2

LEMMA DelayFacts ==
  ASSUME NEW c \in Clients, NEW d \in Timers, NEW q \in Seq(Tasks),
         \A u \in Kinds : Tended(c, u, q), NEW r, r = DelayElapses(c, d)
  PROVE  /\ r.client \in Clients /\ r.calls \in Seq(Tasks) /\ q \o r.calls \in Seq(Tasks)
         /\ r.client.work = c.work
         /\ \A u \in Kinds : Tended(r.client, u, q \o r.calls)
<1>1. PICK a : a = IF c.armed = d THEN NoTimer ELSE c.armed
  OBVIOUS
<1>2. PICK o : o = IF c.armed = d THEN c.orphans ELSE c.orphans \ {d}
  OBVIOUS
<1>3. PICK x : x = Execution(c.work[d.by], d.by, d.target)
  OBVIOUS
<1>4. /\ r.client = [c EXCEPT !.delay = FALSE, !.armed = a, !.orphans = o]
      /\ r.calls = <<x>>
  BY <1>1, <1>2, <1>3 DEF DelayElapses, Clients
<1>5. a \in Timers \cup {NoTimer} /\ o \in SUBSET Timers /\ d.by \in Kinds
  BY <1>1, <1>2 DEF Clients, Timers
<1>6. r.client \in Clients /\ r.client.work = c.work /\ r.client.armed = a /\ r.client.orphans = o
  BY <1>4, <1>5 DEF Clients
<1>7. x \in Tasks /\ x.by = d.by
  BY <1>3, <1>5 DEF Execution, Tasks, Clients, Workers, Timers
<1>8. r.calls \in Seq(Tasks) /\ Asked(d.by, r.calls)
  BY <1>4, <1>7 DEF Asked
<1>9. PICK p : p = q \o r.calls
  OBVIOUS
<1>10. p \in Seq(Tasks) /\ \A u \in Kinds : Asked(u, q) \/ Asked(u, r.calls) => Asked(u, p)
  BY <1>8, <1>9, AskedFacts
<1>11. ASSUME NEW u \in Kinds, u # d.by, Waits(c, u) PROVE Waits(r.client, u)
  BY <1>1, <1>2, <1>6, <1>11 DEF Waits
<1>12. ASSUME NEW u \in Kinds PROVE Tended(r.client, u, p)
  <2>1. Tended(c, u, q)
    OBVIOUS
  <2>2. CASE u = d.by
    BY <1>6, <1>8, <1>10, <2>1, <2>2 DEF Tended
  <2>3. CASE u # d.by
    BY <1>6, <1>10, <1>11, <2>1, <2>3 DEF Tended
  <2>. QED
    BY <2>2, <2>3
<1>. QED
  BY <1>6, <1>8, <1>9, <1>10, <1>12

LEMMA StopFacts ==
  ASSUME NEW c \in Clients, NEW q
  PROVE  Stop(c) \in Clients /\ \A u \in Kinds : Tended(Stop(c), u, q)
<1>1. PICK f : f = [u \in Kinds |-> ResetBackoff(Leave(c.work[u]))]
  OBVIOUS
<1>2. ASSUME NEW u \in Kinds
      PROVE  f[u] \in Workers /\ Sound(f[u]) /\ ~f[u].handling
  <2>1. PICK l : l = Leave(c.work[u])
    OBVIOUS
  <2>2. c.work[u] \in Workers
    BY DEF Clients
  <2>3. l \in Workers /\ Sound(l) /\ ~l.handling
    BY <2>1, <2>2, LeaveFacts
  <2>4. PICK p : p = ResetBackoff(l)
    OBVIOUS
  <2>5. /\ p \in Workers /\ p.max = l.max /\ p.current = l.current /\ p.handling = l.handling
        /\ p.owed = l.owed
    BY <2>3, <2>4, ResetFacts
  <2>6. Sound(p) /\ ~p.handling
    BY <2>3, <2>5 DEF Sound
  <2>7. f[u] = p
    BY <1>1, <2>1, <2>4
  <2>. QED
    BY <2>5, <2>6, <2>7
<1>3. f \in [Kinds -> Workers]
  BY <1>1, <1>2
<1>4. Stop(c) = [c EXCEPT !.work = f, !.delay = FALSE, !.armed = NoTimer]
  BY <1>1 DEF Stop
<1>5. Stop(c) \in Clients /\ Stop(c).work = f
  BY <1>3, <1>4 DEF Clients
<1>. QED
  BY <1>2, <1>5 DEF Tended

-----------------------------------------------------------------------------
(* All clients.                                                            *)
Caches == [Kinds -> [cn : Nat, has : SUBSET Nat]]

\* The inductive invariant. What TargetIsPursued says of an event that is owed holds
\* of every worker that handles one, and that its target is still ahead of what was
\* brought is why only the change number of the cache can end the handling.
MembershipsInv ==
  /\ changes \in Nat
  /\ workers \in [Key -> Clients]
  /\ tasks \in [Key -> Seq(Tasks)]
  /\ cache \in [Key -> Caches]
  /\ \A k \in Key, t \in Kinds : Tended(workers[k], t, tasks[k])

\* What DoneMeansFresh says of a step, and of one that drops nothing.
Fresh ==
  \A t \in Kinds :
    Work(Main, t).owed # 0 /\ Work(Main, t)'.owed = 0 =>
      \/ cache'[Main][t].cn >= Work(Main, t).owed
      \/ cache'[Main][t].cn = 0
      \/ RunsPayload(tasks'[Main])
      \/ GaveUp(Main, t)
      \/ StopWorkers

Largest(A) == Max(A \cup {0})

LEMMA LargestFacts ==
  ASSUME NEW v \in Nat, NEW A \in SUBSET (1..v)
  PROVE  Largest(A) \in Nat
<1>1. PICK B : B = A \cup {0}
  OBVIOUS
<1>2. B \in SUBSET (0..v) /\ 0 \in B
  BY <1>1
<1>3. PICK U : U = {u \in Nat : \A x \in B : x <= u}
  OBVIOUS
<1>4. U \subseteq Nat /\ v \in U
  BY <1>2, <1>3
<1>5. PICK u \in U : \A w \in U : ~(<<w, u>> \in OpToRel(<, Nat))
  BY <1>4, NatLessThanWellFounded, WFMin, Zenon
<1>6. u \in U /\ u \in Nat /\ \A w \in U : ~(w < u)
  BY <1>4, <1>5 DEF OpToRel
<1>7. u \in B
  <2>1. CASE u = 0
    BY <1>2, <2>1
  <2>2. CASE u # 0
    <3>1. u - 1 \in Nat /\ u - 1 < u
      BY <1>6, <2>2
    <3>2. ~(u - 1 \in U)
      BY <1>6, <3>1
    <3>. QED
      BY <1>2, <1>3, <3>1, <3>2
  <2>. QED
    BY <2>1, <2>2
<1>8. B \in SUBSET Nat /\ \A x \in B : x <= u
  BY <1>2, <1>3, <1>6
<1>9. Max(B) = u
  BY <1>7, <1>8, MaxIs
<1>. QED
  BY <1>1, <1>6, <1>9 DEF Largest

LEMMA CacheFacts ==
  ASSUME NEW stored \in Caches, NEW was, NEW queue \in Seq(Tasks)
  PROVE  Begin(stored, was, queue) \in Caches /\ AfterCalls(stored, was, queue) \in Caches
<1>1. CASE queue = << >>
  BY <1>1 DEF Begin, AfterCalls, RunsPayload
<1>2. CASE queue # << >>
  <2>1. PICK t : t = Head(queue)
    OBVIOUS
  <2>2. t \in Tasks
    BY <1>2, <2>1
  <2>3. [cn |-> t.payload, has |-> stored[t.by].has \cup {t.payload}] \in [cn : Nat, has : SUBSET Nat]
        \/ t.by \notin Kinds
    BY <2>2 DEF Tasks, Caches
  <2>4. Instantly(stored, t) \in Caches
    BY <2>3 DEF Instantly, Caches
  <2>. QED
    BY <2>1, <2>4 DEF Begin, AfterCalls
<1>. QED
  BY <1>1, <1>2

LEMMA LookedFacts ==
  ASSUME NEW stored \in [Key -> Caches], NEW t \in Kinds
  PROVE  LookedAt(stored, t) \in Nat
  BY MembershipsAssumption DEF LookedAt, Caches

-----------------------------------------------------------------------------
(* The steps.                                                              *)

Served(k, r) == Serves(workers[k], tasks[k], r)

LEMMA ServedFacts ==
  ASSUME MembershipsInv, NEW k \in Key, NEW t \in Kinds, NEW n \in Nat, NEW payload \in BOOLEAN,
         NEW delayed \in BOOLEAN, NEW cn \in Nat
  PROVE  /\ Served(k, Put(workers[k], t, n, payload, delayed, cn))
         /\ Served(k, Idle(workers[k]))
<1>1. /\ workers[k] \in Clients /\ tasks[k] \in Seq(Tasks)
      /\ \A u \in Kinds : Tended(workers[k], u, tasks[k])
  BY DEF MembershipsInv
<1>2. Served(k, Put(workers[k], t, n, payload, delayed, cn))
  BY <1>1, PutFacts DEF Served
<1>3. Served(k, Idle(workers[k]))
  BY <1>1, IdleFacts DEF Served, Serves
<1>. QED
  BY <1>2, <1>3

LEMMA DispatchKeeps ==
  ASSUME MembershipsInv, NEW t \in Kinds, NEW n \in Nat, NEW R, NEW payload \in BOOLEAN, NEW D,
         Dispatch(t, n, R, payload, D), changes' \in Nat
  PROVE  MembershipsInv' /\ Fresh
<1>1. PICK main : main = IF Main \in R
                         THEN Put(workers[Main], t, n, payload, Main \in D, LookedAt(cache, t))
                         ELSE Idle(workers[Main])
  OBVIOUS
<1>2. PICK stored : stored = [cache EXCEPT ![Main] = AfterCalls(@, tasks[Main], main.calls)]
  OBVIOUS
<1>3. PICK result : result = [k \in Key |->
          CASE k = Main -> main
            [] k # Main /\ k \in R ->
                 Put(workers[k], t, n, payload, k \in D, LookedAt(stored, t))
            [] OTHER -> Idle(workers[k])]
  OBVIOUS
<1>4. /\ workers' = [k \in Key |-> result[k].client]
      /\ tasks' = [k \in Key |-> tasks[k] \o result[k].calls]
      /\ cache' = [k \in Key |-> AfterCalls(cache[k], tasks[k], result[k].calls)]
  BY <1>1, <1>2, <1>3 DEF Dispatch, Enqueue
<1>5. cache \in [Key -> Caches] /\ LookedAt(cache, t) \in Nat /\ Main \in Key
  BY LookedFacts, MembershipsAssumption DEF MembershipsInv
<1>6. Served(Main, main)
  <2>1. \A d \in BOOLEAN : Served(Main, Put(workers[Main], t, n, payload, d, LookedAt(cache, t)))
    BY <1>5, ServedFacts
  <2>2. (Main \in D) \in BOOLEAN
    OBVIOUS
  <2>3. Served(Main, Put(workers[Main], t, n, payload, Main \in D, LookedAt(cache, t)))
    BY <2>1, <2>2
  <2>4. Served(Main, Idle(workers[Main]))
    BY <1>5, ServedFacts
  <2>. QED
    BY <1>1, <2>3, <2>4
<1>7. LookedAt(stored, t) \in Nat
  <2>1. AfterCalls(cache[Main], tasks[Main], main.calls) \in Caches
    BY <1>5, <1>6, CacheFacts DEF Served, Serves
  <2>. QED
    BY <1>2, <1>5, <2>1, LookedFacts
<1>8. ASSUME NEW k \in Key PROVE Served(k, result[k])
  <2>1. CASE k = Main
    BY <1>3, <1>6, <2>1
  <2>2. CASE k # Main /\ k \in R
    <3>1. result[k] = Put(workers[k], t, n, payload, k \in D, LookedAt(stored, t))
      BY <1>3, <2>2
    <3>2. \A d \in BOOLEAN : Served(k, Put(workers[k], t, n, payload, d, LookedAt(stored, t)))
      BY <1>7, ServedFacts
    <3>3. (k \in D) \in BOOLEAN
      OBVIOUS
    <3>. QED
      BY <3>1, <3>2, <3>3
  <2>3. CASE k # Main /\ k \notin R
    <3>1. result[k] = Idle(workers[k])
      BY <1>3, <2>3
    <3>. QED
      BY <3>1, ServedFacts
  <2>. QED
    BY <2>1, <2>2, <2>3
<1>9. ASSUME NEW k \in Key
      PROVE  /\ workers'[k] \in Clients /\ tasks'[k] \in Seq(Tasks) /\ cache'[k] \in Caches
             /\ \A u \in Kinds : Tended(workers'[k], u, tasks'[k])
  <2>1. Served(k, result[k])
    BY <1>8
  <2>2. AfterCalls(cache[k], tasks[k], result[k].calls) \in Caches
    BY <1>5, <2>1, CacheFacts DEF Served, Serves
  <2>. QED
    BY <1>4, <2>1, <2>2 DEF Served, Serves
<1>10. MembershipsInv'
  BY <1>4, <1>9 DEF MembershipsInv
<1>11. Fresh
  BY <1>4, <1>5, <1>8 DEF Fresh, Served, Serves, Work
<1>. QED
  BY <1>10, <1>11

\* A step of the client k alone.
LEMMA ClientKeeps ==
  ASSUME MembershipsInv, NEW k \in Key, NEW c \in Clients, NEW q \in Seq(Tasks), NEW s \in Caches,
         \A u \in Kinds : Tended(c, u, q),
         workers' = [workers EXCEPT ![k] = c], tasks' = [tasks EXCEPT ![k] = q],
         cache' = [cache EXCEPT ![k] = s], UNCHANGED changes
  PROVE  /\ MembershipsInv'
         /\ workers'[k] = c /\ tasks'[k] = q /\ cache'[k] = s
         /\ \A j \in Key \ {k} : workers'[j] = workers[j]
<1>1. /\ workers \in [Key -> Clients] /\ tasks \in [Key -> Seq(Tasks)] /\ cache \in [Key -> Caches]
      /\ changes \in Nat /\ \A j \in Key, u \in Kinds : Tended(workers[j], u, tasks[j])
  BY DEF MembershipsInv
<1>2. /\ workers' \in [Key -> Clients] /\ tasks' \in [Key -> Seq(Tasks)] /\ cache' \in [Key -> Caches]
      /\ workers'[k] = c /\ tasks'[k] = q /\ cache'[k] = s
      /\ \A j \in Key \ {k} : workers'[j] = workers[j] /\ tasks'[j] = tasks[j]
  BY <1>1
<1>3. \A j \in Key, u \in Kinds : Tended(workers'[j], u, tasks'[j])
  BY <1>1, <1>2
<1>. QED
  BY <1>1, <1>2, <1>3 DEF MembershipsInv

LEMMA ApplyKeeps ==
  ASSUME MembershipsInv, NEW k \in Key, NEW r, Apply(k, r), UNCHANGED changes,
         r.client \in Clients, r.calls \in Seq(Tasks), tasks[k] \o r.calls \in Seq(Tasks),
         \A u \in Kinds : Tended(r.client, u, tasks[k] \o r.calls)
  PROVE  /\ MembershipsInv'
         /\ workers'[k] = r.client /\ (r.calls = << >> => cache'[k] = cache[k])
         /\ \A j \in Key \ {k} : workers'[j] = workers[j]
<1>1. /\ workers' = [workers EXCEPT ![k] = r.client]
      /\ tasks' = [tasks EXCEPT ![k] = tasks[k] \o r.calls]
      /\ cache' = [cache EXCEPT ![k] = AfterCalls(cache[k], tasks[k], r.calls)]
  BY DEF Apply, Enqueue, MembershipsInv
<1>2. AfterCalls(cache[k], tasks[k], r.calls) \in Caches
  BY CacheFacts DEF MembershipsInv
<1>3. /\ MembershipsInv'
      /\ workers'[k] = r.client /\ cache'[k] = AfterCalls(cache[k], tasks[k], r.calls)
      /\ \A j \in Key \ {k} : workers'[j] = workers[j]
  BY <1>1, <1>2, ClientKeeps
<1>4. r.calls = << >> => AfterCalls(cache[k], tasks[k], r.calls) = cache[k]
  BY DEF AfterCalls, Begin
<1>. QED
  BY <1>3, <1>4

LEMMA TailFacts ==
  ASSUME NEW s \in Seq(Tasks), s # << >>
  PROVE  /\ Head(s) \in Tasks /\ Tail(s) \in Seq(Tasks)
         /\ \A u : u # Head(s).by /\ Asked(u, s) => Asked(u, Tail(s))
<1>1. /\ Head(s) \in Tasks /\ s[1] = Head(s) /\ Tail(s) \in Seq(Tasks)
      /\ Len(Tail(s)) = Len(s) - 1 /\ \A i \in 1..Len(Tail(s)) : Tail(s)[i] = s[i + 1]
  OBVIOUS
<1>2. ASSUME NEW i \in DOMAIN s, i # 1
      PROVE  i - 1 \in DOMAIN Tail(s) /\ Tail(s)[i - 1] = s[i]
  <2>1. i - 1 \in 1..Len(Tail(s)) /\ (i - 1) + 1 = i
    BY <1>1, <1>2
  <2>2. Tail(s)[i - 1] = s[(i - 1) + 1]
    BY <1>1, <2>1
  <2>. QED
    BY <1>1, <2>1, <2>2
<1>. QED
  BY <1>1, <1>2 DEF Asked

LEMMA DoneKeeps ==
  ASSUME MembershipsInv, NEW k \in Key, NEW ok \in BOOLEAN, NEW stored \in Caches,
         tasks[k] # << >>, Done(k, ok, stored)
  PROVE  MembershipsInv' /\ Fresh
<1>1. PICK t : t = Head(tasks[k])
  OBVIOUS
<1>2. PICK cn : cn = LookedAt([cache EXCEPT ![k] = stored], t.by)
  OBVIOUS
<1>3. PICK r : r = IF t.by = "poll" THEN Idle(workers[k])
                   ELSE Continue(workers[k], t.by, ok, t.target, cn)
  OBVIOUS
<1>4. PICK q : q = Tail(tasks[k]) \o r.calls
  OBVIOUS
<1>5. /\ workers' = [workers EXCEPT ![k] = r.client]
      /\ tasks' = [tasks EXCEPT ![k] = q]
      /\ cache' = [cache EXCEPT ![k] = Begin(stored, << >>, q)]
      /\ UNCHANGED changes
  BY <1>1, <1>2, <1>3, <1>4 DEF Done
<1>6. /\ workers[k] \in Clients /\ tasks[k] \in Seq(Tasks) /\ cache \in [Key -> Caches]
      /\ \A u \in Kinds : Tended(workers[k], u, tasks[k])
  BY DEF MembershipsInv
<1>7. t \in Tasks /\ Tail(tasks[k]) \in Seq(Tasks)
  BY <1>1, <1>6, TailFacts
\* What waited for another execution still has it.
<1>8. ASSUME NEW u \in Kinds, u # t.by PROVE Tended(workers[k], u, Tail(tasks[k]))
  <2>1. Asked(u, tasks[k]) => Asked(u, Tail(tasks[k]))
    BY <1>1, <1>6, <1>8, TailFacts
  <2>. QED
    BY <1>6, <2>1 DEF Tended
<1>9. /\ r.client \in Clients /\ q \in Seq(Tasks) /\ \A u \in Kinds : Tended(r.client, u, q)
      /\ t.by = "poll" => r.client = workers[k]
      /\ t.by \in Kinds =>
           /\ \A u \in Kinds \ {t.by} : r.client.work[u] = workers[k].work[u]
           /\ workers[k].work[t.by].owed # 0 /\ r.client.work[t.by].owed = 0 =>
                \/ cn >= workers[k].work[t.by].owed
                \/ cn = 0
                \/ workers[k].work[t.by].bypass /\ workers[k].work[t.by].attempts + 1 >= MaxRetries
  <2>1. CASE t.by = "poll"
    <3>1. r.client = workers[k] /\ q = Tail(tasks[k])
      BY <1>3, <1>4, <1>6, <1>7, <2>1, IdleFacts
    <3>. QED
      BY <1>6, <1>7, <1>8, <2>1, <3>1 DEF Kinds
  <2>2. CASE t.by # "poll"
    <3>1. t.by \in Kinds /\ t.target \in Nat
      BY <1>7, <2>2 DEF Tasks
    <3>2. cn \in Nat
      <4>1. [cache EXCEPT ![k] = stored] \in [Key -> Caches]
        BY <1>6
      <4>. QED
        BY <1>2, <3>1, <4>1, LookedFacts
    <3>3. Sound(workers[k].work[t.by])
      BY <1>6, <3>1 DEF Tended
    <3>4. r = Continue(workers[k], t.by, ok, t.target, cn)
      BY <1>3, <2>2
    <3>5. /\ Acts(workers[k], t.by, r) /\ Engages(t.by, r)
          /\ workers[k].work[t.by].owed # 0 /\ r.client.work[t.by].owed = 0 =>
                \/ cn >= workers[k].work[t.by].owed
                \/ cn = 0
                \/ workers[k].work[t.by].bypass /\ workers[k].work[t.by].attempts + 1 >= MaxRetries
      BY <1>6, <3>1, <3>2, <3>3, <3>4, ContinueFacts
    <3>6. q \in Seq(Tasks) /\ \A u \in Kinds : Tended(r.client, u, q)
      BY <1>4, <1>6, <1>7, <1>8, <3>1, <3>5, JoinFacts
    <3>. QED
      BY <2>2, <3>5, <3>6 DEF Acts
  <2>. QED
    BY <2>1, <2>2
<1>10. Begin(stored, << >>, q) \in Caches
  BY <1>9, CacheFacts
<1>11. /\ MembershipsInv'
       /\ workers'[k] = r.client /\ tasks'[k] = q /\ cache'[k] = Begin(stored, << >>, q)
       /\ \A j \in Key \ {k} : workers'[j] = workers[j]
  BY <1>5, <1>9, <1>10, ClientKeeps
<1>12. ASSUME NEW u \in Kinds, Work(Main, u).owed # 0, Work(Main, u)'.owed = 0
       PROVE  \/ cache'[Main][u].cn >= Work(Main, u).owed
              \/ cache'[Main][u].cn = 0
              \/ RunsPayload(tasks'[Main])
              \/ GaveUp(Main, u)
  <2>0. workers[Main].work[u].owed # 0 /\ workers'[Main].work[u].owed = 0
    BY <1>12 DEF Work
  <2>1. k = Main /\ u = t.by
    <3>1. k = Main
      BY <1>11, <2>0, MembershipsAssumption
    <3>2. t.by \in Kinds \cup {"poll"}
      BY <1>7 DEF Tasks
    <3>3. r.client.work[u].owed = 0
      BY <1>11, <2>0, <3>1
    <3>. QED
      BY <1>9, <2>0, <3>1, <3>2, <3>3
  <2>2. ~RunsPayload(q) => Begin(stored, << >>, q) = stored
    BY DEF Begin
  <2>3. cn = stored[u].cn
    BY <1>2, <1>6, <2>1 DEF LookedAt
  <2>. QED
    BY <1>9, <1>11, <1>12, <2>1, <2>2, <2>3 DEF Work, GaveUp
<1>. QED
  BY <1>11, <1>12 DEF Fresh

LEMMA MembershipsInitInv == Init => MembershipsInv
<1> SUFFICES ASSUME MembershipsInit PROVE MembershipsInv
  BY DEF Init
<1>1. NewWorker \in Workers /\ Sound(NewWorker) /\ ~NewWorker.handling
  <2>1. 0 \in 0..MaxRetries
    BY WorkerAssumption
  <2>. QED
    BY <2>1 DEF NewWorker, Workers, Sound
<1>2. /\ NewClient \in Clients /\ \A t \in Kinds : NewClient.work[t] = NewWorker
  BY <1>1 DEF NewClient, Clients
<1>3. /\ workers \in [Key -> Clients] /\ \A k \in Key : workers[k] = NewClient
      /\ tasks \in [Key -> Seq(Tasks)]
  <2>1. << >> \in Seq(Tasks)
    OBVIOUS
  <2>. QED
    BY <1>2, <2>1 DEF MembershipsInit
<1>4. cache \in [Key -> Caches] /\ changes \in Nat
  BY DEF MembershipsInit, Caches
<1>5. \A k \in Key, t \in Kinds : Tended(workers[k], t, tasks[k])
  BY <1>1, <1>2, <1>3 DEF Tended
<1>. QED
  BY <1>3, <1>4, <1>5 DEF MembershipsInv

\* What a notification, or a change without one, leaves.
LEMMA NotifiedKeeps ==
  ASSUME MembershipsInv, NEW t \in Kinds, NEW S,
         \/ InstantUpdate(t, S)
         \/ Unheard(t, S)
         \/ \E D \in SUBSET Key : BoundedFetchRequest(t, S, D) \/ UnboundedFetchRequest(t, S, D)
  PROVE  MembershipsInv' /\ Fresh
<1>1. PICK n \in Nat : n = changes + 1
  BY DEF MembershipsInv
<1>2. changes' = n
  BY <1>1 DEF InstantUpdate, Unheard, BoundedFetchRequest, UnboundedFetchRequest, Changed
<1>3. CASE InstantUpdate(t, S)
  <2>1. Dispatch(t, n, S, TRUE, {})
    BY <1>1, <1>3 DEF InstantUpdate
  <2>. QED
    BY <1>2, <2>1, DispatchKeeps
<1>4. ASSUME NEW D \in SUBSET Key, BoundedFetchRequest(t, S, D) \/ UnboundedFetchRequest(t, S, D)
      PROVE  MembershipsInv' /\ Fresh
  <2>1. \E R : Dispatch(t, n, R, FALSE, D)
    BY <1>1, <1>4 DEF BoundedFetchRequest, UnboundedFetchRequest
  <2>. QED
    BY <1>2, <2>1, DispatchKeeps
<1>5. CASE Unheard(t, S)
  <2>1. UNCHANGED <<workers, tasks, cache>>
    BY <1>5 DEF Unheard
  <2>. QED
    BY <1>2, <2>1 DEF MembershipsInv, Fresh, Work
<1>. QED
  BY <1>3, <1>4, <1>5

LEMMA VersionFacts ==
  ASSUME NEW k, NEW v \in Nat
  PROVE  [t \in Kinds |-> Version(k, t, v)] \in Caches
<1>1. ASSUME NEW t \in Kinds PROVE Version(k, t, v) \in [cn : Nat, has : SUBSET Nat]
  <2>1. PICK A : A = truth[k][t] \cap (1..v)
    OBVIOUS
  <2>2. A \in SUBSET (1..v) /\ A \in SUBSET Nat
    BY <2>1
  <2>3. Largest(A) \in Nat
    BY <2>2, LargestFacts
  <2>4. Version(k, t, v) = [cn |-> Largest(A), has |-> A]
    BY <2>1 DEF Version, Largest
  <2>. QED
    BY <2>2, <2>3, <2>4
<1>. QED
  BY <1>1 DEF Caches

LEMMA ExecutionKeeps ==
  ASSUME MembershipsInv, NEW k \in Key,
         \/ PayloadSettles(k)
         \/ \E v \in 0..changes : Answered(k, v)
         \/ Failed(k)
  PROVE  MembershipsInv' /\ Fresh
<1>1. cache[k] \in Caches /\ changes \in Nat
  BY DEF MembershipsInv
<1>2. CASE PayloadSettles(k)
  BY <1>1, <1>2, DoneKeeps DEF PayloadSettles, RunsPayload
<1>3. CASE Failed(k)
  BY <1>1, <1>3, DoneKeeps DEF Failed, Running
<1>4. ASSUME NEW v \in 0..changes, Answered(k, v) PROVE MembershipsInv' /\ Fresh
  <2>1. PICK s : s = [t \in Kinds |-> Version(k, t, v)]
    OBVIOUS
  <2>2. s \in Caches
    BY <1>1, <2>1, VersionFacts
  <2>3. Done(k, TRUE, s) /\ tasks[k] # << >>
    BY <1>4, <2>1 DEF Answered, Running
  <2>. QED
    BY <2>2, <2>3, DoneKeeps
<1>. QED
  BY <1>2, <1>3, <1>4

LEMMA TimerKeeps ==
  ASSUME MembershipsInv, NEW k \in Key, TimerFires(k)
  PROVE  MembershipsInv' /\ Fresh
<1>1. /\ workers[k] \in Clients /\ tasks[k] \in Seq(Tasks) /\ cache \in [Key -> Caches]
      /\ \A u \in Kinds : Tended(workers[k], u, tasks[k])
  BY DEF MembershipsInv
<1>2. ASSUME NEW d \in Delays(k), DelayPasses(k, d) PROVE MembershipsInv' /\ Fresh
  <2>1. d \in Timers
    BY <1>1 DEF Delays, Clients
  <2>2. PICK r : r = DelayElapses(workers[k], d)
    OBVIOUS
  <2>3. Apply(k, r) /\ UNCHANGED changes
    BY <1>2, <2>2 DEF DelayPasses
  <2>4. /\ r.client \in Clients /\ r.calls \in Seq(Tasks) /\ tasks[k] \o r.calls \in Seq(Tasks)
        /\ r.client.work = workers[k].work
        /\ \A u \in Kinds : Tended(r.client, u, tasks[k] \o r.calls)
    BY <1>1, <2>1, <2>2, DelayFacts
  <2>5. /\ MembershipsInv' /\ workers'[k] = r.client
        /\ \A j \in Key \ {k} : workers'[j] = workers[j]
    BY <2>3, <2>4, ApplyKeeps
  <2>6. Fresh
    BY <2>4, <2>5, MembershipsAssumption DEF Fresh, Work
  <2>. QED
    BY <2>5, <2>6
<1>3. ASSUME NEW t \in Kinds, BackoffPasses(k, t) PROVE MembershipsInv' /\ Fresh
  <2>1. PICK cn : cn = LookedAt(cache, t)
    OBVIOUS
  <2>2. PICK r : r = Retry(workers[k], t, cn)
    OBVIOUS
  <2>3. Apply(k, r) /\ UNCHANGED changes
    BY <1>3, <2>1, <2>2 DEF BackoffPasses
  <2>4. cn \in Nat /\ cn = cache[Main][t].cn
    BY <1>1, <2>1, LookedFacts DEF LookedAt
  <2>5. Sound(workers[k].work[t])
    BY <1>1 DEF Tended
  <2>6. /\ Acts(workers[k], t, r) /\ Engages(t, r)
        /\ workers[k].work[t].owed # 0 /\ r.client.work[t].owed = 0 =>
             cn >= workers[k].work[t].owed /\ r.calls = << >>
    BY <1>1, <2>2, <2>4, <2>5, RetryFacts
  <2>7. tasks[k] \o r.calls \in Seq(Tasks) /\ \A u \in Kinds : Tended(r.client, u, tasks[k] \o r.calls)
    BY <1>1, <2>6, JoinFacts
  <2>8. r.client \in Clients /\ r.calls \in Seq(Tasks)
        /\ \A u \in Kinds \ {t} : r.client.work[u] = workers[k].work[u]
    BY <2>6 DEF Acts
  <2>9. /\ MembershipsInv' /\ workers'[k] = r.client /\ (r.calls = << >> => cache'[k] = cache[k])
        /\ \A j \in Key \ {k} : workers'[j] = workers[j]
    BY <2>3, <2>7, <2>8, ApplyKeeps
  <2>10. ASSUME NEW u \in Kinds, workers[Main].work[u].owed # 0, workers'[Main].work[u].owed = 0
         PROVE  cache'[Main][u].cn >= workers[Main].work[u].owed
    <3>1. k = Main
      BY <2>9, <2>10, MembershipsAssumption
    <3>2. u = t
      BY <2>8, <2>9, <2>10, <3>1
    <3>. QED
      BY <2>4, <2>6, <2>9, <2>10, <3>1, <3>2
  <2>. QED
    BY <2>9, <2>10 DEF Fresh, Work
<1>. QED
  BY <1>2, <1>3 DEF TimerFires

LEMMA PollKeeps ==
  ASSUME MembershipsInv, NEW k \in Key, Poll(k)
  PROVE  MembershipsInv' /\ Fresh
<1>1. PICK s : s = <<Periodic>>
  OBVIOUS
<1>2. /\ tasks' = [tasks EXCEPT ![k] = Append(tasks[k], Periodic)]
      /\ UNCHANGED <<changes, workers, cache>>
      /\ tasks \in [Key -> Seq(Tasks)] /\ tasks[k] \in Seq(Tasks)
      /\ \A j \in Key, u \in Kinds : Tended(workers[j], u, tasks[j])
  BY DEF Poll, MembershipsInv
<1>3. Periodic \in Tasks /\ s \in Seq(Tasks)
  BY <1>1 DEF Periodic, Tasks
<1>4. PICK q : q = tasks[k] \o s
  OBVIOUS
<1>5. Append(tasks[k], Periodic) = q
  BY <1>1, <1>2, <1>3, <1>4
<1>6. q \in Seq(Tasks) /\ \A u \in Kinds : Asked(u, tasks[k]) => Asked(u, q)
  BY <1>2, <1>3, <1>4, AskedFacts
<1>7. /\ tasks' \in [Key -> Seq(Tasks)] /\ tasks'[k] = q
      /\ \A j \in Key \ {k} : tasks'[j] = tasks[j]
  BY <1>2, <1>5, <1>6
<1>8. \A j \in Key, u \in Kinds : Tended(workers[j], u, tasks'[j])
  BY <1>2, <1>6, <1>7 DEF Tended
<1>. QED
  BY <1>2, <1>7, <1>8 DEF MembershipsInv, Fresh, Work

LEMMA StopKeeps ==
  ASSUME MembershipsInv, StopWorkers
  PROVE  MembershipsInv' /\ Fresh
<1>1. /\ workers' = [k \in Key |-> Stop(workers[k])]
      /\ UNCHANGED <<changes, tasks, cache>>
  BY DEF StopWorkers
<1>2. \A k \in Key : Stop(workers[k]) \in Clients /\ \A u \in Kinds : Tended(Stop(workers[k]), u, tasks[k])
  BY StopFacts DEF MembershipsInv
<1>3. MembershipsInv'
  BY <1>1, <1>2 DEF MembershipsInv
<1>. QED
  BY <1>3 DEF Fresh

-----------------------------------------------------------------------------
MembershipsNext ==
  \/ \E t \in Kinds, S \in SUBSET Key \ {{}} :
       \/ InstantUpdate(t, S)
       \/ Unheard(t, S)
       \/ \E D \in SUBSET Key : BoundedFetchRequest(t, S, D) \/ UnboundedFetchRequest(t, S, D)
  \/ \E k \in Key :
       \/ PayloadSettles(k) \/ (\E v \in 0..changes : Answered(k, v)) \/ Failed(k)
       \/ TimerFires(k)
       \/ Poll(k)
  \/ StopWorkers

LEMMA MembershipsStep == ASSUME [Next]_vars PROVE [MembershipsNext]_membershipsVars
  BY DEF Next, vars, MembershipsNext, TimerFires, OfKeeper, OfWorkers, membershipsVars

LEMMA MembershipsKeep ==
  ASSUME MembershipsInv, [Next]_vars
  PROVE  MembershipsInv' /\ [Fresh]_membershipsVars
<1>1. [MembershipsNext]_membershipsVars
  BY MembershipsStep
<1>2. CASE MembershipsNext
  <2>1. ASSUME NEW t \in Kinds, NEW S \in SUBSET Key \ {{}},
               \/ InstantUpdate(t, S)
               \/ Unheard(t, S)
               \/ \E D \in SUBSET Key : BoundedFetchRequest(t, S, D) \/ UnboundedFetchRequest(t, S, D)
        PROVE  MembershipsInv' /\ Fresh
    BY <2>1, NotifiedKeeps
  <2>2. ASSUME NEW k \in Key,
               \/ PayloadSettles(k)
               \/ \E v \in 0..changes : Answered(k, v)
               \/ Failed(k)
        PROVE  MembershipsInv' /\ Fresh
    BY <2>2, ExecutionKeeps
  <2>3. ASSUME NEW k \in Key, TimerFires(k) PROVE MembershipsInv' /\ Fresh
    BY <2>3, TimerKeeps
  <2>4. ASSUME NEW k \in Key, Poll(k) PROVE MembershipsInv' /\ Fresh
    BY <2>4, PollKeeps
  <2>5. CASE StopWorkers
    BY <2>5, StopKeeps
  <2>. QED
    BY <1>2, <2>1, <2>2, <2>3, <2>4, <2>5 DEF MembershipsNext
<1>3. CASE UNCHANGED membershipsVars
  BY <1>3 DEF membershipsVars, MembershipsInv
<1>. QED
  BY <1>1, <1>2, <1>3

LEMMA MembershipsInvariance == Spec => []MembershipsInv
<1>1. MembershipsInv /\ [Next]_vars => MembershipsInv'
  BY MembershipsKeep
<1>. QED
  BY MembershipsInitInv, <1>1, PTL DEF Spec

(* Whatever the other worker of the client, polling, stops and late answers *)
(* do, a worker that owes an event has an execution, a delay or a retry to  *)
(* come, for any clients, changes and retries.                              *)
THEOREM PursuitCorrect == Spec => []TargetIsPursued
<1>1. MembershipsInv => TargetIsPursued
  <2> SUFFICES ASSUME MembershipsInv, NEW k \in Key, NEW t \in Kinds, Work(k, t).owed # 0
               PROVE  /\ Work(k, t).handling
                      /\ Queued(k, t) \/ Work(k, t).timer \/ (\E d \in Delays(k) : d.by = t)
    BY DEF TargetIsPursued
  <2>1. Tended(workers[k], t, tasks[k]) /\ tasks[k] \in Seq(Tasks)
    BY DEF MembershipsInv
  <2>2. Work(k, t).handling
    BY <2>1 DEF Tended, Sound, Work
  <2>3. Asked(t, tasks[k]) => Queued(k, t)
    BY <2>1 DEF Asked, Queued
  <2>4. Waits(workers[k], t) => \E d \in Delays(k) : d.by = t
    BY DEF Waits, Delays, NoTimer, Kinds
  <2>. QED
    BY <2>1, <2>2, <2>3, <2>4 DEF Tended, Work
<1>. QED
  BY MembershipsInvariance, <1>1, PTL

(* An event of the main client that is done with has its change in the      *)
(* cache, but for the exceptions that DoneMeansFresh names.                 *)
THEOREM FreshnessCorrect == Spec => DoneMeansFresh
<1>1. MembershipsInv /\ [Next]_vars => [Fresh]_membershipsVars
  BY MembershipsKeep
<1>2. [][Fresh]_membershipsVars => DoneMeansFresh
  BY DEF DoneMeansFresh, Fresh
<1>. QED
  BY MembershipsInvariance, <1>1, <1>2, PTL DEF Spec
=============================================================================
