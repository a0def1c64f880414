-------------------------- MODULE MembershipsWorker --------------------------
(***************************************************************************)
(* The update workers of one client for its segments ("ms") and its large  *)
(* segments ("ls"): src/sync/streaming/UpdateWorkers/                      *)
(* MySegmentsUpdateWorker.ts, as functions of their state. They share one  *)
(* _delay and one _delayTimeoutID. A function stands for code that runs    *)
(* without interruption; it returns the pair of workers and the executions *)
(* of the memberships sync task it asks for. Change numbers count from 1,  *)
(* and 0 stands for -1. cn is the change number of the cache looked at.    *)
(***************************************************************************)
EXTENDS Integers, Sequences, FiniteSetsExt

CONSTANT MaxRetries   \* FETCH_BACKOFF_MAX_RETRIES

ASSUME WorkerAssumption == MaxRetries \in Nat \ {0}

Kinds == {"ms", "ls"}

Larger(a, b) == Max({a, b})

\* payload: the change number of _segmentsData, 0 for undefined
\* attempts, timer: the backoff, and whether its timeoutID is set
\* owed: what the worker took on and has not finished, given up or been told to
\*   stop; it is not in the code
Workers == [max : Nat, current : Nat, newEvent : BOOLEAN, handling : BOOLEAN,
            bypass : BOOLEAN, payload : Nat, attempts : 0..MaxRetries,
            timer : BOOLEAN, owed : Nat]

NewWorker == [max |-> 0, current |-> 0, newEvent |-> FALSE, handling |-> FALSE,
              bypass |-> FALSE, payload |-> 0, attempts |-> 0, timer |-> FALSE,
              owed |-> 0]

\* A delayed fetch: whose it is, and the change number it is waited for.
Timers == [by : Kinds, target : Nat]
NoTimer == [by |-> "none", target |-> 0]

\* work: the two workers
\* delay: whether _delay is set
\* armed: the delayed fetch whose timer is _delayTimeoutID
\* orphans: those whose timers were overwritten in _delayTimeoutID
NewClient == [work |-> [t \in Kinds |-> NewWorker], delay |-> FALSE,
              armed |-> NoTimer, orphans |-> {}]

Tasks == [by : Kinds \cup {"poll"}, payload : Nat, till : Nat, target : Nat]
Periodic == [by |-> "poll", payload |-> 0, till |-> 0, target |-> 0]

With(c, t, w) == [c EXCEPT !.work[t] = w]
Idle(c) == [client |-> c, calls |-> << >>]
ResetBackoff(w) == [w EXCEPT !.timer = FALSE, !.attempts = 0]
Leave(w) == [w EXCEPT !.handling = FALSE, !.owed = 0]

Execution(w, t, target) ==
  [by |-> t, payload |-> w.payload, till |-> IF w.bypass THEN w.max ELSE 0,
   target |-> target]

\* __handleMySegmentsUpdateCall
Handle(c, t, cn) ==
  LET w == c.work[t]
      busy == [w EXCEPT !.handling = TRUE, !.newEvent = FALSE]
      old == IF c.armed = NoTimer THEN {} ELSE {c.armed}
  IN CASE w.max <= Larger(w.current, cn) -> Idle(With(c, t, Leave(w)))
       [] w.max > Larger(w.current, cn) /\ c.delay ->
            Idle([With(c, t, busy) EXCEPT !.armed = [by |-> t, target |-> w.max],
                                          !.orphans = @ \cup old])
       [] OTHER -> [client |-> With(c, t, busy), calls |-> <<Execution(w, t, w.max)>>]

\* The timer of a delayed fetch fires: payload, till and max are those of now.
DelayElapses(c, d) ==
  [client |-> [c EXCEPT !.delay = FALSE,
                        !.armed = IF @ = d THEN NoTimer ELSE @,
                        !.orphans = IF c.armed = d THEN @ ELSE @ \ {d}],
   calls  |-> <<Execution(c.work[d.by], d.by, d.target)>>]

\* The timer of the backoff fires.
Retry(c, t, cn) == Handle(With(c, t, [c.work[t] EXCEPT !.timer = FALSE]), t, cn)

\* Mutant: retries go on without bypassing the CDN.
GoOnCached(c, t, cn) == Handle(With(c, t, ResetBackoff(c.work[t])), t, cn)

\* After the last attempt: bypass the CDN or, if that has failed too, give up.
GoOn(c, t, cn) ==
  LET w == c.work[t] IN
  IF w.bypass THEN Idle(With(c, t, Leave(w)))
  ELSE Handle(With(c, t, [ResetBackoff(w) EXCEPT !.bypass = TRUE]), t, cn)

\* Mutant: what was waited for when the execution began is taken for brought.
BroughtTarget(w, ok, target, cn) == IF ok THEN Larger(w.current, target) ELSE w.current

\* What an execution brought, by the change number of the cache if it has one.
Brought(w, ok, target, cn) ==
  CASE ~ok -> w.current
    [] ok /\ cn > 0 -> cn
    [] OTHER -> Larger(w.current, target)

\* Mutant: an event that came meanwhile is forgotten when the execution failed.
ContinueForgetting(c, t, ok, target, cn) ==
  LET w == [c.work[t] EXCEPT !.current = Brought(c.work[t], ok, target, cn)]
      d == With(c, t, w)
  IN CASE ~c.work[t].handling -> Idle(c)
       [] c.work[t].handling /\ w.newEvent /\ ok -> Handle(d, t, cn)
       [] OTHER -> Idle(With(c, t, [w EXCEPT !.handling = FALSE]))

\* The continuation of an execution a worker asked for.
Continue(c, t, ok, target, cn) ==
  LET w == [c.work[t] EXCEPT !.current = Brought(c.work[t], ok, target, cn)]
      d == With(c, t, w)
  IN CASE ~w.handling -> Idle(c)
       [] w.handling /\ w.newEvent -> Handle(d, t, cn)
       [] w.handling /\ ~w.newEvent /\ w.max <= w.current -> Idle(With(c, t, Leave(w)))
       [] w.handling /\ ~w.newEvent /\ w.max > w.current /\ w.attempts + 1 < MaxRetries ->
            Idle(With(c, t, [w EXCEPT !.timer = TRUE, !.attempts = @ + 1]))
       [] OTHER -> GoOn(d, t, cn)

\* put, of change n. A delayed one has a delay other than 0. While a delay is
\* set, for whichever kind, an event only raises the target of its own kind.
Put(c, t, n, payload, delayed, cn) ==
  LET w == c.work[t]
      q == [c EXCEPT !.work[t] = [w EXCEPT !.max = n, !.newEvent = TRUE, !.bypass = FALSE,
                                           !.payload = IF payload THEN n ELSE 0,
                                           !.owed = n],
                     !.delay = delayed]
      h == IF w.timer \/ ~w.handling THEN Handle(q, t, cn) ELSE Idle(q)
  IN CASE n <= Larger(w.current, cn) \/ n <= w.max -> Idle(c)
       [] n > Larger(w.current, cn) /\ n > w.max /\ c.delay ->
            Idle(With(c, t, [w EXCEPT !.max = n]))
       [] OTHER -> [h EXCEPT !.client.work[t] = ResetBackoff(@)]

\* Both workers are stopped. Only the last timer is cleared.
Stop(c) ==
  [c EXCEPT !.work = [t \in Kinds |-> ResetBackoff(Leave(c.work[t]))],
            !.delay = FALSE, !.armed = NoTimer]
=============================================================================
