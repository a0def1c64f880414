-------------------------- MODULE DefinitionsWorker --------------------------
(***************************************************************************)
(* The two workers of src/sync/streaming/UpdateWorkers/                    *)
(* DefinitionsUpdateWorker.ts, for feature flags ("ff") and rule-based     *)
(* segments ("rbs"), each with its Backoff, as functions of their state.   *)
(* A function stands for code that runs without interruption; it returns   *)
(* the worker and the executions of the definitions sync task it asks for. *)
(* Change numbers count from 1, and 0 stands for the initial -1.           *)
(***************************************************************************)
EXTENDS Naturals, Sequences

CONSTANT MaxRetries   \* FETCH_BACKOFF_MAX_RETRIES

ASSUME WorkerAssumption == MaxRetries \in Nat \ {0}

Kinds == {"ff", "rbs"}

\* max, newEvent, handling, bypass, instant: the variables of the worker
\*   (instant is the change number of instantUpdate, 0 for undefined)
\* attempts, timer: its backoff, and whether timeoutID is set
Workers == [max : Nat, newEvent : BOOLEAN, handling : BOOLEAN, bypass : BOOLEAN,
            instant : Nat, attempts : 0..MaxRetries, timer : BOOLEAN]

NewWorker == [max |-> 0, newEvent |-> FALSE, handling |-> FALSE, bypass |-> FALSE,
              instant |-> 0, attempts |-> 0, timer |-> FALSE]

\* An execution of the sync task: by a worker or, "poll", periodic or syncAll.
Tasks == [by : Kinds \cup {"poll"}, till : Nat, instant : Nat]

Periodic == [by |-> "poll", till |-> 0, instant |-> 0]

ResetBackoff(w) == [w EXCEPT !.timer = FALSE, !.attempts = 0]

IsSync(w, changeNumber) == w.max <= changeNumber

\* __handleDefinitionUpdateCall
Handle(k, w, changeNumber) ==
  IF IsSync(w, changeNumber)
  THEN [worker |-> [w EXCEPT !.handling = FALSE], calls |-> << >>]
  ELSE [worker |-> [w EXCEPT !.handling = TRUE, !.newEvent = FALSE],
        calls  |-> <<[by |-> k, till |-> IF w.bypass THEN w.max ELSE 0,
                      instant |-> w.instant]>>]

\* Mutant: retries go on without bypassing the CDN.
GoOnCached(k, w, changeNumber) == Handle(k, ResetBackoff(w), changeNumber)

\* After the last attempt: bypass the CDN or, if that has failed too, give up.
GoOn(k, w, changeNumber) ==
  IF w.bypass
  THEN [worker |-> [w EXCEPT !.handling = FALSE], calls |-> << >>]
  ELSE Handle(k, [ResetBackoff(w) EXCEPT !.bypass = TRUE], changeNumber)

\* Mutant: no retry of an execution that brought too little.
ContinueWithoutRetry(k, w, changeNumber, bothSync) ==
  CASE ~w.handling -> [worker |-> w, calls |-> << >>]
    [] w.handling /\ w.newEvent -> Handle(k, w, changeNumber)
    [] OTHER -> [worker |-> [w EXCEPT !.handling = FALSE], calls |-> << >>]
\* The continuation of an execution the worker asked for.
Continue(k, w, changeNumber, bothSync) ==
  CASE ~w.handling -> [worker |-> w, calls |-> << >>]
    [] w.handling /\ w.newEvent -> Handle(k, w, changeNumber)
    [] w.handling /\ ~w.newEvent /\ bothSync ->
         [worker |-> [w EXCEPT !.handling = FALSE], calls |-> << >>]
    [] w.handling /\ ~w.newEvent /\ ~bothSync /\ w.attempts + 1 < MaxRetries ->
         [worker |-> [w EXCEPT !.timer = TRUE, !.attempts = @ + 1], calls |-> << >>]
    [] OTHER -> GoOn(k, w, changeNumber)

\* Mutant: the previous change number of the notification is not looked at.
PutUnchecked(k, w, changeNumber, n, isNext) ==
  LET q == [w EXCEPT !.max = n, !.newEvent = TRUE, !.bypass = FALSE, !.instant = n]
      h == IF w.timer \/ ~w.handling THEN Handle(k, q, changeNumber)
           ELSE [worker |-> q, calls |-> << >>]
  IN IF n <= changeNumber \/ n <= w.max
     THEN [worker |-> w, calls |-> << >>]
     ELSE [h EXCEPT !.worker = ResetBackoff(@)]

\* put, of change n. isNext: there is a payload and its pcn is changeNumber.
Put(k, w, changeNumber, n, isNext) ==
  LET q == [w EXCEPT !.max = n, !.newEvent = TRUE, !.bypass = FALSE,
                     !.instant = IF isNext THEN n ELSE 0]
      h == IF w.timer \/ ~w.handling THEN Handle(k, q, changeNumber)
           ELSE [worker |-> q, calls |-> << >>]
  IN IF n <= changeNumber \/ n <= w.max
     THEN [worker |-> w, calls |-> << >>]
     ELSE [h EXCEPT !.worker = ResetBackoff(@)]

Stop(w) == [ResetBackoff(w) EXCEPT !.handling = FALSE]

\* The timer of the backoff fires.
Retry(k, w, changeNumber) == Handle(k, [w EXCEPT !.timer = FALSE], changeNumber)
=============================================================================
