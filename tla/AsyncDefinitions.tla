--------------------------- MODULE AsyncDefinitions ---------------------------
(***************************************************************************)
(* Definitions, rule-based segments and segments in an asynchronous        *)
(* storage (Redis or a pluggable one), as its producer writes them: the    *)
(* cache of another SDK key is cleared when the producer connects, then    *)
(* one update or kill follows the other.                                   *)
(*                                                                         *)
(* An update is a set of calls that run in parallel, each a chain of       *)
(* commands; a command takes effect at once and its answer lets the call   *)
(* go on.  A command that fails ends its call and the promise of the       *)
(* update, while the other calls of that update go on.  The producer may   *)
(* be restarted between any two commands.                                  *)
(*                                                                         *)
(* That the producer waits for one update or kill before the next one is   *)
(* external: the synchroniser is not part of this repository.              *)
(***************************************************************************)
EXTENDS Integers, FiniteSets, SequencesExt

CONSTANTS
  Rules,       \* shapes of definitions: [name, trafficType, sets]
  RBNames,     \* names of rule-based segments
  SegmentKeys, \* keys of a segment
  FlagSet,
  SetsFilter,  \* the flag sets the producer is configured with; none: no filter
  MaxUpdates,  \* bound: updates and kills
  MaxFaults    \* bound: commands that fail and restarts

ASSUME AsyncDefinitionsAssumption ==
  /\ IsFiniteSet(Rules)
  /\ SetsFilter \subseteq FlagSet
  /\ {MaxUpdates, MaxFaults} \subseteq Nat

VARIABLES
  remote,   \* contents: defs, tts, sets, rbs, tills, keys of a segment, hash
  link,     \* the producer: "connecting", "clearing", "hashing", "ready" or "failed"
  calls,    \* the running calls of updates and kills
  upstream, \* ghost: what the backend had when the last update was fetched
  last,     \* the last update: [part, toAdd, toRemove, keys, outcome]
  late,     \* whether an update began while calls of a failed one were running
  updates, faults

definitionVars == <<remote, link, calls, upstream, last, late, updates, faults>>

-----------------------------------------------------------------------------
\* The contents of the storage, as the wrapper that src/src/storages/pluggable
\* keeps as a reference holds them and as the Redis commands of the same meaning
\* do: definitions, numbers and sets in functions from the keys that exist.
Absent == "absent"

Get(kv, k) == IF k \in DOMAIN kv THEN kv[k] ELSE Absent
Set(kv, k, v) == [x \in DOMAIN kv \cup {k} |-> IF x = k THEN v ELSE kv[x]]
Del(kv, K) == [x \in DOMAIN kv \ K |-> kv[x]]

NumberAt(kv, k) == IF k \in DOMAIN kv THEN kv[k] ELSE 0
Incr(kv, k, n) == Set(kv, k, NumberAt(kv, k) + n)
Decr(kv, k, n) == Set(kv, k, NumberAt(kv, k) - n)

ItemsAt(kv, k) == IF k \in DOMAIN kv THEN kv[k] ELSE {}
AddItems(kv, k, S) == Set(kv, k, ItemsAt(kv, k) \cup S)
RemoveItems(kv, k, S) == Set(kv, k, ItemsAt(kv, k) \ S)

-----------------------------------------------------------------------------
NoDefinition == [name |-> "none"]
Ours == "ours"

\* A definition of shape r, with change number cn, of environment env.
Definition(r, cn, env) ==
  [name |-> r.name, trafficType |-> r.trafficType, sets |-> r.sets, cn |-> cn,
   killed |-> FALSE, env |-> env]

Names == {r.name : r \in Rules}
Batches == {B \in SUBSET Rules : \A a, b \in B : a.name = b.name => a = b}

NoRemote ==
  [defs |-> <<>>, tts |-> <<>>, sets |-> <<>>, rbs |-> <<>>, tills |-> <<>>,
   segments |-> <<>>, hash |-> Absent]

\* Left behind by a producer with another SDK key.
LeftBehind ==
  {[NoRemote EXCEPT !.hash = "other",
                    !.defs = Set(<<>>, r.name, Definition(r, 9, "other")),
                    !.tts = Set(<<>>, r.trafficType, 1),
                    !.tills = Set(<<>>, "definitions", 9)] : r \in Rules}

DefinitionsInit ==
  /\ remote \in LeftBehind \cup {NoRemote, [NoRemote EXCEPT !.hash = Ours]}
  /\ link = "connecting"
  /\ calls = {}
  /\ upstream = [defs |-> <<>>, rbs |-> {}]
  /\ last = [part |-> "none", toAdd |-> {}, toRemove |-> {}, keys |-> {}, outcome |-> "ok"]
  /\ late = FALSE
  /\ updates = 0
  /\ faults = 0

-----------------------------------------------------------------------------
\* The producer connects: when the hash is not its own, the keys are deleted
\* and then the hash is set.

ConnectProducer ==
  /\ link = "connecting"
  /\ link' = IF remote.hash = Ours THEN "ready" ELSE "clearing"
  /\ UNCHANGED <<remote, calls, upstream, last, late, updates, faults>>

Keyed == {"defs", "tts", "sets", "rbs", "tills", "segments"}

\* The deletions run in parallel: some of the keys go.
ClearKeys ==
  /\ link = "clearing"
  /\ \E part \in Keyed : \E K \in (SUBSET DOMAIN remote[part]) \ {{}} :
       remote' = [remote EXCEPT ![part] = Del(@, K)]
  /\ UNCHANGED <<link, calls, upstream, last, late, updates, faults>>

SetHash ==
  /\ link = "clearing"
  /\ \A part \in Keyed : DOMAIN remote[part] = {}
  /\ remote' = [remote EXCEPT !.hash = Ours]
  /\ link' = "ready"
  /\ UNCHANGED <<calls, upstream, last, late, updates, faults>>

ConnectProducerFails ==
  /\ link \in {"connecting", "clearing"}
  /\ faults < MaxFaults
  /\ link' = "failed"
  /\ faults' = faults + 1
  /\ UNCHANGED <<remote, calls, upstream, last, late, updates>>

\* The process ends and another one starts: running calls are gone.
Restart ==
  /\ faults < MaxFaults
  /\ link' = "connecting"
  /\ calls' = {}
  /\ last' = [last EXCEPT !.outcome = IF calls = {} THEN @ ELSE "failed"]
  /\ faults' = faults + 1
  /\ UNCHANGED <<remote, upstream, late, updates>>

-----------------------------------------------------------------------------
\* Updates

Sets(d) == IF d = NoDefinition THEN {} ELSE d.sets
Passes(s) == SetsFilter = {} \/ s \in SetsFilter

\* A mutant: the sets that are no longer those of the definition are kept.
UpdateSetsAdding(sets, name, before, after) ==
  [s \in DOMAIN sets \cup (Sets(after) \ Sets(before)) |->
     IF s \in Sets(after) \ Sets(before) /\ Passes(s) THEN ItemsAt(sets, s) \cup {name}
     ELSE ItemsAt(sets, s)]

\* _updateSets: the commands run in parallel, each on its own flag set.
UpdateSets(sets, name, before, after) ==
  [s \in DOMAIN sets \cup Sets(before) \cup Sets(after) |->
     IF s \in Sets(before) \ Sets(after) THEN ItemsAt(sets, s) \ {name}
     ELSE IF s \in Sets(after) \ Sets(before) /\ Passes(s) THEN ItemsAt(sets, s) \cup {name}
     ELSE ItemsAt(sets, s)]

Call(op, name, d) == [of |-> updates + 1, op |-> op, name |-> name, d |-> d, prev |-> NoDefinition, pc |-> "get"]
AddCall(d) == Call("add", d.name, d)
RemoveCall(name) == Call("remove", name, NoDefinition)
CallAt(op, name, pc) == [Call(op, name, NoDefinition) EXCEPT !.pc = pc]

SetChangeNumber(part) == CallAt("till", part, "till")

\* The keys of the segment.
StoredKeys == ItemsAt(remote.segments, "segment")

\* An update of a part of the storage, which leaves the keys alone.
Latest(p) == [part |-> p, toAdd |-> {}, toRemove |-> {}, keys |-> StoredKeys, outcome |-> "running"]

\* The backend moves on; what changed since the stored change number comes.
BeginUpdate ==
  /\ link = "ready"
  /\ last.outcome # "running"
  /\ updates < MaxUpdates
  /\ \E B \in Batches, gone \in SUBSET Names :
       LET toAdd == {Definition(r, updates + 1, Ours) : r \in B}
           added == {r.name : r \in B}
       IN /\ gone \cap added = {}
          /\ gone \subseteq DOMAIN upstream.defs
          /\ gone \cup added # {}
          /\ calls' = calls \cup {AddCall(d) : d \in toAdd} \cup {RemoveCall(n) : n \in gone}
                            \cup {SetChangeNumber("definitions")}
          /\ upstream' = [upstream EXCEPT !.defs =
               [n \in (DOMAIN @ \cup added) \ gone |->
                  IF n \in added THEN CHOOSE d \in toAdd : d.name = n ELSE @[n]]]
          /\ last' = [Latest("definitions") EXCEPT !.toAdd = toAdd, !.toRemove = gone]
  /\ late' = (late \/ calls # {})
  /\ updates' = updates + 1
  /\ UNCHANGED <<remote, link, faults>>

\* The rule-based segments of an answer have keys of their own: their update is
\* one more, though it runs beside that of the definitions.
UpdateRBSegments ==
  /\ link = "ready"
  /\ last.outcome # "running"
  /\ calls = {}
  /\ updates < MaxUpdates
  /\ \E names \in SUBSET RBNames :
       /\ calls' = {CallAt("rbs", n, "set") : n \in names \ upstream.rbs}
                   \cup {CallAt("rbs", n, "delete") : n \in upstream.rbs \ names}
                   \cup {SetChangeNumber("rbSegments")}
       /\ upstream' = [upstream EXCEPT !.rbs = names]
  /\ last' = Latest("rbSegments")
  /\ updates' = updates + 1
  /\ UNCHANGED <<remote, link, late, faults>>

\* A segment: keys are added and removed, and its change number set, in parallel.
UpdateSegment ==
  /\ link = "ready"
  /\ last.outcome # "running"
  /\ calls = {}
  /\ updates < MaxUpdates
  /\ \E added, removed \in SUBSET SegmentKeys :
       /\ added \cap removed = {}
       /\ calls' = {[CallAt("keys", "segment", "add") EXCEPT !.prev = added] : x \in added}
                   \cup {[CallAt("keys", "segment", "remove") EXCEPT !.prev = removed] : x \in removed}
                   \cup {SetChangeNumber("segment")}
       /\ last' = [Latest("segment") EXCEPT !.keys = (StoredKeys \cup added) \ removed]
  /\ updates' = updates + 1
  /\ UNCHANGED <<remote, link, upstream, late, faults>>

\* killLocally: the definition is read, and stored anew when it is older.
Killed(d, cn) == [d EXCEPT !.killed = TRUE, !.cn = cn]

KillLocally ==
  /\ link = "ready"
  /\ last.outcome # "running"
  /\ calls = {}
  /\ updates < MaxUpdates
  /\ \E n \in DOMAIN remote.defs :
       LET d == Killed(remote.defs[n], updates + 1)
       IN /\ calls' = {AddCall(d)}
          /\ upstream' = IF n \in DOMAIN upstream.defs THEN [upstream EXCEPT !.defs[n] = d] ELSE upstream
          /\ last' = [Latest("none") EXCEPT !.toAdd = {d}]
  /\ updates' = updates + 1
  /\ UNCHANGED <<remote, link, late, faults>>

-----------------------------------------------------------------------------
\* The commands of a call, in their order

\* The call goes on at pc, or is over.
Then(c, pc) ==
  /\ calls' = (calls \ {c}) \cup {[c EXCEPT !.pc = pc]}
  /\ UNCHANGED last

Over(c) ==
  /\ calls' = calls \ {c}
  /\ last' = IF c.of = updates /\ last.outcome = "running" /\ ~\E o \in calls \ {c} : o.of = c.of
             THEN [last EXCEPT !.outcome = "ok"] ELSE last

GetStep(c) ==
  /\ c.pc = "get"
  /\ LET prev == IF c.name \in DOMAIN remote.defs THEN remote.defs[c.name] ELSE NoDefinition
         next == IF c.op = "add" THEN "set" ELSE IF prev = NoDefinition THEN "del" ELSE "decr"
     IN calls' = (calls \ {c}) \cup {[c EXCEPT !.prev = prev, !.pc = next]}
  /\ UNCHANGED <<remote, last>>

SetStep(c) ==
  /\ c.op = "add" /\ c.pc = "set"
  /\ remote' = [remote EXCEPT !.defs = Set(@, c.name, c.d)]
  /\ Then(c, IF c.prev # NoDefinition /\ c.prev.trafficType = c.d.trafficType THEN "sets" ELSE "incr")

IncrStep(c) ==
  /\ c.pc = "incr"
  /\ remote' = [remote EXCEPT !.tts = Incr(@, c.d.trafficType, 1)]
  /\ Then(c, IF c.prev # NoDefinition THEN "decr" ELSE "sets")

\* _decrementCounts: a count that came to 0 is deleted by another command.
DecrStep(c) ==
  /\ c.pc = "decr"
  /\ remote' = [remote EXCEPT !.tts = Decr(@, c.prev.trafficType, 1)]
  /\ Then(c, IF remote'.tts[c.prev.trafficType] = 0 THEN "delType" ELSE "sets")

DelTypeStep(c) ==
  /\ c.pc = "delType"
  /\ remote' = [remote EXCEPT !.tts = Del(@, {c.prev.trafficType})]
  /\ Then(c, "sets")

SetsStep(c) ==
  /\ c.pc = "sets"
  /\ remote' = [remote EXCEPT !.sets = UpdateSets(@, c.name, c.prev, c.d)]
  /\ IF c.op = "add" THEN Over(c) ELSE Then(c, "del")

DelStep(c) ==
  /\ c.pc = "del"
  /\ remote' = [remote EXCEPT !.defs = Del(@, {c.name})]
  /\ Over(c)

TillStep(c) ==
  /\ c.pc = "till"
  /\ remote' = [remote EXCEPT !.tills = Set(@, c.name, c.of)]
  /\ Over(c)

RBStep(c) ==
  /\ c.op = "rbs"
  /\ remote' = [remote EXCEPT !.rbs = IF c.pc = "set" THEN Set(@, c.name, c.of) ELSE Del(@, {c.name})]
  /\ Over(c)

KeysStep(c) ==
  /\ c.op = "keys"
  /\ remote' = [remote EXCEPT !.segments = IF c.pc = "add" THEN AddItems(@, c.name, c.prev)
                                                           ELSE RemoveItems(@, c.name, c.prev)]
  /\ Over(c)

Step ==
  /\ \E c \in calls :
       \/ GetStep(c) \/ SetStep(c) \/ IncrStep(c) \/ DecrStep(c) \/ DelTypeStep(c)
       \/ SetsStep(c) \/ DelStep(c) \/ TillStep(c) \/ RBStep(c) \/ KeysStep(c)
  /\ UNCHANGED <<link, upstream, late, updates, faults>>

\* A mutant: the update goes on as if the call had succeeded.
CommandFailsSilently ==
  /\ faults < MaxFaults
  /\ \E c \in calls : Over(c)
  /\ faults' = faults + 1
  /\ UNCHANGED <<remote, link, upstream, late, updates>>

\* A command fails: its call is over, and so is the promise of its update.
CommandFails ==
  /\ faults < MaxFaults
  /\ \E c \in calls :
       /\ calls' = calls \ {c}
       /\ last' = IF c.of = updates THEN [last EXCEPT !.outcome = "failed"] ELSE last
  /\ faults' = faults + 1
  /\ UNCHANGED <<remote, link, upstream, late, updates>>

-----------------------------------------------------------------------------
ChangeNumber(p) == IF p \in DOMAIN remote.tills THEN remote.tills[p] ELSE -1
NamesBySet(s) == ItemsAt(remote.sets, s)
TrafficTypeExists(t) == NumberAt(remote.tts, t) > 0

Settled == link = "ready" /\ calls = {}

\* A producer that is ready has nothing of another SDK key in its storage, wherever
\* the clearing was cut off by a restart or a failure; and an update whose promise
\* resolved is in the storage as a whole: the last one wrote its definitions,
\* removed the others and left its change number.
AnsweredIsStored ==
  /\ link = "ready" => \A n \in DOMAIN remote.defs : remote.defs[n].env = Ours
  /\ Settled /\ last.outcome = "ok" /\ ~late =>
       /\ \A d \in last.toAdd : Get(remote.defs, d.name) = d
       /\ last.toRemove \cap DOMAIN remote.defs = {}
       /\ StoredKeys = last.keys
       /\ last.part # "none" => ChangeNumber(last.part) = updates

\* While no command failed, the storage has the definitions of the backend once
\* the calls are over, each flag set lists exactly those that are in it and
\* pass the filter, and no traffic type is counted more often than it occurs.
IndexesFollow ==
  Settled /\ faults = 0 =>
    /\ remote.defs = upstream.defs
    /\ DOMAIN remote.rbs = upstream.rbs
    /\ \A s \in FlagSet :
         NamesBySet(s) =
           IF Passes(s) THEN {n \in DOMAIN remote.defs : s \in remote.defs[n].sets} ELSE {}
    /\ \A t \in DOMAIN remote.tts : TrafficTypeExists(t) =>
         remote.tts[t] <= Cardinality({n \in DOMAIN remote.defs : remote.defs[n].trafficType = t})
=============================================================================
