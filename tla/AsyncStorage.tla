----------------------------- MODULE AsyncStorage -----------------------------
(***************************************************************************)
(* An asynchronous storage, Redis or pluggable: what its producer writes   *)
(* and what its consumers record have no key in common, so a behaviour is  *)
(* that of one of the two parts while the other is at rest.                *)
(***************************************************************************)
EXTENDS AsyncDefinitions, AsyncRecorders

CONSTANT Parts  \* "definitions", "recorders"

VARIABLE part

vars == <<part, definitionVars, recorderVars>>

Init ==
  /\ part \in Parts
  /\ DefinitionsInit /\ (part # "definitions" => remote = NoRemote)
  /\ RecordersInit /\ (part # "recorders" => store = CHOOSE s \in Stores : TRUE)

Producing == part = "definitions" /\ UNCHANGED <<part, recorderVars>>
Consuming == part = "recorders" /\ UNCHANGED <<part, definitionVars>>

Next ==
  \/ Producing /\ ConnectProducer
  \/ Producing /\ ClearKeys
  \/ Producing /\ SetHash
  \/ Producing /\ ConnectProducerFails
  \/ Producing /\ Restart
  \/ Producing /\ BeginUpdate
  \/ Producing /\ UpdateRBSegments
  \/ Producing /\ UpdateSegment
  \/ Producing /\ KillLocally
  \/ Producing /\ Step
  \/ Producing /\ CommandFails
  \/ \E f \in Feature : Consuming /\ TrackCount(f)
  \/ \E t \in Thing : Consuming /\ TrackUnique(t)
  \/ \E l \in {"impressions", "events"} : \E S \in SUBSET Untracked(l) : Consuming /\ Track(S, l)
  \/ Consuming /\ RecordLatency
  \/ Consuming /\ PostCounts
  \/ Consuming /\ PostUniques
  \/ Consuming /\ Connect
  \/ Consuming /\ Disconnected
  \/ Consuming /\ Answer
  \/ Consuming /\ Fail
  \/ Consuming /\ Destroy
  \/ Consuming /\ Disconnect
  \/ Consuming /\ DeferredDisconnect
  \/ Consuming /\ Close
  \/ \E l \in Lists : \E n \in 1..Len(kept.lists[l]) : Consuming /\ ReadList(l, n)
  \/ \E l \in Lists : \E n \in 1..Len(kept.lists[l]) : Consuming /\ PopList(l, n)
  \/ Consuming /\ ReadCounts
  \/ Consuming /\ ReadLatencies
  \/ Consuming /\ TrimList
  \/ Consuming /\ DeleteHash
  \/ \E key \in Lists \cup Hashes : Consuming /\ Vanish(key)

Spec == Init /\ [][Next]_vars
=============================================================================
