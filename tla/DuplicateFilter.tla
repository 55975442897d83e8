---------------------------- MODULE DuplicateFilter ----------------------------
(***************************************************************************)
(* What the callers of ExecutionIdempotencyGuard rely on: an execution id  *)
(* is granted once in every period of Ttl, unless Capacity other ids were  *)
(* granted since, and refused only while it is held.  Nothing here says    *)
(* how the ids are remembered.                                             *)
(***************************************************************************)
EXTENDS Integers, FiniteSets

CONSTANTS Ids, Capacity, Ttl, Never, NoAnswer

VARIABLES
  now,        \* the clock
  lastGrant,  \* lastGrant[id]: when id was last granted, or Never
  answer      \* the last answer given: [id, granted], or NoAnswer

vars == <<now, lastGrant, answer>>

Init ==
  /\ now \in Nat
  /\ lastGrant = [id \in Ids |-> Never]
  /\ answer = NoAnswer

Held(id) == lastGrant[id] # Never /\ now < lastGrant[id] + Ttl

\* The other ids granted at id's last grant or after it.
Younger(id) ==
  {k \in Ids \ {id} : lastGrant[k] # Never /\ lastGrant[k] >= lastGrant[id]}

Pressed(id) == Cardinality(Younger(id)) >= Capacity

Pass ==
  /\ now' \in Nat
  /\ now' > now
  /\ UNCHANGED <<lastGrant, answer>>

Refuse(id) ==
  /\ Held(id)
  /\ answer' = [id |-> id, granted |-> FALSE]
  /\ UNCHANGED <<now, lastGrant>>

Grant(id) ==
  /\ ~Held(id) \/ Pressed(id)
  /\ lastGrant' = [lastGrant EXCEPT ![id] = now]
  /\ answer' = [id |-> id, granted |-> TRUE]
  /\ UNCHANGED now

Clear ==
  /\ lastGrant' = [id \in Ids |-> Never]
  /\ UNCHANGED <<now, answer>>

Next == Pass \/ (\E id \in Ids : Refuse(id) \/ Grant(id)) \/ Clear

Spec == Init /\ [][Next]_vars
=============================================================================
