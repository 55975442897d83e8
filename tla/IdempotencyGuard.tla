--------------------------- MODULE IdempotencyGuard ---------------------------
(***************************************************************************)
(* ExecutionIdempotencyGuard: a bounded map from execution ids to the time *)
(* their grant expires.  Every method is synchronous, so each is one step. *)
(*                                                                         *)
(* The map iterates in insertion order, which only matters between entries *)
(* of equal expiry: the model evicts any of the oldest.                    *)
(*                                                                         *)
(* `lastGrant' and `answer' are history variables: no guard reads them.    *)
(***************************************************************************)
EXTENDS Integers, FiniteSets

CONSTANTS
  Ids,             \* execution ids callers present
  EmptyId,         \* the empty string; callers may or may not present it
  MaxEntries, Ttl, CleanupInterval,
  Never, NoAnswer,
  MaxTime          \* bound: last instant of the clock

ASSUME ConstantsAssumption ==
  /\ IsFiniteSet(Ids)
  /\ MaxEntries \in Nat \ {0}
  /\ Ttl \in Nat
  /\ CleanupInterval \in Nat \ {0}
  /\ MaxTime \in Nat
  /\ Never \notin Int

VARIABLES
  now,             \* Date.now()
  entries,         \* entries[id]: when the grant of a tracked id expires
  cleanupCounter,
  lastGrant,       \* history: when id was last granted since clear(), or Never
  answer           \* history: the last answer of acquire

vars == <<now, entries, cleanupCounter, lastGrant, answer>>

Init ==
  /\ now = 0
  /\ entries = [id \in {} |-> 0]
  /\ cleanupCounter = 0
  /\ lastGrant = [id \in Ids |-> Never]
  /\ answer = NoAnswer

Tick ==
  /\ now < MaxTime
  /\ now' = now + 1
  /\ UNCHANGED <<entries, cleanupCounter, lastGrant, answer>>

-----------------------------------------------------------------------------
(* The map.                                                                *)

Without(map, ids) == [id \in DOMAIN map \ ids |-> map[id]]

\* Mutant: a key that is already there keeps its old expiry.
With_Kept(map, id, expiry) ==
  [k \in DOMAIN map \union {id} |-> IF k \in DOMAIN map THEN map[k] ELSE expiry]

With(map, id, expiry) ==
  [k \in DOMAIN map \union {id} |-> IF k = id THEN expiry ELSE map[k]]

Tracked == DOMAIN entries

\* The entries `expiresAt <= now' holds of.
Expired(map) == {id \in DOMAIN map : map[id] <= now}

\* Mutant: entries are dropped at every cleanup, expired or not.
CleanedUp_All == IF cleanupCounter + 1 < CleanupInterval THEN entries
                 ELSE Without(entries, Tracked)

\* maybeCleanup.
CleanedUp ==
  IF cleanupCounter + 1 < CleanupInterval THEN entries
  ELSE Without(entries, Expired(entries))

NextCleanup ==
  IF cleanupCounter + 1 < CleanupInterval THEN cleanupCounter + 1 ELSE 0

\* Mutant: the youngest entry is the one to go.
Oldest_Youngest(map) ==
  {id \in DOMAIN map : \A k \in DOMAIN map : map[k] <= map[id]}

Oldest(map) == {id \in DOMAIN map : \A k \in DOMAIN map : map[id] <= map[k]}

\* Mutant: an entry is evicted only once the map is over its limit.
Evictions_OverLimit(map) ==
  IF Cardinality(DOMAIN map) <= MaxEntries THEN {{}}
  ELSE {{id} \ {EmptyId} : id \in Oldest(map)}

\* The sets of ids evictOldest may delete.  The oldest id is deleted when it
\* is truthy: the empty string is not.
Evictions(map) ==
  IF Cardinality(DOMAIN map) < MaxEntries THEN {{}}
  ELSE {{id} \ {EmptyId} : id \in Oldest(map)}

-----------------------------------------------------------------------------
(* The methods.                                                            *)

\* acquire, when the id is held.
Refuse(id) ==
  /\ id \in DOMAIN CleanedUp \ Expired(CleanedUp)
  /\ entries' = CleanedUp
  /\ cleanupCounter' = NextCleanup
  /\ answer' = [id |-> id, granted |-> FALSE]
  /\ UNCHANGED <<now, lastGrant>>

\* acquire, when it is not.
Grant(id) ==
  /\ id \notin DOMAIN CleanedUp \ Expired(CleanedUp)
  /\ \E evicted \in Evictions(CleanedUp) :
       entries' = With(Without(CleanedUp, evicted), id, now + Ttl)
  /\ cleanupCounter' = NextCleanup
  /\ lastGrant' = [lastGrant EXCEPT ![id] = now]
  /\ answer' = [id |-> id, granted |-> TRUE]
  /\ UNCHANGED now

\* has: an expired entry is dropped on sight.
Has(id) ==
  /\ entries' = Without(entries, {id} \intersect Expired(entries))
  /\ UNCHANGED <<now, cleanupCounter, lastGrant, answer>>

Clear ==
  /\ entries' = [id \in {} |-> 0]
  /\ lastGrant' = [id \in Ids |-> Never]
  /\ UNCHANGED <<now, cleanupCounter, answer>>

Next ==
  \/ Tick
  \/ \E id \in Ids : Refuse(id) \/ Grant(id) \/ Has(id)
  \/ Clear

Spec == Init /\ [][Next]_vars

-----------------------------------------------------------------------------
(* Properties.                                                             *)

Held(id) == lastGrant[id] # Never /\ now < lastGrant[id] + Ttl

\* Type invariant; every entry is the last grant of its id.
TypeOK ==
  /\ now \in 0..MaxTime
  /\ Tracked \subseteq Ids
  /\ entries \in [Tracked -> Int]
  /\ cleanupCounter \in 0..(CleanupInterval - 1)
  /\ lastGrant \in [Ids -> Nat \union {Never}]
  /\ answer \in [id : Ids, granted : BOOLEAN] \union {NoAnswer}
  /\ \A id \in Tracked :
       lastGrant[id] # Never /\ entries[id] = lastGrant[id] + Ttl
  /\ \A id \in Ids : lastGrant[id] # Never => lastGrant[id] <= now

Younger(id) ==
  {k \in Ids \ {id} : lastGrant[k] # Never /\ lastGrant[k] >= lastGrant[id]}

\* A grant still in its time is forgotten only under pressure: MaxEntries other
\* ids were granted since.  So an execution can run twice within the TTL only
\* when the guard tracks its full number of younger ones (evictOldest).
ForgottenUnderPressure ==
  \A id \in Ids :
    Held(id) /\ id \notin Tracked => Cardinality(Younger(id)) >= MaxEntries

\* "Uses a bounded in-memory set": no more than MaxEntries ids are tracked.
Bounded == Cardinality(Tracked) <= MaxEntries

Filter == INSTANCE DuplicateFilter WITH Capacity <- MaxEntries

\* The guard is a duplicate filter of its capacity: it refuses only what is
\* held, so no execution is dropped as a duplicate that is none, and grants
\* what is held only under pressure (acquire).
ImplementsFilter == Filter!Spec
=============================================================================
