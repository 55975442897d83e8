----------------------- MODULE IdempotencyGuardProofs -----------------------
(***************************************************************************)
(* Proofs about the idempotency guard, for every finite set of ids, every  *)
(* capacity, period and cleanup interval.                                  *)
(***************************************************************************)
EXTENDS IdempotencyGuard, FiniteSetTheorems, TLAPS

-----------------------------------------------------------------------------
(* The map.                                                                *)

\* Entries are the last grants of their ids.
Faithful(map) ==
  /\ DOMAIN map \subseteq Ids
  /\ map = [k \in DOMAIN map |-> map[k]]
  /\ \A id \in DOMAIN map :
       lastGrant[id] # Never /\ map[id] = lastGrant[id] + Ttl

\* Dropping entries keeps the others faithful.
LEMMA WithoutFaithful ==
  ASSUME NEW map, NEW ids, Faithful(map)
  PROVE  Faithful(Without(map, ids))
<1> DEFINE kept == Without(map, ids)
<1>1. DOMAIN kept = DOMAIN map \ ids /\ \A k \in DOMAIN kept : kept[k] = map[k]
  BY DEF Without
<1>2. kept = [k \in DOMAIN kept |-> kept[k]]
  BY DEF Without
<1> HIDE DEF kept
<1>3. Faithful(kept)
  BY <1>1, <1>2 DEF Faithful
<1> QED
  BY <1>3 DEF kept

\* The cleanup drops expired entries alone.
LEMMA CleanupFaithful ==
  ASSUME TypeOK
  PROVE  /\ Faithful(entries)
         /\ Faithful(CleanedUp)
         /\ DOMAIN CleanedUp \subseteq Tracked
         /\ \A k \in Tracked \ DOMAIN CleanedUp : ~Held(k)
         /\ \A k \in DOMAIN CleanedUp : CleanedUp[k] = entries[k]
         /\ NextCleanup \in 0..(CleanupInterval - 1)
<1>1. Faithful(entries)
  BY DEF TypeOK, Faithful, Tracked
<1>2. \A k \in Expired(entries) : k \in Tracked /\ ~Held(k)
  <2>1. ASSUME NEW k \in Expired(entries)
        PROVE  k \in Tracked /\ ~Held(k)
    <3>1. k \in Tracked /\ entries[k] <= now
      BY DEF Expired, Tracked
    <3>2. entries[k] = lastGrant[k] + Ttl /\ k \in Ids
      BY <3>1 DEF TypeOK
    <3> QED
      BY <3>1, <3>2, ConstantsAssumption DEF Held, TypeOK
  <2> QED
    BY <2>1
<1>3. NextCleanup \in 0..(CleanupInterval - 1)
  BY ConstantsAssumption DEF NextCleanup, TypeOK
<1>4. CASE cleanupCounter + 1 < CleanupInterval
  BY <1>1, <1>3, <1>4 DEF CleanedUp, Tracked
<1>5. CASE ~(cleanupCounter + 1 < CleanupInterval)
  <2>1. CleanedUp = Without(entries, Expired(entries))
    BY <1>5 DEF CleanedUp
  <2>2. Faithful(CleanedUp)
    BY <1>1, <2>1, WithoutFaithful
  <2>3. /\ DOMAIN CleanedUp = Tracked \ Expired(entries)
        /\ \A k \in DOMAIN CleanedUp : CleanedUp[k] = entries[k]
    BY <2>1 DEF Tracked, Without
  <2> QED
    BY <1>1, <1>2, <1>3, <2>2, <2>3
<1> QED
  BY <1>4, <1>5

\* What evictOldest deletes: nothing below capacity, else at most one id, one
\* that expires no later than any other.
LEMMA EvictedOldest ==
  ASSUME NEW map, NEW evicted \in Evictions(map), NEW k \in evicted
  PROVE  /\ ~(Cardinality(DOMAIN map) < MaxEntries)
         /\ k \in DOMAIN map
         /\ \A j \in DOMAIN map : map[k] <= map[j]
BY DEF Evictions, Oldest

-----------------------------------------------------------------------------
(* Types.                                                                  *)

\* The initial state is well typed.
LEMMA InitType == Init => TypeOK
BY ConstantsAssumption DEF Init, TypeOK, Tracked

\* A grant keeps the types.
LEMMA GrantType ==
  ASSUME TypeOK, NEW id \in Ids, Grant(id)
  PROVE  TypeOK'
<1>1. PICK evicted \in Evictions(CleanedUp) :
        entries' = With(Without(CleanedUp, evicted), id, now + Ttl)
  BY DEF Grant
<1> DEFINE kept == Without(CleanedUp, evicted)
<1>2. Faithful(kept)
  BY CleanupFaithful, WithoutFaithful
<1>3. entries' = With(kept, id, now + Ttl)
  BY <1>1
<1> HIDE DEF kept
<1>4. /\ DOMAIN entries' = DOMAIN kept \union {id}
      /\ entries'[id] = now + Ttl
      /\ \A k \in DOMAIN kept \ {id} : entries'[k] = kept[k]
      /\ entries' = [k \in DOMAIN entries' |-> entries'[k]]
  <2> DEFINE new == With(kept, id, now + Ttl)
  <2>1. /\ DOMAIN new = DOMAIN kept \union {id}
        /\ new[id] = now + Ttl
        /\ \A k \in DOMAIN kept \ {id} : new[k] = kept[k]
    BY DEF With
  <2>2. new = [k \in DOMAIN new |-> new[k]]
    BY DEF With
  <2> HIDE DEF new
  <2>3. entries' = new
    BY <1>3 DEF new
  <2> QED
    BY <2>1, <2>2, <2>3
<1>5. now \in Nat /\ Ttl \in Nat /\ Never \notin Int
  BY ConstantsAssumption DEF TypeOK
<1>6. lastGrant' = [lastGrant EXCEPT ![id] = now] /\ now' = now
  BY DEF Grant
<1>7. lastGrant' \in [Ids -> Nat \union {Never}]
  BY <1>5, <1>6 DEF TypeOK
<1>8. ASSUME NEW k \in DOMAIN entries'
      PROVE  /\ k \in Ids
             /\ entries'[k] \in Int
             /\ lastGrant'[k] # Never
             /\ entries'[k] = lastGrant'[k] + Ttl
  <2>1. CASE k = id
    BY <1>4, <1>5, <1>6, <2>1 DEF TypeOK
  <2>2. CASE k # id
    <3>1. k \in DOMAIN kept /\ entries'[k] = kept[k]
      BY <1>4, <2>2
    <3>2. k \in Ids /\ lastGrant[k] # Never /\ kept[k] = lastGrant[k] + Ttl
      BY <1>2, <3>1 DEF Faithful
    <3>3. lastGrant'[k] = lastGrant[k] /\ lastGrant[k] \in Nat
      BY <1>6, <2>2, <3>2 DEF TypeOK
    <3> QED
      BY <1>5, <3>1, <3>2, <3>3
  <2> QED
    BY <2>1, <2>2
<1>9. entries' \in [Tracked' -> Int] /\ Tracked' \subseteq Ids
  BY <1>4, <1>8 DEF Tracked
<1>10. \A k \in Ids : lastGrant'[k] # Never => lastGrant'[k] <= now'
  BY <1>5, <1>6 DEF TypeOK
<1>11. cleanupCounter' \in 0..(CleanupInterval - 1)
  BY CleanupFaithful DEF Grant
<1>12. answer' \in [id : Ids, granted : BOOLEAN] \union {NoAnswer}
  BY DEF Grant
<1> QED
  BY <1>6, <1>7, <1>8, <1>9, <1>10, <1>11, <1>12 DEF TypeOK, Tracked

\* Every step keeps the types.
LEMMA NextType == TypeOK /\ [Next]_vars => TypeOK'
<1> SUFFICES ASSUME TypeOK, [Next]_vars PROVE TypeOK'
  OBVIOUS
<1>1. CASE Tick
  BY <1>1, ConstantsAssumption DEF Tick, TypeOK, Tracked
<1>2. ASSUME NEW id \in Ids, Refuse(id) PROVE TypeOK'
  <2>1. Faithful(entries') /\ cleanupCounter' \in 0..(CleanupInterval - 1)
    BY <1>2, CleanupFaithful DEF Refuse
  <2>2. lastGrant' = lastGrant /\ now' = now
    BY <1>2 DEF Refuse
  <2>3. answer' \in [id : Ids, granted : BOOLEAN] \union {NoAnswer}
    BY <1>2 DEF Refuse
  <2>4. entries' \in [Tracked' -> Int] /\ Tracked' \subseteq Ids
    <3>1. ASSUME NEW k \in DOMAIN entries' PROVE entries'[k] \in Int
      BY <2>1, ConstantsAssumption DEF Faithful, TypeOK
    <3> QED
      BY <2>1, <3>1 DEF Faithful, Tracked
  <2> QED
    BY <2>1, <2>2, <2>3, <2>4 DEF TypeOK, Faithful, Tracked
<1>3. ASSUME NEW id \in Ids, Grant(id) PROVE TypeOK'
  BY <1>3, GrantType
<1>4. ASSUME NEW id \in Ids, Has(id) PROVE TypeOK'
  <2>1. Faithful(entries')
    BY <1>4, CleanupFaithful, WithoutFaithful DEF Has
  <2>2. lastGrant' = lastGrant /\ now' = now /\ cleanupCounter' = cleanupCounter
        /\ answer' = answer
    BY <1>4 DEF Has
  <2>3. entries' \in [Tracked' -> Int] /\ Tracked' \subseteq Ids
    <3>1. ASSUME NEW k \in DOMAIN entries' PROVE entries'[k] \in Int
      BY <2>1, ConstantsAssumption DEF Faithful, TypeOK
    <3> QED
      BY <2>1, <3>1 DEF Faithful, Tracked
  <2> QED
    BY <2>1, <2>2, <2>3 DEF TypeOK, Faithful, Tracked
<1>5. CASE Clear
  BY <1>5 DEF Clear, TypeOK, Tracked
<1>6. CASE UNCHANGED vars
  BY <1>6 DEF vars, TypeOK, Tracked
<1> QED
  BY <1>1, <1>2, <1>3, <1>4, <1>5, <1>6 DEF Next

\* Type correctness of the guard.
THEOREM TypeCorrect == Spec => []TypeOK
BY InitType, NextType, PTL DEF Spec

-----------------------------------------------------------------------------
(* A held grant is forgotten only under pressure.                          *)

\* The younger ids are finitely many, and never more than the other ids.
LEMMA YoungerFinite ==
  ASSUME NEW id \in Ids
  PROVE  /\ IsFiniteSet(Younger(id))
         /\ Cardinality(Younger(id)) \in Nat
         /\ Cardinality(Younger(id)) <= Cardinality(Ids) - 1
         /\ Cardinality(Ids) \in Nat
<1>1. IsFiniteSet(Ids \ {id}) /\ Cardinality(Ids \ {id}) = Cardinality(Ids) - 1
  BY ConstantsAssumption, FS_RemoveElement
<1>2. Younger(id) \in SUBSET (Ids \ {id})
  BY DEF Younger
<1> QED
  BY <1>1, <1>2, ConstantsAssumption, FS_Subset, FS_CardinalityType

\* When lastGrant only grows, an id's younger ids only gain.
LEMMA YoungerGrows ==
  ASSUME TypeOK, NEW id \in Ids, NEW k \in Ids, k # id,
         lastGrant' = [lastGrant EXCEPT ![id] = now],
         lastGrant[k] # Never
  PROVE  /\ Younger(k) \union {id} \subseteq Younger(k)'
         /\ IsFiniteSet(Younger(k)')
         /\ Cardinality(Younger(k)') \in Nat
         /\ Cardinality(Younger(k)') >= Cardinality(Younger(k))
<1>1. now \in Nat /\ Never \notin Int /\ lastGrant \in [Ids -> Nat \union {Never}]
  BY ConstantsAssumption DEF TypeOK
<1>2. lastGrant'[k] = lastGrant[k] /\ lastGrant[k] \in Nat /\ lastGrant[k] <= now
  BY <1>1 DEF TypeOK
<1>3. Younger(k) \union {id} \subseteq Younger(k)'
  BY <1>1, <1>2 DEF Younger
<1>4. Younger(k)' \in SUBSET Ids
  BY DEF Younger
<1>5. IsFiniteSet(Younger(k)') /\ Cardinality(Younger(k)') \in Nat
  BY <1>4, ConstantsAssumption, FS_Subset, FS_CardinalityType
<1>6. Younger(k) \in SUBSET (Younger(k)')
  BY <1>3
<1>7. Cardinality(Younger(k)) <= Cardinality(Younger(k)')
  BY <1>5, <1>6, FS_Subset
<1>8. Cardinality(Younger(k)) \in Nat
  BY YoungerFinite
<1> QED
  BY <1>3, <1>5, <1>7, <1>8

\* The id a grant evicts leaves MaxEntries younger ones behind: those it was
\* tracked with, and the one that takes its place.
LEMMA EvictedHasYounger ==
  ASSUME TypeOK, NEW id \in Ids, NEW k \in Ids, k # id, Held(k),
         NEW evicted \in Evictions(CleanedUp), k \in evicted,
         id \notin DOMAIN CleanedUp \ Expired(CleanedUp),
         lastGrant' = [lastGrant EXCEPT ![id] = now]
  PROVE  Cardinality(Younger(k)') >= MaxEntries
<1> DEFINE D == DOMAIN CleanedUp
           M == CleanedUp
<1>1. /\ ~(Cardinality(D) < MaxEntries)
      /\ k \in D
      /\ \A j \in D : M[k] <= M[j]
  BY EvictedOldest
<1>2. Faithful(M)
  BY CleanupFaithful
<1>3. now \in Nat /\ Never \notin Int /\ Ttl \in Nat /\ MaxEntries \in Nat
      /\ lastGrant \in [Ids -> Nat \union {Never}]
  BY ConstantsAssumption DEF TypeOK
<1>4. ASSUME NEW j \in D
      PROVE  /\ j \in Ids /\ lastGrant[j] \in Nat
             /\ M[j] = lastGrant[j] + Ttl
             /\ lastGrant[j] >= lastGrant[k]
  <2>1. /\ j \in Ids /\ lastGrant[j] # Never /\ M[j] = lastGrant[j] + Ttl
        /\ k \in Ids /\ lastGrant[k] # Never /\ M[k] = lastGrant[k] + Ttl
    BY <1>1, <1>2 DEF Faithful
  <2>2. lastGrant[j] \in Nat /\ lastGrant[k] \in Nat
    BY <1>3, <2>1
  <2>3. M[k] <= M[j]
    BY <1>1
  <2> QED
    BY <1>3, <2>1, <2>2, <2>3
<1>5. id \notin D
  <2>1. SUFFICES ASSUME id \in D PROVE FALSE
    OBVIOUS
  <2>2. M[id] <= now
    BY <2>1 DEF Expired
  <2>3. M[k] <= M[id] /\ M[k] = lastGrant[k] + Ttl /\ lastGrant[k] \in Nat
        /\ M[id] = lastGrant[id] + Ttl /\ lastGrant[id] \in Nat
    BY <1>1, <1>4, <2>1
  <2>4. now < lastGrant[k] + Ttl
    BY DEF Held
  <2> QED
    BY <1>3, <2>2, <2>3, <2>4
<1>6. D \subseteq Ids
  BY <1>4
<1> HIDE DEF D, M
<1>7. (D \ {k}) \union {id} \subseteq Younger(k)'
  <2>1. lastGrant'[k] = lastGrant[k] /\ lastGrant[k] \in Nat /\ lastGrant[k] <= now
    BY <1>1, <1>3, <1>4 DEF TypeOK
  <2>2. ASSUME NEW j \in D \ {k} PROVE j \in Younger(k)'
    <3>1. lastGrant'[j] = lastGrant[j] /\ lastGrant[j] \in Nat /\ j \in Ids
          /\ lastGrant[j] >= lastGrant[k]
      BY <1>3, <1>4, <1>5, <2>2
    <3> QED
      BY <1>3, <2>1, <3>1 DEF Younger
  <2>3. id \in Younger(k)'
    BY <1>3, <2>1 DEF Younger
  <2> QED
    BY <2>2, <2>3
<1>8. IsFiniteSet(D) /\ Cardinality(D) \in Nat
  BY <1>6, ConstantsAssumption, FS_Subset, FS_CardinalityType
<1>9. Cardinality((D \ {k}) \union {id}) = Cardinality(D)
  <2>1. IsFiniteSet(D \ {k}) /\ Cardinality(D \ {k}) = Cardinality(D) - 1
    BY <1>1, <1>8, FS_RemoveElement
  <2>2. Cardinality((D \ {k}) \union {id}) = Cardinality(D \ {k}) + 1
    BY <1>5, <2>1, FS_AddElement
  <2> QED
    BY <1>8, <2>1, <2>2
<1>10. IsFiniteSet(Younger(k)') /\ Cardinality(Younger(k)') \in Nat
  <2>1. Younger(k)' \in SUBSET Ids
    BY DEF Younger
  <2> QED
    BY <2>1, ConstantsAssumption, FS_Subset, FS_CardinalityType
<1>11. Cardinality(D) <= Cardinality(Younger(k)')
  BY <1>7, <1>9, <1>10, FS_Subset
<1> QED
  BY <1>1, <1>3, <1>8, <1>10, <1>11

\* A grant forgets what is held only under pressure.
LEMMA GrantForgets ==
  ASSUME TypeOK, ForgottenUnderPressure, NEW id \in Ids, Grant(id)
  PROVE  ForgottenUnderPressure'
<1>1. PICK evicted \in Evictions(CleanedUp) :
        entries' = With(Without(CleanedUp, evicted), id, now + Ttl)
  BY DEF Grant
<1>2. lastGrant' = [lastGrant EXCEPT ![id] = now] /\ now' = now
      /\ id \notin DOMAIN CleanedUp \ Expired(CleanedUp)
  BY DEF Grant
<1>3. Tracked' = (DOMAIN CleanedUp \ evicted) \union {id}
  BY <1>1 DEF Tracked, With, Without
<1> SUFFICES ASSUME NEW k \in Ids, Held(k)', k \notin Tracked'
             PROVE  Cardinality(Younger(k)') >= MaxEntries
  BY DEF ForgottenUnderPressure
<1>4. k # id
  BY <1>3
<1>5. Held(k)
  BY <1>2, <1>4 DEF Held, TypeOK
<1>6. CASE k \in Tracked
  <2>1. k \in DOMAIN CleanedUp
    BY <1>5, <1>6, CleanupFaithful
  <2>2. k \in evicted
    BY <1>3, <2>1
  <2> QED
    BY <1>2, <1>4, <1>5, <2>2, EvictedHasYounger
<1>7. CASE k \notin Tracked
  <2>1. Cardinality(Younger(k)) >= MaxEntries
    BY <1>5, <1>7 DEF ForgottenUnderPressure
  <2>2. lastGrant[k] # Never
    BY <1>5 DEF Held
  <2>3. /\ Cardinality(Younger(k)') \in Nat
        /\ Cardinality(Younger(k)') >= Cardinality(Younger(k))
    BY <1>2, <1>4, <2>2, YoungerGrows
  <2>4. Cardinality(Younger(k)) \in Nat
    BY YoungerFinite
  <2> QED
    BY <2>1, <2>3, <2>4, ConstantsAssumption
<1> QED
  BY <1>6, <1>7

\* Every step forgets what is held only under pressure.
LEMMA NextForgets ==
  TypeOK /\ ForgottenUnderPressure /\ [Next]_vars => ForgottenUnderPressure'
<1> SUFFICES ASSUME TypeOK, ForgottenUnderPressure, [Next]_vars
             PROVE  ForgottenUnderPressure'
  OBVIOUS
<1>1. CASE Tick
  <2>1. ASSUME NEW k \in Ids, Held(k)' PROVE Held(k)
    BY <1>1, <2>1, ConstantsAssumption DEF Tick, Held, TypeOK
  <2>2. \A k \in Ids : Younger(k)' = Younger(k)
    BY <1>1 DEF Tick, Younger
  <2>3. Tracked' = Tracked
    BY <1>1 DEF Tick, Tracked
  <2> QED
    BY <2>1, <2>2, <2>3 DEF ForgottenUnderPressure
<1>2. ASSUME NEW id \in Ids, Refuse(id) PROVE ForgottenUnderPressure'
  <2>1. \A k \in Ids : Younger(k)' = Younger(k) /\ (Held(k)' <=> Held(k))
    BY <1>2 DEF Refuse, Younger, Held
  <2>2. Tracked' = DOMAIN CleanedUp
    BY <1>2 DEF Refuse, Tracked
  <2> QED
    BY <2>1, <2>2, CleanupFaithful DEF ForgottenUnderPressure
<1>3. ASSUME NEW id \in Ids, Grant(id) PROVE ForgottenUnderPressure'
  BY <1>3, GrantForgets
<1>4. ASSUME NEW id \in Ids, Has(id) PROVE ForgottenUnderPressure'
  <2>1. \A k \in Ids : Younger(k)' = Younger(k) /\ (Held(k)' <=> Held(k))
    BY <1>4 DEF Has, Younger, Held
  <2>2. Tracked' = Tracked \ ({id} \intersect Expired(entries))
    BY <1>4 DEF Has, Tracked, Without
  <2>3. ASSUME NEW k \in Expired(entries) PROVE ~Held(k)
    <3>1. k \in Tracked /\ entries[k] <= now
      BY <2>3 DEF Expired, Tracked
    <3>2. entries[k] = lastGrant[k] + Ttl /\ k \in Ids
      BY <3>1 DEF TypeOK
    <3> QED
      BY <3>1, <3>2, ConstantsAssumption DEF Held, TypeOK
  <2> QED
    BY <2>1, <2>2, <2>3 DEF ForgottenUnderPressure
<1>5. CASE Clear
  BY <1>5 DEF Clear, ForgottenUnderPressure, Held
<1>6. CASE UNCHANGED vars
  <2>1. \A k \in Ids : Younger(k)' = Younger(k) /\ (Held(k)' <=> Held(k))
    BY <1>6 DEF vars, Younger, Held
  <2> QED
    BY <1>6, <2>1 DEF vars, Tracked, ForgottenUnderPressure
<1> QED
  BY <1>1, <1>2, <1>3, <1>4, <1>5, <1>6 DEF Next

\* Initially nothing is held.
LEMMA InitForgets == Init => ForgottenUnderPressure
BY DEF Init, ForgottenUnderPressure, Held

\* An execution id can be granted twice within its period only after as many
\* other ids as the guard has room for were granted.
THEOREM ForgottenUnderPressureHolds == Spec => []ForgottenUnderPressure
BY InitType, NextType, InitForgets, NextForgets, PTL DEF Spec

-----------------------------------------------------------------------------
(* The set of entries is bounded, where no caller presents the empty id.   *)

\* One element adds at most one.
LEMMA OneMore ==
  ASSUME NEW S, IsFiniteSet(S), NEW x
  PROVE  Cardinality(S \union {x}) <= Cardinality(S) + 1
<1>1. Cardinality(S) \in Nat
  BY FS_CardinalityType
<1>2. CASE x \in S
  BY <1>1, <1>2, FS_AddElement
<1>3. CASE x \notin S
  <2>1. Cardinality(S \union {x}) = Cardinality(S) + 1
    BY <1>3, FS_AddElement
  <2> QED
    BY <1>1, <2>1
<1> QED
  BY <1>2, <1>3

\* A grant makes room for its entry.
LEMMA GrantBounded ==
  ASSUME TypeOK, Bounded, EmptyId \notin Ids, NEW id \in Ids, Grant(id)
  PROVE  Bounded'
<1> DEFINE D == DOMAIN CleanedUp
<1>1. PICK evicted \in Evictions(CleanedUp) :
        entries' = With(Without(CleanedUp, evicted), id, now + Ttl)
  BY DEF Grant
<1>2. Tracked' = (D \ evicted) \union {id}
  BY <1>1 DEF Tracked, With, Without
<1>3. D \subseteq Tracked /\ Tracked \subseteq Ids
  BY CleanupFaithful DEF TypeOK
<1>4. /\ IsFiniteSet(Tracked) /\ IsFiniteSet(D)
      /\ Cardinality(Tracked) \in Nat /\ Cardinality(D) \in Nat
      /\ Cardinality(D) <= Cardinality(Tracked)
  BY <1>3, ConstantsAssumption, FS_Subset, FS_CardinalityType
<1>5. MaxEntries \in Nat /\ Cardinality(D) <= MaxEntries
  BY <1>4, ConstantsAssumption DEF Bounded
<1>6. CASE Cardinality(D) < MaxEntries
  <2>1. evicted = {}
    BY <1>1, <1>6 DEF Evictions
  <2>2. Tracked' = D \union {id}
    BY <1>2, <2>1
  <2>3. Cardinality(D \union {id}) <= Cardinality(D) + 1
    BY <1>4, OneMore
  <2>4. Cardinality(D \union {id}) \in Nat
    BY <1>4, FS_AddElement, FS_CardinalityType
  <2> QED
    BY <1>4, <1>5, <1>6, <2>2, <2>3, <2>4 DEF Bounded
<1>7. CASE ~(Cardinality(D) < MaxEntries)
  <2>1. PICK old \in D : evicted = {old} \ {EmptyId}
    BY <1>1, <1>7 DEF Evictions, Oldest
  <2>2. evicted = {old}
    BY <1>3, <2>1
  <2>3. IsFiniteSet(D \ {old}) /\ Cardinality(D \ {old}) = Cardinality(D) - 1
    BY <1>4, <2>1, FS_RemoveElement
  <2>4. Cardinality((D \ {old}) \union {id}) <= Cardinality(D \ {old}) + 1
    BY <2>3, OneMore
  <2>5. Cardinality((D \ {old}) \union {id}) \in Nat
    BY <2>3, FS_AddElement, FS_CardinalityType
  <2> QED
    BY <1>2, <1>4, <1>5, <2>2, <2>3, <2>4, <2>5 DEF Bounded
<1> QED
  BY <1>6, <1>7

\* No other step adds an entry.
LEMMA NextBounded ==
  EmptyId \notin Ids /\ TypeOK /\ Bounded /\ [Next]_vars => Bounded'
<1> SUFFICES ASSUME EmptyId \notin Ids, TypeOK, Bounded, [Next]_vars
             PROVE  Bounded'
  OBVIOUS
<1>1. ASSUME NEW id \in Ids, Grant(id) PROVE Bounded'
  BY <1>1, GrantBounded
<1>2. ASSUME Tracked' \subseteq Tracked PROVE Bounded'
  <2>1. IsFiniteSet(Tracked)
    BY ConstantsAssumption, FS_Subset DEF TypeOK
  <2>2. /\ Cardinality(Tracked') <= Cardinality(Tracked)
        /\ Cardinality(Tracked') \in Nat /\ Cardinality(Tracked) \in Nat
    BY <1>2, <2>1, FS_Subset, FS_CardinalityType
  <2> QED
    BY <2>2, ConstantsAssumption DEF Bounded
<1>3. CASE Tick \/ UNCHANGED vars
  BY <1>2, <1>3 DEF Tick, vars, Tracked
<1>4. ASSUME NEW id \in Ids, Refuse(id) PROVE Bounded'
  BY <1>2, <1>4, CleanupFaithful DEF Refuse, Tracked
<1>5. ASSUME NEW id \in Ids, Has(id) PROVE Bounded'
  BY <1>2, <1>5 DEF Has, Tracked, Without
<1>6. CASE Clear
  BY <1>2, <1>6 DEF Clear, Tracked
<1> QED
  BY <1>1, <1>3, <1>4, <1>5, <1>6 DEF Next

\* Initially the set is empty.
LEMMA InitBounded == Init => Bounded
<1> SUFFICES ASSUME Init PROVE Bounded
  OBVIOUS
<1>1. Tracked = {}
  BY DEF Init, Tracked
<1> QED
  BY <1>1, FS_EmptySet, ConstantsAssumption DEF Bounded

\* "A bounded in-memory set": true as long as no caller presents the empty id.
THEOREM BoundedHolds ==
  ASSUME EmptyId \notin Ids
  PROVE  Spec => []Bounded
<1>1. TypeOK /\ Bounded /\ [Next]_vars => Bounded'
  BY NextBounded
<1> QED
  BY <1>1, TypeCorrect, InitBounded, PTL DEF Spec

-----------------------------------------------------------------------------
(* The guard implements the duplicate filter.                              *)

\* The guard refuses an id only while its grant is held, and takes a held id for
\* a new one only when it does not track it.
LEMMA RefusedIsHeld ==
  ASSUME TypeOK, NEW id \in Ids
  PROVE  /\ id \in DOMAIN CleanedUp \ Expired(CleanedUp) => Held(id)
         /\ Held(id) /\ id \in Tracked => id \in DOMAIN CleanedUp \ Expired(CleanedUp)
<1>1. ASSUME id \in DOMAIN CleanedUp
      PROVE  /\ id \in Expired(CleanedUp) <=> CleanedUp[id] <= now
             /\ CleanedUp[id] = lastGrant[id] + Ttl
             /\ lastGrant[id] # Never /\ lastGrant[id] \in Nat
  BY <1>1, CleanupFaithful, ConstantsAssumption DEF Faithful, Expired, TypeOK
<1>2. now \in Nat /\ Ttl \in Nat
  BY ConstantsAssumption DEF TypeOK
<1>3. ASSUME id \in DOMAIN CleanedUp \ Expired(CleanedUp) PROVE Held(id)
  BY <1>1, <1>2, <1>3 DEF Held
<1>4. ASSUME Held(id), id \in Tracked
      PROVE  id \in DOMAIN CleanedUp \ Expired(CleanedUp)
  <2>1. id \in DOMAIN CleanedUp
    BY <1>4, CleanupFaithful
  <2> QED
    BY <1>1, <1>2, <1>4, <2>1 DEF Held
<1> QED
  BY <1>3, <1>4

\* Every step of the guard is a step of the filter or changes nothing in it.
LEMMA NextFilters ==
  TypeOK /\ ForgottenUnderPressure /\ [Next]_vars
    => [Filter!Next]_(Filter!vars)
<1> SUFFICES ASSUME TypeOK, ForgottenUnderPressure, [Next]_vars
             PROVE  [Filter!Next]_(Filter!vars)
  OBVIOUS
<1>1. \A id \in Ids : Held(id) <=> Filter!Held(id)
  BY DEF Held, Filter!Held
<1>2. CASE Tick
  BY <1>2, ConstantsAssumption DEF Tick, TypeOK, Filter!Next, Filter!Pass
<1>3. ASSUME NEW id \in Ids, Refuse(id) PROVE Filter!Refuse(id)
  <2>1. Filter!Held(id)
    BY <1>1, <1>3, RefusedIsHeld DEF Refuse
  <2> QED
    BY <1>3, <2>1 DEF Refuse, Filter!Refuse
<1>4. ASSUME NEW id \in Ids, Grant(id) PROVE Filter!Grant(id)
  <2>1. ~Filter!Held(id) \/ Filter!Pressed(id)
    <3>1. SUFFICES ASSUME Held(id) PROVE Filter!Pressed(id)
      BY <1>1
    <3>2. id \notin Tracked
      BY <1>4, <3>1, RefusedIsHeld DEF Grant
    <3>3. Cardinality(Younger(id)) >= MaxEntries
      BY <3>1, <3>2 DEF ForgottenUnderPressure
    <3>4. Younger(id) = Filter!Younger(id)
      BY DEF Younger, Filter!Younger
    <3>5. Filter!Cardinality(Younger(id)) = Cardinality(Younger(id))
      BY Zenon DEF Cardinality, Filter!Cardinality
    <3> QED
      BY <3>3, <3>4, <3>5 DEF Filter!Pressed
  <2> QED
    BY <1>4, <2>1 DEF Grant, Filter!Grant
<1>5. ASSUME NEW id \in Ids, Has(id) PROVE UNCHANGED Filter!vars
  BY <1>5 DEF Has, Filter!vars
<1>6. CASE Clear
  BY <1>6 DEF Clear, Filter!Next, Filter!Clear
<1>7. CASE UNCHANGED vars
  BY <1>7 DEF vars, Filter!vars
<1> QED
  BY <1>2, <1>3, <1>4, <1>5, <1>6, <1>7 DEF Next, Filter!Next

\* The initial state is one of the filter's.
LEMMA InitFilters == Init => Filter!Init
BY DEF Init, Filter!Init

\* The guard is a duplicate filter of its capacity.
THEOREM GuardImplementsFilter == Spec => ImplementsFilter
<1>1. TypeOK /\ ForgottenUnderPressure /\ [Next]_vars
        => [Filter!Next]_(Filter!vars)
  BY NextFilters
<1> QED
  BY <1>1, InitFilters, TypeCorrect, ForgottenUnderPressureHolds, PTL
  DEF Spec, ImplementsFilter, Filter!Spec
=============================================================================
