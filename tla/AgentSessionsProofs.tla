-------------------------- MODULE AgentSessionsProofs --------------------------
(***************************************************************************)
(* Proofs about the agent's sessions and the compressed store, for every   *)
(* number of calls in flight, sessions, entries, proofs and crashes.       *)
(*                                                                         *)
(* Only a step of the store changes what is stored, and only at the key of *)
(* the write in flight: StoreWrites says all that the rest needs of it.    *)
(***************************************************************************)
EXTENDS AgentSessions, FiniteSetTheorems, TLAPS

-----------------------------------------------------------------------------
(* The keys.                                                               *)

\* Keys are told apart by their namespace and by what they name.
LEMMA KeyKinds ==
  /\ \A s \in Sessions : StartKey(s) \in Keys /\ CloseKey(s) \in Keys
  /\ \A e \in Entries : AuditKey(e) \in Keys
  /\ \A x \in Proofs : ProofKey(x) \in Keys
  /\ \A at \in 0..MaxNow : PolicyKey(at) \in Keys
  /\ FixedKeys \subseteq Keys /\ PolicyKeys \subseteq Keys /\ AuditKeys \subseteq Keys
  /\ UndefinedKey \in Keys
BY KeysAssumption DEF AllKeys, AuditKeys, PolicyKeys, FixedKeys

LEMMA KeysApart ==
  /\ \A s \in Sessions : CloseKey(s) \notin FixedKeys /\ CloseKey(s) \notin PolicyKeys
  /\ \A k \in FixedKeys : k \notin PolicyKeys
  /\ UndefinedKey \notin FixedKeys /\ UndefinedKey \notin PolicyKeys
  /\ \A s \in Sessions : CloseKey(s) # UndefinedKey
  /\ \A r, s \in Sessions : CloseKey(r) = CloseKey(s) => r = s
  /\ \A a, b \in 0..MaxNow : PolicyKey(a) = PolicyKey(b) => a = b
  /\ \A s \in Sessions : StartKey(s) \in FixedKeys /\ StartKey(s)[2] = s
  /\ \A e \in Entries : AuditKey(e) \in FixedKeys /\ AuditKey(e)[2] = e
  /\ \A x \in Proofs : ProofKey(x) \in FixedKeys /\ ProofKey(x)[2] = x
BY DEF FixedKeys, AuditKeys, PolicyKeys, StartKey, CloseKey, AuditKey, PolicyKey, ProofKey,
   UndefinedKey

\* What a fixed key names is a payload.
LEMMA FixedNamesPayload == \A k \in FixedKeys : k[2] \in Payloads /\ k[2] \notin {None, Commitment}
<1> SUFFICES ASSUME NEW k \in FixedKeys PROVE k[2] \in Payloads
  BY PayloadsAssumption
<1> QED
  BY DEF FixedKeys, AuditKeys, StartKey, AuditKey, ProofKey, Payloads

-----------------------------------------------------------------------------
(* The store.                                                              *)

StoreTyped ==
  /\ DOMAIN chain = Keys /\ DOMAIN local = Keys
  /\ DOMAIN call = Threads /\ DOMAIN io = Threads

\* What a step of the write of payload p to key k by thread t may do.
StoreWrites(t, k, p) ==
  /\ DOMAIN chain' = Keys /\ DOMAIN local' = Keys /\ DOMAIN io' = Threads
  /\ \A j \in Keys \ {k} : chain'[j] = chain[j] /\ local'[j] = local[j]
  /\ local'[k] \in {local[k], p}
  /\ chain'[k] = chain[k] \/ (chain[k] = None /\ chain'[k] \in {p, Commitment})
  /\ \A u \in Threads \ {t} : io'[u] = io[u]
  /\ lost' = lost
  /\ Writing(t, k, p)'
  /\ io'[t].step = "done" => IsPayload(chain[k]) \/ p \in {chain'[k], local'[k]}

\* A step of a write is a StoreWrites.
LEMMA WriteStep ==
  ASSUME StoreTyped, NEW t \in Threads, NEW k \in Keys, NEW p, Writing(t, k, p),
         StoreStep(t)
  PROVE  StoreWrites(t, k, p)
<1>1. io[t].key = k /\ io[t].payload = p /\ io[t].step \in WriteSteps
  BY DEF Writing
<1>2. ASSUME NEW x \in WriteSteps, Move(t, x)
      PROVE  /\ DOMAIN io' = Threads
             /\ \A u \in Threads \ {t} : io'[u] = io[u]
             /\ Writing(t, k, p)' /\ io'[t].step = x
  BY <1>2 DEF Move, StoreTyped, Writing
<1>3. ASSUME NEW content, NEW succeeds \in BOOLEAN, Creates(t, content, succeeds)
      PROVE  /\ DOMAIN chain' = Keys
             /\ \A j \in Keys \ {k} : chain'[j] = chain[j]
             /\ chain'[k] = chain[k] \/ (chain[k] = None /\ chain'[k] = content)
             /\ succeeds => chain'[k] = content
  BY <1>1, <1>3 DEF Creates, StoreTyped
<1>4. ASSUME Upsert(t)
      PROVE  /\ DOMAIN local' = Keys
             /\ \A j \in Keys \ {k} : local'[j] = local[j]
             /\ local'[k] = p /\ Move(t, "done")
  BY <1>1, <1>4 DEF Upsert, StoreTyped
<1>5. CASE ReadExisting(t)
  BY <1>1, <1>2, <1>5 DEF ReadExisting, StoreWrites, StoreTyped, WriteSteps, Existing
<1>6. CASE CreateAccount(t)
  <2>1. PICK succeeds \in BOOLEAN :
          /\ Creates(t, p, succeeds)
          /\ Move(t, IF succeeds THEN "done" ELSE IF fallback THEN "anchorRead" ELSE "failed")
    BY <1>1, <1>6 DEF CreateAccount
  <2>2. PICK x \in WriteSteps : Move(t, x) /\ (x = "done" => succeeds)
    BY <2>1 DEF WriteSteps
  <2>3. local' = local /\ lost' = lost
    BY <1>6 DEF CreateAccount
  <2> QED
    BY <1>2, <1>3, <2>1, <2>2, <2>3 DEF StoreWrites, StoreTyped
<1>7. CASE ReadCommitment(t)
  <2>1. CASE Upsert(t)
    BY <1>2, <1>4, <1>7, <2>1 DEF ReadCommitment, StoreWrites, StoreTyped, WriteSteps
  <2>2. CASE UNCHANGED local /\ (Move(t, "anchorCreate") \/ Move(t, "memo"))
    BY <1>2, <1>7, <2>2 DEF ReadCommitment, StoreWrites, StoreTyped, WriteSteps
  <2> QED
    BY <1>7, <2>1, <2>2 DEF ReadCommitment
<1>8. CASE CreateCommitment(t)
  <2>1. PICK succeeds \in BOOLEAN :
          /\ Creates(t, Commitment, succeeds)
          /\ IF succeeds THEN Upsert(t) ELSE Move(t, "memo") /\ UNCHANGED local
          /\ lost' = lost
    BY <1>8 DEF CreateCommitment
  <2>2. CASE Upsert(t)
    BY <1>2, <1>3, <1>4, <2>1, <2>2 DEF StoreWrites, StoreTyped, WriteSteps
  <2>3. CASE UNCHANGED local /\ Move(t, "memo")
    BY <1>2, <1>3, <2>1, <2>3 DEF StoreWrites, StoreTyped, WriteSteps
  <2> QED
    BY <2>1, <2>2, <2>3
<1>9. CASE SendMemo(t)
  <2>1. CASE Upsert(t)
    BY <1>2, <1>4, <1>9, <2>1 DEF SendMemo, StoreWrites, StoreTyped, WriteSteps
  <2>2. CASE UNCHANGED local /\ Move(t, "failed")
    BY <1>2, <1>9, <2>2 DEF SendMemo, StoreWrites, StoreTyped, WriteSteps
  <2> QED
    BY <1>9, <2>1, <2>2 DEF SendMemo
<1>10. ~Scan(t)
  BY <1>1 DEF Scan, At, WriteSteps
<1> QED
  BY <1>5, <1>6, <1>7, <1>8, <1>9, <1>10 DEF StoreStep

\* A step of a scan writes nothing; an answer that errs is marked as partial.
LEMMA ScanStep ==
  ASSUME StoreTyped, NEW t \in Threads, NEW keys, NEW payloads,
         Scanning(t, keys, payloads), StoreStep(t),
         \A k \in keys : IsPayload(chain[k]) => chain[k] \in payloads
  PROVE  /\ UNCHANGED <<chain, local, lost, lost>>
         /\ DOMAIN io' = Threads
         /\ \A u \in Threads \ {t} : io'[u] = io[u]
         /\ Scanning(t, keys, payloads)'
         /\ io[t].step = "scan" /\ io'[t].step # "scan"
         /\ io'[t].found = io[t].found \/ \E pages \in SUBSET ChainRecords(keys) :
              io'[t].found = io[t].found \union pages
         /\ io'[t].step = "scanned" /\ ~io'[t].partial =>
              io'[t].found = io[t].found \union ChainRecords(keys)
<1>1. /\ io[t].keys = keys /\ io[t].step \in ScanSteps /\ io[t].partial \in BOOLEAN
      /\ io[t].found \subseteq [from : {"local", "chain"}, key : keys, payload : payloads]
  BY DEF Scanning
<1>2. Scan(t)
  BY <1>1 DEF StoreStep, ReadExisting, CreateAccount, ReadCommitment, CreateCommitment,
     SendMemo, At, ScanSteps
<1>3. PICK pages \in SUBSET ChainRecords(keys) :
       LET found == io[t].found \union pages IN
       \/ /\ pages = ChainRecords(keys)
          /\ io' = [io EXCEPT ![t].step = "scanned", ![t].found = found]
       \/ IF fallback /\ found # {}
            THEN io' = [io EXCEPT ![t].step = "scanned", ![t].found = found, ![t].partial = TRUE]
            ELSE Move(t, "failed")
  BY <1>1, <1>2 DEF Scan
<1>4. ChainRecords(keys) \subseteq [from : {"local", "chain"}, key : keys, payload : payloads]
  BY DEF ChainRecords
<1> DEFINE found == io[t].found \union pages
<1>5. found \subseteq [from : {"local", "chain"}, key : keys, payload : payloads]
  BY <1>1, <1>3, <1>4
<1>6. UNCHANGED <<chain, local, lost, lost>> /\ io[t].step = "scan"
  BY <1>2 DEF Scan, At
<1> HIDE DEF found
<1>7. CASE pages = ChainRecords(keys) /\ io' = [io EXCEPT ![t].step = "scanned", ![t].found = found]
  <2>1. io'[t] = [io[t] EXCEPT !.step = "scanned", !.found = found]
    BY <1>7 DEF StoreTyped
  <2>2. Scanning(t, keys, payloads)' /\ io'[t].step = "scanned" /\ io'[t].found = found
    BY <1>5, <2>1 DEF Scanning, ScanSteps
  <2> QED
    BY <1>3, <1>6, <1>7, <2>2 DEF StoreTyped, found
<1>8. CASE io' = [io EXCEPT ![t].step = "scanned", ![t].found = found, ![t].partial = TRUE]
  <2>1. io'[t] = [io[t] EXCEPT !.step = "scanned", !.found = found, !.partial = TRUE]
    BY <1>8 DEF StoreTyped
  <2>2. /\ Scanning(t, keys, payloads)' /\ io'[t].step = "scanned" /\ io'[t].found = found
        /\ io'[t].partial
    BY <1>5, <2>1 DEF Scanning, ScanSteps
  <2> QED
    BY <1>3, <1>6, <1>8, <2>2 DEF StoreTyped, found
<1>9. CASE Move(t, "failed")
  <2>1. io'[t] = [io[t] EXCEPT !.step = "failed"]
    BY <1>9 DEF StoreTyped, Move
  <2>2. /\ Scanning(t, keys, payloads)' /\ io'[t].step = "failed" /\ io'[t].found = io[t].found
    BY <2>1 DEF Scanning, ScanSteps
  <2> QED
    BY <1>6, <1>9, <2>2 DEF StoreTyped, Move
<1> QED
  BY <1>3, <1>7, <1>8, <1>9 DEF found
-----------------------------------------------------------------------------
(* The calls in flight.                                                    *)

\* What a thread waits for depends on nothing but the thread.
LEMMA LaneKept ==
  ASSUME NEW u \in Threads, LaneOK(u), call'[u] = call[u], io'[u] = io[u]
  PROVE  LaneOK(u)'
BY DEF LaneOK, Doing, Registers, Closes, Writing, WritingPolicy, WritingClose,
   Scanning, ScanningPolicies, ScanningLog

\* Every other thread is where it was.
Others(t) ==
  /\ DOMAIN call' = Threads /\ DOMAIN io' = Threads
  /\ \A u \in Threads \ {t} : call'[u] = call[u] /\ io'[u] = io[u]

\* A write of payload p to key k, as the thread's io has it.
InFlight(write, k, p) == write \in [key : {k}, payload : {p}, step : WriteSteps]

LEMMA BeginWrite ==
  ASSUME StoreTyped, NEW t \in Threads, NEW c, NEW k, NEW p,
         Begin(t, c), WriteAccount(t, k, p)
  PROVE  /\ Others(t) /\ call'[t] = c
         /\ InFlight(io'[t], k, p)
         /\ io'[t].step = "done" => local[k] # None
         /\ io'[t].step = "done" \/ io'[t].step = "read"
BY DEF StoreTyped, Begin, WriteAccount, Others, InFlight, WriteSteps

LEMMA BeginScan ==
  ASSUME StoreTyped, NEW t \in Threads, NEW c, NEW keys,
         Begin(t, c), FindAccounts(t, keys)
  PROVE  /\ Others(t) /\ call'[t] = c
         /\ io'[t] = [step |-> "scan", keys |-> keys, found |-> LocalRecords(keys),
                      partial |-> FALSE]
BY DEF StoreTyped, Begin, FindAccounts, Others

LEMMA Ending ==
  ASSUME StoreTyped, NEW t \in Threads, End(t)
  PROVE  /\ Others(t) /\ call'[t] = Idle /\ io'[t] = Idle
         /\ LaneOK(t)'
BY DEF StoreTyped, End, Others, LaneOK, Doing, Registers, Closes

\* When the process dies no thread waits for anything.
LEMMA Dying ==
  ASSUME Gone
  PROVE  /\ DOMAIN call' = Threads /\ DOMAIN io' = Threads
         /\ \A u \in Threads : call'[u] = Idle /\ io'[u] = Idle /\ LaneOK(u)'
BY DEF Gone, LaneOK, Doing, Registers, Closes

\* Finitely many records are found at finitely many keys.
LEMMA RecordsFinite ==
  /\ IsFiniteSet(LocalRecords(AuditKeys))
  /\ IsFiniteSet(ChainRecords(AuditKeys))
<1>1. IsFiniteSet(AuditKeys)
  <2> DEFINE f == [e \in Entries |-> AuditKey(e)]
  <2>1. f \in Surjection(Entries, AuditKeys)
    BY DEF AuditKeys, Surjection
  <2> QED
    BY <2>1, FS_Surjection, PayloadsAssumption
<1>2. ASSUME NEW K \in SUBSET AuditKeys, NEW from, NEW store
      PROVE  IsFiniteSet({[from |-> from, key |-> k, payload |-> store[k]] : k \in K})
  <2> DEFINE f == [k \in K |-> [from |-> from, key |-> k, payload |-> store[k]]]
  <2>1. IsFiniteSet(K)
    BY <1>1, FS_Subset
  <2>2. f \in Surjection(K, {[from |-> from, key |-> k, payload |-> store[k]] : k \in K})
    BY DEF Surjection
  <2> QED
    BY <2>1, <2>2, FS_Surjection
<1>3. {k \in AuditKeys : local[k] # None} \in SUBSET AuditKeys
  OBVIOUS
<1>4. {k \in AuditKeys : IsPayload(chain[k])} \in SUBSET AuditKeys
  OBVIOUS
<1> QED
  BY <1>2, <1>3, <1>4 DEF LocalRecords, ChainRecords

\* What is found at the keys of a scan has their kind.
LEMMA FoundTyped ==
  ASSUME TypeOK, FixedIsNamed
  PROVE  /\ LocalRecords(PolicyKeys) \subseteq
              [from : {"local", "chain"}, key : PolicyKeys, payload : PolicyRecords]
         /\ LocalRecords(AuditKeys) \subseteq
              [from : {"local", "chain"}, key : AuditKeys, payload : Entries]
         /\ \A k \in PolicyKeys : IsPayload(chain[k]) => chain[k] \in PolicyRecords
         /\ \A k \in AuditKeys : IsPayload(chain[k]) => chain[k] \in Entries
<1>1. \A k \in AuditKeys : k \in FixedKeys /\ k[2] \in Entries
  BY DEF AuditKeys, FixedKeys, AuditKey
<1>2. \A k \in PolicyKeys : local[k] # None => local[k] \in PolicyRecords
  BY DEF TypeOK
<1>3. \A k \in AuditKeys : local[k] # None => local[k] \in Entries
  BY <1>1 DEF FixedIsNamed
<1>4. \A k \in PolicyKeys : IsPayload(chain[k]) => chain[k] \in PolicyRecords
  BY DEF TypeOK, IsPayload
<1>5. \A k \in AuditKeys : IsPayload(chain[k]) => chain[k] \in Entries
  BY <1>1 DEF FixedIsNamed, IsPayload
<1> QED
  BY <1>2, <1>3, <1>4, <1>5 DEF LocalRecords

\* A scan that has just begun.
LEMMA ScanBegun ==
  ASSUME TypeOK, FixedIsNamed, NEW t \in Threads, NEW keys,
         io'[t] = [step |-> "scan", keys |-> keys, found |-> LocalRecords(keys),
                   partial |-> FALSE]
  PROVE  /\ keys = PolicyKeys => ScanningPolicies(t)'
         /\ keys = AuditKeys => ScanningLog(t)' /\ IsFiniteSet(io'[t].found)
         /\ io'[t].step = "scan" /\ ~io'[t].partial /\ io'[t].found = LocalRecords(keys)
BY FoundTyped, RecordsFinite DEF ScanningPolicies, ScanningLog, Scanning, ScanSteps

\* The policies that are written are first policies after patches.
LEMMA MergedTyped ==
  ASSUME NEW state \in PolicyStates, NEW patch \in Patches
  PROVE  Merged(state, patch) \in PolicyStates
BY DEF Merged, PolicyStates

LEMMA PolicyBegun ==
  ASSUME TypeOK, NEW t \in Threads, NEW state \in PolicyStates, WritePolicy(t, state)
  PROVE  /\ Others(t) /\ LaneOK(t)'
         /\ call'[t] = [op |-> "policy", state |-> state]
         /\ Doing(t, "policy")' /\ WritingPolicy(t)'
         /\ InFlight(io'[t], PolicyKey(now), serializePolicy(state, now))
         /\ io'[t].step = "done" => local[PolicyKey(now)] # None
<1> DEFINE k == PolicyKey(now)
           p == serializePolicy(state, now)
<1>1. StoreTyped
  BY DEF TypeOK, StoreTyped
<1>2. /\ Others(t) /\ call'[t] = [op |-> "policy", state |-> state]
      /\ InFlight(io'[t], k, p)
      /\ io'[t].step = "done" => local[k] # None
  BY <1>1, BeginWrite DEF WritePolicy
<1>3. p \in PolicyRecords /\ p.updatedAt = now /\ p.state = state /\ k \in PolicyKeys
  BY DEF TypeOK, serializePolicy, PolicyRecords, PolicyKeys
<1>4. WritingPolicy(t)'
  BY <1>2, <1>3 DEF InFlight, WritingPolicy
<1>5. Idle # [op |-> "policy", state |-> state]
  BY CallsAssumption
<1>6. Doing(t, "policy")' /\ LaneOK(t)'
  BY <1>2, <1>4, <1>5 DEF LaneOK, Doing, Registers, Closes
<1> QED
  BY <1>2, <1>4, <1>6

\* A set of natural numbers has a least element.
LEMMA LeastNat ==
  ASSUME NEW T, T \subseteq Nat, T # {}
  PROVE  \E m \in T : \A n \in T : m <= n
<1> DEFINE R == OpToRel(<, Nat)
<1>1. IsWellFoundedOn(R, Nat)
  BY NatLessThanWellFounded
<1>2. \A x \in Nat, y \in Nat : <<y, x>> \in R <=> y < x
  BY DEF OpToRel
<1> HIDE DEF R
<1>3. PICK m \in T : \A n \in T : ~(<<n, m>> \in R)
  BY <1>1, WFMin
<1>4. m \in Nat /\ \A n \in T : n \in Nat /\ ~(n < m)
  BY <1>2, <1>3
<1> QED
  BY <1>4

\* Of the records that are found one is the latest, and Latest is such a one.
LEMMA LatestIsFound ==
  ASSUME NEW found, found \subseteq PolicyRecords, found # {}
  PROVE  /\ Latest(found) \in found
         /\ \A q \in found : Latest(found).updatedAt >= q.updatedAt
<1> DEFINE T == {MaxNow - p.updatedAt : p \in found}
<1>1. \A p \in found : p.updatedAt \in 0..MaxNow
  BY DEF PolicyRecords
<1>2. T \subseteq Nat /\ T # {}
  BY <1>1, PayloadsAssumption
<1>3. PICK m \in T : \A n \in T : m <= n
  BY <1>2, LeastNat
<1>4. PICK p \in found : m = MaxNow - p.updatedAt
  BY <1>3
<1>5. \A q \in found : p.updatedAt >= q.updatedAt
  <2> TAKE q \in found
  <2>1. m <= MaxNow - q.updatedAt
    BY <1>3
  <2> QED
    BY <1>1, <1>4, <2>1, PayloadsAssumption
<1>6. \E x \in found : \A q \in found : x.updatedAt >= q.updatedAt
  BY <1>5
<1> QED
  BY <1>6 DEF Latest

-----------------------------------------------------------------------------
(* Types.                                                                  *)

\* A step of one thread that stores nothing keeps the types if its own lane and
\* what the managers keep are well typed after it.
LEMMA TypeKept ==
  ASSUME TypeOK, NEW t \in Threads, Others(t), LaneOK(t)', UNCHANGED <<chain, local, lost, lost>>,
         runtime' \in Sessions \union {None, 0}, auditLog' \in Logs,
         policy' \in PolicyStates \union {None}, started' \subseteq Sessions,
         now' \in 0..MaxNow, returned' \subseteq [session : Sessions, log : Logs],
         open' \in [Sessions -> Int], contested' \subseteq Sessions,
         doubtful' \in BOOLEAN
  PROVE  TypeOK'
<1>1. \A u \in Threads : LaneOK(u)'
  BY LaneKept DEF TypeOK, Others
<1> QED
  BY <1>1 DEF TypeOK, Others

\* The common case: the thread's call alone.
LEMMA EndingType ==
  ASSUME TypeOK, NEW t \in Threads, End(t)
  PROVE  Others(t) /\ LaneOK(t)'
BY Ending DEF TypeOK, StoreTyped

LEMMA InitType == Init => TypeOK
<1> SUFFICES ASSUME Init PROVE TypeOK
  OBVIOUS
<1>1. \A t \in Threads : LaneOK(t)
  BY DEF Init, StoreInit, LaneOK, Doing, Registers, Closes
<1>2. auditLog \in Logs
  BY DEF Init, Logs
<1>3. now \in 0..MaxNow
  BY PayloadsAssumption DEF Init
<1>4. \A k \in PolicyKeys : k \in Keys
  BY KeyKinds
<1>5. open \in [Sessions -> Int]
  BY DEF Init
<1>6. DOMAIN chain = Keys /\ DOMAIN local = Keys /\ DOMAIN call = Threads /\ DOMAIN io = Threads
  BY DEF Init, StoreInit
<1>7. \A k \in PolicyKeys : local[k] = None /\ chain[k] = None
  BY <1>4 DEF Init, StoreInit
<1> QED
  BY <1>1, <1>2, <1>3, <1>5, <1>6, <1>7 DEF Init, TypeOK

LEMMA GoneType ==
  ASSUME TypeOK, Gone, DOMAIN chain' = Keys, DOMAIN local' = Keys,
         \A k \in PolicyKeys : /\ local'[k] \in {local[k], None}
                               /\ chain'[k] \in {chain[k], Commitment}
  PROVE  TypeOK'
<1>1. \A u \in Threads : LaneOK(u)'
  BY Dying
<1>2. DOMAIN call' = Threads /\ DOMAIN io' = Threads
  BY Dying
<1>3. auditLog' \in Logs
  BY DEF Gone, Logs
<1>4. doubtful' \in BOOLEAN
  BY DEF Gone, TypeOK
<1>5. \A k \in PolicyKeys : /\ local'[k] \in PolicyRecords \union {None}
                            /\ chain'[k] \in PolicyRecords \union {None, Commitment}
  BY DEF TypeOK
<1> QED
  BY <1>1, <1>2, <1>3, <1>4, <1>5 DEF Gone, TypeOK

\* A rewriting of the file that is cut leaves no local record, and at most creates the
\* empty account of the key.
LEMMA CutStore ==
  ASSUME TypeOK, NEW t \in Threads, DiesWriting(t)
  PROVE  /\ io[t] # Idle /\ io[t].step \in {"anchorRead", "anchorCreate", "memo"}
         /\ DOMAIN chain' = Keys /\ DOMAIN local' = Keys
         /\ \A k \in Keys : local'[k] = None
         /\ \A k \in Keys : \/ chain'[k] = chain[k]
                            \/ chain[k] = None /\ chain'[k] = Commitment /\ k = io[t].key
         /\ \A k \in lost : k \in lost'
         /\ \A k \in Keys : local[k] # None /\ ~IsPayload(chain[k]) => k \in lost'
<1>1. CutUpsert(t)
  BY DEF DiesWriting
<1>2. DOMAIN chain = Keys
  BY DEF TypeOK
<1>3. /\ DOMAIN chain' = Keys
      /\ \A k \in Keys : \/ chain'[k] = chain[k]
                         \/ chain[k] = None /\ chain'[k] = Commitment /\ k = io[t].key
  <2> DEFINE j == io[t].key
  <2>1. \/ chain' = chain
        \/ chain[j] = None /\ chain' = [chain EXCEPT ![j] = Commitment]
    BY <1>1 DEF CutUpsert, Upserting, Creates
  <2> HIDE DEF j
  <2>2. DOMAIN chain' = Keys
    BY <1>2, <2>1
  <2>3. \A k \in Keys : \/ chain'[k] = chain[k]
                        \/ chain[k] = None /\ chain'[k] = Commitment /\ k = j
    BY <1>2, <2>1
  <2> QED
    BY <2>2, <2>3 DEF j
<1> QED
  BY <1>1, <1>3 DEF CutUpsert, Upserting, At

\* What was stored before is stored after, or was lost.
LEMMA CutStored ==
  ASSUME TypeOK, NEW t \in Threads, DiesWriting(t), NEW k \in Keys, Stored(k) # None
  PROVE  Stored(k)' # None \/ k \in lost'
<1>1. CASE IsPayload(chain[k])
  <2>1. chain'[k] = chain[k] /\ local'[k] = None
    BY <1>1, CutStore DEF IsPayload
  <2> QED
    BY <1>1, <2>1 DEF Stored, IsPayload
<1>2. CASE ~IsPayload(chain[k])
  BY <1>2, CutStore DEF Stored
<1> QED
  BY <1>1, <1>2

LEMMA DiesType ==
  ASSUME TypeOK, Dies
  PROVE  TypeOK'
BY GoneType DEF Dies, TypeOK

LEMMA DiesWritingType ==
  ASSUME TypeOK, NEW t \in Threads, DiesWriting(t)
  PROVE  TypeOK'
<1>1. \A k \in PolicyKeys : local'[k] = None /\ chain'[k] \in {chain[k], Commitment}
  BY CutStore, KeyKinds
<1> QED
  BY <1>1, CutStore, GoneType DEF DiesWriting

LEMMA PolicyActionsType ==
  ASSUME TypeOK, FixedIsNamed, NEW t \in Threads,
         \/ createCompressedPolicyAccount(t)
         \/ updateCompressedPolicyAccount(t)
         \/ UpdateFetched(t)
         \/ PolicyWritten(t)
         \/ PolicyFailed(t)
  PROVE  TypeOK'
<1>0. StoreTyped
  BY DEF TypeOK, StoreTyped
<1>1. CASE createCompressedPolicyAccount(t)
  <2>1. Others(t) /\ LaneOK(t)'
    BY <1>1, PolicyBegun, PayloadsAssumption DEF createCompressedPolicyAccount
  <2>2. doubtful' \in BOOLEAN
    BY <1>1 DEF createCompressedPolicyAccount, TypeOK
  <2> QED
    BY <1>1, <2>1, <2>2, TypeKept DEF createCompressedPolicyAccount, TypeOK
<1>2. CASE updateCompressedPolicyAccount(t)
  <2>1. PICK patch \in Patches :
          IF policy # None
            THEN WritePolicy(t, Merged(policy, patch))
            ELSE /\ Begin(t, [op |-> "policy", patch |-> patch])
                 /\ FindAccounts(t, PolicyKeys)
    BY <1>2 DEF updateCompressedPolicyAccount
  <2>2. Others(t) /\ LaneOK(t)'
    <3>1. CASE policy # None
      <4>1. policy \in PolicyStates
        BY <3>1 DEF TypeOK
      <4>2. Merged(policy, patch) \in PolicyStates
        BY <4>1, MergedTyped
      <4> QED
        BY <2>1, <3>1, <4>2, PolicyBegun
    <3>2. CASE policy = None
      <4>1. /\ Others(t) /\ call'[t] = [op |-> "policy", patch |-> patch]
            /\ io'[t] = [step |-> "scan", keys |-> PolicyKeys,
                         found |-> LocalRecords(PolicyKeys), partial |-> FALSE]
        BY <1>0, <2>1, <3>2, BeginScan
      <4>2. ScanningPolicies(t)'
        BY <4>1, ScanBegun
      <4>3. call'[t] # Idle
        BY <4>1, CallsAssumption
      <4> QED
        BY <4>1, <4>2, <4>3 DEF LaneOK, Doing, Registers, Closes
    <3> QED
      BY <3>1, <3>2
  <2>3. doubtful' \in BOOLEAN
    BY <1>2 DEF updateCompressedPolicyAccount, TypeOK
  <2> QED
    BY <1>2, <2>2, <2>3, TypeKept DEF updateCompressedPolicyAccount, TypeOK
<1>3. CASE UpdateFetched(t)
  <2>1. CASE Found(t) = {}
    <3>1. Others(t) /\ LaneOK(t)' /\ policy' = policy
      BY <1>3, <2>1, EndingType DEF UpdateFetched
    <3>2. doubtful' \in BOOLEAN
      <4>1. ScanningPolicies(t)
        BY <1>3 DEF UpdateFetched, TypeOK, LaneOK, At, WritingPolicy, WriteSteps
      <4>2. io[t].partial \in BOOLEAN
        BY <4>1 DEF ScanningPolicies, Scanning
      <4> QED
        BY <1>3, <4>2 DEF UpdateFetched, TypeOK
    <3> QED
      BY <1>3, <3>1, <3>2, TypeKept DEF UpdateFetched, TypeOK
  <2>2. CASE Found(t) # {}
    <3> DEFINE current == deserializePolicy(Latest(Found(t)))
    <3>1. ScanningPolicies(t) /\ call[t].patch \in Patches
      BY <1>3 DEF UpdateFetched, TypeOK, LaneOK, At, WritingPolicy, WriteSteps
    <3>2. Found(t) \subseteq PolicyRecords /\ io[t].partial \in BOOLEAN
      BY <3>1 DEF ScanningPolicies, Scanning, Found
    <3>3. Latest(Found(t)) \in PolicyRecords
      BY <2>2, <3>2, LatestIsFound
    <3>4. current \in PolicyStates
      BY <3>3 DEF deserializePolicy, PolicyRecords
    <3>5. policy' = current /\ WritePolicy(t, Merged(current, call[t].patch))
      BY <1>3, <2>2 DEF UpdateFetched
    <3> HIDE DEF current
    <3>6. Others(t) /\ LaneOK(t)'
      BY <3>1, <3>4, <3>5, MergedTyped, PolicyBegun
    <3>7. doubtful' \in BOOLEAN
      BY <1>3, <3>2 DEF UpdateFetched, TypeOK
    <3> QED
      BY <1>3, <3>4, <3>5, <3>6, <3>7, TypeKept DEF UpdateFetched, TypeOK
  <2> QED
    BY <2>1, <2>2
<1>4. CASE PolicyWritten(t)
  <2>1. Others(t) /\ LaneOK(t)'
    BY <1>4, EndingType DEF PolicyWritten
  <2>2. policy' \in PolicyStates
    <3>1. WritingPolicy(t)
      BY <1>4 DEF PolicyWritten, TypeOK, LaneOK, At, ScanningPolicies, Scanning, ScanSteps
    <3> QED
      BY <1>4, <3>1 DEF PolicyWritten, WritingPolicy, PolicyRecords
  <2>3. now' \in 0..MaxNow
    BY <1>4, PayloadsAssumption DEF PolicyWritten, TypeOK
  <2> QED
    BY <1>4, <2>1, <2>2, <2>3, TypeKept DEF PolicyWritten, TypeOK
<1>5. CASE PolicyFailed(t)
  <2>1. Others(t) /\ LaneOK(t)'
    BY <1>5, EndingType DEF PolicyFailed
  <2> QED
    BY <1>5, <2>1, TypeKept DEF PolicyFailed, TypeOK
<1> QED
  BY <1>1, <1>2, <1>3, <1>4, <1>5

\* What a registration begins: a session under a new id, or none at all.
LEMMA RegistrationBegun ==
  ASSUME TypeOK, NEW t \in Threads, NEW awaited \in BOOLEAN, StartRegistration(t, awaited)
  PROVE  /\ Others(t) /\ LaneOK(t)'
         /\ \/ /\ NextSession \in Sessions
               /\ started' = started \union {NextSession} /\ runtime' = runtime
               /\ call'[t] = [op |-> "register", session |-> NextSession, awaited |-> awaited]
               /\ InFlight(io'[t], StartKey(NextSession), NextSession)
               /\ io'[t].step = "done" => local[StartKey(NextSession)] # None
            \/ /\ started' = started /\ runtime' = 0
               /\ call'[t] = Idle /\ io'[t] = Idle
<1>0. StoreTyped
  BY DEF TypeOK, StoreTyped
<1>1. CASE config.anchoring
  <2> DEFINE s == NextSession
             c == [op |-> "register", session |-> s, awaited |-> awaited]
  <2>1. /\ s \in Sessions /\ started' = started \union {s} /\ runtime' = runtime
        /\ Begin(t, c) /\ WriteAccount(t, StartKey(s), s)
    BY <1>1 DEF StartRegistration
  <2>2. /\ Others(t) /\ call'[t] = c
        /\ InFlight(io'[t], StartKey(s), s)
        /\ io'[t].step = "done" => local[StartKey(s)] # None
    BY <1>0, <2>1, BeginWrite
  <2>3. c # Idle
    BY <2>1, CallsAssumption
  <2>4. c.op = "register" /\ c.session = s
    OBVIOUS
  <2> HIDE DEF s, c
  <2>5. LaneOK(t)'
    BY <2>1, <2>2, <2>3, <2>4 DEF LaneOK, Doing, Registers, Closes, InFlight, Writing
  <2> QED
    BY <2>1, <2>2, <2>5 DEF s, c
<1>2. CASE ~config.anchoring
  <2>1. runtime' = 0 /\ started' = started /\ End(t)
    BY <1>2 DEF StartRegistration
  <2> QED
    BY <1>0, <2>1, Ending
<1> QED
  BY <1>1, <1>2

LEMMA RegistrationActionsType ==
  ASSUME TypeOK, FixedIsNamed, DrawnOnce, NEW t \in Threads,
         \/ registerAgent(t)
         \/ registerCompressedAgent(t)
         \/ RegistrationFetched(t)
         \/ FetchFailed(t)
         \/ Registered(t)
         \/ RegistrationFailed(t)
  PROVE  TypeOK'
<1>0. StoreTyped
  BY DEF TypeOK, StoreTyped
<1>1. CASE registerAgent(t)
  <2>1. StartRegistration(t, TRUE)
    BY <1>1 DEF registerAgent
  <2>2. /\ Others(t) /\ LaneOK(t)' /\ started' \subseteq Sessions
        /\ runtime' \in Sessions \union {None, 0}
    BY <2>1, RegistrationBegun DEF TypeOK
  <2> QED
    BY <1>1, <2>2, TypeKept DEF registerAgent, TypeOK
<1>2. CASE registerCompressedAgent(t)
  <2>1. /\ Others(t) /\ LaneOK(t)' /\ started' \subseteq Sessions
        /\ runtime' \in Sessions \union {None, 0}
    <3>1. CASE policy # None
      <4>1. StartRegistration(t, FALSE)
        BY <1>2, <3>1 DEF registerCompressedAgent
      <4> QED
        BY <4>1, RegistrationBegun DEF TypeOK
    <3>2. CASE policy = None
      <4>1. /\ Begin(t, [op |-> "fetch"]) /\ FindAccounts(t, PolicyKeys)
            /\ UNCHANGED <<runtime, started>>
        BY <1>2, <3>2 DEF registerCompressedAgent
      <4>2. /\ Others(t) /\ call'[t] = [op |-> "fetch"]
            /\ io'[t] = [step |-> "scan", keys |-> PolicyKeys,
                         found |-> LocalRecords(PolicyKeys), partial |-> FALSE]
        BY <1>0, <4>1, BeginScan
      <4>3. ScanningPolicies(t)' /\ call'[t] # Idle
        BY <4>2, ScanBegun, CallsAssumption
      <4>4. LaneOK(t)'
        BY <4>2, <4>3 DEF LaneOK, Doing, Registers, Closes
      <4> QED
        BY <4>1, <4>2, <4>4 DEF TypeOK
    <3> QED
      BY <3>1, <3>2
  <2>2. doubtful' \in BOOLEAN
    BY <1>2 DEF registerCompressedAgent, TypeOK
  <2> QED
    BY <1>2, <2>1, <2>2, TypeKept DEF registerCompressedAgent, TypeOK
<1>3. CASE RegistrationFetched(t)
  <2>1. ScanningPolicies(t)
    BY <1>3 DEF RegistrationFetched, TypeOK, LaneOK
  <2>2. Found(t) \subseteq PolicyRecords /\ io[t].partial \in BOOLEAN
    BY <2>1 DEF ScanningPolicies, Scanning, Found
  <2>3. doubtful' \in BOOLEAN
    BY <1>3, <2>2 DEF RegistrationFetched, TypeOK
  <2>4. CASE Found(t) = {}
    <3>1. Others(t) /\ LaneOK(t)' /\ UNCHANGED <<policy, runtime, started>>
      BY <1>3, <2>4, EndingType DEF RegistrationFetched
    <3> QED
      BY <1>3, <2>3, <3>1, TypeKept DEF RegistrationFetched, TypeOK
  <2>5. CASE Found(t) # {}
    <3>1. policy' = deserializePolicy(Latest(Found(t))) /\ StartRegistration(t, FALSE)
      BY <1>3, <2>5 DEF RegistrationFetched
    <3>2. Latest(Found(t)) \in PolicyRecords
      BY <2>2, <2>5, LatestIsFound
    <3>3. policy' \in PolicyStates
      BY <3>1, <3>2 DEF deserializePolicy, PolicyRecords
    <3>4. /\ Others(t) /\ LaneOK(t)' /\ started' \subseteq Sessions
          /\ runtime' \in Sessions \union {None, 0}
      BY <3>1, RegistrationBegun DEF TypeOK
    <3> QED
      BY <1>3, <2>3, <3>3, <3>4, TypeKept DEF RegistrationFetched, TypeOK
  <2> QED
    BY <2>4, <2>5
<1>4. CASE FetchFailed(t)
  <2>1. Others(t) /\ LaneOK(t)'
    BY <1>4, EndingType DEF FetchFailed
  <2> QED
    BY <1>4, <2>1, TypeKept DEF FetchFailed, TypeOK
<1>5. CASE Registered(t)
  <2>1. Others(t) /\ LaneOK(t)'
    BY <1>5, EndingType DEF Registered
  <2>2. call[t].session \in Sessions
    BY <1>5 DEF Registered, TypeOK, LaneOK, Registers
  <2> QED
    BY <1>5, <2>1, <2>2, TypeKept DEF Registered, TypeOK
<1>6. CASE RegistrationFailed(t)
  <2>1. CASE Dies
    BY <2>1, DiesType
  <2>2. CASE /\ End(t)
             /\ UNCHANGED <<fallback, chain, local, lost, config, runtime, auditLog, policy,
                  started, now, calls, restarts, returned, open, contested, acked, doubtful>>
    <3>1. Others(t) /\ LaneOK(t)'
      BY <2>2, EndingType
    <3> QED
      BY <2>2, <3>1, TypeKept DEF TypeOK
  <2> QED
    BY <1>6, <2>1, <2>2 DEF RegistrationFailed
<1> QED
  BY <1>1, <1>2, <1>3, <1>4, <1>5, <1>6

LEMMA RecordActionsType ==
  ASSUME TypeOK, FixedIsNamed, NEW t \in Threads,
         \/ appendAuditEntry(t)
         \/ Appended(t)
         \/ anchorProof(t)
         \/ ProofAnchored(t)
         \/ RecordFailed(t)
  PROVE  TypeOK'
<1>0. StoreTyped
  BY DEF TypeOK, StoreTyped
<1>1. CASE appendAuditEntry(t)
  <2>1. PICK e \in Entries :
          Begin(t, [op |-> "append", entry |-> e]) /\ WriteAccount(t, AuditKey(e), e)
    BY <1>1 DEF appendAuditEntry
  <2>2. /\ Others(t) /\ call'[t] = [op |-> "append", entry |-> e]
        /\ InFlight(io'[t], AuditKey(e), e)
    BY <1>0, <2>1, BeginWrite
  <2>3. call'[t] # Idle
    BY <2>2, CallsAssumption
  <2>4. LaneOK(t)'
    BY <2>2, <2>3 DEF LaneOK, Doing, Registers, Closes, InFlight, Writing
  <2> QED
    BY <1>1, <2>2, <2>4, TypeKept DEF appendAuditEntry, TypeOK
<1>2. CASE Appended(t)
  <2>1. Others(t) /\ LaneOK(t)'
    BY <1>2, EndingType DEF Appended
  <2>2. call[t].entry \in Entries
    BY <1>2 DEF Appended, TypeOK, LaneOK
  <2>3. auditLog \in [Entries -> Nat]
    BY DEF TypeOK, Logs
  <2>4. auditLog[call[t].entry] + 1 \in Nat
    BY <2>2, <2>3
  <2>5. auditLog' = [auditLog EXCEPT ![call[t].entry] = auditLog[call[t].entry] + 1]
    BY <1>2 DEF Appended
  <2>6. auditLog' \in Logs
    BY <2>2, <2>3, <2>4, <2>5 DEF Logs
  <2> QED
    BY <1>2, <2>1, <2>6, TypeKept DEF Appended, TypeOK
<1>3. CASE anchorProof(t)
  <2>1. PICK x \in Proofs :
          Begin(t, [op |-> "proof"]) /\ WriteAccount(t, ProofKey(x), x)
    BY <1>3 DEF anchorProof
  <2>2. /\ Others(t) /\ call'[t] = [op |-> "proof"]
        /\ InFlight(io'[t], ProofKey(x), x)
    BY <1>0, <2>1, BeginWrite
  <2>3. call'[t] # Idle
    BY <2>2, CallsAssumption
  <2>4. LaneOK(t)'
    BY <2>2, <2>3 DEF LaneOK, Doing, Registers, Closes, InFlight, Writing
  <2> QED
    BY <1>3, <2>2, <2>4, TypeKept DEF anchorProof, TypeOK
<1>4. CASE ProofAnchored(t)
  <2>1. Others(t) /\ LaneOK(t)'
    BY <1>4, EndingType DEF ProofAnchored
  <2> QED
    BY <1>4, <2>1, TypeKept DEF ProofAnchored, TypeOK
<1>5. CASE RecordFailed(t)
  <2>1. Others(t) /\ LaneOK(t)'
    BY <1>5, EndingType DEF RecordFailed
  <2> QED
    BY <1>5, <2>1, TypeKept DEF RecordFailed, TypeOK
<1> QED
  BY <1>1, <1>2, <1>3, <1>4, <1>5

\* What closing a session begins.
LEMMA ClosingBegun ==
  ASSUME TypeOK, NEW t \in Threads, NEW s \in Sessions, NEW log \in Logs,
         CloseSession(t, s, log)
  PROVE  /\ Others(t) /\ LaneOK(t)'
         /\ call'[t] = [op |-> "close", session |-> s, log |-> log]
         /\ Doing(t, "close")' /\ WritingClose(t, s)'
         /\ io'[t].step = "done" => local[CloseKey(s)] # None
<1> DEFINE c == [op |-> "close", session |-> s, log |-> log]
<1>1. StoreTyped
  BY DEF TypeOK, StoreTyped
<1>2. /\ Others(t) /\ call'[t] = c
      /\ InFlight(io'[t], CloseKey(s), log)
      /\ io'[t].step = "done" => local[CloseKey(s)] # None
  BY <1>1, BeginWrite DEF CloseSession
<1>3. c # Idle
  BY CallsAssumption
<1>4. c.op = "close" /\ c.session = s /\ c.log = log
  OBVIOUS
<1> HIDE DEF c
<1>5. WritingClose(t, s)'
  BY <1>2, <1>4 DEF InFlight, WritingClose
<1>6. Doing(t, "close")' /\ LaneOK(t)'
  BY <1>2, <1>3, <1>4, <1>5 DEF LaneOK, Doing, Registers, Closes
<1> QED
  BY <1>2, <1>5, <1>6 DEF c

\* What closing no session begins.
LEMMA UndefinedBegun ==
  ASSUME TypeOK, NEW t \in Threads, NEW log \in Logs, CloseUndefined(t, log)
  PROVE  /\ Others(t) /\ LaneOK(t)'
         /\ call'[t] = [op |-> "closeUndefined", log |-> log]
         /\ io'[t] = [key |-> UndefinedKey, payload |-> log, step |-> "read"]
<1> DEFINE c == [op |-> "closeUndefined", log |-> log]
<1>1. /\ Others(t) /\ call'[t] = c
      /\ io'[t] = [key |-> UndefinedKey, payload |-> log, step |-> "read"]
  BY DEF CloseUndefined, Begin, TypeOK, Others
<1>2. c # Idle /\ c.op = "closeUndefined" /\ c.log = log
  BY CallsAssumption
<1>3. Writing(t, UndefinedKey, log)'
  BY <1>1 DEF Writing, WriteSteps
<1> HIDE DEF c
<1>4. LaneOK(t)'
  BY <1>1, <1>2, <1>3 DEF LaneOK, Doing, Registers, Closes
<1> QED
  BY <1>1, <1>4 DEF c

LEMMA CloseActionsType ==
  ASSUME TypeOK, FixedIsNamed, DrawnOnce, NEW t \in Threads,
         \/ closeAgentSession(t)
         \/ LogFetched(t)
         \/ SessionClosed(t)
         \/ CloseFailed(t)
         \/ UndefinedClosed(t)
  PROVE  TypeOK'
<1>0. StoreTyped
  BY DEF TypeOK, StoreTyped
<1>1. CASE closeAgentSession(t)
  <2>1. runtime \in Sessions
    BY <1>1 DEF closeAgentSession, TypeOK
  <2>2. Others(t) /\ LaneOK(t)'
    <3>1. CASE \E e \in Entries : auditLog[e] > 0
      <4>1. CloseSession(t, runtime, auditLog)
        BY <1>1, <3>1 DEF closeAgentSession
      <4> QED
        BY <2>1, <4>1, ClosingBegun DEF TypeOK
    <3>2. CASE ~\E e \in Entries : auditLog[e] > 0
      <4> DEFINE c == [op |-> "close", session |-> runtime]
      <4>1. Begin(t, c) /\ FindAccounts(t, AuditKeys)
        BY <1>1, <3>2 DEF closeAgentSession
      <4>2. c # Idle /\ c.op = "close" /\ c.session = runtime
        BY <2>1, CallsAssumption
      <4> HIDE DEF c
      <4>3. /\ Others(t) /\ call'[t] = c
            /\ io'[t] = [step |-> "scan", keys |-> AuditKeys,
                         found |-> LocalRecords(AuditKeys), partial |-> FALSE]
        BY <1>0, <4>1, BeginScan
      <4>4. ScanningLog(t)' /\ IsFiniteSet(io'[t].found)
        BY <4>3, ScanBegun
      <4>5. LaneOK(t)'
        BY <2>1, <4>2, <4>3, <4>4 DEF LaneOK, Doing, Registers, Closes
      <4> QED
        BY <4>3, <4>5
    <3> QED
      BY <3>1, <3>2
  <2>3. open' \in [Sessions -> Int] /\ contested' \subseteq Sessions
    BY <1>1, <2>1 DEF closeAgentSession, TypeOK
  <2> QED
    BY <1>1, <2>2, <2>3, TypeKept DEF closeAgentSession, TypeOK
<1>2. CASE LogFetched(t)
  <2>1. call[t].session \in Sessions /\ IsFiniteSet(io[t].found)
    BY <1>2 DEF LogFetched, TypeOK, LaneOK, Closes, At, WritingClose, WriteSteps
  <2>2. ScannedLog(t) \in Logs
    <3>1. ASSUME NEW e \in Entries
          PROVE  Cardinality({r \in io[t].found : r.key = AuditKey(e)}) \in Nat
      <4>1. {r \in io[t].found : r.key = AuditKey(e)} \in SUBSET io[t].found
        OBVIOUS
      <4> QED
        BY <2>1, <4>1, FS_Subset, FS_CardinalityType
    <3> QED
      BY <3>1 DEF ScannedLog, Logs
  <2>3. /\ auditLog' = ScannedLog(t)
        /\ \/ CloseSession(t, call[t].session, ScannedLog(t))
           \/ CloseUndefined(t, ScannedLog(t))
    BY <1>2 DEF LogFetched
  <2>4. Others(t) /\ LaneOK(t)'
    BY <2>1, <2>2, <2>3, ClosingBegun, UndefinedBegun
  <2> QED
    BY <1>2, <2>2, <2>3, <2>4, TypeKept DEF LogFetched, TypeOK
<1>3. CASE SessionClosed(t)
  <2> DEFINE s == call[t].session
  <2>1. /\ runtime' = Cleared(s)
        /\ returned' = returned \union {[session |-> s, log |-> call[t].log]}
        /\ open' = [open EXCEPT ![s] = @ - 1]
    BY <1>3 DEF SessionClosed
  <2>2. s \in Sessions /\ call[t].log \in Logs
    BY <1>3 DEF SessionClosed, TypeOK, LaneOK, Closes, At, WritingClose, ScanningLog,
       Scanning, ScanSteps
  <2>3. Others(t) /\ LaneOK(t)'
    BY <1>3, EndingType DEF SessionClosed
  <2>4. runtime' \in Sessions \union {None, 0}
    BY <2>1 DEF Cleared, TypeOK
  <2>5. open' \in [Sessions -> Int]
    BY <2>1, <2>2 DEF TypeOK
  <2>6. returned' \subseteq [session : Sessions, log : Logs]
    BY <2>1, <2>2 DEF TypeOK
  <2> QED
    BY <1>3, <2>3, <2>4, <2>5, <2>6, TypeKept DEF SessionClosed, TypeOK
<1>4. CASE CloseFailed(t)
  <2>1. Others(t) /\ LaneOK(t)'
    BY <1>4, EndingType DEF CloseFailed
  <2> QED
    BY <1>4, <2>1, TypeKept DEF CloseFailed, TypeOK
<1>5. CASE UndefinedClosed(t)
  <2>1. Others(t) /\ LaneOK(t)'
    BY <1>5, EndingType DEF UndefinedClosed
  <2> QED
    BY <1>5, <2>1, TypeKept DEF UndefinedClosed, TypeOK
<1> QED
  BY <1>1, <1>2, <1>3, <1>4, <1>5

-----------------------------------------------------------------------------
(* The steps of the store.                                                 *)

\* The write of p to k which the call of thread t waits for.
WriteOf(t, k, p) ==
  /\ Writing(t, k, p)
  /\ \/ k \in FixedKeys /\ p = k[2] /\ ~Doing(t, "policy") /\ ~Doing(t, "close")
     \/ /\ Doing(t, "policy") /\ WritingPolicy(t)
        /\ k \in PolicyKeys /\ p \in PolicyRecords
     \/ \E s \in Sessions :
          /\ Closes(t, s) /\ WritingClose(t, s)
          /\ k = CloseKey(s) /\ p = call[t].log /\ p \in Logs
     \/ /\ Doing(t, "closeUndefined") /\ k = UndefinedKey
        /\ p = call[t].log /\ p \in Logs

\* What a step of the store does to the thread that takes it: it goes on with a write,
\* or with a scan.
WriteGoesOn(t, k, p) ==
  /\ WriteOf(t, k, p) /\ StoreWrites(t, k, p)
  /\ WriteOf(t, k, p)'

ScanGoesOn(t, keys) ==
  /\ UNCHANGED <<chain, local, lost, lost>>
  /\ DOMAIN io' = Threads /\ \A u \in Threads \ {t} : io'[u] = io[u]
  /\ io[t].step = "scan" /\ io'[t].step # "scan"
  /\ io'[t].step = "scanned" /\ ~io'[t].partial =>
       io'[t].found = io[t].found \union ChainRecords(keys)

PolicyScanGoesOn(t) ==
  /\ t \in PolicyCalls /\ ScanningPolicies(t) /\ ScanningPolicies(t)'
  /\ ScanGoesOn(t, PolicyKeys)
LogScanGoesOn(t) ==
  /\ \E s \in Sessions : Closes(t, s)
  /\ ScanningLog(t) /\ ScanningLog(t)'
  /\ ScanGoesOn(t, AuditKeys)

\* The write of a thread, when it waits for one.
LEMMA WritesOf ==
  ASSUME TypeOK, NEW t \in Threads, io[t] # Idle
  PROVE  \/ \E k \in Keys, p \in Payloads : WriteOf(t, k, p)
         \/ t \in PolicyCalls /\ ScanningPolicies(t)
         \/ \E s \in Sessions :
              Closes(t, s) /\ ScanningLog(t) /\ IsFiniteSet(io[t].found)
<1>1. LaneOK(t) /\ call[t] # Idle
  BY DEF TypeOK, LaneOK
<1>2. CASE Doing(t, "register")
  <2> DEFINE s == call[t].session
  <2>1. s \in Sessions /\ Writing(t, StartKey(s), s)
    BY <1>1, <1>2 DEF LaneOK, Registers
  <2>2. StartKey(s) \in Keys /\ s \in Payloads /\ StartKey(s) \in FixedKeys /\ StartKey(s)[2] = s
    BY <2>1, KeyKinds, KeysApart DEF Payloads
  <2> QED
    BY <1>2, <2>1, <2>2 DEF WriteOf, Doing
<1>3. CASE Doing(t, "append")
  <2> DEFINE e == call[t].entry
  <2>1. e \in Entries /\ Writing(t, AuditKey(e), e)
    BY <1>1, <1>3 DEF LaneOK
  <2>2. AuditKey(e) \in Keys /\ e \in Payloads /\ AuditKey(e) \in FixedKeys /\ AuditKey(e)[2] = e
    BY <2>1, KeyKinds, KeysApart DEF Payloads
  <2> QED
    BY <1>3, <2>1, <2>2 DEF WriteOf, Doing
<1>4. CASE Doing(t, "proof")
  <2>1. PICK x \in Proofs : Writing(t, ProofKey(x), x)
    BY <1>1, <1>4 DEF LaneOK
  <2>2. ProofKey(x) \in Keys /\ x \in Payloads /\ ProofKey(x) \in FixedKeys /\ ProofKey(x)[2] = x
    BY <2>1, KeyKinds, KeysApart DEF Payloads
  <2> QED
    BY <1>4, <2>1, <2>2 DEF WriteOf, Doing
<1>5. CASE Doing(t, "fetch")
  BY <1>1, <1>5 DEF LaneOK, PolicyCalls
<1>6. CASE Doing(t, "policy")
  <2>1. CASE ScanningPolicies(t)
    BY <1>6, <2>1 DEF PolicyCalls
  <2>2. CASE WritingPolicy(t)
    <3>1. io[t].key \in PolicyKeys /\ io[t].payload \in PolicyRecords
      BY <2>2 DEF WritingPolicy
    <3>2. Writing(t, io[t].key, io[t].payload)
      BY <2>2 DEF WritingPolicy, Writing
    <3>3. io[t].key \in Keys /\ io[t].payload \in Payloads
      BY <3>1, KeyKinds DEF Payloads
    <3> QED
      BY <1>6, <2>2, <3>1, <3>2, <3>3 DEF WriteOf
  <2> QED
    BY <1>1, <1>6, <2>1, <2>2 DEF LaneOK
<1>7. CASE Doing(t, "close")
  <2> DEFINE s == call[t].session
  <2>1. s \in Sessions /\ Closes(t, s)
        /\ ((ScanningLog(t) /\ IsFiniteSet(io[t].found)) \/ WritingClose(t, s))
    BY <1>1, <1>7 DEF LaneOK, Closes
  <2>2. CASE WritingClose(t, s)
    <3>1. call[t].log \in Logs /\ Writing(t, CloseKey(s), call[t].log)
      BY <2>2 DEF WritingClose, Writing
    <3>2. CloseKey(s) \in Keys /\ call[t].log \in Payloads
      BY <2>1, <3>1, KeyKinds DEF Payloads
    <3> QED
      BY <2>1, <2>2, <3>1, <3>2 DEF WriteOf
  <2> QED
    BY <2>1, <2>2
<1>8. CASE Doing(t, "closeUndefined")
  <2>1. call[t].log \in Logs /\ Writing(t, UndefinedKey, call[t].log)
    BY <1>1, <1>8 DEF LaneOK
  <2>2. UndefinedKey \in Keys /\ call[t].log \in Payloads
    BY <2>1, KeyKinds DEF Payloads
  <2> QED
    BY <1>8, <2>1, <2>2 DEF WriteOf
<1> QED
  BY <1>1, <1>2, <1>3, <1>4, <1>5, <1>6, <1>7, <1>8 DEF LaneOK, Doing

\* A step of the store is a step of a write or of a scan, and the thread goes on with it.
LEMMA StoreStepsGoOn ==
  ASSUME TypeOK, FixedIsNamed, NEW t \in Threads, StoreStep(t), call' = call
  PROVE  \/ \E k \in Keys, p \in Payloads : WriteGoesOn(t, k, p)
         \/ PolicyScanGoesOn(t)
         \/ LogScanGoesOn(t) /\ IsFiniteSet(io'[t].found)
<1>0. StoreTyped
  BY DEF TypeOK, StoreTyped
<1>1. io[t] # Idle
  BY DEF StoreStep, ReadExisting, CreateAccount, ReadCommitment, CreateCommitment,
     SendMemo, Scan, At
<1>2. ASSUME NEW k \in Keys, NEW p \in Payloads, WriteOf(t, k, p)
      PROVE  WriteGoesOn(t, k, p)
  <2>1. Writing(t, k, p)
    BY <1>2 DEF WriteOf
  <2>2. StoreWrites(t, k, p) /\ Writing(t, k, p)'
    BY <1>0, <2>1, WriteStep DEF StoreWrites
  <2>3. io'[t].key = io[t].key /\ io'[t].payload = io[t].payload /\ io'[t].step \in WriteSteps
    BY <2>1, <2>2 DEF Writing
  <2>4. WritingPolicy(t) /\ k \in PolicyKeys /\ p \in PolicyRecords => WritingPolicy(t)'
    <3> SUFFICES ASSUME WritingPolicy(t), k \in PolicyKeys, p \in PolicyRecords
                 PROVE  WritingPolicy(t)'
      OBVIOUS
    <3>1. io'[t] \in [key : PolicyKeys, payload : PolicyRecords, step : WriteSteps]
      BY <2>2 DEF Writing
    <3> QED
      BY <2>3, <3>1 DEF WritingPolicy
  <2>5. ASSUME NEW s \in Sessions, WritingClose(t, s), k = CloseKey(s), p \in Logs
        PROVE  WritingClose(t, s)'
    BY <2>2, <2>3, <2>5 DEF WritingClose, Writing
  <2>6. CASE k \in FixedKeys /\ p = k[2] /\ ~Doing(t, "policy") /\ ~Doing(t, "close")
    BY <1>2, <2>2, <2>6 DEF WriteGoesOn, WriteOf, Doing
  <2>7. CASE /\ Doing(t, "policy") /\ WritingPolicy(t)
             /\ k \in PolicyKeys /\ p \in PolicyRecords
    BY <1>2, <2>2, <2>4, <2>7 DEF WriteGoesOn, WriteOf, Doing
  <2>8. ASSUME NEW s \in Sessions, Closes(t, s), WritingClose(t, s),
               k = CloseKey(s), p = call[t].log, p \in Logs
        PROVE  WriteGoesOn(t, k, p)
    <3>1. WritingClose(t, s)' /\ Closes(t, s)' /\ p = call'[t].log
      BY <2>5, <2>8 DEF Closes, Doing
    <3>2. WriteOf(t, k, p)'
      BY <2>2, <2>8, <3>1 DEF WriteOf
    <3> QED
      BY <1>2, <2>2, <3>2 DEF WriteGoesOn
  <2>9. CASE /\ Doing(t, "closeUndefined") /\ k = UndefinedKey
             /\ p = call[t].log /\ p \in Logs
    BY <1>2, <2>2, <2>9 DEF WriteGoesOn, WriteOf, Doing
  <2> QED
    BY <1>2, <2>6, <2>7, <2>8, <2>9 DEF WriteOf
<1>3. CASE t \in PolicyCalls /\ ScanningPolicies(t)
  BY <1>0, <1>3, FoundTyped, ScanStep DEF PolicyScanGoesOn, ScanGoesOn, ScanningPolicies
<1>4. ASSUME NEW s \in Sessions, Closes(t, s), ScanningLog(t), IsFiniteSet(io[t].found)
      PROVE  LogScanGoesOn(t) /\ IsFiniteSet(io'[t].found)
  <2>1. LogScanGoesOn(t)
    BY <1>0, <1>4, FoundTyped, ScanStep DEF LogScanGoesOn, ScanGoesOn, ScanningLog
  <2>2. \/ io'[t].found = io[t].found
        \/ \E pages \in SUBSET ChainRecords(AuditKeys) :
             io'[t].found = io[t].found \union pages
    BY <1>0, <1>4, FoundTyped, ScanStep DEF ScanningLog
  <2>3. \A pages \in SUBSET ChainRecords(AuditKeys) : IsFiniteSet(io[t].found \union pages)
    BY <1>4, RecordsFinite, FS_Subset, FS_Union
  <2> QED
    BY <1>4, <2>1, <2>2, <2>3
<1> QED
  BY <1>1, <1>2, <1>3, <1>4, WritesOf

\* A write is not a scan.
LEMMA WritesDoNotScan ==
  ASSUME NEW t \in Threads, NEW k, NEW p, Writing(t, k, p)
  PROVE  ~ScanningPolicies(t) /\ ~ScanningLog(t)
<1>1. DOMAIN io[t] = {"key", "payload", "step"}
  BY DEF Writing
<1>2. ASSUME NEW keys, NEW payloads, Scanning(t, keys, payloads)
      PROVE  "found" \in DOMAIN io[t]
  BY <1>2 DEF Scanning
<1> QED
  BY <1>1, <1>2 DEF ScanningPolicies, ScanningLog

\* The lane of a thread that goes on with its write, or with its scan.
LEMMA WriteLane ==
  ASSUME TypeOK, NEW t \in Threads, NEW k, NEW p, WriteGoesOn(t, k, p), call' = call,
         io[t] # Idle
  PROVE  LaneOK(t)'
<1>1. /\ WriteOf(t, k, p) /\ WriteOf(t, k, p)'
      /\ Writing(t, k, p) /\ Writing(t, k, p)' /\ io[t].key = k /\ io[t].payload = p
  BY DEF WriteGoesOn, WriteOf, Writing
<1>2. LaneOK(t) /\ call[t] # Idle /\ ~ScanningPolicies(t)
  BY <1>1, WritesDoNotScan DEF TypeOK, LaneOK
<1>3. CASE Doing(t, "register")
  <2> DEFINE s == call[t].session
  <2>1. s \in Sessions /\ Writing(t, StartKey(s), s)
    BY <1>2, <1>3 DEF LaneOK, Registers
  <2>2. Writing(t, StartKey(s), s)'
    BY <1>1, <2>1 DEF Writing
  <2> QED
    BY <1>2, <1>3, <2>1, <2>2 DEF LaneOK, Doing, Registers, Closes
<1>4. CASE Doing(t, "append")
  <2>1. call[t].entry \in Entries /\ Writing(t, AuditKey(call[t].entry), call[t].entry)
    BY <1>2, <1>4 DEF LaneOK
  <2>2. Writing(t, AuditKey(call[t].entry), call[t].entry)'
    BY <1>1, <2>1 DEF Writing
  <2> QED
    BY <1>2, <1>4, <2>1, <2>2 DEF LaneOK, Doing, Registers, Closes
<1>5. CASE Doing(t, "proof")
  <2>1. PICK x \in Proofs : Writing(t, ProofKey(x), x)
    BY <1>2, <1>5 DEF LaneOK
  <2>2. Writing(t, ProofKey(x), x)'
    BY <1>1, <2>1 DEF Writing
  <2> QED
    BY <1>2, <1>5, <2>1, <2>2 DEF LaneOK, Doing, Registers, Closes
<1>6. CASE Doing(t, "policy")
  <2>1. WritingPolicy(t)'
    BY <1>1, <1>6 DEF WriteOf, Doing, Closes
  <2> QED
    BY <1>2, <1>6, <2>1 DEF LaneOK, Doing, Registers, Closes
<1>7. CASE Doing(t, "close")
  <2>1. PICK s \in Sessions : Closes(t, s)' /\ WritingClose(t, s)'
    BY <1>1, <1>7 DEF WriteOf, Doing
  <2> QED
    BY <1>2, <1>7, <2>1 DEF LaneOK, Doing, Registers, Closes
<1>8. ~Doing(t, "fetch")
  BY <1>2 DEF LaneOK
<1>9. CASE Doing(t, "closeUndefined")
  <2>1. call[t].log \in Logs /\ Writing(t, UndefinedKey, call[t].log)
    BY <1>2, <1>9 DEF LaneOK
  <2>2. Writing(t, UndefinedKey, call[t].log)'
    BY <1>1, <2>1 DEF Writing
  <2> QED
    BY <1>2, <1>9, <2>1, <2>2 DEF LaneOK, Doing, Registers, Closes
<1> QED
  BY <1>2, <1>3, <1>4, <1>5, <1>6, <1>7, <1>8, <1>9 DEF LaneOK, Doing

LEMMA StoreStepsType ==
  ASSUME TypeOK, FixedIsNamed, NEW t \in Threads, StoreSteps(t)
  PROVE  TypeOK'
<1>1. /\ StoreStep(t)
      /\ UNCHANGED <<config, call, runtime, auditLog, policy, started, now, calls, restarts,
                     returned, open, contested, acked, doubtful>>
  BY DEF StoreSteps
<1>2. io[t] # Idle
  BY <1>1 DEF StoreStep, ReadExisting, CreateAccount, ReadCommitment, CreateCommitment,
     SendMemo, Scan, At
<1>3. LaneOK(t) /\ call[t] # Idle
  BY <1>2 DEF TypeOK, LaneOK
<1>4. ASSUME NEW k \in Keys, NEW p \in Payloads, WriteGoesOn(t, k, p)
      PROVE  TypeOK'
  <2>1. LaneOK(t)'
    BY <1>1, <1>2, <1>4, WriteLane
  <2>2. StoreWrites(t, k, p) /\ (k \in PolicyKeys => p \in PolicyRecords)
    BY <1>4, KeysApart DEF WriteGoesOn, WriteOf
  <2>3. \A u \in Threads : LaneOK(u)'
    BY <1>1, <2>1, <2>2, LaneKept DEF StoreWrites, TypeOK
  <2>4. ASSUME NEW j \in PolicyKeys
        PROVE  /\ local'[j] \in PolicyRecords \union {None}
               /\ chain'[j] \in PolicyRecords \union {None, Commitment}
    BY <2>2, <2>4, KeyKinds DEF StoreWrites, TypeOK
  <2>5. DOMAIN chain' = Keys /\ DOMAIN local' = Keys /\ DOMAIN io' = Threads
    BY <2>2 DEF StoreWrites
  <2> QED
    BY <1>1, <2>3, <2>4, <2>5 DEF TypeOK
<1>5. CASE PolicyScanGoesOn(t)
  <2>1. Others(t) /\ UNCHANGED <<chain, local, lost, lost>> /\ ScanningPolicies(t) /\ ScanningPolicies(t)'
    BY <1>1, <1>5 DEF PolicyScanGoesOn, ScanGoesOn, Others, TypeOK
  <2>2. LaneOK(t)'
    BY <1>1, <1>3, <1>5, <2>1, WritesDoNotScan DEF PolicyScanGoesOn, PolicyCalls, LaneOK, Doing,
       Registers, Closes, ScanGoesOn, WritingPolicy, WriteSteps
  <2> QED
    BY <1>1, <2>1, <2>2, TypeKept DEF TypeOK
<1>6. CASE LogScanGoesOn(t) /\ IsFiniteSet(io'[t].found)
  <2>1. Others(t) /\ UNCHANGED <<chain, local, lost, lost>> /\ ScanningLog(t)'
    BY <1>1, <1>6 DEF LogScanGoesOn, ScanGoesOn, Others, TypeOK
  <2>2. LaneOK(t)'
    BY <1>1, <1>3, <1>6, <2>1 DEF LogScanGoesOn, LaneOK, Doing, Registers, Closes
  <2> QED
    BY <1>1, <2>1, <2>2, TypeKept DEF TypeOK
<1> QED
  BY <1>1, <1>4, <1>5, <1>6, StoreStepsGoOn

LEMMA NextType ==
  ASSUME TypeOK, FixedIsNamed, DrawnOnce, Next
  PROVE  TypeOK'
BY DiesType, DiesWritingType, StoreStepsType, PolicyActionsType, RegistrationActionsType,
   RecordActionsType, CloseActionsType DEF Next, Crash

-----------------------------------------------------------------------------
(* What is done is stored.                                                 *)

\* A thread begins a write or a scan, or its call ends.
Turn(t) ==
  \/ \E c, k, p : Begin(t, c) /\ WriteAccount(t, k, p)
  \/ \E log : CloseUndefined(t, log)
  \/ \E c, keys : Begin(t, c) /\ FindAccounts(t, keys)
  \/ End(t)

\* The actions of AgentRunner and its managers.
ManagerAction(t) ==
  \/ createCompressedPolicyAccount(t)
  \/ updateCompressedPolicyAccount(t)
  \/ UpdateFetched(t)
  \/ PolicyWritten(t)
  \/ PolicyFailed(t)
  \/ registerAgent(t)
  \/ registerCompressedAgent(t)
  \/ RegistrationFetched(t)
  \/ FetchFailed(t)
  \/ Registered(t)
  \/ RegistrationFailed(t)
  \/ appendAuditEntry(t)
  \/ Appended(t)
  \/ anchorProof(t)
  \/ ProofAnchored(t)
  \/ RecordFailed(t)
  \/ closeAgentSession(t)
  \/ LogFetched(t)
  \/ SessionClosed(t)
  \/ CloseFailed(t)
  \/ UndefinedClosed(t)

LEMMA NextActs ==
  Next => Dies \/ \E t \in Threads : DiesWriting(t) \/ StoreSteps(t) \/ ManagerAction(t)
BY DEF Next, Crash, ManagerAction

\* None of them touches the store, and each takes a turn or kills the process.
LEMMA ActionsTakeTurns ==
  ASSUME NEW t \in Threads, ManagerAction(t)
  PROVE  UNCHANGED <<chain, local, lost, lost>> /\ (Turn(t) \/ Dies)
<1>1. CASE createCompressedPolicyAccount(t)
  BY <1>1 DEF createCompressedPolicyAccount, WritePolicy, Turn
<1>2. CASE updateCompressedPolicyAccount(t)
  BY <1>2 DEF updateCompressedPolicyAccount, WritePolicy, Turn
<1>3. CASE UpdateFetched(t)
  BY <1>3 DEF UpdateFetched, WritePolicy, Turn
<1>4. CASE PolicyWritten(t) \/ PolicyFailed(t)
  BY <1>4 DEF PolicyWritten, PolicyFailed, Turn
<1>5. CASE registerAgent(t)
  BY <1>5 DEF registerAgent, StartRegistration, Turn
<1>6. CASE registerCompressedAgent(t)
  BY <1>6 DEF registerCompressedAgent, StartRegistration, Turn
<1>7. CASE RegistrationFetched(t)
  BY <1>7 DEF RegistrationFetched, StartRegistration, Turn
<1>8. CASE FetchFailed(t) \/ Registered(t) \/ Appended(t) \/ ProofAnchored(t) \/ RecordFailed(t)
  BY <1>8 DEF FetchFailed, Registered, Appended, ProofAnchored, RecordFailed, Turn
<1>9. CASE RegistrationFailed(t)
  BY <1>9 DEF RegistrationFailed, Turn, Dies
<1>10. CASE appendAuditEntry(t)
  BY <1>10 DEF appendAuditEntry, Turn
<1>11. CASE anchorProof(t)
  BY <1>11 DEF anchorProof, Turn
<1>12. CASE closeAgentSession(t)
  BY <1>12 DEF closeAgentSession, CloseSession, Turn
<1>13. CASE LogFetched(t)
  BY <1>13 DEF LogFetched, CloseSession, Turn
<1>14. CASE SessionClosed(t) \/ CloseFailed(t) \/ UndefinedClosed(t)
  BY <1>14 DEF SessionClosed, CloseFailed, UndefinedClosed, Turn
<1> QED
  BY <1>1, <1>2, <1>3, <1>4, <1>5, <1>6, <1>7, <1>8, <1>9, <1>10, <1>11, <1>12, <1>13, <1>14
     DEF ManagerAction

\* A write that is done when it begins was recorded before.
LEMMA TurnDone ==
  ASSUME StoreTyped, NEW t \in Threads, Turn(t)
  PROVE  Others(t) /\ (At(t, "done")' => local[io'[t].key] # None)
<1>0. StoreTyped
  OBVIOUS
<1>1. CASE End(t)
  BY <1>1, Ending DEF At
<1>2. ASSUME NEW c, NEW k, NEW p, Begin(t, c), WriteAccount(t, k, p)
      PROVE  Others(t) /\ (At(t, "done")' => local[io'[t].key] # None)
  <2>1. /\ Others(t) /\ InFlight(io'[t], k, p)
        /\ io'[t].step = "done" => local[k] # None
    BY <1>2, BeginWrite
  <2> QED
    BY <2>1 DEF At, InFlight
<1>3. ASSUME NEW c, NEW keys, Begin(t, c), FindAccounts(t, keys)
      PROVE  Others(t) /\ (At(t, "done")' => local[io'[t].key] # None)
  <2>1. /\ Others(t)
        /\ io'[t] = [step |-> "scan", keys |-> keys, found |-> LocalRecords(keys),
                     partial |-> FALSE]
    BY <1>0, <1>3, BeginScan
  <2> QED
    BY <2>1 DEF At
<1>4. ASSUME NEW log, CloseUndefined(t, log)
      PROVE  Others(t) /\ (At(t, "done")' => local[io'[t].key] # None)
  BY <1>0, <1>4 DEF CloseUndefined, Begin, StoreTyped, Others, At
<1> QED
  BY <1>1, <1>2, <1>3, <1>4 DEF Turn

\* What is stored at an address stays, and so does its being a payload.
LEMMA StoredStays ==
  ASSUME NEW t \in Threads, NEW k \in Keys, NEW p \in Payloads, StoreWrites(t, k, p),
         NEW j \in Keys
  PROVE  /\ j # k => Stored(j)' = Stored(j)
         /\ Stored(j) # None => Stored(j)' # None
         /\ io'[t].step = "done" => Stored(k)' # None
<1>1. p # None /\ p # Commitment
  BY PayloadsAssumption
<1>2. Stored(k) # None => Stored(k)' # None
  BY <1>1, PayloadsAssumption DEF StoreWrites, Stored, IsPayload
<1>3. j # k => Stored(j)' = Stored(j)
  BY DEF StoreWrites, Stored
<1>4. io'[t].step = "done" => Stored(k)' # None
  BY <1>1, PayloadsAssumption DEF StoreWrites, Stored, IsPayload
<1> QED
  BY <1>2, <1>3, <1>4

LEMMA DoneKept ==
  ASSUME TypeOK, FixedIsNamed, DoneIsStored, Next
  PROVE  DoneIsStored'
<1>0. StoreTyped
  BY DEF TypeOK, StoreTyped
<1>1. ASSUME Gone PROVE DoneIsStored'
  BY <1>1, Dying DEF DoneIsStored, At
<1>2. ASSUME NEW t \in Threads, StoreSteps(t)
      PROVE  DoneIsStored'
  <2>1. StoreStep(t) /\ call' = call
    BY <1>2 DEF StoreSteps
  <2>2. ASSUME NEW k \in Keys, NEW p \in Payloads, WriteGoesOn(t, k, p)
        PROVE  DoneIsStored'
    <3>1. StoreWrites(t, k, p) /\ io'[t].key = k
      BY <2>2 DEF WriteGoesOn, WriteOf, Writing
    <3>2. ASSUME NEW u \in Threads, At(u, "done")', u # t
          PROVE  (Stored(io[u].key) # None)'
      <4>1. io'[u] = io[u]
        BY <3>1, <3>2 DEF StoreWrites
      <4>2. At(u, "done") /\ Stored(io[u].key) # None
        BY <3>2, <4>1 DEF At, DoneIsStored
      <4>3. io[u].key \in Keys
        <5>1. PICK j \in Keys, q \in Payloads : WriteOf(u, j, q)
          BY <4>2, WritesOf DEF At, ScanningPolicies, ScanningLog, Scanning, ScanSteps
        <5> QED
          BY <5>1 DEF WriteOf, Writing
      <4> DEFINE j == io[u].key
      <4>4. (Stored(j) # None)'
        <5>1. \A i \in Keys : Stored(i) # None => Stored(i)' # None
          BY <3>1, StoredStays
        <5>2. Stored(j) # None
          BY <4>2
        <5> QED
          BY <4>1, <4>3, <5>1, <5>2 DEF Stored
      <4> QED
        BY <4>4
    <3>3. At(t, "done")' => (Stored(io[t].key) # None)'
      <4>1. io'[t].step = "done" => Stored(k)' # None
        BY <3>1, StoredStays
      <4> QED
        BY <3>1, <4>1 DEF At, Stored
    <3> QED
      BY <3>2, <3>3 DEF DoneIsStored
  <2>3. CASE PolicyScanGoesOn(t)
    BY <2>3 DEF PolicyScanGoesOn, ScanGoesOn, ScanningPolicies, Scanning, ScanSteps,
       DoneIsStored, At, Stored
  <2>4. CASE LogScanGoesOn(t)
    BY <2>4 DEF LogScanGoesOn, ScanGoesOn, ScanningLog, Scanning, ScanSteps,
       DoneIsStored, At, Stored
  <2> QED
    BY <2>1, <2>2, <2>3, <2>4, StoreStepsGoOn
<1>3. ASSUME NEW t \in Threads, UNCHANGED <<chain, local, lost, lost>>, Turn(t)
      PROVE  DoneIsStored'
  BY <1>0, <1>3, TurnDone DEF DoneIsStored, Others, At, Stored
<1> QED
  BY <1>1, <1>2, <1>3, NextActs, ActionsTakeTurns DEF Dies, DiesWriting

-----------------------------------------------------------------------------
(* What is stored at a fixed key is what it names.                         *)

LEMMA Acknowledging ==
  ASSUME NEW t \in Threads, ManagerAction(t)
  PROVE  \/ UNCHANGED acked
         \/ /\ Doing(t, "register") \/ Doing(t, "append") \/ Doing(t, "proof")
            /\ At(t, "done") /\ Acknowledge(t)
<1>1. CASE createCompressedPolicyAccount(t) \/ updateCompressedPolicyAccount(t)
           \/ UpdateFetched(t) \/ PolicyWritten(t) \/ PolicyFailed(t)
  BY <1>1 DEF createCompressedPolicyAccount, updateCompressedPolicyAccount, UpdateFetched,
     PolicyWritten, PolicyFailed
<1>2. CASE registerAgent(t) \/ registerCompressedAgent(t) \/ RegistrationFetched(t)
           \/ FetchFailed(t) \/ RegistrationFailed(t)
  BY <1>2 DEF registerAgent, registerCompressedAgent, RegistrationFetched, FetchFailed,
     RegistrationFailed, Dies, Gone
<1>3. CASE Registered(t) \/ Appended(t) \/ ProofAnchored(t)
  BY <1>3 DEF Registered, Appended, ProofAnchored
<1>4. CASE appendAuditEntry(t) \/ anchorProof(t) \/ RecordFailed(t)
  BY <1>4 DEF appendAuditEntry, anchorProof, RecordFailed
<1>5. CASE closeAgentSession(t) \/ LogFetched(t) \/ SessionClosed(t) \/ CloseFailed(t)
           \/ UndefinedClosed(t)
  BY <1>5 DEF closeAgentSession, LogFetched, SessionClosed, CloseFailed, UndefinedClosed
<1> QED
  BY <1>1, <1>2, <1>3, <1>4, <1>5 DEF ManagerAction

\* A call that is acknowledged has written what its key names.
LEMMA AcknowledgedWrite ==
  ASSUME TypeOK, NEW t \in Threads,
         Doing(t, "register") \/ Doing(t, "append") \/ Doing(t, "proof")
  PROVE  io[t].key \in FixedKeys /\ io[t].payload = io[t].key[2]
<1>1. LaneOK(t)
  BY DEF TypeOK
<1>2. CASE Doing(t, "register")
  <2>1. call[t].session \in Sessions /\ Writing(t, StartKey(call[t].session), call[t].session)
    BY <1>1, <1>2 DEF LaneOK, Registers
  <2> QED
    BY <2>1, KeysApart DEF Writing
<1>3. CASE Doing(t, "append")
  <2>1. call[t].entry \in Entries /\ Writing(t, AuditKey(call[t].entry), call[t].entry)
    BY <1>1, <1>3 DEF LaneOK
  <2> QED
    BY <2>1, KeysApart DEF Writing
<1>4. CASE Doing(t, "proof")
  <2>1. PICK x \in Proofs : Writing(t, ProofKey(x), x)
    BY <1>1, <1>4 DEF LaneOK
  <2> QED
    BY <2>1, KeysApart DEF Writing
<1> QED
  BY <1>2, <1>3, <1>4

LEMMA FixedKept ==
  ASSUME TypeOK, DoneIsStored, FixedIsNamed, Next
  PROVE  FixedIsNamed'
<1>1. ASSUME UNCHANGED <<chain, local, lost, lost>>,
             \A a \in acked' \ acked :
               /\ a.key \in FixedKeys /\ a.payload = a.key[2]
               /\ Stored(a.key) # None \/ a.key \in lost
      PROVE  FixedIsNamed'
  <2>1. \A k \in FixedKeys : local'[k] \in {None, k[2]} /\ chain'[k] \in {None, Commitment, k[2]}
    BY <1>1 DEF FixedIsNamed
  <2>2. \A a \in acked' : /\ a.key \in FixedKeys /\ a.payload = a.key[2]
                          /\ Stored(a.key) # None \/ a.key \in lost
    BY <1>1 DEF FixedIsNamed
  <2>3. \A a \in acked' : (Stored(a.key) # None)' \/ a.key \in lost'
    BY <1>1, <2>2 DEF Stored
  <2> QED
    BY <2>1, <2>2, <2>3 DEF FixedIsNamed, Stored
<1>2. CASE Dies
  BY <1>1, <1>2 DEF Dies, Gone
<1>5. ASSUME NEW t \in Threads, DiesWriting(t)
      PROVE  FixedIsNamed'
  <2>1. acked' = acked
    BY <1>5 DEF DiesWriting, Gone
  <2>2. \A k \in FixedKeys : local'[k] \in {None, k[2]} /\ chain'[k] \in {None, Commitment, k[2]}
    BY <1>5, CutStore, KeyKinds DEF FixedIsNamed
  <2>3. ASSUME NEW a \in acked'
        PROVE  /\ a.key \in FixedKeys /\ a.payload = a.key[2]
               /\ Stored(a.key)' # None \/ a.key \in lost'
    <3>1. /\ a.key \in FixedKeys /\ a.payload = a.key[2]
          /\ Stored(a.key) # None \/ a.key \in lost
      BY <2>1, <2>3 DEF FixedIsNamed
    <3>2. a.key \in Keys
      BY <3>1, KeyKinds
    <3> QED
      BY <1>5, <3>1, <3>2, CutStore, CutStored
  <2> QED
    BY <2>2, <2>3 DEF FixedIsNamed, Stored
<1>3. ASSUME NEW t \in Threads, StoreSteps(t)
      PROVE  FixedIsNamed'
  <2>1. StoreStep(t) /\ call' = call /\ acked' = acked
    BY <1>3 DEF StoreSteps
  <2>2. ASSUME NEW k \in Keys, NEW p \in Payloads, WriteGoesOn(t, k, p)
        PROVE  FixedIsNamed'
    <3>1. StoreWrites(t, k, p) /\ (k \in FixedKeys => p = k[2])
      BY <2>2, KeysApart DEF WriteGoesOn, WriteOf
    <3>2. ASSUME NEW j \in FixedKeys
          PROVE  /\ local'[j] \in {None, j[2]}
                 /\ chain'[j] \in {None, Commitment, j[2]}
      BY <3>1, KeyKinds DEF StoreWrites, FixedIsNamed
    <3>3. \A j \in Keys : Stored(j) # None => Stored(j)' # None
      BY <3>1, StoredStays
    <3>4. \A a \in acked' :
            /\ a.key \in FixedKeys /\ a.payload = a.key[2]
            /\ Stored(a.key)' # None \/ a.key \in lost'
      BY <2>1, <3>1, <3>3, KeyKinds DEF FixedIsNamed, StoreWrites
    <3> QED
      BY <3>2, <3>4 DEF FixedIsNamed, Stored
  <2>3. CASE PolicyScanGoesOn(t) \/ LogScanGoesOn(t)
    BY <1>1, <2>1, <2>3 DEF PolicyScanGoesOn, LogScanGoesOn, ScanGoesOn
  <2> QED
    BY <2>1, <2>2, <2>3, StoreStepsGoOn
<1>4. ASSUME NEW t \in Threads, ManagerAction(t), ~Dies
      PROVE  FixedIsNamed'
  <2>1. UNCHANGED <<chain, local, lost, lost>>
    BY <1>4, ActionsTakeTurns
  <2>2. CASE UNCHANGED acked
    BY <1>1, <2>1, <2>2
  <2>3. CASE /\ Doing(t, "register") \/ Doing(t, "append") \/ Doing(t, "proof")
             /\ At(t, "done") /\ Acknowledge(t)
    <3>1. io[t].key \in FixedKeys /\ io[t].payload = io[t].key[2]
      BY <2>3, AcknowledgedWrite
    <3>2. Stored(io[t].key) # None
      BY <2>3 DEF DoneIsStored
    <3>3. \A a \in acked' \ acked : a.key = io[t].key /\ a.payload = io[t].payload
      BY <2>3 DEF Acknowledge
    <3> QED
      BY <1>1, <2>1, <3>1, <3>2, <3>3
  <2> QED
    BY <1>4, <2>2, <2>3, Acknowledging
<1> QED
  BY <1>2, <1>3, <1>4, <1>5, NextActs

-----------------------------------------------------------------------------
(* The sessions.                                                           *)

\* The thread's call is about no session after the step, and what is known of the
\* sessions is what was, but that the handle may have lost its own.
Leaves(t) ==
  /\ Others(t) /\ ~Doing(t, "register")' /\ ~Doing(t, "close")'
  /\ UNCHANGED <<chain, local, lost, started, open, contested, returned>>
  /\ runtime' \in {runtime, 0}

\* The thread begins the registration of a new session.
Draws(t) ==
  /\ Others(t) /\ ~Doing(t, "register") /\ ~Doing(t, "close")
  /\ \E awaited \in BOOLEAN :
       call'[t] = [op |-> "register", session |-> NextSession, awaited |-> awaited]
  /\ UNCHANGED <<chain, local, lost, runtime, open, contested, returned>>
  /\ NextSession \in Sessions /\ started' = started \union {NextSession}

LEMMA StartedDraws ==
  ASSUME TypeOK, NEW t \in Threads, NEW awaited \in BOOLEAN, StartRegistration(t, awaited),
         UNCHANGED <<chain, local, lost, open, contested, returned>>,
         ~Doing(t, "register"), ~Doing(t, "close")
  PROVE  Leaves(t) \/ Draws(t)
<1>1. /\ Others(t)
      /\ \/ /\ NextSession \in Sessions
            /\ started' = started \union {NextSession} /\ runtime' = runtime
            /\ call'[t] = [op |-> "register", session |-> NextSession, awaited |-> awaited]
         \/ /\ started' = started /\ runtime' = 0
            /\ call'[t] = Idle
  BY RegistrationBegun
<1> QED
  BY <1>1 DEF Leaves, Draws, Doing

LEMMA SessionActions ==
  ASSUME TypeOK, FixedIsNamed, NEW t \in Threads, ManagerAction(t), ~Dies
  PROVE  \/ Leaves(t) \/ Draws(t)
         \/ Registered(t) \/ closeAgentSession(t) \/ LogFetched(t) \/ SessionClosed(t)
<1>0. StoreTyped
  BY DEF TypeOK, StoreTyped
<1>1. UNCHANGED <<chain, local, lost, lost>>
  BY ActionsTakeTurns
<1>2. ASSUME End(t), UNCHANGED <<runtime, started, open, contested, returned>>
      PROVE  Leaves(t)
  BY <1>0, <1>1, <1>2, Ending DEF Leaves, Doing
<1>3. ASSUME NEW state, WritePolicy(t, state),
             UNCHANGED <<runtime, started, open, contested, returned>>
      PROVE  Leaves(t)
  <2>1. Others(t) /\ call'[t] = [op |-> "policy", state |-> state]
    BY <1>0, <1>3, BeginWrite DEF WritePolicy
  <2> QED
    BY <1>1, <1>3, <2>1 DEF Leaves, Doing
<1>4. CASE createCompressedPolicyAccount(t)
  BY <1>3, <1>4 DEF createCompressedPolicyAccount
<1>5. CASE updateCompressedPolicyAccount(t)
  <2>1. UNCHANGED <<runtime, started, open, contested, returned>>
    BY <1>5 DEF updateCompressedPolicyAccount
  <2>2. PICK patch \in Patches :
          \/ WritePolicy(t, Merged(policy, patch))
          \/ /\ Begin(t, [op |-> "policy", patch |-> patch])
             /\ FindAccounts(t, PolicyKeys)
    BY <1>5 DEF updateCompressedPolicyAccount
  <2>3. CASE /\ Begin(t, [op |-> "policy", patch |-> patch])
             /\ FindAccounts(t, PolicyKeys)
    <3>1. Others(t) /\ call'[t] = [op |-> "policy", patch |-> patch]
      BY <1>0, <2>3, BeginScan
    <3> QED
      BY <1>1, <2>1, <3>1 DEF Leaves, Doing
  <2> QED
    BY <1>3, <2>1, <2>2, <2>3
<1>6. CASE UpdateFetched(t)
  BY <1>2, <1>3, <1>6 DEF UpdateFetched
<1>7. CASE PolicyWritten(t) \/ PolicyFailed(t) \/ FetchFailed(t)
  BY <1>2, <1>7 DEF PolicyWritten, PolicyFailed, FetchFailed
<1>8. CASE registerAgent(t)
  BY <1>1, <1>8, StartedDraws DEF registerAgent, Free, Doing
<1>9. CASE registerCompressedAgent(t)
  <2>1. ~Doing(t, "register") /\ ~Doing(t, "close") /\ UNCHANGED <<open, contested, returned>>
    BY <1>9 DEF registerCompressedAgent, Free, Doing
  <2>2. CASE StartRegistration(t, FALSE)
    BY <1>1, <2>1, <2>2, StartedDraws
  <2>3. CASE Begin(t, [op |-> "fetch"]) /\ FindAccounts(t, PolicyKeys)
             /\ UNCHANGED <<runtime, started>>
    <3>1. Others(t) /\ call'[t] = [op |-> "fetch"]
      BY <1>0, <2>3, BeginScan
    <3> QED
      BY <1>1, <2>1, <2>3, <3>1 DEF Leaves, Doing
  <2> QED
    BY <1>9, <2>2, <2>3 DEF registerCompressedAgent
<1>10. CASE RegistrationFetched(t)
  <2>1. ~Doing(t, "register") /\ ~Doing(t, "close") /\ UNCHANGED <<open, contested, returned>>
    BY <1>10 DEF RegistrationFetched, Doing
  <2>2. CASE StartRegistration(t, FALSE)
    BY <1>1, <2>1, <2>2, StartedDraws
  <2>3. CASE End(t) /\ UNCHANGED <<runtime, started>>
    BY <1>2, <2>1, <2>3
  <2> QED
    BY <1>10, <2>2, <2>3 DEF RegistrationFetched
<1>11. CASE RegistrationFailed(t)
  BY <1>2, <1>11 DEF RegistrationFailed
<1>12. CASE appendAuditEntry(t)
  <2>1. PICK e \in Entries :
          Begin(t, [op |-> "append", entry |-> e]) /\ WriteAccount(t, AuditKey(e), e)
    BY <1>12 DEF appendAuditEntry
  <2>2. Others(t) /\ call'[t] = [op |-> "append", entry |-> e]
    BY <1>0, <2>1, BeginWrite
  <2> QED
    BY <1>1, <1>12, <2>2 DEF appendAuditEntry, Leaves, Doing
<1>13. CASE anchorProof(t)
  <2>1. PICK x \in Proofs : Begin(t, [op |-> "proof"]) /\ WriteAccount(t, ProofKey(x), x)
    BY <1>13 DEF anchorProof
  <2>2. Others(t) /\ call'[t] = [op |-> "proof"]
    BY <1>0, <2>1, BeginWrite
  <2> QED
    BY <1>1, <1>13, <2>2 DEF anchorProof, Leaves, Doing
<1>14. CASE Appended(t) \/ ProofAnchored(t) \/ RecordFailed(t) \/ CloseFailed(t)
            \/ UndefinedClosed(t)
  BY <1>2, <1>14 DEF Appended, ProofAnchored, RecordFailed, CloseFailed, UndefinedClosed
<1> QED
  BY <1>4, <1>5, <1>6, <1>7, <1>8, <1>9, <1>10, <1>11, <1>12, <1>13, <1>14
     DEF ManagerAction

\* Sessions are numbered from 1 on, and the next one has not been drawn.
LEMMA Numbering ==
  ASSUME DrawnOnce
  PROVE  /\ Cardinality(started) \in Nat /\ NextSession \notin started
         /\ started \subseteq Nat \ {0} /\ NextSession \in Nat \ {0}
         /\ LET after == started \union {NextSession}
            IN IsFiniteSet(after) /\ after = 1..Cardinality(after)
<1>1. IsFiniteSet(started) /\ started = 1..Cardinality(started)
  BY DEF DrawnOnce
<1>2. Cardinality(started) \in Nat
  BY <1>1, FS_CardinalityType
<1> DEFINE n == Cardinality(started)
<1> HIDE DEF n
<1>3. NextSession = n + 1 /\ n \in Nat /\ started = 1..n
  BY <1>1, <1>2 DEF NextSession, n
<1>4. NextSession \notin started
  BY <1>3
<1>5. /\ IsFiniteSet(started \union {NextSession})
      /\ Cardinality(started \union {NextSession}) = n + 1
  BY <1>1, <1>4, FS_AddElement DEF n
<1>6. started \union {NextSession} = 1..(n + 1)
  BY <1>3
<1>7. started \union {NextSession} = 1..Cardinality(started \union {NextSession})
  BY <1>5, <1>6
<1>8. started \subseteq Nat \ {0} /\ NextSession \in Nat \ {0}
  BY <1>3
<1> QED
  BY <1>2, <1>4, <1>5, <1>7, <1>8

\* Nothing is known of a session that has not been started; ids are neither 0 nor None.
LEMMA DrawnFrame ==
  ASSUME DrawnOnce, UNCHANGED <<started, open, contested, returned>>,
         runtime' \in {runtime, None, 0},
         \A u \in Threads, s \in Sessions :
           (Registers(u, s)' => Registers(u, s)) /\ (Closes(u, s)' => Closes(u, s))
  PROVE  DrawnOnce'
<1>1. 0 \notin started /\ None \notin Sessions
  BY Numbering, PayloadsAssumption DEF Payloads
<1>2. /\ IsFiniteSet(started') /\ started' = 1..Cardinality(started')
      /\ runtime' \in started' \union {None, 0}
  BY DEF DrawnOnce
<1>3. \A s \in Sessions \ started' :
        open'[s] = 0 /\ s \notin contested' /\ \A r \in returned' : r.session # s
  BY DEF DrawnOnce
<1>4. /\ \A t \in Threads, s \in Sessions : Registers(t, s)' \/ Closes(t, s)' => s \in started'
      /\ \A t, u \in Threads, s \in Sessions : Registers(t, s)' /\ Registers(u, s)' => t = u
  BY DEF DrawnOnce
<1>5. ASSUME NEW t \in Threads, NEW s \in Sessions, Registers(t, s)'
      PROVE  /\ runtime' # s /\ open'[s] = 0 /\ s \notin contested'
             /\ \A r \in returned' : r.session # s
  BY <1>1, <1>5 DEF DrawnOnce
<1> QED
  BY <1>2, <1>3, <1>4, <1>5 DEF DrawnOnce

\* A session's closing, as long as nobody touches it: what a thread keeps of it, it had.
LEMMA ClosedFrame ==
  ASSUME NEW s \in Sessions, ClosedOnce(s), open'[s] = open[s],
         \A r \in [session : {s}, log : Logs] : r \in returned' <=> r \in returned,
         returned \subseteq [session : Sessions, log : Logs],
         returned' \subseteq [session : Sessions, log : Logs],
         chain'[CloseKey(s)] = chain[CloseKey(s)], local'[CloseKey(s)] = local[CloseKey(s)],
         lost' = lost,
         runtime' = s => runtime = s \/ \A r \in returned : r.session # s,
         \A u \in Threads : Closes(u, s)' =>
           /\ Closes(u, s) /\ call'[u] = call[u]
           /\ ScanningLog(u)' => ScanningLog(u)
           /\ WritingClose(u, s)' => WritingClose(u, s)
  PROVE  ClosedOnce(s)'
<1> DEFINE k == CloseKey(s)
           back == {r \in returned : r.session = s}
<1>1. {r \in returned' : r.session = s} = back
  OBVIOUS
<1>2. /\ open[s] \in {0, 1}
      /\ \A t, u \in Threads : Closes(t, s) /\ Closes(u, s) => t = u
      /\ \A t \in Threads : Closes(t, s) => open[s] = 1
      /\ back # {} => open[s] = 0 /\ runtime # s
      /\ \A r \in back :
           /\ local[k] \in {None, r.log} /\ chain[k] \in {None, Commitment, r.log}
           /\ Stored(k) # None \/ k \in lost
      /\ open[s] = 0 /\ back = {} => local[k] = None /\ chain[k] = None
      /\ \A t \in Threads : Closes(t, s) /\ ScanningLog(t) =>
           local[k] = None /\ chain[k] = None
      /\ \A t \in Threads : Closes(t, s) /\ WritingClose(t, s) =>
           local[k] \in {None, call[t].log} /\ chain[k] \in {None, Commitment, call[t].log}
  BY DEF ClosedOnce
<1>3. Stored(k)' = Stored(k)
  BY DEF Stored
<1>4. back # {} => runtime' # s
  BY <1>2
<1>5. /\ \A t, u \in Threads : Closes(t, s)' /\ Closes(u, s)' => t = u
      /\ \A t \in Threads : Closes(t, s)' => open'[s] = 1
      /\ \A t \in Threads : Closes(t, s)' /\ ScanningLog(t)' =>
           local'[k] = None /\ chain'[k] = None
      /\ \A t \in Threads : Closes(t, s)' /\ WritingClose(t, s)' =>
           local'[k] \in {None, call'[t].log} /\ chain'[k] \in {None, Commitment, call'[t].log}
  BY <1>2
<1>6. \A r \in {r \in returned' : r.session = s} :
        /\ local'[k] \in {None, r.log} /\ chain'[k] \in {None, Commitment, r.log}
        /\ Stored(k)' # None \/ k \in lost'
  BY <1>1, <1>2, <1>3
<1>7. (open[s] = 0 /\ back = {}) => (local[k] = None /\ chain[k] = None)
  BY <1>2
<1>8. open'[s] \in {0, 1}
      /\ ({r \in returned' : r.session = s} # {} => open'[s] = 0 /\ runtime' # s)
      /\ ((open'[s] = 0 /\ {r \in returned' : r.session = s} = {}) =>
            local'[k] = None /\ chain'[k] = None)
  BY <1>1, <1>2, <1>4, <1>7
<1> HIDE DEF k, back
<1> QED
  BY <1>5, <1>6, <1>8 DEF ClosedOnce, k

\* The process dies: the sessions are as they were, and nobody is at any.
LEMMA DiesSessions ==
  ASSUME TypeOK, DrawnOnce, \A s \in Sessions \ contested : ClosedOnce(s), Dies
  PROVE  DrawnOnce' /\ \A s \in Sessions \ contested' : ClosedOnce(s)'
<1>1. \A u \in Threads, s \in Sessions : ~Registers(u, s)' /\ ~Closes(u, s)'
  BY Dying DEF Dies, Registers, Closes, Doing
<1>2. /\ UNCHANGED <<started, open, contested, returned, chain, local, lost>> /\ runtime' = None
      /\ None \notin Sessions
  BY PayloadsAssumption DEF Dies, Gone, Payloads
<1>3. DrawnOnce'
  BY <1>1, <1>2, DrawnFrame
<1>4. ASSUME NEW s \in Sessions \ contested
      PROVE  ClosedOnce(s)'
  BY <1>1, <1>2, ClosedFrame DEF TypeOK
<1> QED
  BY <1>2, <1>3, <1>4

\* A write to the close key of a session is the write of the thread that closes it.
LEMMA WriteOfClose ==
  ASSUME NEW t \in Threads, NEW k, NEW p, WriteOf(t, k, p), NEW s \in Sessions,
         Closes(t, s) \/ k = CloseKey(s)
  PROVE  /\ Closes(t, s) /\ WritingClose(t, s) /\ k = CloseKey(s)
         /\ p = call[t].log /\ p \in Logs
BY KeysApart DEF WriteOf, Closes, Doing

\* The process dies in a rewriting of the file: of a session's closing there is what an
\* account holds, or nothing.
LEMMA DiesWritingSessions ==
  ASSUME TypeOK, FixedIsNamed, DrawnOnce, \A s \in Sessions \ contested : ClosedOnce(s),
         NEW t \in Threads, DiesWriting(t)
  PROVE  DrawnOnce' /\ \A s \in Sessions \ contested' : ClosedOnce(s)'
<1>1. \A u \in Threads, s \in Sessions : ~Registers(u, s)' /\ ~Closes(u, s)'
  BY Dying DEF DiesWriting, Registers, Closes, Doing
<1>2. /\ UNCHANGED <<started, open, contested, returned>> /\ runtime' = None
      /\ None \notin Sessions
  BY PayloadsAssumption DEF DiesWriting, Gone, Payloads
<1>3. DrawnOnce'
  BY <1>1, <1>2, DrawnFrame
<1>4. ASSUME NEW s \in Sessions \ contested
      PROVE  ClosedOnce(s)'
  <2> DEFINE k == CloseKey(s)
             back == {r \in returned : r.session = s}
  <2>1. k \in Keys /\ ClosedOnce(s)
    BY KeyKinds
  <2>2. /\ local'[k] = None
        /\ chain'[k] = chain[k]
           \/ (chain[k] = None /\ chain'[k] = Commitment /\ k = io[t].key)
    BY <2>1, CutStore
  <2>3. ASSUME NEW r \in back
        PROVE  /\ chain'[k] \in {None, Commitment, r.log}
               /\ Stored(k)' # None \/ k \in lost'
    <3>1. chain[k] \in {None, Commitment, r.log} /\ (Stored(k) # None \/ k \in lost)
      BY <2>1 DEF ClosedOnce
    <3> QED
      BY <2>1, <2>2, <3>1, CutStore, CutStored
  <2>4. ASSUME open[s] = 0, back = {}
        PROVE  chain'[k] = None
    <3>1. chain[k] = None /\ \A u \in Threads : ~Closes(u, s)
      BY <2>1, <2>4 DEF ClosedOnce
    <3>2. io[t].key # k
      <4>1. PICK j \in Keys, p \in Payloads : WriteOf(t, j, p)
        BY WritesOf, CutStore DEF ScanningPolicies, ScanningLog, Scanning, ScanSteps
      <4>2. io[t].key = j
        BY <4>1 DEF WriteOf, Writing
      <4> QED
        BY <3>1, <4>1, <4>2, WriteOfClose
    <3> QED
      BY <2>2, <3>1, <3>2
  <2>5. open[s] \in {0, 1} /\ (back # {} => open[s] = 0)
    BY <2>1 DEF ClosedOnce
  <2>6. {r \in returned' : r.session = s} = back
    BY <1>2
  <2> HIDE DEF k, back
  <2>7. /\ open'[s] \in {0, 1} /\ runtime' # s
        /\ (back # {} => open'[s] = 0)
        /\ (open'[s] = 0 /\ back = {} => local'[k] = None /\ chain'[k] = None)
    BY <1>2, <2>2, <2>4, <2>5
  <2>8. \A r \in {r \in returned' : r.session = s} :
          /\ local'[k] \in {None, r.log} /\ chain'[k] \in {None, Commitment, r.log}
          /\ Stored(k)' # None \/ k \in lost'
    BY <2>2, <2>3, <2>6
  <2> QED
    BY <1>1, <2>6, <2>7, <2>8 DEF ClosedOnce, k
<1> QED
  BY <1>2, <1>3, <1>4

LEMMA StoreStepsSessions ==
  ASSUME TypeOK, FixedIsNamed, DrawnOnce, \A s \in Sessions \ contested : ClosedOnce(s),
         NEW t \in Threads, StoreSteps(t)
  PROVE  DrawnOnce' /\ \A s \in Sessions \ contested' : ClosedOnce(s)'
<1>1. StoreStep(t) /\ UNCHANGED <<call, runtime, started, open, contested, returned>>
  BY DEF StoreSteps
<1>2. \A u \in Threads, s \in Sessions :
        (Registers(u, s)' <=> Registers(u, s)) /\ (Closes(u, s)' <=> Closes(u, s))
  BY <1>1 DEF Registers, Closes, Doing
<1>3. DrawnOnce'
  BY <1>1, <1>2, DrawnFrame
<1>4. ASSUME NEW s \in Sessions \ contested
      PROVE  ClosedOnce(s)'
  <2> DEFINE c == CloseKey(s)
  <2>1. c \in Keys /\ ClosedOnce(s)
    BY KeyKinds
  <2>2. ASSUME NEW u \in Threads, u # t, io'[u] = io[u]
        PROVE  /\ ScanningLog(u)' => ScanningLog(u)
               /\ WritingClose(u, s)' => WritingClose(u, s)
    BY <1>1, <2>2 DEF ScanningLog, Scanning, WritingClose
  <2>3. ASSUME NEW k \in Keys, NEW p \in Payloads, WriteGoesOn(t, k, p), k # c
        PROVE  ClosedOnce(s)'
    <3>1. WriteOf(t, k, p) /\ StoreWrites(t, k, p)
      BY <2>3 DEF WriteGoesOn
    <3>2. ~Closes(t, s)
      BY <2>3, <3>1, WriteOfClose
    <3>3. chain'[c] = chain[c] /\ local'[c] = local[c] /\ lost' = lost
      BY <2>1, <2>3, <3>1 DEF StoreWrites
    <3>4. \A u \in Threads \ {t} : io'[u] = io[u]
      BY <3>1 DEF StoreWrites
    <3> QED
      BY <1>1, <1>2, <2>1, <2>2, <3>2, <3>3, <3>4, ClosedFrame DEF TypeOK
  <2>4. ASSUME NEW p \in Payloads, WriteGoesOn(t, c, p)
        PROVE  ClosedOnce(s)'
    <3>1. WriteOf(t, c, p) /\ StoreWrites(t, c, p) /\ WriteOf(t, c, p)'
      BY <2>4 DEF WriteGoesOn
    <3>2. Closes(t, s) /\ WritingClose(t, s) /\ p = call[t].log
      BY <3>1, WriteOfClose
    <3>3. /\ open[s] = 1 /\ {r \in returned : r.session = s} = {}
          /\ local[c] \in {None, p} /\ chain[c] \in {None, Commitment, p}
          /\ \A u \in Threads : Closes(u, s) => u = t
      BY <2>1, <3>2 DEF ClosedOnce
    <3>4. local'[c] \in {None, p} /\ chain'[c] \in {None, Commitment, p}
      BY <3>1, <3>3 DEF StoreWrites
    <3>5. ~ScanningLog(t)'
      <4>1. DOMAIN io'[t] = {"key", "payload", "step"}
        BY <3>1 DEF StoreWrites, Writing
      <4> QED
        BY <4>1 DEF ScanningLog, Scanning
    <3> QED
      BY <1>1, <1>2, <3>2, <3>3, <3>4, <3>5 DEF ClosedOnce
  <2>5. CASE PolicyScanGoesOn(t)
    <3>1. ~Closes(t, s)
      BY <2>5 DEF PolicyScanGoesOn, PolicyCalls, Closes, Doing
    <3> QED
      BY <1>1, <1>2, <2>1, <2>2, <2>5, <3>1, ClosedFrame
      DEF TypeOK, PolicyScanGoesOn, ScanGoesOn
  <2>6. CASE LogScanGoesOn(t)
    <3>1. ScanningLog(t) /\ ~WritingClose(t, s)'
      <4>1. "found" \in DOMAIN io'[t]
        BY <2>6 DEF LogScanGoesOn, ScanningLog, Scanning
      <4> QED
        BY <2>6, <4>1 DEF LogScanGoesOn, WritingClose
    <3> QED
      BY <1>1, <1>2, <2>1, <2>2, <2>6, <3>1, ClosedFrame
      DEF TypeOK, LogScanGoesOn, ScanGoesOn
  <2> QED
    BY <1>1, <2>3, <2>4, <2>5, <2>6, StoreStepsGoOn
<1> QED
  BY <1>1, <1>3, <1>4

\* Of a thread whose call is about no session, or about one that is new.
LEMMA LeavesSessions ==
  ASSUME TypeOK, DrawnOnce, \A s \in Sessions \ contested : ClosedOnce(s),
         NEW t \in Threads, Leaves(t)
  PROVE  DrawnOnce' /\ \A s \in Sessions \ contested' : ClosedOnce(s)'
<1>1. \A u \in Threads, s \in Sessions :
        /\ Registers(u, s)' => Registers(u, s)
        /\ Closes(u, s)' => u # t /\ Closes(u, s)
  BY DEF Leaves, Others, Registers, Closes, Doing
<1>2. DrawnOnce'
  BY <1>1, DrawnFrame DEF Leaves
<1>3. ASSUME NEW s \in Sessions \ contested
      PROVE  ClosedOnce(s)'
  <2>1. runtime' = s => runtime = s \/ \A r \in returned : r.session # s
    BY Numbering DEF Leaves, DrawnOnce
  <2>2. ASSUME NEW u \in Threads, Closes(u, s)'
        PROVE  /\ Closes(u, s) /\ call'[u] = call[u]
               /\ ScanningLog(u)' => ScanningLog(u)
               /\ WritingClose(u, s)' => WritingClose(u, s)
    BY <1>1, <2>2 DEF Leaves, Others, ScanningLog, Scanning, WritingClose
  <2> QED
    BY <2>1, <2>2, ClosedFrame DEF Leaves, TypeOK
<1> QED
  BY <1>2, <1>3 DEF Leaves

LEMMA DrawsSessions ==
  ASSUME TypeOK, DrawnOnce, \A s \in Sessions \ contested : ClosedOnce(s),
         NEW t \in Threads, Draws(t)
  PROVE  DrawnOnce' /\ \A s \in Sessions \ contested' : ClosedOnce(s)'
<1> DEFINE n == NextSession
<1>1. /\ n \in Sessions /\ n \notin started /\ started' = started \union {n}
      /\ IsFiniteSet(started') /\ started' = 1..Cardinality(started')
      /\ UNCHANGED <<chain, local, lost, runtime, open, contested, returned>>
      /\ n # 0 /\ n # None
  BY Numbering, PayloadsAssumption DEF Draws, Payloads
<1>2. \A u \in Threads, s \in Sessions :
        /\ Registers(u, s)' => (u # t /\ Registers(u, s)) \/ (u = t /\ s = n)
        /\ Closes(u, s)' => u # t /\ Closes(u, s)
  BY DEF Draws, Others, Registers, Closes, Doing
<1>3. DrawnOnce'
  <2>1. runtime' \in started' \union {None, 0}
    BY <1>1 DEF DrawnOnce
  <2>2. \A s \in Sessions \ started' :
          open'[s] = 0 /\ s \notin contested' /\ \A r \in returned' : r.session # s
    BY <1>1 DEF DrawnOnce
  <2>3. \A u \in Threads, s \in Sessions : Registers(u, s)' \/ Closes(u, s)' => s \in started'
    BY <1>1, <1>2 DEF DrawnOnce
  <2>4. \A u, v \in Threads, s \in Sessions : Registers(u, s)' /\ Registers(v, s)' => u = v
    BY <1>1, <1>2 DEF DrawnOnce
  <2>5. ASSUME NEW u \in Threads, NEW s \in Sessions, Registers(u, s)'
        PROVE  /\ runtime' # s /\ open'[s] = 0 /\ s \notin contested'
               /\ \A r \in returned' : r.session # s
    <3>1. CASE u # t /\ Registers(u, s)
      BY <1>1, <3>1 DEF DrawnOnce
    <3>2. CASE s = n
      BY <1>1, <3>2 DEF DrawnOnce
    <3> QED
      BY <1>2, <2>5, <3>1, <3>2
  <2> QED
    BY <1>1, <2>1, <2>2, <2>3, <2>4, <2>5 DEF DrawnOnce
<1>4. ASSUME NEW s \in Sessions \ contested
      PROVE  ClosedOnce(s)'
  <2>1. ASSUME NEW u \in Threads, Closes(u, s)'
        PROVE  /\ Closes(u, s) /\ call'[u] = call[u]
               /\ ScanningLog(u)' => ScanningLog(u)
               /\ WritingClose(u, s)' => WritingClose(u, s)
    BY <1>2, <2>1 DEF Draws, Others, ScanningLog, Scanning, WritingClose
  <2> QED
    BY <1>1, <2>1, ClosedFrame DEF TypeOK
<1> QED
  BY <1>1, <1>3, <1>4

LEMMA RegisteredSessions ==
  ASSUME TypeOK, DrawnOnce, \A s \in Sessions \ contested : ClosedOnce(s),
         NEW t \in Threads, Registered(t)
  PROVE  DrawnOnce' /\ \A s \in Sessions \ contested' : ClosedOnce(s)'
<1> DEFINE n == call[t].session
<1>0. StoreTyped
  BY DEF TypeOK, StoreTyped
<1>1. /\ Others(t) /\ call'[t] = Idle /\ runtime' = n
      /\ UNCHANGED <<chain, local, lost, started, open, contested, returned>>
  BY <1>0, Ending DEF Registered
<1>2. n \in Sessions /\ Registers(t, n)
  BY DEF Registered, TypeOK, LaneOK, Registers
<1>3. n \in started /\ open[n] = 0 /\ n \notin contested /\ \A r \in returned : r.session # n
  BY <1>2 DEF DrawnOnce
<1>4. \A u \in Threads, s \in Sessions :
        /\ Registers(u, s)' => s # n /\ Registers(u, s)
        /\ Closes(u, s)' => u # t /\ Closes(u, s)
  <2>1. \A u \in Threads, s \in Sessions :
          /\ Registers(u, s)' => u # t /\ Registers(u, s)
          /\ Closes(u, s)' => u # t /\ Closes(u, s)
    BY <1>1 DEF Others, Registers, Closes, Doing
  <2> QED
    BY <1>2, <2>1 DEF DrawnOnce
<1> HIDE DEF n
<1>5. DrawnOnce'
  <2>1. ASSUME NEW u \in Threads, NEW s \in Sessions, Registers(u, s)'
        PROVE  /\ runtime' # s /\ open'[s] = 0 /\ s \notin contested'
               /\ \A r \in returned' : r.session # s
    BY <1>1, <1>4, <2>1 DEF DrawnOnce
  <2>2. /\ \A s \in Sessions \ started' :
             open'[s] = 0 /\ s \notin contested' /\ \A r \in returned' : r.session # s
        /\ \A u \in Threads, s \in Sessions : Registers(u, s)' \/ Closes(u, s)' => s \in started'
        /\ \A u, v \in Threads, s \in Sessions : Registers(u, s)' /\ Registers(v, s)' => u = v
        /\ IsFiniteSet(started') /\ started' = 1..Cardinality(started')
    BY <1>1, <1>4 DEF DrawnOnce
  <2> QED
    BY <1>1, <1>3, <2>1, <2>2 DEF DrawnOnce
<1>6. ASSUME NEW s \in Sessions \ contested
      PROVE  ClosedOnce(s)'
  <2>1. ASSUME NEW u \in Threads, Closes(u, s)'
        PROVE  /\ Closes(u, s) /\ call'[u] = call[u]
               /\ ScanningLog(u)' => ScanningLog(u)
               /\ WritingClose(u, s)' => WritingClose(u, s)
    BY <1>1, <1>4, <2>1 DEF Others, ScanningLog, Scanning, WritingClose
  <2> QED
    BY <1>1, <1>3, <2>1, ClosedFrame DEF TypeOK
<1> QED
  BY <1>1, <1>5, <1>6

\* The other sessions, while a thread is at the closing of one.
LEMMA OtherSessions ==
  ASSUME TypeOK, NEW t \in Threads, NEW n \in Sessions, Others(t), ~Doing(t, "register")',
         \A s \in Sessions : Closes(t, s)' => s = n,
         UNCHANGED <<chain, local, lost, lost>>, DrawnOnce, runtime' \in {runtime, 0},
         \A s \in Sessions : s # n => open'[s] = open[s],
         returned' \subseteq [session : Sessions, log : Logs],
         \A r \in [session : Sessions, log : Logs] :
           r.session # n => (r \in returned' <=> r \in returned),
         NEW s \in Sessions, s # n, ClosedOnce(s)
  PROVE  ClosedOnce(s)'
<1>1. runtime' = s => runtime = s \/ \A r \in returned : r.session # s
  BY Numbering DEF DrawnOnce
<1>2. ASSUME NEW u \in Threads, Closes(u, s)'
      PROVE  /\ Closes(u, s) /\ call'[u] = call[u]
             /\ ScanningLog(u)' => ScanningLog(u)
             /\ WritingClose(u, s)' => WritingClose(u, s)
  BY <1>2 DEF Others, Closes, Doing, ScanningLog, Scanning, WritingClose
<1>3. \A r \in [session : {s}, log : Logs] : r \in returned' <=> r \in returned
  OBVIOUS
<1> QED
  BY <1>1, <1>2, <1>3, ClosedFrame DEF TypeOK

\* A closing begins: it reads the log at once, or scans for it.
LEMMA CloseBegins ==
  ASSUME TypeOK, FixedIsNamed, NEW t \in Threads, closeAgentSession(t)
  PROVE  /\ runtime \in Sessions \ {0} /\ call[t] = Idle
         /\ Others(t) /\ Closes(t, runtime)' /\ ~Doing(t, "register")'
         /\ \A s \in Sessions : Closes(t, s)' => s = runtime
         /\ open' = [open EXCEPT ![runtime] = @ + 1]
         /\ contested' = IF open[runtime] > 0 THEN contested \union {runtime} ELSE contested
         /\ UNCHANGED <<chain, local, lost, runtime, started, returned>>
<1>0. StoreTyped
  BY DEF TypeOK, StoreTyped
<1>1. runtime \in Sessions \ {0} /\ call[t] = Idle
  BY DEF closeAgentSession, TypeOK, Free
<1>2. \E c : /\ c.op = "close" /\ c.session = runtime /\ c # Idle
             /\ Others(t) /\ call'[t] = c
  <2>1. CASE CloseSession(t, runtime, auditLog)
    <3> DEFINE c == [op |-> "close", session |-> runtime, log |-> auditLog]
    <3>1. c.op = "close" /\ c.session = runtime /\ c # Idle
      BY <1>1, CallsAssumption DEF TypeOK
    <3>2. Others(t) /\ call'[t] = c
      BY <1>0, <2>1, BeginWrite DEF CloseSession
    <3> QED
      BY <3>1, <3>2
  <2>2. CASE Begin(t, [op |-> "close", session |-> runtime]) /\ FindAccounts(t, AuditKeys)
    <3> DEFINE c == [op |-> "close", session |-> runtime]
    <3>1. c.op = "close" /\ c.session = runtime /\ c # Idle
      BY <1>1, CallsAssumption
    <3>2. Others(t) /\ call'[t] = c
      BY <1>0, <2>2, BeginScan
    <3> QED
      BY <3>1, <3>2
  <2> QED
    BY <2>1, <2>2 DEF closeAgentSession
<1>3. PICK c : /\ c.op = "close" /\ c.session = runtime /\ c # Idle
               /\ Others(t) /\ call'[t] = c
  BY <1>2
<1>4. Closes(t, runtime)' /\ ~Doing(t, "register")' /\ \A s \in Sessions : Closes(t, s)' => s = runtime
  <2>1. runtime' = runtime
    BY DEF closeAgentSession
  <2> QED
    BY <1>3, <2>1 DEF Closes, Doing
<1> QED
  BY <1>1, <1>3, <1>4 DEF closeAgentSession

LEMMA CloseBeginsSessions ==
  ASSUME TypeOK, FixedIsNamed, DrawnOnce, \A s \in Sessions \ contested : ClosedOnce(s),
         NEW t \in Threads, closeAgentSession(t)
  PROVE  DrawnOnce' /\ \A s \in Sessions \ contested' : ClosedOnce(s)'
<1> DEFINE n == runtime
<1>1. /\ n \in Sessions \ {0} /\ call[t] = Idle
      /\ Others(t) /\ ~Doing(t, "register")'
      /\ \A s \in Sessions : Closes(t, s)' => s = n
      /\ open' = [open EXCEPT ![n] = @ + 1]
      /\ contested' = IF open[n] > 0 THEN contested \union {n} ELSE contested
      /\ UNCHANGED <<chain, local, lost, runtime, started, returned>>
  BY CloseBegins
<1>2. n \in started
  BY <1>1, PayloadsAssumption DEF DrawnOnce, Payloads
<1>3. \A s \in Sessions : s # n => open'[s] = open[s]
  BY <1>1 DEF TypeOK
<1>4. /\ \A u \in Threads, s \in Sessions : Registers(u, s)' => Registers(u, s)
      /\ \A u \in Threads, s \in Sessions : Closes(u, s)' =>
           (u = t /\ s = n) \/ (u # t /\ Closes(u, s))
  BY <1>1 DEF Others, Registers, Closes, Doing
<1> HIDE DEF n
<1>5. DrawnOnce'
  <2>1. \A s \in Sessions \ started' :
          open'[s] = 0 /\ s \notin contested' /\ \A r \in returned' : r.session # s
    BY <1>1, <1>2, <1>3 DEF DrawnOnce
  <2>2. \A u \in Threads, s \in Sessions : Registers(u, s)' \/ Closes(u, s)' => s \in started'
    BY <1>1, <1>2, <1>4 DEF DrawnOnce
  <2>3. \A u, v \in Threads, s \in Sessions : Registers(u, s)' /\ Registers(v, s)' => u = v
    BY <1>4 DEF DrawnOnce
  <2>4. ASSUME NEW u \in Threads, NEW s \in Sessions, Registers(u, s)'
        PROVE  /\ runtime' # s /\ open'[s] = 0 /\ s \notin contested'
               /\ \A r \in returned' : r.session # s
    <3>1. Registers(u, s)
      BY <1>4, <2>4
    <3>2. /\ runtime # s /\ open[s] = 0 /\ s \notin contested
          /\ \A r \in returned : r.session # s
      BY <3>1 DEF DrawnOnce
    <3> QED
      BY <1>1, <1>3, <3>2 DEF n
  <2>5. IsFiniteSet(started') /\ started' = 1..Cardinality(started')
        /\ runtime' \in started' \union {None, 0}
    BY <1>1 DEF DrawnOnce
  <2> QED
    BY <2>1, <2>2, <2>3, <2>4, <2>5 DEF DrawnOnce
<1>6. ASSUME NEW s \in Sessions \ contested', s # n
      PROVE  ClosedOnce(s)'
  <2>1. s \in Sessions \ contested
    BY <1>1, <1>6
  <2>2. ClosedOnce(s)
    BY <2>1
  <2> QED
    BY <1>1, <1>3, <1>6, <2>1, <2>2, OtherSessions DEF TypeOK
<1>7. ASSUME NEW s \in Sessions \ contested', s = n
      PROVE  ClosedOnce(s)'
  <2> DEFINE k == CloseKey(s)
  <2>1. s \notin contested /\ ~(open[s] > 0)
    BY <1>1, <1>7
  <2>2. ClosedOnce(s)
    BY <2>1
  <2>3. open[s] = 0 /\ open'[s] = 1
    BY <1>1, <1>7, <2>1, <2>2 DEF ClosedOnce, TypeOK
  <2>4. \A r \in returned : r.session # s
    BY <1>7, <2>2 DEF ClosedOnce, n
  <2>5. \A u \in Threads : ~Closes(u, s)
    BY <2>2, <2>3 DEF ClosedOnce
  <2>6. local[k] = None /\ chain[k] = None
    BY <2>2, <2>3, <2>4 DEF ClosedOnce
  <2>7. \A u \in Threads : Closes(u, s)' => u = t
    BY <1>1, <1>4, <2>5
  <2>8. {r \in returned' : r.session = s} = {}
    BY <1>1, <2>4
  <2> QED
    BY <1>1, <2>3, <2>6, <2>7, <2>8 DEF ClosedOnce
<1> QED
  BY <1>1, <1>5, <1>6, <1>7

\* The log is fetched, and the handle has lost its session: the call is about none now.
LEMMA LogFetchedUndefined ==
  ASSUME TypeOK, NEW t \in Threads, LogFetched(t), CloseUndefined(t, ScannedLog(t))
  PROVE  Leaves(t)
<1>1. /\ Others(t) /\ call'[t] = [op |-> "closeUndefined", log |-> ScannedLog(t)]
      /\ UNCHANGED <<chain, local, lost, runtime, started, open, contested, returned>>
  BY DEF LogFetched, CloseUndefined, Begin, TypeOK, Others
<1> QED
  BY <1>1 DEF Leaves, Doing

LEMMA LogFetchedSessions ==
  ASSUME TypeOK, FixedIsNamed, DrawnOnce, \A s \in Sessions \ contested : ClosedOnce(s),
         NEW t \in Threads, LogFetched(t), ~CloseUndefined(t, ScannedLog(t))
  PROVE  DrawnOnce' /\ \A s \in Sessions \ contested' : ClosedOnce(s)'
<1> DEFINE n == call[t].session
           c == [op |-> "close", session |-> n, log |-> ScannedLog(t)]
<1>0. StoreTyped
  BY DEF TypeOK, StoreTyped
<1>1. /\ Others(t) /\ call'[t] = c
      /\ UNCHANGED <<chain, local, lost, runtime, started, open, contested, returned>>
  BY <1>0, BeginWrite DEF LogFetched, CloseSession
<1>2. Closes(t, n) /\ n \in Sessions /\ ScanningLog(t)
  BY DEF LogFetched, TypeOK, LaneOK, Closes, At, WritingClose, WriteSteps
<1>3. c.op = "close" /\ c.session = n
  OBVIOUS
<1>4. ~Doing(t, "register")' /\ \A s \in Sessions : Closes(t, s)' => s = n
  BY <1>1, <1>3 DEF Closes, Doing
<1> HIDE DEF n, c
<1>5. \A u \in Threads, s \in Sessions :
        /\ Registers(u, s)' => Registers(u, s)
        /\ Closes(u, s)' => Closes(u, s)
  BY <1>1, <1>2, <1>4 DEF Others, Registers, Closes, Doing
<1>6. DrawnOnce'
  BY <1>1, <1>5, DrawnFrame
<1>7. ASSUME NEW s \in Sessions \ contested, s # n
      PROVE  ClosedOnce(s)'
  BY <1>1, <1>2, <1>4, <1>7, OtherSessions DEF TypeOK
<1>8. ASSUME NEW s \in Sessions \ contested, s = n
      PROVE  ClosedOnce(s)'
  <2> DEFINE k == CloseKey(s)
  <2>1. ClosedOnce(s)
    OBVIOUS
  <2>2. /\ open[s] = 1 /\ {r \in returned : r.session = s} = {}
        /\ local[k] = None /\ chain[k] = None
        /\ \A u \in Threads : Closes(u, s) => u = t
    BY <1>2, <1>8, <2>1 DEF ClosedOnce
  <2>3. \A u \in Threads : Closes(u, s)' => u = t
    BY <1>5, <2>2
  <2> QED
    BY <1>1, <2>2, <2>3 DEF ClosedOnce
<1> QED
  BY <1>1, <1>6, <1>7, <1>8

\* A closing returns the log that it has stored.
LEMMA ClosedSessions ==
  ASSUME TypeOK, DoneIsStored, DrawnOnce, \A s \in Sessions \ contested : ClosedOnce(s),
         NEW t \in Threads, SessionClosed(t)
  PROVE  DrawnOnce' /\ \A s \in Sessions \ contested' : ClosedOnce(s)'
<1> DEFINE n == call[t].session
           log == call[t].log
<1>0. StoreTyped
  BY DEF TypeOK, StoreTyped
<1>1. /\ Others(t) /\ call'[t] = Idle
      /\ runtime' = Cleared(n)
      /\ returned' = returned \union {[session |-> n, log |-> log]}
      /\ open' = [open EXCEPT ![n] = @ - 1]
      /\ UNCHANGED <<chain, local, lost, started, contested>>
  BY <1>0, Ending DEF SessionClosed
<1>2. /\ Closes(t, n) /\ n \in Sessions /\ WritingClose(t, n) /\ At(t, "done")
      /\ log \in Logs /\ log # None /\ io[t].key = CloseKey(n)
  <2>1. Closes(t, n) /\ n \in Sessions /\ WritingClose(t, n) /\ At(t, "done")
    BY DEF SessionClosed, TypeOK, LaneOK, Closes, At, ScanningLog, Scanning, ScanSteps
  <2> QED
    BY <2>1, PayloadsAssumption DEF WritingClose, Payloads
<1>3. n \in started /\ n # 0
  BY <1>2, Numbering DEF DrawnOnce
<1> HIDE DEF n, log
<1>4. /\ \A u \in Threads, s \in Sessions : Registers(u, s)' => Registers(u, s)
      /\ \A u \in Threads, s \in Sessions : Closes(u, s)' => u # t /\ Closes(u, s)
  BY <1>1 DEF Others, Registers, Closes, Doing
<1>5. \A s \in Sessions : s # n => open'[s] = open[s]
  BY <1>1 DEF TypeOK
<1>6. runtime' \in {runtime, 0} /\ runtime' # n
  BY <1>1, <1>3 DEF Cleared
<1>7. DrawnOnce'
  <2>1. \A s \in Sessions \ started' :
          open'[s] = 0 /\ s \notin contested' /\ \A r \in returned' : r.session # s
    BY <1>1, <1>3, <1>5 DEF DrawnOnce
  <2>2. ASSUME NEW u \in Threads, NEW s \in Sessions, Registers(u, s)'
        PROVE  /\ runtime' # s /\ open'[s] = 0 /\ s \notin contested'
               /\ \A r \in returned' : r.session # s
    <3>1. /\ runtime # s /\ open[s] = 0 /\ s \notin contested /\ s \in started
          /\ \A r \in returned : r.session # s
      BY <1>4, <2>2 DEF DrawnOnce
    <3>2. s # n
      BY <1>2, <3>1 DEF ClosedOnce
    <3> QED
      BY <1>1, <1>5, <1>6, <3>1, <3>2, Numbering
  <2>3. /\ \A u \in Threads, s \in Sessions : Registers(u, s)' \/ Closes(u, s)' => s \in started'
        /\ \A u, v \in Threads, s \in Sessions : Registers(u, s)' /\ Registers(v, s)' => u = v
        /\ IsFiniteSet(started') /\ started' = 1..Cardinality(started')
        /\ runtime' \in started' \union {None, 0}
    BY <1>1, <1>4, <1>6 DEF DrawnOnce
  <2> QED
    BY <2>1, <2>2, <2>3 DEF DrawnOnce
<1>8. returned' \subseteq [session : Sessions, log : Logs]
  BY <1>1, <1>2 DEF TypeOK
<1>9. ASSUME NEW s \in Sessions \ contested, s # n
      PROVE  ClosedOnce(s)'
  <2>1. \A r \in [session : Sessions, log : Logs] :
          r.session # n => (r \in returned' <=> r \in returned)
    BY <1>1
  <2>2. ~Doing(t, "register")' /\ \A r \in Sessions : Closes(t, r)' => r = n
    BY <1>1, <1>4 DEF Doing
  <2> QED
    BY <1>1, <1>2, <1>5, <1>6, <1>8, <1>9, <2>1, <2>2, OtherSessions
<1>10. ASSUME NEW s \in Sessions \ contested, s = n
       PROVE  ClosedOnce(s)'
  <2> DEFINE k == CloseKey(s)
  <2>1. ClosedOnce(s)
    OBVIOUS
  <2>2. /\ open[s] = 1 /\ {r \in returned : r.session = s} = {}
        /\ local[k] \in {None, log} /\ chain[k] \in {None, Commitment, log}
        /\ \A u \in Threads : Closes(u, s) => u = t
    BY <1>2, <1>10, <2>1 DEF ClosedOnce, log
  <2>3. Stored(k) # None
    BY <1>2, <1>10 DEF DoneIsStored
  <2>4. Stored(k) = log
    BY <1>2, <2>2, <2>3 DEF Stored, IsPayload
  <2>5. /\ Stored(k)' = log /\ log # None
        /\ local'[k] \in {None, log} /\ chain'[k] \in {None, Commitment, log}
    BY <1>1, <1>2, <2>2, <2>4 DEF Stored
  <2>6. open'[s] = 0 /\ runtime' # s /\ \A u \in Threads : ~Closes(u, s)'
    BY <1>1, <1>4, <1>6, <1>10, <2>2 DEF TypeOK
  <2>7. {r \in returned' : r.session = s} = {[session |-> s, log |-> log]}
    BY <1>1, <1>10, <2>2
  <2> HIDE DEF k
  <2>8. /\ \A r \in {r \in returned' : r.session = s} :
             /\ local'[k] \in {None, r.log} /\ chain'[k] \in {None, Commitment, r.log}
             /\ Stored(k)' # None
        /\ {r \in returned' : r.session = s} # {}
    <3>1. \A r \in {r \in returned' : r.session = s} : r.log = log
      BY <2>7
    <3> QED
      BY <2>5, <2>7, <3>1
  <2> QED
    BY <2>6, <2>8 DEF ClosedOnce, k
<1> QED
  BY <1>1, <1>7, <1>9, <1>10

LEMMA SessionsKept ==
  ASSUME TypeOK, DoneIsStored, FixedIsNamed, DrawnOnce,
         \A s \in Sessions \ contested : ClosedOnce(s), Next
  PROVE  DrawnOnce' /\ \A s \in Sessions \ contested' : ClosedOnce(s)'
<1>1. ASSUME NEW t \in Threads, ManagerAction(t), ~Dies
      PROVE  DrawnOnce' /\ \A s \in Sessions \ contested' : ClosedOnce(s)'
  BY <1>1, SessionActions, LeavesSessions, DrawsSessions, RegisteredSessions,
     CloseBeginsSessions, LogFetchedUndefined, LogFetchedSessions, ClosedSessions
<1> QED
  BY <1>1, NextActs, DiesSessions, DiesWritingSessions, StoreStepsSessions

-----------------------------------------------------------------------------
(* The policy.                                                             *)

\* The thread that writes a policy.
WritesPolicy(t) == Doing(t, "policy") /\ WritingPolicy(t)

\* What the addresses of the policies hold.
LEMMA PolicyStore ==
  ASSUME TypeOK, NEW at \in 0..MaxNow
  PROVE  LET k == PolicyKey(at) IN
         /\ k \in PolicyKeys
         /\ Stored(k) \in PolicyRecords \union {None}
         /\ local[k] \in PolicyRecords \union {None}
         /\ chain[k] \in PolicyRecords \union {None, Commitment}
         /\ IsPayload(chain[k]) => chain[k] \in PolicyRecords
<1>1. PolicyKey(at) \in PolicyKeys
  BY DEF PolicyKeys
<1> QED
  BY <1>1 DEF TypeOK, Stored, IsPayload

\* Nothing has changed that the order of the policies depends on, unless the process
\* has died while no call was about a policy.
LEMMA PolicyFrame ==
  ASSUME TypeOK, PolicyInOrder, policy' \in {policy, None}, now' = now,
         \A k \in PolicyKeys : local'[k] = local[k] /\ chain'[k] = chain[k],
         \A u \in Threads :
           /\ Doing(u, "policy")' <=> Doing(u, "policy")
           /\ Doing(u, "fetch")' => Doing(u, "fetch")
           /\ Doing(u, "policy")' \/ Doing(u, "fetch")' => call'[u] = call[u] /\ io'[u] = io[u]
  PROVE  PolicyInOrder'
<1>1. PolicyCalls' \subseteq PolicyCalls /\ \A u \in PolicyCalls' : call'[u] = call[u] /\ io'[u] = io[u]
  BY DEF PolicyCalls
<1>2. \A at \in 0..MaxNow : LET k == PolicyKey(at) IN
        k \in PolicyKeys /\ local'[k] = local[k] /\ chain'[k] = chain[k] /\ Stored(k)' = Stored(k)
  BY DEF PolicyKeys, Stored
<1>3. ASSUME NEW at \in 0..MaxNow
      PROVE  PolicyAccountOK(at)'
  <2>1. PolicyAccountOK(at)
    BY DEF PolicyInOrder
  <2> QED
    BY <1>2, <2>1 DEF PolicyAccountOK, IsPayload
<1>4. \A u \in Threads : WritesPolicy(u)' <=> WritesPolicy(u)
  BY DEF WritesPolicy, WritingPolicy, Doing
<1>5. \A at \in now'..MaxNow :
        (at = now' => \A u \in Threads : ~WritesPolicy(u)') =>
          local'[PolicyKey(at)] = None /\ chain'[PolicyKey(at)] = None
  <2> SUFFICES ASSUME NEW at \in now..MaxNow, at = now => \A u \in Threads : ~WritesPolicy(u)
               PROVE  local'[PolicyKey(at)] = None /\ chain'[PolicyKey(at)] = None
    BY <1>4
  <2>1. at \in 0..MaxNow
    BY DEF TypeOK
  <2> QED
    BY <1>2, <2>1 DEF PolicyInOrder, WritesPolicy
<1>6. \A u \in Threads : Doing(u, "policy")' => now' < MaxNow
  BY DEF PolicyInOrder
<1>7. now \in 0..MaxNow
  BY DEF TypeOK
<1>8. ASSUME NEW u \in Threads, WritesPolicy(u)'
      PROVE  LET k == PolicyKey(now)
                 p == serializePolicy(call[u].state, now)
             IN Writing(u, k, p)' /\ call'[u] = call[u]
                /\ local'[k] \in {None, p} /\ chain'[k] \in {None, Commitment, p}
  BY <1>2, <1>4, <1>7, <1>8 DEF PolicyInOrder, WritesPolicy, Writing
<1>9. LocalRecords(PolicyKeys)' = LocalRecords(PolicyKeys)
  BY DEF LocalRecords
<1>10. \A u \in PolicyCalls' : At(u, "scan")' => io'[u].found = LocalRecords(PolicyKeys)'
  BY <1>1, <1>9 DEF PolicyInOrder, At
<1>11. \A u \in PolicyCalls' : At(u, "scanned")' /\ ~io'[u].partial =>
         Found(u)' = ({Stored(k) : k \in PolicyKeys} \ {None})'
  <2>1. \A k \in PolicyKeys : Stored(k)' = Stored(k)
    BY DEF Stored
  <2> QED
    BY <1>1, <2>1 DEF PolicyInOrder, At, Found
<1>12. policy' # None => \E at \in 0..MaxNow :
         /\ at < now'
         /\ Stored(PolicyKey(at))' = serializePolicy(policy, at)' 
         /\ \A b \in 0..MaxNow : at < b /\ b < now' => Stored(PolicyKey(b))' = None
  BY <1>2 DEF PolicyInOrder, serializePolicy
<1>13. \A t, u \in PolicyCalls' : t = u
  BY <1>1 DEF PolicyInOrder
<1> QED
  BY <1>3, <1>5, <1>6, <1>8, <1>10, <1>11, <1>12, <1>13
     DEF PolicyInOrder, WritesPolicy, serializePolicy

\* While no policy is written, the latest one is before now, and the last that is stored.
LEMMA LatestStored ==
  ASSUME TypeOK, PolicyInOrder, \A u \in Threads : ~WritesPolicy(u),
         NEW S, S = {Stored(k) : k \in PolicyKeys} \ {None}, S # {}
  PROVE  \E at \in 0..MaxNow :
           /\ at < now /\ Stored(PolicyKey(at)) = Latest(S)
           /\ Latest(S) = serializePolicy(deserializePolicy(Latest(S)), at)
           /\ Latest(S) \in PolicyRecords
           /\ \A b \in 0..MaxNow : at < b => Stored(PolicyKey(b)) = None
<1>1. ASSUME NEW at \in 0..MaxNow, Stored(PolicyKey(at)) # None
      PROVE  /\ Stored(PolicyKey(at)).updatedAt = at /\ at < now
             /\ Stored(PolicyKey(at)) \in S
  <2>1. PolicyAccountOK(at)
    BY DEF PolicyInOrder
  <2>2. Stored(PolicyKey(at)).updatedAt = at
    BY <1>1, <2>1 DEF PolicyAccountOK, Stored
  <2>3. at < now
    <3> SUFFICES ASSUME ~(at < now) PROVE FALSE
      OBVIOUS
    <3>1. at \in now..MaxNow
      BY DEF TypeOK
    <3>2. local[PolicyKey(at)] = None /\ chain[PolicyKey(at)] = None
      BY <3>1 DEF PolicyInOrder, WritesPolicy
    <3> QED
      BY <1>1, <3>2 DEF Stored, IsPayload
  <2>4. PolicyKey(at) \in PolicyKeys
    BY DEF PolicyKeys
  <2> QED
    BY <1>1, <2>2, <2>3, <2>4
<1>2. S \subseteq PolicyRecords
  BY PolicyStore DEF PolicyKeys
<1>3. /\ Latest(S) \in S
      /\ \A q \in S : Latest(S).updatedAt >= q.updatedAt
  BY <1>2, LatestIsFound
<1> DEFINE p == Latest(S)
<1> HIDE DEF p
<1>4. p \in S /\ p \in PolicyRecords /\ \A q \in S : p.updatedAt >= q.updatedAt
  BY <1>2, <1>3 DEF p
<1>5. PICK at \in 0..MaxNow : p = Stored(PolicyKey(at)) /\ p # None
  BY <1>4 DEF PolicyKeys
<1>6. p.updatedAt = at /\ at < now
  BY <1>1, <1>5
<1>7. p = serializePolicy(deserializePolicy(p), at)
  BY <1>4, <1>6 DEF PolicyRecords, serializePolicy, deserializePolicy
<1>8. ASSUME NEW b \in 0..MaxNow, at < b, Stored(PolicyKey(b)) # None
      PROVE  FALSE
  <2>1. p.updatedAt >= b
    BY <1>1, <1>4, <1>8
  <2> QED
    BY <1>6, <1>8, <2>1
<1> QED
  BY <1>4, <1>5, <1>6, <1>7, <1>8 DEF p

\* What a thread that is not at the policy finds unchanged.
LEMMA PolicyAside ==
  ASSUME TypeOK, PolicyInOrder, NEW t \in Threads, Others(t),
         ~Doing(t, "policy"), ~Doing(t, "policy")', ~Doing(t, "fetch")',
         UNCHANGED <<policy, now, chain, local>>
  PROVE  PolicyInOrder'
<1>1. \A u \in Threads :
        /\ Doing(u, "policy")' <=> Doing(u, "policy")
        /\ Doing(u, "fetch")' => Doing(u, "fetch")
        /\ Doing(u, "policy")' \/ Doing(u, "fetch")' => call'[u] = call[u] /\ io'[u] = io[u]
  BY DEF Others, Doing
<1> QED
  BY <1>1, PolicyFrame

\* The parts of the order that hold of what is stored, while nothing is.
LEMMA PolicyHistory ==
  ASSUME TypeOK, PolicyInOrder, UNCHANGED <<now, chain, local>>
  PROVE  /\ \A at \in 0..MaxNow : PolicyAccountOK(at)'
         /\ \A at \in 0..MaxNow : Stored(PolicyKey(at))' = Stored(PolicyKey(at))
         /\ \A at \in now..MaxNow : at # now =>
              local'[PolicyKey(at)] = None /\ chain'[PolicyKey(at)] = None
         /\ policy # None => \E at \in 0..MaxNow :
              /\ at < now
              /\ Stored(PolicyKey(at))' = serializePolicy(policy, at)
              /\ \A b \in 0..MaxNow : at < b /\ b < now => Stored(PolicyKey(b))' = None
<1>1. \A at \in 0..MaxNow : PolicyAccountOK(at)'
  BY DEF PolicyInOrder, PolicyAccountOK, IsPayload
<1>2. \A at \in 0..MaxNow : Stored(PolicyKey(at))' = Stored(PolicyKey(at))
  BY DEF Stored
<1> QED
  BY <1>1, <1>2 DEF PolicyInOrder

\* Of the calls on the policy there is one, and it has begun to write.
LEMMA PolicyWriteBegins ==
  ASSUME TypeOK, PolicyInOrder, NEW t \in Threads, PolicyCalls \subseteq {t},
         \A u \in Threads : ~WritesPolicy(u), now < MaxNow,
         NEW state \in PolicyStates, WritePolicy(t, state),
         UNCHANGED <<now, chain, local>>,
         policy' # None => \E at \in 0..MaxNow :
           /\ at < now
           /\ Stored(PolicyKey(at)) = serializePolicy(policy', at)
           /\ \A b \in 0..MaxNow : at < b /\ b < now => Stored(PolicyKey(b)) = None
  PROVE  PolicyInOrder'
<1>1. /\ Others(t) /\ Doing(t, "policy")' /\ WritingPolicy(t)'
      /\ call'[t] = [op |-> "policy", state |-> state]
      /\ InFlight(io'[t], PolicyKey(now), serializePolicy(state, now))
  BY PolicyBegun
<1>2. PolicyCalls' \subseteq {t}
  BY <1>1 DEF PolicyCalls, Others, Doing
<1>3. now \in 0..MaxNow /\ now \in now..MaxNow
  BY DEF TypeOK
<1>4. local[PolicyKey(now)] = None /\ chain[PolicyKey(now)] = None
  BY <1>3 DEF PolicyInOrder, WritesPolicy
<1>5. ASSUME NEW u \in Threads, Doing(u, "policy")'
      PROVE  u = t
  BY <1>2, <1>5 DEF PolicyCalls
<1>6. io'[t].step \in WriteSteps
  BY <1>1 DEF InFlight
<1>7. \A u \in PolicyCalls' : ~At(u, "scan")' /\ ~At(u, "scanned")'
  BY <1>2, <1>6 DEF At, WriteSteps
<1>8. call'[t].state = state
  BY <1>1
<1>9. ASSUME NEW u \in Threads, Doing(u, "policy")' /\ WritingPolicy(u)'
      PROVE  LET k == PolicyKey(now)
                 p == serializePolicy(call[u].state, now)
             IN (Writing(u, k, p) /\ local[k] \in {None, p} /\ chain[k] \in {None, Commitment, p})'
  BY <1>1, <1>4, <1>5, <1>8, <1>9 DEF InFlight, Writing, serializePolicy
<1>10. policy' # None => \E at \in 0..MaxNow :
         /\ at < now'
         /\ Stored(PolicyKey(at))' = serializePolicy(policy', at)
         /\ \A b \in 0..MaxNow : at < b /\ b < now' => Stored(PolicyKey(b))' = None
  BY PolicyHistory
<1>11. \A at \in now'..MaxNow :
         (at = now' => \A u \in Threads : ~(Doing(u, "policy")' /\ WritingPolicy(u)')) =>
           local'[PolicyKey(at)] = None /\ chain'[PolicyKey(at)] = None
  BY <1>1, PolicyHistory
<1> QED
  BY <1>2, <1>7, <1>9, <1>10, <1>11, PolicyHistory DEF PolicyInOrder, serializePolicy

\* The one call on the policy is over, or has begun to scan for it.
LEMMA PolicyIdle ==
  ASSUME TypeOK, PolicyInOrder, UNCHANGED <<now, chain, local>>,
         \A u \in Threads : ~WritesPolicy(u), PolicyCalls' = {},
         policy' # None => \E at \in 0..MaxNow :
           /\ at < now
           /\ Stored(PolicyKey(at)) = serializePolicy(policy', at)
           /\ \A b \in 0..MaxNow : at < b /\ b < now => Stored(PolicyKey(b)) = None
  PROVE  PolicyInOrder'
<1>1. \A u \in Threads : ~Doing(u, "policy")' /\ ~Doing(u, "fetch")'
  BY DEF PolicyCalls
<1>2. \A at \in now'..MaxNow : local'[PolicyKey(at)] = None /\ chain'[PolicyKey(at)] = None
  BY DEF PolicyInOrder, WritesPolicy
<1>3. policy' # None => \E at \in 0..MaxNow :
        /\ at < now'
        /\ Stored(PolicyKey(at))' = serializePolicy(policy', at)
        /\ \A b \in 0..MaxNow : at < b /\ b < now' => Stored(PolicyKey(b))' = None
  BY PolicyHistory
<1> QED
  BY <1>1, <1>2, <1>3, PolicyHistory DEF PolicyInOrder, serializePolicy

LEMMA PolicyScanBegins ==
  ASSUME TypeOK, FixedIsNamed, PolicyInOrder, NEW t \in Threads, PolicyCalls = {}, NEW c,
         Begin(t, c), FindAccounts(t, PolicyKeys), UNCHANGED <<now, chain, local, policy>>,
         c.op = "policy" => now < MaxNow
  PROVE  PolicyInOrder'
<1>0. StoreTyped
  BY DEF TypeOK, StoreTyped
<1>1. /\ Others(t) /\ call'[t] = c
      /\ io'[t] = [step |-> "scan", keys |-> PolicyKeys, found |-> LocalRecords(PolicyKeys),
                   partial |-> FALSE]
  BY <1>0, BeginScan
<1>2. PolicyCalls' \subseteq {t} /\ \A u \in Threads : Doing(u, "policy")' => u = t
  BY <1>1 DEF PolicyCalls, Others, Doing
<1>3. \A u \in Threads : ~Doing(u, "policy")
  BY DEF PolicyCalls
<1>4. io'[t].step = "scan" /\ io'[t].found = LocalRecords(PolicyKeys) /\ ~WritingPolicy(t)'
  <2>1. io'[t].step = "scan" /\ io'[t].found = LocalRecords(PolicyKeys)
    BY <1>1
  <2> QED
    BY <2>1 DEF WritingPolicy, WriteSteps
<1>5. \A at \in now'..MaxNow : local'[PolicyKey(at)] = None /\ chain'[PolicyKey(at)] = None
  BY <1>3 DEF PolicyInOrder
<1>6. LocalRecords(PolicyKeys)' = LocalRecords(PolicyKeys)
  BY DEF LocalRecords
<1>7. policy' # None => \E at \in 0..MaxNow :
        /\ at < now'
        /\ Stored(PolicyKey(at))' = serializePolicy(policy', at)
        /\ \A b \in 0..MaxNow : at < b /\ b < now' => Stored(PolicyKey(b))' = None
  BY PolicyHistory
<1>8. \A u \in Threads : ~(Doing(u, "policy")' /\ WritingPolicy(u)')
  BY <1>2, <1>4
<1>9. \A u \in Threads : Doing(u, "policy")' => now' < MaxNow
  BY <1>1, <1>2 DEF Doing
<1>10. \A u \in PolicyCalls' : /\ At(u, "scan")' => io'[u].found = LocalRecords(PolicyKeys)'
                               /\ ~At(u, "scanned")'
  BY <1>2, <1>4, <1>6 DEF At
<1> QED
  BY <1>2, <1>5, <1>7, <1>8, <1>9, <1>10, PolicyHistory DEF PolicyInOrder, serializePolicy

\* A policy that is fetched is the last that is stored.
LEMMA PolicyFetched ==
  ASSUME TypeOK, PolicyInOrder, NEW t \in PolicyCalls, At(t, "scanned"), ~io[t].partial,
         Found(t) # {}, ScanningPolicies(t)
  PROVE  LET current == deserializePolicy(Latest(Found(t))) IN
         /\ current \in PolicyStates
         /\ \E at \in 0..MaxNow :
              /\ at < now
              /\ Stored(PolicyKey(at)) = serializePolicy(current, at)
              /\ \A b \in 0..MaxNow : at < b /\ b < now => Stored(PolicyKey(b)) = None
<1>1. \A u \in Threads : ~WritesPolicy(u)
  BY DEF PolicyInOrder, PolicyCalls, WritesPolicy, At, WritingPolicy, WriteSteps
<1>2. Found(t) = {Stored(k) : k \in PolicyKeys} \ {None}
  BY DEF PolicyInOrder
<1> DEFINE p == Latest(Found(t))
<1>3. \E at \in 0..MaxNow :
        /\ at < now /\ Stored(PolicyKey(at)) = p
        /\ p = serializePolicy(deserializePolicy(p), at)
        /\ p \in PolicyRecords
        /\ \A b \in 0..MaxNow : at < b => Stored(PolicyKey(b)) = None
  BY <1>1, <1>2, LatestStored
<1> HIDE DEF p
<1>4. p \in PolicyRecords => deserializePolicy(p) \in PolicyStates
  BY DEF PolicyRecords, deserializePolicy
<1>5. /\ deserializePolicy(p) \in PolicyStates
      /\ \E at \in 0..MaxNow :
           /\ at < now
           /\ Stored(PolicyKey(at)) = serializePolicy(deserializePolicy(p), at)
           /\ \A b \in 0..MaxNow : at < b /\ b < now => Stored(PolicyKey(b)) = None
  BY <1>3, <1>4
<1> QED
  BY <1>5 DEF p

\* One call at a time: a thread that is scanning is alone, and nobody writes.
LEMMA ScanningAlone ==
  ASSUME TypeOK, PolicyInOrder, NEW t \in PolicyCalls, ScanningPolicies(t)
  PROVE  PolicyCalls = {t} /\ \A u \in Threads : ~WritesPolicy(u)
<1>1. PolicyCalls = {t}
  BY DEF PolicyInOrder
<1>2. ~WritingPolicy(t)
  <2>1. "found" \in DOMAIN io[t]
    BY DEF ScanningPolicies, Scanning
  <2> QED
    BY <2>1 DEF WritingPolicy
<1> QED
  BY <1>1, <1>2 DEF WritesPolicy, PolicyCalls

LEMMA PolicyActionsOrder ==
  ASSUME TypeOK, FixedIsNamed, DoneIsStored, PolicyInOrder, ~doubtful', NEW t \in Threads,
         \/ createCompressedPolicyAccount(t)
         \/ updateCompressedPolicyAccount(t)
         \/ UpdateFetched(t)
         \/ PolicyWritten(t)
         \/ PolicyFailed(t)
  PROVE  PolicyInOrder'
<1>0. StoreTyped
  BY DEF TypeOK, StoreTyped
<1>1. policy # None => \E at \in 0..MaxNow :
        /\ at < now
        /\ Stored(PolicyKey(at)) = serializePolicy(policy, at)
        /\ \A b \in 0..MaxNow : at < b /\ b < now => Stored(PolicyKey(b)) = None
  BY DEF PolicyInOrder
<1>2. PolicyCalls = {} => \A u \in Threads : ~WritesPolicy(u)
  BY DEF PolicyCalls, WritesPolicy
<1>3. CASE createCompressedPolicyAccount(t)
  <2>1. /\ PolicyCalls = {} /\ now < MaxNow /\ WritePolicy(t, FirstPolicy)
        /\ UNCHANGED <<now, chain, local, policy>>
    BY <1>3 DEF createCompressedPolicyAccount
  <2> QED
    BY <1>1, <1>2, <2>1, PolicyWriteBegins, PayloadsAssumption
<1>4. CASE updateCompressedPolicyAccount(t)
  <2>1. PICK patch \in Patches :
          IF policy # None
            THEN WritePolicy(t, Merged(policy, patch))
            ELSE /\ Begin(t, [op |-> "policy", patch |-> patch])
                 /\ FindAccounts(t, PolicyKeys)
    BY <1>4 DEF updateCompressedPolicyAccount
  <2>2. PolicyCalls = {} /\ now < MaxNow /\ UNCHANGED <<now, chain, local, policy>>
    BY <1>4 DEF updateCompressedPolicyAccount
  <2>3. CASE policy # None
    <3>1. Merged(policy, patch) \in PolicyStates
      BY <2>3, MergedTyped DEF TypeOK
    <3> QED
      BY <1>1, <1>2, <2>1, <2>2, <2>3, <3>1, PolicyWriteBegins
  <2>4. CASE policy = None
    BY <2>1, <2>2, <2>4, PolicyScanBegins
  <2> QED
    BY <2>3, <2>4
<1>5. CASE UpdateFetched(t)
  <2>1. ScanningPolicies(t) /\ call[t].patch \in Patches /\ t \in PolicyCalls
    BY <1>5 DEF UpdateFetched, TypeOK, LaneOK, At, WritingPolicy, WriteSteps, PolicyCalls
  <2>2. /\ PolicyCalls = {t} /\ \A u \in Threads : ~WritesPolicy(u)
        /\ At(t, "scanned") /\ ~io[t].partial /\ now < MaxNow /\ UNCHANGED <<now, chain, local>>
    <3>1. io[t].partial \in BOOLEAN
      BY <2>1 DEF ScanningPolicies, Scanning
    <3>2. now < MaxNow
      BY <1>5 DEF UpdateFetched, PolicyInOrder
    <3> QED
      BY <1>5, <2>1, <3>1, <3>2, ScanningAlone DEF UpdateFetched
  <2>3. CASE Found(t) = {}
    <3>1. End(t) /\ policy' = policy
      BY <1>5, <2>3 DEF UpdateFetched
    <3>2. PolicyCalls' = {}
      BY <1>0, <2>2, <3>1, Ending DEF PolicyCalls, Others, Doing
    <3> QED
      BY <1>1, <2>2, <3>1, <3>2, PolicyIdle
  <2>4. CASE Found(t) # {}
    <3> DEFINE current == deserializePolicy(Latest(Found(t)))
    <3>1. policy' = current /\ WritePolicy(t, Merged(current, call[t].patch))
      BY <1>5, <2>4 DEF UpdateFetched
    <3>2. /\ current \in PolicyStates
          /\ \E at \in 0..MaxNow :
               /\ at < now
               /\ Stored(PolicyKey(at)) = serializePolicy(current, at)
               /\ \A b \in 0..MaxNow : at < b /\ b < now => Stored(PolicyKey(b)) = None
      BY <2>1, <2>2, <2>4, PolicyFetched
    <3> HIDE DEF current
    <3>3. Merged(current, call[t].patch) \in PolicyStates
      BY <2>1, <3>2, MergedTyped
    <3> QED
      BY <2>2, <3>1, <3>2, <3>3, PolicyWriteBegins
  <2> QED
    BY <2>3, <2>4
<1>6. CASE PolicyWritten(t)
  <2>1. Doing(t, "policy") /\ At(t, "done") /\ WritingPolicy(t) /\ t \in PolicyCalls
    BY <1>6 DEF PolicyWritten, TypeOK, LaneOK, At, ScanningPolicies, Scanning, ScanSteps, PolicyCalls
  <2>2. now < MaxNow /\ now \in 0..MaxNow /\ MaxNow \in Nat
    BY <2>1, PayloadsAssumption DEF PolicyInOrder, TypeOK
  <2>3. policy' = call[t].state /\ now' = now + 1 /\ UNCHANGED <<chain, local, lost>> /\ End(t)
    BY <1>6, <2>2 DEF PolicyWritten
  <2> DEFINE k == PolicyKey(now)
             p == serializePolicy(call[t].state, now)
  <2>4. io[t].key = k /\ local[k] \in {None, p} /\ chain[k] \in {None, Commitment, p}
    BY <2>1 DEF PolicyInOrder, Writing
  <2>5. Stored(k) = p
    BY <2>1, <2>4 DEF DoneIsStored, Stored, IsPayload
  <2>6. PolicyCalls' = {}
    BY <1>0, <2>1, <2>3, Ending DEF PolicyInOrder, PolicyCalls, Others, Doing
  <2>7. \A u \in Threads : ~Doing(u, "policy")' /\ ~Doing(u, "fetch")'
    BY <2>6 DEF PolicyCalls
  <2>8. \A at \in now'..MaxNow : local'[PolicyKey(at)] = None /\ chain'[PolicyKey(at)] = None
    BY <2>2, <2>3 DEF PolicyInOrder
  <2>9. \A at \in 0..MaxNow : PolicyAccountOK(at)'
    BY <2>3 DEF PolicyInOrder, PolicyAccountOK, IsPayload
  <2>10. \E at \in 0..MaxNow :
           /\ at < now'
           /\ Stored(PolicyKey(at))' = serializePolicy(policy', at)
           /\ \A b \in 0..MaxNow : at < b /\ b < now' => Stored(PolicyKey(b))' = None
    <3>1. local' = local /\ chain' = chain
      BY <2>3
    <3>2. ASSUME NEW at \in 0..MaxNow, at = now
          PROVE  /\ at < now' /\ Stored(PolicyKey(at))' = serializePolicy(policy', at)
                 /\ \A b \in 0..MaxNow : at < b => ~(b < now')
      BY <2>2, <2>3, <2>5, <3>1, <3>2 DEF Stored
    <3> QED
      BY <2>2, <3>2
  <2> QED
    BY <2>6, <2>7, <2>8, <2>9, <2>10 DEF PolicyInOrder, serializePolicy
<1>7. ~PolicyFailed(t)
  BY DEF PolicyFailed
<1> QED
  BY <1>3, <1>4, <1>5, <1>6, <1>7

\* A registration fetches the policy first, if the registry has none.
LEMMA RegistrationActionsOrder ==
  ASSUME TypeOK, FixedIsNamed, PolicyInOrder, ~doubtful', NEW t \in Threads,
         registerCompressedAgent(t) \/ RegistrationFetched(t)
  PROVE  PolicyInOrder'
<1>0. StoreTyped
  BY DEF TypeOK, StoreTyped
<1>1. ASSUME NEW awaited \in BOOLEAN, StartRegistration(t, awaited)
      PROVE  Others(t) /\ ~Doing(t, "policy")' /\ ~Doing(t, "fetch")'
  <2>1. /\ Others(t)
        /\ \/ call'[t] = [op |-> "register", session |-> NextSession, awaited |-> awaited]
           \/ call'[t] = Idle
    BY <1>1, RegistrationBegun
  <2> QED
    BY <2>1 DEF Doing
<1>2. CASE registerCompressedAgent(t)
  <2>1. PolicyCalls = {} /\ UNCHANGED <<policy, now, chain, local>> /\ ~Doing(t, "policy")
    BY <1>2 DEF registerCompressedAgent, Free, Doing
  <2>2. CASE StartRegistration(t, FALSE)
    BY <1>1, <2>1, <2>2, PolicyAside
  <2>3. CASE Begin(t, [op |-> "fetch"]) /\ FindAccounts(t, PolicyKeys)
    BY <2>1, <2>3, PolicyScanBegins
  <2> QED
    BY <1>2, <2>2, <2>3 DEF registerCompressedAgent
<1>3. CASE RegistrationFetched(t)
  <2>1. t \in PolicyCalls /\ ScanningPolicies(t) /\ At(t, "scanned") /\ ~Doing(t, "policy")
        /\ UNCHANGED <<now, chain, local>>
    BY <1>3 DEF RegistrationFetched, TypeOK, LaneOK, PolicyCalls, Doing
  <2>2. ~io[t].partial
    <3>1. io[t].partial \in BOOLEAN
      BY <2>1 DEF ScanningPolicies, Scanning
    <3> QED
      BY <1>3, <3>1 DEF RegistrationFetched
  <2>3. PolicyCalls = {t} /\ \A u \in Threads : ~WritesPolicy(u)
    BY <2>1, ScanningAlone
  <2>4. CASE Found(t) = {}
    <3>1. End(t) /\ policy' = policy
      BY <1>3, <2>4 DEF RegistrationFetched
    <3> QED
      BY <1>0, <2>1, <3>1, Ending, PolicyAside DEF Doing
  <2>5. CASE Found(t) # {}
    <3> DEFINE current == deserializePolicy(Latest(Found(t)))
    <3>1. policy' = current /\ StartRegistration(t, FALSE)
      BY <1>3, <2>5 DEF RegistrationFetched
    <3>2. \E at \in 0..MaxNow :
            /\ at < now
            /\ Stored(PolicyKey(at)) = serializePolicy(current, at)
            /\ \A b \in 0..MaxNow : at < b /\ b < now => Stored(PolicyKey(b)) = None
      BY <2>1, <2>2, <2>5, PolicyFetched
    <3> HIDE DEF current
    <3>3. PolicyCalls' = {}
      BY <1>1, <2>3, <3>1 DEF PolicyCalls, Others, Doing
    <3> QED
      BY <2>1, <2>3, <3>1, <3>2, <3>3, PolicyIdle
  <2> QED
    BY <2>4, <2>5
<1> QED
  BY <1>2, <1>3

\* The other actions are about no policy.
LEMMA OtherActionsOrder ==
  ASSUME TypeOK, FixedIsNamed, PolicyInOrder, NEW t \in Threads, ~Dies,
         \/ registerAgent(t) \/ FetchFailed(t) \/ Registered(t) \/ RegistrationFailed(t)
         \/ appendAuditEntry(t) \/ Appended(t) \/ anchorProof(t) \/ ProofAnchored(t)
         \/ RecordFailed(t)
         \/ closeAgentSession(t) \/ LogFetched(t) \/ SessionClosed(t) \/ CloseFailed(t)
         \/ UndefinedClosed(t)
  PROVE  PolicyInOrder'
<1>0. StoreTyped
  BY DEF TypeOK, StoreTyped
<1>1. UNCHANGED <<policy, now, chain, local>>
  BY DEF registerAgent, FetchFailed, Registered, RegistrationFailed, appendAuditEntry, Appended,
     anchorProof, ProofAnchored, RecordFailed, closeAgentSession, LogFetched, SessionClosed,
     CloseFailed, UndefinedClosed
<1>2. ~Doing(t, "policy")
  BY DEF registerAgent, FetchFailed, Registered, RegistrationFailed, appendAuditEntry, Appended,
     anchorProof, ProofAnchored, RecordFailed, closeAgentSession, LogFetched, SessionClosed,
     CloseFailed, UndefinedClosed, Free, Doing
<1>3. ASSUME Others(t), ~Doing(t, "policy")', ~Doing(t, "fetch")'
      PROVE  PolicyInOrder'
  BY <1>1, <1>2, <1>3, PolicyAside
<1>4. ASSUME End(t) PROVE PolicyInOrder'
  BY <1>0, <1>3, <1>4, Ending DEF Doing
<1>5. CASE registerAgent(t)
  <2>1. StartRegistration(t, TRUE)
    BY <1>5 DEF registerAgent
  <2>2. /\ Others(t)
        /\ \/ call'[t] = [op |-> "register", session |-> NextSession, awaited |-> TRUE]
           \/ call'[t] = Idle
    BY <2>1, RegistrationBegun
  <2> QED
    BY <1>3, <2>2 DEF Doing
<1>6. CASE FetchFailed(t) \/ Registered(t) \/ Appended(t) \/ ProofAnchored(t)
           \/ RecordFailed(t) \/ SessionClosed(t) \/ CloseFailed(t) \/ UndefinedClosed(t)
  BY <1>4, <1>6 DEF FetchFailed, Registered, Appended, ProofAnchored, RecordFailed,
     SessionClosed, CloseFailed, UndefinedClosed
<1>7. CASE RegistrationFailed(t)
  BY <1>4, <1>7 DEF RegistrationFailed
<1>8. CASE appendAuditEntry(t)
  <2>1. PICK e \in Entries :
          Begin(t, [op |-> "append", entry |-> e]) /\ WriteAccount(t, AuditKey(e), e)
    BY <1>8 DEF appendAuditEntry
  <2>2. Others(t) /\ call'[t] = [op |-> "append", entry |-> e]
    BY <1>0, <2>1, BeginWrite
  <2> QED
    BY <1>3, <2>2 DEF Doing
<1>9. CASE anchorProof(t)
  <2>1. PICK x \in Proofs : Begin(t, [op |-> "proof"]) /\ WriteAccount(t, ProofKey(x), x)
    BY <1>9 DEF anchorProof
  <2>2. Others(t) /\ call'[t] = [op |-> "proof"]
    BY <1>0, <2>1, BeginWrite
  <2> QED
    BY <1>3, <2>2 DEF Doing
<1>10. CASE closeAgentSession(t)
  <2>1. Others(t) /\ Closes(t, runtime)'
    BY <1>10, CloseBegins
  <2> QED
    BY <1>3, <2>1 DEF Closes, Doing
<1>11. CASE LogFetched(t)
  <2>1. CASE CloseSession(t, call[t].session, ScannedLog(t))
    <3>1. /\ Others(t)
          /\ call'[t] = [op |-> "close", session |-> call[t].session, log |-> ScannedLog(t)]
      BY <1>0, <2>1, BeginWrite DEF CloseSession
    <3> QED
      BY <1>3, <3>1 DEF Doing
  <2>2. CASE CloseUndefined(t, ScannedLog(t))
    <3>1. Others(t) /\ call'[t] = [op |-> "closeUndefined", log |-> ScannedLog(t)]
      BY <1>0, <2>2 DEF CloseUndefined, Begin, StoreTyped, Others
    <3> QED
      BY <1>3, <3>1 DEF Doing
  <2> QED
    BY <1>11, <2>1, <2>2 DEF LogFetched
<1> QED
  BY <1>5, <1>6, <1>7, <1>8, <1>9, <1>10, <1>11

LEMMA DiesOrder ==
  ASSUME TypeOK, PolicyInOrder, ~doubtful', Dies
  PROVE  PolicyInOrder'
<1>1. \A u \in Threads : ~Doing(u, "policy") /\ ~Doing(u, "policy")' /\ ~Doing(u, "fetch")'
  BY Dying DEF Dies, Gone, PolicyCalls, Doing
<1> QED
  BY <1>1, PolicyFrame DEF Dies, Gone

\* The file is lost while no call is about a policy: what accounts hold is in order.
LEMMA DiesWritingOrder ==
  ASSUME TypeOK, PolicyInOrder, ~doubtful', NEW t \in Threads, DiesWriting(t)
  PROVE  PolicyInOrder'
<1>1. /\ policy' = None /\ now' = now /\ now \in 0..MaxNow
      /\ PolicyCalls = {}
  BY DEF DiesWriting, Gone, TypeOK
<1>2. PolicyCalls' = {} /\ \A u \in Threads : ~Doing(u, "policy") /\ ~Doing(u, "policy")'
  BY <1>1, Dying DEF DiesWriting, PolicyCalls, Doing
<1>3. \A at \in 0..MaxNow : PolicyKey(at) # io[t].key
  <2>1. PICK k \in Keys, p \in Payloads : WriteOf(t, k, p)
    BY WritesOf, CutStore DEF ScanningPolicies, ScanningLog, Scanning, ScanSteps
  <2>2. io[t].key = k /\ k \notin PolicyKeys
    BY <1>2, <2>1, KeysApart DEF WriteOf, Writing
  <2> QED
    BY <2>2 DEF PolicyKeys
<1>4. \A at \in 0..MaxNow : /\ local'[PolicyKey(at)] = None
                            /\ chain'[PolicyKey(at)] = chain[PolicyKey(at)]
  BY <1>3, CutStore, KeyKinds
<1>5. \A at \in 0..MaxNow : PolicyAccountOK(at)'
  BY <1>4 DEF PolicyInOrder, PolicyAccountOK, IsPayload
<1>6. \A at \in now'..MaxNow : local'[PolicyKey(at)] = None /\ chain'[PolicyKey(at)] = None
  BY <1>1, <1>2, <1>4 DEF PolicyInOrder
<1> QED
  BY <1>1, <1>2, <1>5, <1>6 DEF PolicyInOrder

\* A policy is written at the address of now, where nothing else is.
LEMMA PolicyWriteGoesOn ==
  ASSUME TypeOK, PolicyInOrder, NEW t \in Threads, NEW k \in Keys, NEW p \in Payloads,
         WriteGoesOn(t, k, p), WritesPolicy(t), UNCHANGED <<call, now, policy>>
  PROVE  PolicyInOrder'
<1>1. /\ StoreWrites(t, k, p) /\ Writing(t, k, p) /\ Writing(t, k, p)' /\ WritingPolicy(t)'
      /\ Doing(t, "policy") /\ Doing(t, "policy")'
  BY DEF WriteGoesOn, WriteOf, WritesPolicy, Doing, Closes
<1>2. /\ k = PolicyKey(now) /\ p = serializePolicy(call[t].state, now) /\ now \in 0..MaxNow
      /\ local[k] \in {None, p} /\ chain[k] \in {None, Commitment, p}
  BY <1>1 DEF PolicyInOrder, WritesPolicy, Writing, TypeOK
<1>3. p.updatedAt = now /\ p # None /\ p # Commitment
  BY <1>2, PayloadsAssumption DEF serializePolicy
<1>4. local'[k] \in {None, p} /\ chain'[k] \in {None, Commitment, p}
  BY <1>1, <1>2 DEF StoreWrites
<1>5. \A at \in 0..MaxNow : at # now =>
        /\ local'[PolicyKey(at)] = local[PolicyKey(at)]
        /\ chain'[PolicyKey(at)] = chain[PolicyKey(at)]
        /\ Stored(PolicyKey(at))' = Stored(PolicyKey(at))
  BY <1>1, <1>2, KeyKinds, KeysApart DEF StoreWrites, Stored
<1>6. ASSUME NEW at \in 0..MaxNow
      PROVE  PolicyAccountOK(at)'
  <2>1. PolicyAccountOK(at)
    BY DEF PolicyInOrder
  <2>2. CASE at = now
    BY <1>2, <1>3, <1>4, <2>2 DEF PolicyAccountOK, IsPayload
  <2>3. CASE at # now
    BY <1>5, <2>1, <2>3 DEF PolicyAccountOK, IsPayload
  <2> QED
    BY <2>2, <2>3
<1>7. \A u \in Threads : (Doing(u, "policy")' \/ Doing(u, "fetch")') => u = t
  BY <1>1 DEF PolicyInOrder, PolicyCalls, Doing
<1>8. io'[t].step \in WriteSteps
  BY <1>1 DEF Writing
<1>9. \A u \in PolicyCalls' : u = t /\ ~At(u, "scan")' /\ ~At(u, "scanned")'
  BY <1>7, <1>8 DEF PolicyCalls, At, WriteSteps
<1>10. \A at \in now'..MaxNow : at # now =>
         local'[PolicyKey(at)] = None /\ chain'[PolicyKey(at)] = None
  <2> SUFFICES ASSUME NEW at \in now..MaxNow, at # now
               PROVE  local'[PolicyKey(at)] = None /\ chain'[PolicyKey(at)] = None
    OBVIOUS
  <2>1. at \in 0..MaxNow
    BY <1>2
  <2>2. local[PolicyKey(at)] = None /\ chain[PolicyKey(at)] = None
    BY DEF PolicyInOrder
  <2> QED
    BY <1>5, <2>1, <2>2
<1>11. policy' # None => \E at \in 0..MaxNow :
         /\ at < now'
         /\ Stored(PolicyKey(at))' = serializePolicy(policy', at)
         /\ \A b \in 0..MaxNow : at < b /\ b < now' => Stored(PolicyKey(b))' = None
  <2> SUFFICES ASSUME policy # None
               PROVE  \E at \in 0..MaxNow :
                 /\ at < now
                 /\ Stored(PolicyKey(at))' = serializePolicy(policy, at)
                 /\ \A b \in 0..MaxNow : at < b /\ b < now => Stored(PolicyKey(b))' = None
    OBVIOUS
  <2>1. PICK at \in 0..MaxNow :
          /\ at < now
          /\ Stored(PolicyKey(at)) = serializePolicy(policy, at)
          /\ \A b \in 0..MaxNow : at < b /\ b < now => Stored(PolicyKey(b)) = None
    BY DEF PolicyInOrder
  <2> QED
    BY <1>2, <1>5, <2>1
<1>12. ASSUME NEW u \in Threads, Doing(u, "policy")', WritingPolicy(u)'
       PROVE  LET j == PolicyKey(now)
                  q == serializePolicy(call[u].state, now)
              IN (Writing(u, j, q) /\ local[j] \in {None, q} /\ chain[j] \in {None, Commitment, q})'
  <2>1. u = t
    BY <1>7, <1>12
  <2> QED
    BY <1>1, <1>2, <1>4, <2>1 DEF Writing, serializePolicy
<1>13. \A u \in Threads : Doing(u, "policy")' => now' < MaxNow
  BY <1>1, <1>7 DEF PolicyInOrder
<1>14. ~(\A u \in Threads : ~(Doing(u, "policy")' /\ WritingPolicy(u)'))
  BY <1>1
<1> QED
  BY <1>6, <1>9, <1>10, <1>11, <1>12, <1>13, <1>14 DEF PolicyInOrder, serializePolicy

\* A scan that is answered whole has found every policy that is stored.
LEMMA PolicyScanEnds ==
  ASSUME TypeOK, PolicyInOrder, NEW t \in Threads, PolicyScanGoesOn(t), io[t] # Idle,
         UNCHANGED <<call, now, policy>>
  PROVE  PolicyInOrder'
<1>1. /\ t \in PolicyCalls /\ ScanningPolicies(t) /\ ScanningPolicies(t)'
      /\ UNCHANGED <<chain, local, lost>> /\ At(t, "scan") /\ io'[t].step # "scan"
      /\ io'[t].step = "scanned" /\ ~io'[t].partial =>
           io'[t].found = io[t].found \union ChainRecords(PolicyKeys)
  BY DEF PolicyScanGoesOn, ScanGoesOn, At
<1>2. PolicyCalls' = PolicyCalls /\ PolicyCalls = {t} /\ \A u \in Threads : ~WritesPolicy(u)
  BY <1>1, ScanningAlone DEF PolicyCalls, Doing
<1>3. \A u \in Threads : (Doing(u, "policy")' => u = t) /\ (Doing(u, "policy")' <=> Doing(u, "policy"))
  BY <1>2 DEF PolicyCalls, Doing
<1>4. ~WritingPolicy(t)'
  <2>1. "found" \in DOMAIN io'[t]
    BY <1>1 DEF ScanningPolicies, Scanning
  <2> QED
    BY <2>1 DEF WritingPolicy
<1>5. ASSUME io'[t].step = "scanned", ~io'[t].partial
      PROVE  Found(t)' = {Stored(k) : k \in PolicyKeys} \ {None}
  <2>1. io'[t].found = LocalRecords(PolicyKeys) \union ChainRecords(PolicyKeys)
    BY <1>1, <1>5 DEF PolicyInOrder
  <2>2. \A k \in PolicyKeys : \E at \in 0..MaxNow : k = PolicyKey(at) /\ PolicyAccountOK(at)
    BY DEF PolicyKeys, PolicyInOrder
  <2>3. \A k \in PolicyKeys :
          /\ local[k] # None => Stored(k) = local[k]
          /\ IsPayload(chain[k]) => Stored(k) = chain[k] /\ chain[k] # None
          /\ Stored(k) # None => (local[k] # None /\ Stored(k) = local[k])
                                 \/ (IsPayload(chain[k]) /\ Stored(k) = chain[k])
    BY <2>2 DEF PolicyAccountOK, Stored, IsPayload
  <2>4. Found(t)' = {r.payload : r \in LocalRecords(PolicyKeys) \union ChainRecords(PolicyKeys)}
    BY <2>1 DEF Found
  <2>5. ASSUME NEW r \in LocalRecords(PolicyKeys) \union ChainRecords(PolicyKeys)
        PROVE  \E k \in PolicyKeys : r.payload = Stored(k) /\ r.payload # None
    BY <2>3 DEF LocalRecords, ChainRecords
  <2>6. ASSUME NEW k \in PolicyKeys, Stored(k) # None
        PROVE  \E r \in LocalRecords(PolicyKeys) \union ChainRecords(PolicyKeys) :
                 r.payload = Stored(k)
    <3>1. CASE local[k] # None
      <4>1. [from |-> "local", key |-> k, payload |-> local[k]] \in LocalRecords(PolicyKeys)
        BY <3>1 DEF LocalRecords
      <4> QED
        BY <2>3, <3>1, <4>1
    <3>2. CASE IsPayload(chain[k]) /\ Stored(k) = chain[k]
      <4>1. [from |-> "chain", key |-> k, payload |-> chain[k]] \in ChainRecords(PolicyKeys)
        BY <3>2 DEF ChainRecords
      <4> QED
        BY <3>2, <4>1
    <3> QED
      BY <2>3, <2>6, <3>1, <3>2
  <2> QED
    BY <2>4, <2>5, <2>6
<1>6. \A k \in PolicyKeys : Stored(k)' = Stored(k)
  BY <1>1 DEF Stored
<1>7. \A u \in PolicyCalls' :
        /\ ~At(u, "scan")'
        /\ At(u, "scanned")' /\ ~io'[u].partial =>
             Found(u)' = ({Stored(k) : k \in PolicyKeys} \ {None})'
  BY <1>1, <1>2, <1>5, <1>6 DEF At
<1>8. \A at \in now'..MaxNow : local'[PolicyKey(at)] = None /\ chain'[PolicyKey(at)] = None
  BY <1>1, <1>2 DEF PolicyInOrder, WritesPolicy
<1>9. policy' # None => \E at \in 0..MaxNow :
        /\ at < now'
        /\ Stored(PolicyKey(at))' = serializePolicy(policy', at)
        /\ \A b \in 0..MaxNow : at < b /\ b < now' => Stored(PolicyKey(b))' = None
  BY <1>1, PolicyHistory
<1>10. \A u \in Threads : ~(Doing(u, "policy")' /\ WritingPolicy(u)')
  BY <1>3, <1>4
<1>11. \A u \in Threads : Doing(u, "policy")' => now' < MaxNow
  BY <1>3 DEF PolicyInOrder
<1>12. \A at \in 0..MaxNow : PolicyAccountOK(at)'
  BY <1>1, PolicyHistory
<1>13. \A u, v \in PolicyCalls' : u = v
  BY <1>2
<1> QED
  BY <1>7, <1>8, <1>9, <1>10, <1>11, <1>12, <1>13 DEF PolicyInOrder, serializePolicy

LEMMA StoreStepsOrder ==
  ASSUME TypeOK, FixedIsNamed, PolicyInOrder, NEW t \in Threads, StoreSteps(t)
  PROVE  PolicyInOrder'
<1>1. StoreStep(t) /\ UNCHANGED <<call, now, policy>>
  BY DEF StoreSteps
<1>2. io[t] # Idle
  BY <1>1 DEF StoreStep, ReadExisting, CreateAccount, ReadCommitment, CreateCommitment,
     SendMemo, Scan, At
<1>3. ASSUME NEW k \in Keys, NEW p \in Payloads, WriteGoesOn(t, k, p)
      PROVE  PolicyInOrder'
  <2>1. CASE WritesPolicy(t)
    BY <1>1, <1>3, <2>1, PolicyWriteGoesOn
  <2>2. CASE ~WritesPolicy(t)
    <3>1. Writing(t, k, p) /\ StoreWrites(t, k, p) /\ ~Doing(t, "policy") /\ k \notin PolicyKeys
      BY <1>3, <2>2, KeysApart DEF WriteGoesOn, WriteOf, WritesPolicy, Closes, Doing
    <3>2. ~Doing(t, "fetch")
      BY <3>1, WritesDoNotScan DEF TypeOK, LaneOK
    <3>3. \A u \in Threads :
            /\ Doing(u, "policy")' <=> Doing(u, "policy")
            /\ Doing(u, "fetch")' => Doing(u, "fetch")
            /\ Doing(u, "policy")' \/ Doing(u, "fetch")' =>
                 call'[u] = call[u] /\ io'[u] = io[u]
      BY <1>1, <3>1, <3>2 DEF StoreWrites, Doing
    <3>4. \A j \in PolicyKeys : local'[j] = local[j] /\ chain'[j] = chain[j]
      BY <3>1, KeyKinds DEF StoreWrites
    <3> QED
      BY <1>1, <3>3, <3>4, PolicyFrame
  <2> QED
    BY <2>1, <2>2
<1>4. CASE PolicyScanGoesOn(t)
  BY <1>1, <1>2, <1>4, PolicyScanEnds
<1>5. CASE LogScanGoesOn(t)
  <2>1. ~Doing(t, "policy") /\ ~Doing(t, "fetch") /\ UNCHANGED <<chain, local, lost>>
        /\ \A u \in Threads \ {t} : io'[u] = io[u]
    BY <1>5 DEF LogScanGoesOn, ScanGoesOn, Closes, Doing
  <2>2. \A u \in Threads :
          /\ Doing(u, "policy")' <=> Doing(u, "policy")
          /\ Doing(u, "fetch")' => Doing(u, "fetch")
          /\ Doing(u, "policy")' \/ Doing(u, "fetch")' =>
               call'[u] = call[u] /\ io'[u] = io[u]
    BY <1>1, <2>1 DEF Doing
  <2> QED
    BY <1>1, <2>1, <2>2, PolicyFrame
<1> QED
  BY <1>1, <1>3, <1>4, <1>5, StoreStepsGoOn

LEMMA OrderKept ==
  ASSUME TypeOK, FixedIsNamed, DoneIsStored, PolicyInOrder, ~doubtful', Next
  PROVE  PolicyInOrder'
<1>1. ASSUME NEW t \in Threads, ManagerAction(t), ~Dies
      PROVE  PolicyInOrder'
  BY <1>1, PolicyActionsOrder, RegistrationActionsOrder, OtherActionsOrder DEF ManagerAction
<1> QED
  BY <1>1, NextActs, DiesOrder, DiesWritingOrder, StoreStepsOrder

-----------------------------------------------------------------------------
(* The invariant, and what follows from it.                                *)

LEMMA DoubtStays ==
  ASSUME Next, doubtful
  PROVE  doubtful'
<1>1. ASSUME Gone PROVE doubtful'
  BY <1>1 DEF Gone
<1>2. ASSUME NEW t \in Threads, StoreSteps(t)
      PROVE  doubtful'
  BY <1>2 DEF StoreSteps
<1>3. ASSUME NEW t \in Threads, ManagerAction(t), ~Dies
      PROVE  doubtful'
  BY <1>3 DEF ManagerAction, createCompressedPolicyAccount, updateCompressedPolicyAccount,
     UpdateFetched, PolicyWritten, PolicyFailed, registerAgent, registerCompressedAgent,
     RegistrationFetched, FetchFailed, Registered, RegistrationFailed, appendAuditEntry,
     Appended, anchorProof, ProofAnchored, RecordFailed, closeAgentSession, LogFetched,
     SessionClosed, CloseFailed, UndefinedClosed
<1> QED
  BY <1>1, <1>2, <1>3, NextActs DEF Dies, DiesWriting

LEMMA InitInd == Init => IndInv
<1> SUFFICES ASSUME Init PROVE IndInv
  OBVIOUS
<1>1. TypeOK
  BY InitType
<1>2. \A t \in Threads, op \in STRING : ~Doing(t, op)
  BY DEF Init, Doing
<1>3. \A t \in Threads, s \in Sessions : ~Registers(t, s) /\ ~Closes(t, s)
  BY DEF Init, Doing, Registers, Closes
<1>4. \A k \in Keys : chain[k] = None /\ local[k] = None /\ Stored(k) = None
  BY DEF Init, StoreInit, Stored, IsPayload
<1>5. DoneIsStored
  BY DEF Init, StoreInit, DoneIsStored, At
<1>6. FixedIsNamed
  BY <1>4, KeyKinds DEF Init, FixedIsNamed
<1>7. DrawnOnce
  <2>1. IsFiniteSet(started) /\ Cardinality(started) = 0
    BY FS_EmptySet DEF Init
  <2>2. started = 1..Cardinality(started)
    BY <2>1 DEF Init
  <2> QED
    BY <1>3, <2>1, <2>2 DEF Init, DrawnOnce
<1>8. \A s \in Sessions : ClosedOnce(s)
  BY <1>3, <1>4, KeyKinds DEF Init, ClosedOnce
<1>9. PolicyInOrder
  <2>1. \A t \in Threads : ~Doing(t, "policy") /\ ~Doing(t, "fetch")
    BY DEF Init, Doing
  <2>2. PolicyCalls = {}
    BY <2>1 DEF PolicyCalls
  <2>3. \A at \in 0..MaxNow : PolicyAccountOK(at)
    BY <1>4, KeyKinds DEF PolicyAccountOK, IsPayload
  <2>4. \A at \in now..MaxNow : local[PolicyKey(at)] = None /\ chain[PolicyKey(at)] = None
    BY <1>4, KeyKinds DEF Init
  <2> QED
    BY <2>1, <2>2, <2>3, <2>4 DEF Init, PolicyInOrder
<1> QED
  BY <1>1, <1>5, <1>6, <1>7, <1>8, <1>9 DEF IndInv

LEMMA NextInd ==
  ASSUME IndInv, [Next]_vars
  PROVE  IndInv'
<1>1. CASE Next
  <2>1. TypeOK /\ FixedIsNamed /\ DoneIsStored /\ DrawnOnce
        /\ \A s \in Sessions \ contested : ClosedOnce(s)
    BY DEF IndInv
  <2>2. TypeOK'
    BY <1>1, <2>1, NextType
  <2>3. DoneIsStored'
    BY <1>1, <2>1, DoneKept
  <2>4. FixedIsNamed'
    BY <1>1, <2>1, FixedKept
  <2>5. DrawnOnce' /\ \A s \in Sessions \ contested' : ClosedOnce(s)'
    BY <1>1, <2>1, SessionsKept
  <2>6. ~doubtful' => PolicyInOrder'
    BY <1>1, <2>1, DoubtStays, OrderKept DEF IndInv
  <2> QED
    BY <2>2, <2>3, <2>4, <2>5, <2>6 DEF IndInv
<1>2. CASE UNCHANGED vars
  <2>1. TypeOK'
    BY <1>2 DEF IndInv, vars, storeVars, TypeOK, LaneOK, Doing, Registers, Closes, Writing,
       WritingPolicy, WritingClose, Scanning, ScanningPolicies, ScanningLog
  <2>2. DoneIsStored' /\ FixedIsNamed'
    BY <1>2 DEF IndInv, vars, storeVars, DoneIsStored, FixedIsNamed, At, Stored
  <2>3. DrawnOnce'
    BY <1>2 DEF IndInv, vars, storeVars, DrawnOnce, Registers, Closes, Doing
  <2>4. ASSUME NEW s \in Sessions \ contested'
        PROVE  ClosedOnce(s)'
    BY <1>2 DEF IndInv, vars, storeVars, ClosedOnce, Closes, Doing, Stored, ScanningLog,
       Scanning, WritingClose
  <2>5. ~doubtful' => PolicyInOrder'
    <3>1. TypeOK /\ (~doubtful => PolicyInOrder)
      BY DEF IndInv
    <3>2. \A u \in Threads :
            /\ Doing(u, "policy")' <=> Doing(u, "policy")
            /\ Doing(u, "fetch")' => Doing(u, "fetch")
            /\ Doing(u, "policy")' \/ Doing(u, "fetch")' =>
                 call'[u] = call[u] /\ io'[u] = io[u]
      BY <1>2 DEF vars, storeVars, Doing
    <3> QED
      BY <1>2, <3>1, <3>2, PolicyFrame DEF vars, storeVars
  <2> QED
    BY <2>1, <2>2, <2>3, <2>4, <2>5 DEF IndInv
<1> QED
  BY <1>1, <1>2

\* Every behaviour keeps the calls, the sessions and the store in step with each other,
\* whatever request fails and whenever the process dies.
THEOREM SessionsInvariant == Spec => []IndInv
<1>1. Init => IndInv
  BY InitInd
<1>2. IndInv /\ [Next]_vars => IndInv'
  BY NextInd
<1> QED
  BY <1>1, <1>2, PTL DEF Spec

\* What an append, an anchored proof or a started session reported done is stored for
\* ever: its key names it, a write that is done left something at the key, nothing else
\* is ever written there, and only a rewriting of the local file that a crash cuts takes
\* it away, if no account holds it.
THEOREM AcknowledgedIsStoredHolds == Spec => []AcknowledgedIsStored
<1>1. IndInv => AcknowledgedIsStored
  <2> SUFFICES ASSUME IndInv, NEW a \in acked
               PROVE  \/ Stored(a.key) = a.payload
                      \/ Stored(a.key) = None /\ a.key \in lost
    BY DEF AcknowledgedIsStored
  <2>1. /\ a.key \in FixedKeys /\ a.payload = a.key[2]
        /\ Stored(a.key) # None \/ a.key \in lost
    BY DEF IndInv, FixedIsNamed
  <2>2. /\ local[a.key] \in {None, a.key[2]}
        /\ chain[a.key] \in {None, Commitment, a.key[2]}
    BY <2>1 DEF IndInv, FixedIsNamed
  <2> QED
    BY <2>1, <2>2 DEF Stored, IsPayload
<1> QED
  BY <1>1, SessionsInvariant, PTL

\* The commitment a closing returned is the one that is stored, then and ever after, if no
\* two closings of the session were open at a time; a crash that cuts a rewriting of the
\* local file may take it away, but never puts another in its place.
THEOREM ClosedSessionsVerifyHolds == Spec => []ClosedSessionsVerify
<1>1. IndInv => ClosedSessionsVerify
  <2> SUFFICES ASSUME IndInv, NEW r \in returned, r.session \notin contested
               PROVE  \/ verifySession(r.session, r.log) = "VALID"
                      \/ /\ verifySession(r.session, r.log) = "SESSION_NOT_FOUND"
                         /\ CloseKey(r.session) \in lost
    BY DEF ClosedSessionsVerify
  <2> DEFINE k == CloseKey(r.session)
  <2>1. r.session \in Sessions /\ r.log \in Logs
    BY DEF IndInv, TypeOK
  <2>2. /\ local[k] \in {None, r.log} /\ chain[k] \in {None, Commitment, r.log}
        /\ Stored(k) # None \/ k \in lost
    BY <2>1 DEF IndInv, ClosedOnce
  <2>3. r.log # None
    BY <2>1, PayloadsAssumption DEF Payloads
  <2>4. Stored(k) = r.log \/ (Stored(k) = None /\ k \in lost)
    BY <2>2, <2>3 DEF Stored, IsPayload
  <2> QED
    BY <2>3, <2>4 DEF verifySession
<1> QED
  BY <1>1, SessionsInvariant, PTL

\* Without doubt and between calls the registry has the policy that a scan would find.
THEOREM PolicyMatchesStoreHolds == Spec => []PolicyMatchesStore
<1>1. IndInv => PolicyMatchesStore
  <2> DEFINE S == {Stored(k) : k \in PolicyKeys} \ {None}
  <2> SUFFICES ASSUME IndInv, ~doubtful, policy # None, PolicyCalls = {}
               PROVE  policy = deserializePolicy(Latest(S))
    BY DEF PolicyMatchesStore
  <2>1. TypeOK /\ PolicyInOrder /\ \A u \in Threads : ~WritesPolicy(u)
    BY DEF IndInv, PolicyCalls, WritesPolicy
  <2>2. PICK at \in 0..MaxNow :
          /\ at < now
          /\ Stored(PolicyKey(at)) = serializePolicy(policy, at)
          /\ \A b \in 0..MaxNow : at < b /\ b < now => Stored(PolicyKey(b)) = None
    BY <2>1 DEF PolicyInOrder
  <2>3. serializePolicy(policy, at) \in PolicyRecords
    BY <2>1, <2>2 DEF serializePolicy, PolicyRecords, TypeOK
  <2>4. S # {}
    BY <2>2, <2>3, PayloadsAssumption DEF PolicyKeys, Payloads
  <2>5. PICK b \in 0..MaxNow :
          /\ b < now /\ Stored(PolicyKey(b)) = Latest(S)
          /\ Latest(S) = serializePolicy(deserializePolicy(Latest(S)), b)
          /\ Latest(S) \in PolicyRecords
          /\ \A c \in 0..MaxNow : b < c => Stored(PolicyKey(c)) = None
    BY <2>1, <2>4, LatestStored
  <2>6. ~(at < b) /\ ~(b < at)
    BY <2>2, <2>3, <2>5, PayloadsAssumption DEF Payloads
  <2>7. Latest(S) = serializePolicy(policy, at)
    BY <2>2, <2>5, <2>6
  <2> HIDE DEF S
  <2>8. deserializePolicy(serializePolicy(policy, at)) = policy
    BY DEF deserializePolicy, serializePolicy
  <2> QED
    BY <2>7, <2>8
<1> QED
  BY <1>1, SessionsInvariant, PTL
=============================================================================
