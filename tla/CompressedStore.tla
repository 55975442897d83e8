--------------------------- MODULE CompressedStore ---------------------------
(***************************************************************************)
(* CompressedDataAccount, CompressedCommitmentAnchor, LocalPayloadRegistry *)
(* and sendMemoPayload: payloads at addresses that can be created once.    *)
(*                                                                         *)
(* A write takes several requests.  Each may fail, a request that creates  *)
(* an account after it has created it too.  In the demo mode a failed      *)
(* creation ends in a record of the local file instead, backed by an empty *)
(* account at the same address or by a memo.  A record is added by writing *)
(* the whole file anew: a crash in the midst of it loses every record.     *)
(***************************************************************************)
EXTENDS Naturals

CONSTANTS
  Threads,     \* calls in flight, of one process
  Keys,        \* (namespace, parts) of an account, which name its address
  None,        \* no account, no record
  Commitment,  \* an account created by anchorCommitment: it holds no payload
  Idle         \* no write in flight

VARIABLES
  fallback,  \* useDefensibleDemoFallback
  chain,     \* chain[k]: what the address of k holds
  local,     \* local[k]: its record in .prkt-compressed-store.json
  lost,      \* history: the keys whose payload a crash has cut out of that file
             \* while no account held it
  io         \* io[t]: the writeAccount of thread t, and how far it is

storeVars == <<fallback, chain, local, lost, io>>

StoreInit ==
  /\ chain = [k \in Keys |-> None]
  /\ local = [k \in Keys |-> None]
  /\ lost = {}
  /\ io = [t \in Threads |-> Idle]

IsPayload(value) == value \notin {None, Commitment}

\* What readAccount answers for k: the local record hides the account.
Stored(k) ==
  IF local[k] # None THEN local[k]
  ELSE IF IsPayload(chain[k]) THEN chain[k] ELSE None

At(t, step) == io[t] # Idle /\ io[t].step = step
Move(t, step) == io' = [io EXCEPT ![t].step = step]

\* writeAccount up to its first await.
WriteAccount(t, key, payload) ==
  io' = [io EXCEPT ![t] =
    [key |-> key, payload |-> payload, step |-> IF local[key] # None THEN "done" ELSE "read"]]

\* Mutant: an account without a payload counts as written.
Existing_AnyAccount(k) == chain[k] # None

\* The account readAccount finds at the address of k ends the write.
Existing(k) == IsPayload(chain[k])

ReadExisting(t) ==
  /\ At(t, "read")
  /\ \/ Move(t, IF Existing(io[t].key) THEN "done" ELSE "create")
     \/ Move(t, "failed")
  /\ UNCHANGED <<fallback, chain, local, lost>>

\* A request that creates an account: it takes effect if the address is free,
\* and succeeds only if it did; the error of one that did tells nothing of it.
Creates(t, content, succeeds) ==
  LET k == io[t].key IN
  \/ chain[k] = None /\ chain' = [chain EXCEPT ![k] = content]
  \/ ~succeeds /\ UNCHANGED chain

CreateAccount(t) ==
  /\ At(t, "create")
  /\ \E succeeds \in BOOLEAN :
       /\ Creates(t, io[t].payload, succeeds)
       /\ Move(t, IF succeeds THEN "done" ELSE IF fallback THEN "anchorRead" ELSE "failed")
  /\ UNCHANGED <<fallback, local, lost>>

\* upsertLocalPayloadRecord, and the write's return.
Upsert(t) ==
  /\ local' = [local EXCEPT ![io[t].key] = io[t].payload]
  /\ Move(t, "done")

\* anchorCommitment looks the address up: any account will do.
ReadCommitment(t) ==
  /\ At(t, "anchorRead")
  /\ \/ chain[io[t].key] # None /\ Upsert(t)
     \/ chain[io[t].key] = None /\ Move(t, "anchorCreate") /\ UNCHANGED local
     \/ Move(t, "memo") /\ UNCHANGED local
  /\ UNCHANGED <<fallback, chain, lost>>

CreateCommitment(t) ==
  /\ At(t, "anchorCreate")
  /\ \E succeeds \in BOOLEAN :
       /\ Creates(t, Commitment, succeeds)
       /\ IF succeeds THEN Upsert(t) ELSE Move(t, "memo") /\ UNCHANGED local
  /\ UNCHANGED <<fallback, lost>>

\* The memo holds the payload's hash only, and nothing reads it back.
SendMemo(t) ==
  /\ At(t, "memo")
  /\ \/ Upsert(t)
     \/ Move(t, "failed") /\ UNCHANGED local
  /\ UNCHANGED <<fallback, chain, lost>>

\* The answer has come that makes thread t rewrite the file.
Upserting(t) ==
  \/ At(t, "anchorRead") /\ chain[io[t].key] # None /\ UNCHANGED chain
  \/ At(t, "anchorCreate") /\ Creates(t, Commitment, TRUE)
  \/ At(t, "memo") /\ UNCHANGED chain

\* The process dies in the rewriting: writeFileSync empties the file first, and what
\* it leaves does not parse, so that readRegistry answers with no record at all.
CutUpsert(t) ==
  /\ Upserting(t)
  /\ local' = [k \in Keys |-> None]
  /\ lost' = lost \union {k \in Keys : local[k] # None /\ ~IsPayload(chain[k])}
  /\ UNCHANGED fallback

-----------------------------------------------------------------------------
(* findAccountsByOwner: the local records, read at once, and then the      *)
(* accounts; a key found in both is listed twice.                          *)

LocalRecords(keys) ==
  {[from |-> "local", key |-> k, payload |-> local[k]] : k \in {k \in keys : local[k] # None}}

ChainRecords(keys) ==
  {[from |-> "chain", key |-> k, payload |-> chain[k]] : k \in {k \in keys : IsPayload(chain[k])}}

FindAccounts(t, keys) ==
  io' = [io EXCEPT ![t] =
    [step |-> "scan", keys |-> keys, found |-> LocalRecords(keys), partial |-> FALSE]]

\* The accounts are read, page by page, and the answer is on its way; a scan that
\* errs is answered by what it has found so far, if that is anything.
Scan(t) ==
  /\ At(t, "scan")
  /\ \E pages \in SUBSET ChainRecords(io[t].keys) :
       LET found == io[t].found \union pages IN
       \/ /\ pages = ChainRecords(io[t].keys)
          /\ io' = [io EXCEPT ![t].step = "scanned", ![t].found = found]
       \/ IF fallback /\ found # {}
            THEN io' = [io EXCEPT ![t].step = "scanned", ![t].found = found, ![t].partial = TRUE]
            ELSE Move(t, "failed")
  /\ UNCHANGED <<fallback, chain, local, lost>>

StoreStep(t) ==
  \/ ReadExisting(t)
  \/ CreateAccount(t)
  \/ ReadCommitment(t)
  \/ CreateCommitment(t)
  \/ SendMemo(t)
  \/ Scan(t)
=============================================================================
