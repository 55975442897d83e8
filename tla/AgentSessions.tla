---------------------------- MODULE AgentSessions ----------------------------
(***************************************************************************)
(* AgentRunner's registration and closing of one agent's sessions, with    *)
(* the managers that keep its records in the compressed store:             *)
(* SessionAnchor, AuditLogManager, PolicyAccountManager and ProofAnchor.   *)
(* Their static maps are lost when the process dies; what is stored is     *)
(* not.  Calls interleave at every await.                                  *)
(*                                                                         *)
(* `open', `contested', `acked', `doubtful' and `lost' are history         *)
(* variables: no guard reads them.                                         *)
(***************************************************************************)
EXTENDS CompressedStore, Integers, FiniteSets

CONSTANTS
  Sessions,      \* ids startSession draws, 1..n, in order
  Entries,       \* audit entries: their timestamp and content
  Proofs,        \* signatures of transactions a proof is anchored for
  Patches,       \* updates of a policy: a field and its new value
  FirstPolicy,   \* the policy an agent is created with
  MaxNow,        \* bound on the clock
  MaxCalls,      \* bound on calls begun
  MaxRestarts,   \* bound on crashes
  Configs        \* [compression, anchoring, fallback] of the process, and the
                 \* calls its program makes

VARIABLES
  config,     \* defaultPRKTConfig, the demo mode, and the program's calls
  call,       \* call[t]: the manager's call of thread t, Idle when none
  runtime,    \* the agent's RuntimeHandle: None, or its sessionId (0: undefined)
  auditLog,   \* auditRegistry: how often each entry is in it
  policy,     \* policyRegistry: None, or the agent's state
  started,    \* session ids drawn
  now,        \* Date.now(), in ms
  calls, restarts,
  returned,   \* [session, log] of every closing that returned: its handle has lost
              \* its sessionId
  open,       \* history: open[s], closings of s begun that have not returned
  contested,  \* history: sessions with a closing begun while another was open
  acked,      \* history: [key, payload] of every write reported done
  doubtful    \* history: policy calls overlapped or failed, or a partial scan

vars == <<storeVars, config, call, runtime, auditLog, policy, started, now, calls,
          restarts, returned, open, contested, acked, doubtful>>

StartKey(s) == <<"prkt-session-start", s>>
CloseKey(s) == <<"prkt-session-close", s>>
AuditKey(e) == <<"prkt-audit", e>>
PolicyKey(at) == <<"prkt-policy", at>>
ProofKey(x) == <<"prkt-proof", x>>
\* The one address of every closing of the session `undefined'.
UndefinedKey == <<"prkt-session-close">>

AuditKeys == {AuditKey(e) : e \in Entries}
PolicyKeys == {PolicyKey(at) : at \in 0..MaxNow}
AllKeys ==
  {StartKey(s) : s \in Sessions} \union {CloseKey(s) : s \in Sessions}
    \union AuditKeys \union PolicyKeys \union {ProofKey(x) : x \in Proofs}
    \union {UndefinedKey}

ASSUME KeysAssumption == Keys = AllKeys

\* What is written: an audit log says how often it holds each entry, and a policy
\* is the first one after some patches.
Logs == [Entries -> Nat]
PolicyStates ==
  [DOMAIN FirstPolicy ->
     {FirstPolicy[f] : f \in DOMAIN FirstPolicy} \union {p.value : p \in Patches}]
PolicyRecords == [state : PolicyStates, updatedAt : 0..MaxNow]
Payloads == Sessions \union Entries \union Proofs \union Logs \union PolicyRecords

\* Nothing that is written can be taken for an account that is missing, or empty.
ASSUME PayloadsAssumption ==
  /\ MaxNow \in Nat
  /\ IsFiniteSet(Entries)
  /\ FirstPolicy \in PolicyStates
  /\ None \notin Payloads
  /\ Commitment \notin Payloads
  /\ None # Commitment

\* Nor a call in flight for no call.
ASSUME CallsAssumption ==
  /\ Idle \notin [op : {"policy"}, state : PolicyStates]
  /\ Idle \notin [op : {"policy"}, patch : Patches]
  /\ Idle \notin [op : {"fetch", "proof"}]
  /\ Idle \notin [op : {"register"}, session : Sessions, awaited : BOOLEAN]
  /\ Idle \notin [op : {"append"}, entry : Entries]
  /\ Idle \notin [op : {"close"}, session : Sessions]
  /\ Idle \notin [op : {"close"}, session : Sessions, log : Logs]
  /\ Idle \notin [op : {"closeUndefined"}, log : Logs]

Init ==
  /\ StoreInit
  /\ config \in Configs
  /\ fallback = config.fallback
  /\ call = [t \in Threads |-> Idle]
  /\ runtime = None
  /\ auditLog = [e \in Entries |-> 0]
  /\ policy = None
  /\ started = {}
  /\ now = 0
  /\ calls = 0
  /\ restarts = 0
  /\ returned = {}
  /\ open = [s \in Sessions |-> 0]
  /\ contested = {}
  /\ acked = {}
  /\ doubtful = FALSE

\* No write or scan was answered whose awaiting code has not run.
Settled == \A t \in Threads : io[t] # Idle => io[t].step \notin {"done", "failed", "scanned"}

\* The call `op' is begun in an idle thread.  The event loop runs what an answer settles
\* before it takes another call or answer.
Free(t, op) ==
  /\ op \in config.program
  /\ Settled
  /\ call[t] = Idle
  /\ calls < MaxCalls
  /\ calls' = calls + 1

Doing(t, op) == call[t] # Idle /\ call[t].op = op

Begin(t, record) == call' = [call EXCEPT ![t] = record]
End(t) == call' = [call EXCEPT ![t] = Idle] /\ io' = [io EXCEPT ![t] = Idle]
Acknowledge(t) == acked' = acked \union {[key |-> io[t].key, payload |-> io[t].payload]}

PolicyCalls == {t \in Threads : Doing(t, "policy") \/ Doing(t, "fetch")}

\* The process is gone, with its promises and static maps.
Gone ==
  /\ restarts' = restarts + 1
  /\ call' = [t \in Threads |-> Idle]
  /\ io' = [t \in Threads |-> Idle]
  /\ runtime' = None
  /\ auditLog' = [e \in Entries |-> 0]
  /\ policy' = None
  /\ doubtful' = (doubtful \/ PolicyCalls # {})
  /\ UNCHANGED <<config, started, now, calls, returned, open, contested, acked>>

\* It dies between two writes of the local file, or in one.
Dies == Gone /\ UNCHANGED <<fallback, chain, local, lost>>
DiesWriting(t) == Gone /\ CutUpsert(t)

Crash ==
  /\ Settled
  /\ restarts < MaxRestarts
  /\ Dies \/ \E t \in Threads : DiesWriting(t)

-----------------------------------------------------------------------------
(* PolicyAccountManager.                                                   *)

\* Mutant: the records are sorted the wrong way round.
Latest_Oldest(found) ==
  CHOOSE p \in found : \A q \in found : p.updatedAt <= q.updatedAt

Latest(found) == CHOOSE p \in found : \A q \in found : p.updatedAt >= q.updatedAt

serializePolicy(state, at) == [state |-> state, updatedAt |-> at]
deserializePolicy(payload) == payload.state

\* The account of a policy is named after the millisecond it is written at.
WritePolicy(t, state) ==
  /\ Begin(t, [op |-> "policy", state |-> state])
  /\ WriteAccount(t, PolicyKey(now), serializePolicy(state, now))

Merged(state, patch) == [state EXCEPT ![patch.field] = patch.value]

createCompressedPolicyAccount(t) ==
  /\ Free(t, "createCompressedPolicyAccount")
  /\ now < MaxNow
  /\ WritePolicy(t, FirstPolicy)
  /\ doubtful' = (doubtful \/ PolicyCalls # {})
  /\ UNCHANGED <<fallback, chain, local, lost, config, runtime, auditLog, policy, started, now,
                 restarts, returned, open, contested, acked>>

\* fetchCompressedPolicyAccount is answered by the registry, or scans.
updateCompressedPolicyAccount(t) ==
  /\ Free(t, "updateCompressedPolicyAccount")
  /\ now < MaxNow
  /\ \E patch \in Patches :
       IF policy # None
         THEN WritePolicy(t, Merged(policy, patch))
         ELSE /\ Begin(t, [op |-> "policy", patch |-> patch])
              /\ FindAccounts(t, PolicyKeys)
  /\ doubtful' = (doubtful \/ PolicyCalls # {})
  /\ UNCHANGED <<fallback, chain, local, lost, config, runtime, auditLog, policy, started, now,
                 restarts, returned, open, contested, acked>>

\* What the scan of a policy found.
Found(t) == {r.payload : r \in io[t].found}

UpdateFetched(t) ==
  /\ Doing(t, "policy")
  /\ At(t, "scanned")
  /\ IF Found(t) = {}
       THEN End(t) /\ UNCHANGED policy
       ELSE LET current == deserializePolicy(Latest(Found(t)))
            IN policy' = current /\ WritePolicy(t, Merged(current, call[t].patch))
  /\ doubtful' = (doubtful \/ io[t].partial)
  /\ UNCHANGED <<fallback, chain, local, lost, config, runtime, auditLog, started, now,
                 calls, restarts, returned, open, contested, acked>>

\* A write takes a millisecond at least.
PolicyWritten(t) ==
  /\ Doing(t, "policy")
  /\ At(t, "done")
  /\ policy' = call[t].state
  /\ now' = IF now < MaxNow THEN now + 1 ELSE now
  /\ End(t)
  /\ UNCHANGED <<fallback, chain, local, lost, config, runtime, auditLog, started,
                 calls, restarts, returned, open, contested, acked, doubtful>>

PolicyFailed(t) ==
  /\ Doing(t, "policy")
  /\ At(t, "failed")
  /\ End(t)
  /\ doubtful' = TRUE
  /\ UNCHANGED <<fallback, chain, local, lost, config, runtime, auditLog, policy, started, now,
                 calls, restarts, returned, open, contested, acked>>

-----------------------------------------------------------------------------
(* AgentRunner.registerAgent and SessionAnchor.startSession.               *)

NextSession == Cardinality(started) + 1

\* registerAgent up to its first await; without anchoring it registers at once,
\* over the handle of an earlier registration, whose session nobody closes.
StartRegistration(t, awaited) ==
  IF config.anchoring
    THEN /\ NextSession \in Sessions
         /\ started' = started \union {NextSession}
         /\ Begin(t, [op |-> "register", session |-> NextSession, awaited |-> awaited])
         /\ WriteAccount(t, StartKey(NextSession), NextSession)
         /\ UNCHANGED runtime
    ELSE /\ runtime' = 0
         /\ End(t)
         /\ UNCHANGED started

registerAgent(t) ==
  /\ Free(t, "registerAgent")
  /\ StartRegistration(t, TRUE)
  /\ UNCHANGED <<fallback, chain, local, lost, config, auditLog, policy, now, restarts,
                 returned, open, contested, acked, doubtful>>

\* With compression the policy is fetched first, and the promise of
\* registerAgent is left alone.
registerCompressedAgent(t) ==
  /\ Free(t, "registerCompressedAgent")
  /\ config.compression
  /\ IF policy # None
       THEN StartRegistration(t, FALSE)
       ELSE /\ Begin(t, [op |-> "fetch"])
            /\ FindAccounts(t, PolicyKeys)
            /\ UNCHANGED <<runtime, started>>
  /\ doubtful' = (doubtful \/ PolicyCalls # {})
  /\ UNCHANGED <<fallback, chain, local, lost, config, auditLog, policy, now, restarts,
                 returned, open, contested, acked>>

RegistrationFetched(t) ==
  /\ Doing(t, "fetch")
  /\ At(t, "scanned")
  /\ IF Found(t) = {}
       THEN End(t) /\ UNCHANGED <<policy, runtime, started>>
       ELSE /\ policy' = deserializePolicy(Latest(Found(t)))
            /\ StartRegistration(t, FALSE)
  /\ doubtful' = (doubtful \/ io[t].partial)
  /\ UNCHANGED <<fallback, chain, local, lost, config, auditLog, now, calls, restarts,
                 returned, open, contested, acked>>

FetchFailed(t) ==
  /\ Doing(t, "fetch")
  /\ At(t, "failed")
  /\ End(t)
  /\ UNCHANGED <<fallback, chain, local, lost, config, runtime, auditLog, policy, started, now,
                 calls, restarts, returned, open, contested, acked, doubtful>>

Registered(t) ==
  /\ Doing(t, "register")
  /\ At(t, "done")
  /\ runtime' = call[t].session
  /\ Acknowledge(t)
  /\ End(t)
  /\ UNCHANGED <<fallback, chain, local, lost, config, auditLog, policy, started, now, calls,
                 restarts, returned, open, contested, doubtful>>

\* A rejection nobody awaits ends the process.
RegistrationFailed(t) ==
  /\ Doing(t, "register")
  /\ At(t, "failed")
  /\ \/ ~call[t].awaited /\ Dies
     \/ /\ call[t].awaited
        /\ End(t)
        /\ UNCHANGED <<fallback, chain, local, lost, config, runtime, auditLog, policy, started,
                       now, calls, restarts, returned, open, contested, acked, doubtful>>

-----------------------------------------------------------------------------
(* AuditLogManager.appendAuditEntry and ProofAnchor.anchorProof, which the *)
(* sandbox executor calls.                                                 *)

appendAuditEntry(t) ==
  /\ Free(t, "appendAuditEntry")
  /\ \E e \in Entries :
       Begin(t, [op |-> "append", entry |-> e]) /\ WriteAccount(t, AuditKey(e), e)
  /\ UNCHANGED <<fallback, chain, local, lost, config, runtime, auditLog, policy, started, now,
                 restarts, returned, open, contested, acked, doubtful>>

\* Only now is it in the registry.
Appended(t) ==
  /\ Doing(t, "append")
  /\ At(t, "done")
  /\ auditLog' = [auditLog EXCEPT ![call[t].entry] = @ + 1]
  /\ Acknowledge(t)
  /\ End(t)
  /\ UNCHANGED <<fallback, chain, local, lost, config, runtime, policy, started, now, calls,
                 restarts, returned, open, contested, doubtful>>

anchorProof(t) ==
  /\ Free(t, "anchorProof")
  /\ \E x \in Proofs :
       Begin(t, [op |-> "proof"]) /\ WriteAccount(t, ProofKey(x), x)
  /\ UNCHANGED <<fallback, chain, local, lost, config, runtime, auditLog, policy, started, now,
                 restarts, returned, open, contested, acked, doubtful>>

ProofAnchored(t) ==
  /\ Doing(t, "proof")
  /\ At(t, "done")
  /\ Acknowledge(t)
  /\ End(t)
  /\ UNCHANGED <<fallback, chain, local, lost, config, runtime, auditLog, policy, started, now,
                 calls, restarts, returned, open, contested, doubtful>>

RecordFailed(t) ==
  /\ Doing(t, "append") \/ Doing(t, "proof")
  /\ At(t, "failed")
  /\ End(t)
  /\ UNCHANGED <<fallback, chain, local, lost, config, runtime, auditLog, policy, started, now,
                 calls, restarts, returned, open, contested, acked, doubtful>>

-----------------------------------------------------------------------------
(* AgentRunner.closeAgentSession, AuditLogManager.fetchAuditLog and        *)
(* SessionAnchor.closeSession.                                             *)

\* closeSession: the commitment is the log, its payload the session and the log.
CloseSession(t, s, log) ==
  /\ Begin(t, [op |-> "close", session |-> s, log |-> log])
  /\ WriteAccount(t, CloseKey(s), log)

\* A log of the registry, if it has any entry, is the log; otherwise a scan.
closeAgentSession(t) ==
  /\ Free(t, "closeAgentSession")
  /\ runtime \notin {None, 0}
  /\ IF \E e \in Entries : auditLog[e] > 0
       THEN CloseSession(t, runtime, auditLog)
       ELSE /\ Begin(t, [op |-> "close", session |-> runtime])
            /\ FindAccounts(t, AuditKeys)
  /\ open' = [open EXCEPT ![runtime] = @ + 1]
  /\ contested' = IF open[runtime] > 0 THEN contested \union {runtime} ELSE contested
  /\ UNCHANGED <<fallback, chain, local, lost, config, runtime, auditLog, policy, started, now,
                 restarts, returned, acked, doubtful>>

\* The log a scan found, which replaces the registry's.
ScannedLog(t) ==
  [e \in Entries |-> Cardinality({r \in io[t].found : r.key = AuditKey(e)})]

\* closeSession(undefined, log).  Its local record is never found again: the file has
\* null for undefined.
CloseUndefined(t, log) ==
  /\ Begin(t, [op |-> "closeUndefined", log |-> log])
  /\ io' = [io EXCEPT ![t] = [key |-> UndefinedKey, payload |-> log, step |-> "read"]]

\* Only now is the sessionId of the handle read: an overlapping closing may have
\* returned meanwhile and cleared it.
LogFetched(t) ==
  /\ Doing(t, "close")
  /\ At(t, "scanned")
  /\ auditLog' = ScannedLog(t)
  /\ IF \E r \in returned : r.session = call[t].session
       THEN CloseUndefined(t, ScannedLog(t))
       ELSE CloseSession(t, call[t].session, ScannedLog(t))
  /\ UNCHANGED <<fallback, chain, local, lost, config, runtime, policy, started, now, calls,
                 restarts, returned, open, contested, acked, doubtful>>

\* Mutant: the session of the handle is not cleared.
Cleared_Kept(s) == runtime
\* sessionId = undefined on the handle of the session, if it is still the agent's.
Cleared(s) == IF runtime = s THEN 0 ELSE runtime

SessionClosed(t) ==
  /\ Doing(t, "close")
  /\ At(t, "done")
  /\ LET s == call[t].session IN
       /\ runtime' = Cleared(s)
       /\ returned' = returned \union {[session |-> s, log |-> call[t].log]}
       /\ open' = [open EXCEPT ![s] = @ - 1]
  /\ End(t)
  /\ UNCHANGED <<fallback, chain, local, lost, config, auditLog, policy, started, now, calls,
                 restarts, contested, acked, doubtful>>

CloseFailed(t) ==
  /\ Doing(t, "close")
  /\ At(t, "failed")
  /\ End(t)
  /\ UNCHANGED <<fallback, chain, local, lost, config, runtime, auditLog, policy, started, now,
                 calls, restarts, returned, open, contested, acked, doubtful>>

\* It answers the log's hash, of no session, or errs; the handle is clear already.
UndefinedClosed(t) ==
  /\ Doing(t, "closeUndefined")
  /\ At(t, "done") \/ At(t, "failed")
  /\ End(t)
  /\ UNCHANGED <<fallback, chain, local, lost, config, runtime, auditLog, policy, started,
                 now, calls, restarts, returned, open, contested, acked, doubtful>>

-----------------------------------------------------------------------------

StoreSteps(t) ==
  /\ Settled
  /\ StoreStep(t)
  /\ UNCHANGED <<config, call, runtime, auditLog, policy, started, now, calls, restarts,
                 returned, open, contested, acked, doubtful>>

Next ==
  \/ Crash
  \/ \E t \in Threads :
       \/ StoreSteps(t)
       \/ createCompressedPolicyAccount(t)
       \/ updateCompressedPolicyAccount(t)
       \/ UpdateFetched(t)
       \/ PolicyWritten(t)
       \/ PolicyFailed(t)
       \/ registerAgent(t)
       \/ registerCompressedAgent(t)
       \/ RegistrationFetched(t)
       \/ FetchFailed(t)
       \/ Registered(t)
       \/ RegistrationFailed(t)
       \/ appendAuditEntry(t)
       \/ Appended(t)
       \/ anchorProof(t)
       \/ ProofAnchored(t)
       \/ RecordFailed(t)
       \/ closeAgentSession(t)
       \/ LogFetched(t)
       \/ SessionClosed(t)
       \/ CloseFailed(t)
       \/ UndefinedClosed(t)

Spec == Init /\ [][Next]_vars

-----------------------------------------------------------------------------
(* Properties.                                                             *)

\* SessionAnchor.verifySession, of a session and the commitment of a closing.
verifySession(s, commitment) ==
  LET stored == Stored(CloseKey(s))
  IN IF stored = None THEN "SESSION_NOT_FOUND"
     ELSE IF stored # commitment THEN "HASH_MISMATCH"
     ELSE "VALID"

\* The commitment closeAgentSession returned verifies, for ever and after every crash,
\* with two exceptions.  Of two closings of a session that overlap, or of one that
\* failed after its account was created and the one that repeats it, each returns the
\* hash of its own log.  And what only the local file held is not found once a crash
\* has cut a rewriting of it; no crash makes another log stand in its place.
ClosedSessionsVerify ==
  \A r \in returned : r.session \notin contested =>
    LET answer == verifySession(r.session, r.log) IN
    \/ answer = "VALID"
    \/ answer = "SESSION_NOT_FOUND" /\ CloseKey(r.session) \in lost

\* What an append, an anchored proof or a started session reported done can be read
\* back, from the chain or from the demo mode's file, whatever request failed on the
\* way and whenever the process died, unless it died in a rewriting of the file: then
\* what no account held is gone, and what one holds is read from there.
AcknowledgedIsStored ==
  \A a \in acked :
    \/ Stored(a.key) = a.payload
    \/ Stored(a.key) = None /\ a.key \in lost

\* The registry's policy is the latest one stored, so that a restarted process goes on
\* with it - as long as no two calls on it overlapped, none failed and no scan was
\* answered in part.  After a rewriting that was cut the latest one stored may be an
\* older one, whose account was created.
PolicyMatchesStore ==
  ~doubtful /\ policy # None /\ PolicyCalls = {} =>
    policy = deserializePolicy(Latest({Stored(k) : k \in PolicyKeys} \ {None}))
-----------------------------------------------------------------------------
(* The inductive invariant.                                                *)

WriteSteps == {"read", "create", "anchorRead", "anchorCreate", "memo", "done", "failed"}
ScanSteps == {"scan", "scanned", "failed"}

Writing(t, key, payload) ==
  io[t] \in [key : {key}, payload : {payload}, step : WriteSteps]
Scanning(t, keys, payloads) ==
  io[t] \in [step : ScanSteps, keys : {keys}, partial : BOOLEAN,
             found : SUBSET [from : {"local", "chain"}, key : keys, payload : payloads]]
ScanningPolicies(t) == Scanning(t, PolicyKeys, PolicyRecords)
ScanningLog(t) == Scanning(t, AuditKeys, Entries)

WritingPolicy(t) ==
  /\ io[t] \in [key : PolicyKeys, payload : PolicyRecords, step : WriteSteps]
  /\ io[t].key = PolicyKey(io[t].payload.updatedAt)
  /\ io[t].payload.state = call[t].state

Registers(t, s) == Doing(t, "register") /\ call[t].session = s
Closes(t, s) == Doing(t, "close") /\ call[t].session = s
WritingClose(t, s) ==
  /\ io[t] \in [key : {CloseKey(s)}, payload : Logs, step : WriteSteps]
  /\ io[t].payload = call[t].log

\* A call waits for the request its manager made, and for no other.
LaneOK(t) ==
  /\ call[t] = Idle => io[t] = Idle
  /\ call[t] # Idle =>
       call[t].op \in {"policy", "fetch", "register", "append", "proof", "close",
                       "closeUndefined"}
  /\ LET s == call[t].session IN Registers(t, s) =>
       s \in Sessions /\ Writing(t, StartKey(s), s)
  /\ Doing(t, "append") =>
       call[t].entry \in Entries /\ Writing(t, AuditKey(call[t].entry), call[t].entry)
  /\ Doing(t, "proof") => \E x \in Proofs : Writing(t, ProofKey(x), x)
  /\ Doing(t, "fetch") => ScanningPolicies(t)
  /\ Doing(t, "policy") =>
       \/ ScanningPolicies(t) /\ call[t].patch \in Patches
       \/ WritingPolicy(t)
  /\ LET s == call[t].session IN Closes(t, s) =>
       /\ s \in Sessions
       /\ \/ ScanningLog(t) /\ IsFiniteSet(io[t].found)
          \/ WritingClose(t, s)
  /\ Doing(t, "closeUndefined") =>
       call[t].log \in Logs /\ Writing(t, UndefinedKey, call[t].log)

TypeOK ==
  /\ DOMAIN chain = Keys /\ DOMAIN local = Keys
  /\ DOMAIN call = Threads /\ DOMAIN io = Threads
  /\ \A t \in Threads : LaneOK(t)
  /\ \A k \in PolicyKeys : /\ local[k] \in PolicyRecords \union {None}
                           /\ chain[k] \in PolicyRecords \union {None, Commitment}
  /\ runtime \in Sessions \union {None, 0}
  /\ auditLog \in Logs
  /\ policy \in PolicyStates \union {None}
  /\ started \subseteq Sessions
  /\ now \in 0..MaxNow
  /\ returned \subseteq [session : Sessions, log : Logs]
  /\ open \in [Sessions -> Int]
  /\ contested \subseteq Sessions
  /\ doubtful \in BOOLEAN

\* A write that was answered has something to show at its address.
DoneIsStored == \A t \in Threads : At(t, "done") => Stored(io[t].key) # None

\* The keys whose payload they name: a started session, an entry, a signature.
FixedKeys ==
  {StartKey(s) : s \in Sessions} \union AuditKeys \union {ProofKey(x) : x \in Proofs}

\* Nothing but its own payload is ever found at such a key.
FixedIsNamed ==
  /\ \A k \in FixedKeys : local[k] \in {None, k[2]} /\ chain[k] \in {None, Commitment, k[2]}
  /\ \A a \in acked : /\ a.key \in FixedKeys /\ a.payload = a.key[2]
                      /\ Stored(a.key) # None \/ a.key \in lost

\* A session id is drawn once, and the handle has it only after its registration.
DrawnOnce ==
  /\ IsFiniteSet(started) /\ started = 1..Cardinality(started)
  /\ runtime \in started \union {None, 0}
  /\ \A s \in Sessions \ started :
       open[s] = 0 /\ s \notin contested /\ \A r \in returned : r.session # s
  /\ \A t \in Threads, s \in Sessions : Registers(t, s) \/ Closes(t, s) => s \in started
  /\ \A t, u \in Threads, s \in Sessions : Registers(t, s) /\ Registers(u, s) => t = u
  /\ \A t \in Threads, s \in Sessions : Registers(t, s) =>
       /\ runtime # s /\ open[s] = 0 /\ s \notin contested
       /\ \A r \in returned : r.session # s

\* What an uncontested session has at its closing's address: nothing before its
\* closing has read the log, that log while it is written and ever after.
ClosedOnce(s) ==
  LET k == CloseKey(s)
      back == {r \in returned : r.session = s}
  IN /\ open[s] \in {0, 1}
     /\ \A t, u \in Threads : Closes(t, s) /\ Closes(u, s) => t = u
     /\ \A t \in Threads : Closes(t, s) => open[s] = 1
     /\ back # {} => open[s] = 0 /\ runtime # s
     /\ \A r \in back :
          /\ local[k] \in {None, r.log} /\ chain[k] \in {None, Commitment, r.log}
          /\ Stored(k) # None \/ k \in lost
     /\ open[s] = 0 /\ back = {} => local[k] = None /\ chain[k] = None
     /\ \A t \in Threads : Closes(t, s) /\ ScanningLog(t) =>
          local[k] = None /\ chain[k] = None
     /\ \A t \in Threads : Closes(t, s) /\ WritingClose(t, s) =>
          local[k] \in {None, call[t].log} /\ chain[k] \in {None, Commitment, call[t].log}

\* The two halves of an account of the policy tell the same.
PolicyAccountOK(at) ==
  LET k == PolicyKey(at)
  IN /\ local[k] # None => local[k].updatedAt = at
     /\ IsPayload(chain[k]) => chain[k].updatedAt = at
     /\ local[k] # None /\ IsPayload(chain[k]) => local[k] = chain[k]

\* Without doubt, one call on the policy runs at a time, and what it writes goes to
\* an address that was empty; what the registry has is the last record before now.
PolicyInOrder ==
  /\ \A t, u \in PolicyCalls : t = u
  /\ \A at \in 0..MaxNow : PolicyAccountOK(at)
  /\ \A at \in now..MaxNow :
       (at = now => \A t \in Threads : ~(Doing(t, "policy") /\ WritingPolicy(t))) =>
         local[PolicyKey(at)] = None /\ chain[PolicyKey(at)] = None
  /\ \A t \in Threads : Doing(t, "policy") => now < MaxNow
  /\ \A t \in Threads : Doing(t, "policy") /\ WritingPolicy(t) =>
       LET k == PolicyKey(now)
           p == serializePolicy(call[t].state, now)
       IN Writing(t, k, p) /\ local[k] \in {None, p} /\ chain[k] \in {None, Commitment, p}
  /\ \A t \in PolicyCalls : At(t, "scan") => io[t].found = LocalRecords(PolicyKeys)
  /\ \A t \in PolicyCalls : At(t, "scanned") /\ ~io[t].partial =>
       Found(t) = {Stored(k) : k \in PolicyKeys} \ {None}
  /\ policy # None => \E at \in 0..MaxNow :
       /\ at < now
       /\ Stored(PolicyKey(at)) = serializePolicy(policy, at)
       /\ \A b \in 0..MaxNow : at < b /\ b < now => Stored(PolicyKey(b)) = None

IndInv ==
  /\ TypeOK
  /\ DoneIsStored
  /\ FixedIsNamed
  /\ DrawnOnce
  /\ \A s \in Sessions \ contested : ClosedOnce(s)
  /\ ~doubtful => PolicyInOrder
=============================================================================
