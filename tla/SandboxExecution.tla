--------------------------- MODULE SandboxExecution ---------------------------
(***************************************************************************)
(* SandboxExecutor, PolicyEngine and TransactionService: the road of a     *)
(* prepared transaction from the policy inspection to the ledger.          *)
(*                                                                         *)
(* JavaScript runs one synchronous segment at a time, so the actions are   *)
(* the segments between two awaits: pc[c] names the promise the call c is  *)
(* waiting on.  Two calls on one engine interleave at every await, and the *)
(* clock, the emergency lock and the ledger move while they wait.  The     *)
(* clock moves inside a segment too, which reads it more than once: now is *)
(* its first reading and now' its last.                                    *)
(*                                                                         *)
(* AgentRunner gives an agent one engine (Runtime) and builds a fresh one  *)
(* for every live call that carries a policy patch (the calls of Patched). *)
(*                                                                         *)
(* `recordedOn', `spentOn' and `gates' are history variables: no guard     *)
(* reads them.                                                             *)
(***************************************************************************)
EXTENDS Integers, FiniteSets, FiniteSetsExt

CONSTANTS
  Calls,           \* calls of executePrepared(Evm)Transaction by one agent
  Patched,         \* the calls that carry a policyConfigPatch
  Runtime,         \* the engine the agent was registered with
  Requests,        \* transactions a call may be given
  Configs,         \* deployments: approval mode and feature switches
  MaxPerSession, MaxPerDay, MaxLamportsPerTx,
  DayLength,
  SessionExpiry,   \* instant the session expires
  MaxTime,         \* bound: last instant of the clock
  MaxInFlight      \* bound: calls the agent's callers keep open at once

\* `clean' stands for the rules that look at the instructions alone:
\* programs, spend vectors, opaque data, destinations, mints and SPL amount.
Request == [chain : {"svm", "evm"}, lamports : Nat, clean : BOOLEAN]
Config == [live : BOOLEAN, callback : BOOLEAN, zkProofs : BOOLEAN,
           neonBroadcast : BOOLEAN, compression : BOOLEAN]

Engines == {Runtime} \union Patched
Day(t) == t \div DayLength
Days == {Day(t) : t \in 0..MaxTime}

ASSUME ConstantsAssumption ==
  /\ IsFiniteSet(Calls)
  /\ Patched \subseteq Calls
  /\ Runtime \notin Calls
  /\ Requests \subseteq Request
  /\ Configs \subseteq Config
  /\ MaxPerSession \in Nat \ {0}
  /\ MaxPerDay \in Nat \ {0}
  /\ MaxLamportsPerTx \in Nat
  /\ DayLength \in Nat \ {0}
  /\ SessionExpiry \in Int
  /\ MaxTime \in Nat
  /\ MaxInFlight \in Nat \ {0}

NoRequest == [chain |-> "none", lamports |-> 0, clean |-> FALSE]
Never == -1

VARIABLES
  now,        \* Date.now()
  locked,     \* getEmergencyLockStatus().locked
  config,     \* the deployment, fixed at start
  engine,     \* engine[e]: the counters of a PolicyEngine
  pc,         \* pc[c]: the promise the call waits on
  request,    \* request[c]: its transaction
  attested,   \* attested[c]: it holds a signed policy attestation
  outcome,    \* outcome[c]: what it answered, or will answer
  onChain,    \* onChain[c]: its transaction, as the ledger sees it
  recordedOn, \* history: day recordBroadcast counted c on, or Never
  spentOn,    \* history: day whose spend recordSpend added c to, or Never
  gates       \* history: checks c has passed

callVars == <<pc, request, attested, outcome>>
vars == <<now, locked, config, engine, pc, request, attested, outcome,
          onChain, recordedOn, spentOn, gates>>

Init ==
  /\ now = 0
  /\ locked = FALSE
  /\ config \in Configs
  /\ engine = [e \in Engines |->
       [txCountSession |-> 0, perDayCounts |-> [d \in Days |-> 0],
        lastResetDay |-> 0, spentToday |-> 0]]
  /\ pc = [c \in Calls |-> "idle"]
  /\ request = [c \in Calls |-> NoRequest]
  /\ attested = [c \in Calls |-> FALSE]
  /\ outcome = [c \in Calls |-> "none"]
  /\ onChain = [c \in Calls |-> "absent"]
  /\ recordedOn = [c \in Calls |-> Never]
  /\ spentOn = [c \in Calls |-> Never]
  /\ gates = [c \in Calls |-> {}]

-----------------------------------------------------------------------------
(* The environment.                                                        *)

Tick ==
  /\ now < MaxTime
  /\ now' = now + 1
  /\ UNCHANGED <<locked, config, engine, callVars, onChain, recordedOn,
                 spentOn, gates>>

SetLock ==
  /\ locked' = ~locked
  /\ UNCHANGED <<now, config, engine, callVars, onChain, recordedOn,
                 spentOn, gates>>

\* The ledger takes a transaction it was sent, long after the sender gave up
\* waiting perhaps, and executes it with or without an error.
Land(c) ==
  /\ onChain[c] = "sent"
  /\ onChain' \in {[onChain EXCEPT ![c] = result] : result \in {"landed", "failed"}}
  /\ UNCHANGED <<now, locked, config, engine, callVars, recordedOn, spentOn,
                 gates>>

-----------------------------------------------------------------------------
(* PolicyEngine.                                                           *)

\* AgentRunner.executePreparedTransaction.
EngineOf(c) == IF c \in Patched THEN c ELSE Runtime

\* Mutant: the day of the next reset is kept.
Refreshed_NextReset(state, t) ==
  IF state.lastResetDay > Day(t) THEN state
  ELSE [state EXCEPT !.spentToday = 0, !.lastResetDay = Day(t) + 1]

\* maybeResetDailySpend at the instant t.  A method that resets twice in one
\* segment leaves what the later reset alone would leave.
Refreshed(state, t) ==
  IF state.lastResetDay = Day(t) THEN state
  ELSE [state EXCEPT !.spentToday = 0, !.lastResetDay = Day(t)]

\* Mutants of the limits: off by one, no daily count, the spend limit against
\* what was spent before.
WithinLimits_OffByOne(state, req) ==
  /\ state.txCountSession <= MaxPerSession
  /\ state.perDayCounts[Day(now)] < MaxPerDay
  /\ state.spentToday + req.lamports <= MaxLamportsPerTx

WithinLimits_NoDayCount(state, req) ==
  /\ state.txCountSession < MaxPerSession
  /\ state.spentToday + req.lamports <= MaxLamportsPerTx

WithinLimits_SpentBefore(state, req) ==
  /\ state.txCountSession < MaxPerSession
  /\ state.perDayCounts[Day(now)] < MaxPerDay
  /\ state.spentToday <= MaxLamportsPerTx

\* The limits of inspect and inspectEvm on a refreshed state.  The bound of
\* one transaction bounds the day's total as well.
WithinLimits(state, req) ==
  /\ state.txCountSession < MaxPerSession
  /\ state.perDayCounts[Day(now)] < MaxPerDay
  /\ state.spentToday + req.lamports <= MaxLamportsPerTx

\* inspect, inspectEvm.
Allowed(state, req) ==
  /\ ~locked
  /\ now <= SessionExpiry
  /\ req.clean
  /\ WithinLimits(state, req)

\* Mutant: recordSpend relies on the reset before the count.
Recorded_OneReset(state, lamports, counted, spent) ==
  [Refreshed(state, counted) EXCEPT
     !.txCountSession = @ + 1,
     !.perDayCounts[Day(counted)] = @ + 1,
     !.spentToday = @ + lamports]

\* recordBroadcast, which reads the day of its count, and then recordSpend,
\* which reads the clock anew for a reset of its own: a midnight between the
\* two counts the call on one day and what it spends on the next.
Recorded(state, lamports, counted, spent) ==
  [Refreshed(state, spent) EXCEPT
     !.txCountSession = @ + 1,
     !.perDayCounts[Day(counted)] = @ + 1,
     !.spentToday = @ + lamports]

-----------------------------------------------------------------------------
(* The calls.                                                              *)

InFlight == {c \in Calls : pc[c] \notin {"idle", "done"}}

\* The answer is settled; an audit entry may still be on its way to storage.
Answer(c, result) ==
  /\ pc' = [pc EXCEPT ![c] = IF config.compression THEN "audit" ELSE "done"]
  /\ outcome' = [outcome EXCEPT ![c] = result]

\* The promise of the call settles at once.
Settle(c, result) ==
  /\ pc' = [pc EXCEPT ![c] = "done"]
  /\ outcome' = [outcome EXCEPT ![c] = result]

Await(c, label) ==
  /\ pc' = [pc EXCEPT ![c] = label]
  /\ UNCHANGED outcome

\* A caller opens the call: the inspection runs before the first await.  The
\* expiry and the day's count are those of its first reading of the clock, the
\* spend that of getSpentToday's own.
Inspect(c, req) ==
  /\ pc[c] = "idle"
  /\ c \in Patched => req.chain = "svm"
  /\ Cardinality(InFlight) < MaxInFlight
  /\ now' \in now..MaxTime
  /\ LET e == EngineOf(c)
         state == Refreshed(engine[e], now')
     IN /\ engine' = [engine EXCEPT ![e] = state]
        /\ IF Allowed(state, req)
             THEN /\ Await(c, "simulate")
                  /\ gates' = [gates EXCEPT ![c] = {"policy"}]
             ELSE Answer(c, "denied") /\ UNCHANGED gates
  /\ request' = [request EXCEPT ![c] = req]
  /\ UNCHANGED <<locked, config, attested, onChain, recordedOn, spentOn>>

\* PolicyCircuit.prove on buildProofState.  The kill switch is given as off,
\* the expiry is the present instant plus the minutes left, never less than
\* the present instant: of its checks only the spend can fail.
ProofAccepted(state, req) == state.spentToday + req.lamports <= MaxLamportsPerTx

\* The segment after the last gate: the Neon switch, the attestation, and
\* then the transaction is on its way.
PastApproval(c, passed) ==
  IF request[c].chain = "evm" /\ ~config.neonBroadcast
    THEN /\ Answer(c, "denied")
         /\ gates' = [gates EXCEPT ![c] = @ \union passed]
         /\ UNCHANGED <<now, engine, attested>>
  ELSE IF ~config.zkProofs
    THEN /\ Await(c, "send")
         /\ gates' = [gates EXCEPT ![c] = @ \union passed]
         /\ UNCHANGED <<now, engine, attested>>
  ELSE LET e == EngineOf(c)
           state == Refreshed(engine[e], now')
       IN /\ now' \in now..MaxTime
          /\ engine' = [engine EXCEPT ![e] = state]
          /\ IF ProofAccepted(state, request[c])
               THEN /\ Await(c, "send")
                    /\ attested' = [attested EXCEPT ![c] = TRUE]
                    /\ gates' = [gates EXCEPT ![c] = @ \union passed \union {"proof"}]
               ELSE /\ Settle(c, "denied")
                    /\ gates' = [gates EXCEPT ![c] = @ \union passed]
                    /\ UNCHANGED attested

\* Mutant: a failed simulation is logged and the call goes on.
SimulationFailed_GoesOn(c) ==
  /\ pc[c] = "simulate"
  /\ IF config.live THEN Await(c, "approval") ELSE Await(c, "send")
  /\ UNCHANGED <<now, locked, config, engine, request, attested, onChain,
                 recordedOn, spentOn, gates>>

\* simulate (eth_call and estimateGas on Neon) answers with an error.  On
\* Neon a transport error is answered alike.
SimulationFailed(c) ==
  /\ pc[c] = "simulate"
  /\ Answer(c, "denied")
  /\ UNCHANGED <<now, locked, config, engine, request, attested, onChain,
                 recordedOn, spentOn, gates>>

\* The RPC of simulateTransaction fails: the call rejects.
SimulationThrows(c) ==
  /\ pc[c] = "simulate"
  /\ request[c].chain = "svm"
  /\ Settle(c, "thrown")
  /\ UNCHANGED <<now, locked, config, engine, request, attested, onChain,
                 recordedOn, spentOn, gates>>

SimulationPassed(c) ==
  /\ pc[c] = "simulate"
  /\ IF ~config.live THEN PastApproval(c, {"simulation"})
     ELSE /\ IF config.callback THEN Await(c, "approval") ELSE Settle(c, "denied")
          /\ gates' = [gates EXCEPT ![c] = @ \union {"simulation"}]
          /\ UNCHANGED <<now, engine, attested>>
  /\ UNCHANGED <<locked, config, request, onChain, recordedOn, spentOn>>

Rejected(c) ==
  /\ pc[c] = "approval"
  /\ Settle(c, "denied")
  /\ UNCHANGED <<now, locked, config, engine, request, attested, onChain,
                 recordedOn, spentOn, gates>>

Approved(c) ==
  /\ pc[c] = "approval"
  /\ PastApproval(c, {"approval"})
  /\ UNCHANGED <<locked, config, request, onChain, recordedOn, spentOn>>

ApprovalThrows(c) ==
  /\ pc[c] = "approval"
  /\ Settle(c, "thrown")
  /\ UNCHANGED <<now, locked, config, engine, request, attested, onChain,
                 recordedOn, spentOn, gates>>

\* The node takes the transaction and answers with its signature.
Sent(c) ==
  /\ pc[c] = "send"
  /\ onChain' = [onChain EXCEPT ![c] = "sent"]
  /\ Await(c, "confirm")
  /\ UNCHANGED <<now, locked, config, engine, request, attested,
                 recordedOn, spentOn, gates>>

\* Mutant: an error of the send is answered as a denial.
SendThrows_Denies(c) ==
  /\ pc[c] = "send"
  /\ onChain' \in {onChain, [onChain EXCEPT ![c] = "sent"]}
  /\ Settle(c, "denied")
  /\ UNCHANGED <<now, locked, config, engine, request, attested,
                 recordedOn, spentOn, gates>>

\* The send fails; the transaction may have reached the ledger all the same.
SendThrows(c) ==
  /\ pc[c] = "send"
  /\ onChain' \in {onChain, [onChain EXCEPT ![c] = "sent"]}
  /\ Settle(c, "thrown")
  /\ UNCHANGED <<now, locked, config, engine, request, attested,
                 recordedOn, spentOn, gates>>

\* Mutant: the receipt of a reverted Neon transaction does not throw.
ConfirmedBy_AnyReceipt(c) == {"landed", "failed"}

\* What ends the wait for the confirmation: sendAndConfirm does not look at
\* the error in the answer, while ethers' wait rejects a reverted receipt.
ConfirmedBy(c) ==
  IF request[c].chain = "svm" THEN {"landed", "failed"} ELSE {"landed"}

Confirmed(c) ==
  /\ pc[c] = "confirm"
  /\ onChain[c] \in ConfirmedBy(c)
  /\ \E spent \in now..MaxTime : \E counted \in now..spent :
       /\ engine' = [engine EXCEPT ![EngineOf(c)] =
                      Recorded(@, request[c].lamports, counted, spent)]
       /\ recordedOn' = [recordedOn EXCEPT ![c] = Day(counted)]
       /\ spentOn' = [spentOn EXCEPT ![c] = Day(spent)]
       /\ now' = spent
  /\ IF attested[c] THEN Await(c, "anchor") ELSE Answer(c, "executed")
  /\ UNCHANGED <<locked, config, request, attested, onChain, gates>>

\* Mutant: the wait ends in an error only when the ledger reports one.
ConfirmThrows_NoTimeout(c) ==
  /\ pc[c] = "confirm"
  /\ onChain[c] = "failed"
  /\ Settle(c, "thrown")
  /\ UNCHANGED <<now, locked, config, engine, request, attested, onChain,
                 recordedOn, spentOn, gates>>

\* The wait ends in an error: a timeout, a lost connection, an expired
\* blockhash, a reverted receipt.  Nothing is recorded.
ConfirmThrows(c) ==
  /\ pc[c] = "confirm"
  /\ Settle(c, "thrown")
  /\ UNCHANGED <<now, locked, config, engine, request, attested, onChain,
                 recordedOn, spentOn, gates>>

Anchored(c) ==
  /\ pc[c] = "anchor"
  /\ Answer(c, "executed")
  /\ UNCHANGED <<now, locked, config, engine, request, attested, onChain,
                 recordedOn, spentOn, gates>>

\* anchorProof is not caught: the call rejects although its transaction is
\* on the ledger and recorded.
AnchorThrows(c) ==
  /\ pc[c] = "anchor"
  /\ Settle(c, "thrown")
  /\ UNCHANGED <<now, locked, config, engine, request, attested, onChain,
                 recordedOn, spentOn, gates>>

\* appendAuditEntry settles.  Its error is swallowed, but for the entry of an
\* executed Neon transaction.
Audited(c) ==
  /\ pc[c] = "audit"
  /\ \/ Settle(c, outcome[c])
     \/ /\ request[c].chain = "evm"
        /\ outcome[c] = "executed"
        /\ Settle(c, "thrown")
  /\ UNCHANGED <<now, locked, config, engine, request, attested, onChain,
                 recordedOn, spentOn, gates>>

Next ==
  \/ Tick
  \/ SetLock
  \/ \E c \in Calls :
       \/ \E req \in Requests : Inspect(c, req)
       \/ SimulationFailed(c) \/ SimulationThrows(c) \/ SimulationPassed(c)
       \/ Approved(c) \/ Rejected(c) \/ ApprovalThrows(c)
       \/ Sent(c) \/ SendThrows(c)
       \/ Land(c)
       \/ Confirmed(c) \/ ConfirmThrows(c)
       \/ Anchored(c) \/ AnchorThrows(c)
       \/ Audited(c)

Spec == Init /\ [][Next]_vars

\* The promises a call waits on settle: an RPC answers or its request times
\* out, the approval callback and the storage answer, and a confirmation comes
\* or, on Solana, is given up.  Nothing obliges the ledger to take a transaction.
Settles(c) ==
  \/ SimulationFailed(c) \/ SimulationThrows(c) \/ SimulationPassed(c)
  \/ Approved(c) \/ Rejected(c) \/ ApprovalThrows(c)
  \/ Sent(c) \/ SendThrows(c)
  \/ Confirmed(c)
  \/ request[c].chain = "svm" /\ ConfirmThrows(c)
  \/ Anchored(c) \/ AnchorThrows(c)
  \/ Audited(c)

FairSpec == Spec /\ \A c \in Calls : WF_vars(Settles(c))

-----------------------------------------------------------------------------
(* Properties.                                                             *)

PCs == {"idle", "simulate", "approval", "send", "confirm", "anchor", "audit",
        "done"}
EngineState ==
  [txCountSession : Nat, perDayCounts : [Days -> Nat], lastResetDay : Days,
   spentToday : Nat]

\* Type invariant.  An engine's last reset is never ahead of the clock, so a
\* day's counts never need a key the map cannot have.
TypeOK ==
  /\ now \in 0..MaxTime
  /\ locked \in BOOLEAN
  /\ config \in Config
  /\ engine \in [Engines -> EngineState]
  /\ pc \in [Calls -> PCs]
  /\ request \in [Calls -> Request \union {NoRequest}]
  /\ attested \in [Calls -> BOOLEAN]
  /\ outcome \in [Calls -> {"none", "denied", "executed", "thrown"}]
  /\ onChain \in [Calls -> {"absent", "sent", "landed", "failed"}]
  /\ recordedOn \in [Calls -> Days \union {Never}]
  /\ spentOn \in [Calls -> Days \union {Never}]
  /\ gates \in [Calls -> SUBSET {"policy", "simulation", "approval", "proof"}]
  /\ \A e \in Engines : engine[e].lastResetDay <= Day(now)

\* Calls the engine admitted that it has not counted yet and still may.
Pending(e) ==
  {c \in Calls : /\ EngineOf(c) = e
                 /\ pc[c] \in {"simulate", "approval", "send", "confirm"}}

Recordings(e) == {c \in Calls : EngineOf(c) = e /\ recordedOn[c] # Never}
RecordingsOn(e, d) == {c \in Recordings(e) : recordedOn[c] = d}
SpendsOn(e, d) == {c \in Recordings(e) : spentOn[c] = d}
LamportsOf(calls) == MapThenSumSet(LAMBDA c : request[c].lamports, calls)

\* Counters are read at the inspection and raised at the confirmation, so
\* calls in flight together can overshoot the session's limit - but never by
\* more than the calls that overlap, less one: callers that keep one call open
\* at a time get the limit they configured (PolicyEngine.inspect and
\* recordBroadcast, around the awaits of SandboxExecutor).
SessionOvershoot ==
  \A e \in Engines :
    engine[e].txCountSession + Cardinality(Pending(e))
      <= MaxPerSession + MaxInFlight - 1

\* The same for the limit of each day, for calls admitted on one day and
\* counted on the next as well.
DayOvershoot ==
  \A e \in Engines, d \in Days :
    LET overlap == IF d < Day(now) THEN 0 ELSE Cardinality(Pending(e))
    IN engine[e].perDayCounts[d] + overlap <= MaxPerDay + MaxInFlight - 1

\* The same for the lamports of a day: what is spent and what is on its way
\* never exceed the limit of one transaction for each call in flight.
SpendOvershoot ==
  \A e \in Engines :
    engine[e].spentToday + LamportsOf(Pending(e)) <= MaxInFlight * MaxLamportsPerTx

\* The engine's books agree with what was recorded: the session's count and the
\* count of each day hold each recorded call once, and today's spend is that of
\* the calls whose recordSpend came since the engine's last midnight - wherever
\* a midnight falls, between the inspection and the recording or between the
\* count of a recording and its spend, which then belong to two days.
BooksMatchRecords ==
  \A e \in Engines :
    /\ engine[e].txCountSession = Cardinality(Recordings(e))
    /\ \A d \in Days : engine[e].perDayCounts[d] = Cardinality(RecordingsOn(e, d))
    /\ engine[e].spentToday = LamportsOf(SpendsOn(e, engine[e].lastResetDay))

Passed(c) ==
  /\ {"policy", "simulation"} \subseteq gates[c]
  /\ config.live => config.callback /\ "approval" \in gates[c]
  /\ config.zkProofs => "proof" \in gates[c] /\ attested[c]
  /\ request[c].chain = "evm" => config.neonBroadcast

\* No transaction reaches a node that did not pass the policy, a simulation,
\* in live mode an approval and, where proofs are on, the attestation's checks
\* ("Simulation required before broadcast").
BroadcastPassedGates == \A c \in Calls : onChain[c] # "absent" => Passed(c)

\* What the caller is told is true of the ledger: a call answered with a denial
\* sent nothing, and one answered as executed is on the ledger and counted.
AnswersAreTrue ==
  \A c \in Calls :
    /\ outcome[c] = "denied" => onChain[c] = "absent"
    /\ outcome[c] = "executed" =>
         recordedOn[c] # Never /\ onChain[c] \in {"landed", "failed"}

\* Only transactions the ledger has executed are counted against the limits,
\* and on Neon only those it executed without an error.
RecordedLanded ==
  \A c \in Calls : recordedOn[c] # Never =>
    /\ onChain[c] \in {"landed", "failed"}
    /\ request[c].chain = "evm" => onChain[c] = "landed"

\* Where a call waits says what it has passed, what it sent and what it has
\* answered: the inductive form of the three properties above.
Stages ==
  \A c \in Calls :
    /\ pc[c] \in {"idle", "simulate", "approval", "send"} =>
         onChain[c] = "absent" /\ recordedOn[c] = Never
    /\ pc[c] \notin {"audit", "done"} => outcome[c] = "none"
    /\ pc[c] # "idle" => request[c] \in Requests
    /\ pc[c] \in {"simulate", "approval"} => "policy" \in gates[c]
    /\ pc[c] = "approval" =>
         "simulation" \in gates[c] /\ config.live /\ config.callback
    /\ pc[c] = "send" => Passed(c)
    /\ pc[c] = "confirm" => onChain[c] # "absent" /\ recordedOn[c] = Never
    /\ pc[c] = "anchor" => recordedOn[c] # Never
    /\ spentOn[c] = Never <=> recordedOn[c] = Never

\* No call is counted on a day that has not come.
FutureDaysEmpty ==
  \A e \in Engines, d \in Days : d > Day(now) => engine[e].perDayCounts[d] = 0

\* The inductive invariant of the proofs.
IndInv ==
  /\ TypeOK /\ Stages /\ FutureDaysEmpty
  /\ SessionOvershoot /\ DayOvershoot
  /\ BroadcastPassedGates /\ AnswersAreTrue /\ RecordedLanded

\* An engine is never behind a recording of its own: its day was reset by then.
RecordedByReset ==
  \A c \in Calls :
    spentOn[c] # Never => spentOn[c] <= engine[EngineOf(c)].lastResetDay

\* What was admitted asks for no more than one transaction may spend.
AdmittedWithinLimit ==
  \A e \in Engines : \A c \in Pending(e) : request[c].lamports <= MaxLamportsPerTx

\* The inductive invariant of the calls and of what they spend: where a call
\* waits tells what it passed, sent, recorded and answered, and the counters of
\* recordBroadcast leave room for every call that inspect has admitted.
SpendInv ==
  /\ IndInv
  /\ RecordedByReset /\ BooksMatchRecords
  /\ AdmittedWithinLimit /\ SpendOvershoot

\* Every call of the Solana path comes to an answer, whatever the ledger does
\* with its transaction: the wait for a confirmation ends with the blockhash's
\* validity.  (The Neon path waits for its receipt without a limit.)
SvmCallsSettle ==
  \A c \in Calls :
    pc[c] # "idle" /\ request[c].chain = "svm" ~> pc[c] = "done"

-----------------------------------------------------------------------------
(* What the repository's documents say, which the code does not keep.      *)

\* "Spend limits per tx/session/day": the transactions an agent lands in a
\* session stay within the session's limit.
LandedWithinSession ==
  Cardinality({c \in Calls : onChain[c] = "landed"}) <= MaxPerSession

=============================================================================
