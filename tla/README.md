# PRKT: specifications, model checking and proofs

PRKT runs autonomous agent wallets on Solana (and Neon EVM) behind a policy: an
agent proposes transactions, a policy engine inspects them, a sandbox executor
simulates, asks for approval, attests and broadcasts, and an on-chain program
keeps a vault whose lamports leave it only under a signed, counted and limited
transfer. This directory holds TLA+ modules for the parts whose correctness
depends on order, time and failure, the TLC configurations that check them on
small instances, and TLAPS proofs of the main results for every value of the
constants.

Paths below are relative to the repository.

## 1. The system

| Part | Source | State it keeps | Operations |
|---|---|---|---|
| On-chain policy program | `programs/policy_guard/src/lib.rs` | policy account (kill switch, daily limit, spent today, last day, allowlists), session accounts (active, expiry, next nonce), vault lamports | initialize_policy, set_kill_switch, open_session, close_session, execute_transfer |
| Policy engine | `src/policy/engine/PolicyEngine.ts` | session count, counts per UTC day, SOL spent today, last reset | inspect, inspectEvm, recordBroadcast |
| Sandbox executor | `src/policy/sandbox/SandboxExecutor.ts`, with `TransactionService`, `PolicyCircuit`, `ProofAnchor`, `AuditLogManager` | none of its own; the progress of each call between awaits | executePreparedTransaction, executePreparedEvmTransaction |
| Agent runner | `src/agent/runner/AgentRunner.ts` | registry, one engine and executor per agent, session id | registerAgent, registerCompressedAgent, runOnceParallel, executeIntents, closeAgentSession |
| Agent fleet | `src/agent/AgentManager.ts` | per agent: attempts in the window, consecutive failures, breaker | runManagedTradeSimulation |
| Idempotency guard | `src/core/idempotency/ExecutionIdempotencyGuard.ts` | bounded map of ids to expiries, cleanup counter | acquire, has, clear |
| Emergency lock | `src/policy/emergencyLock.ts` | environment flag, lock file, signed command file | getEmergencyLockStatus |
| Compressed storage | `src/zkCompression`, `src/compression` | accounts that are created once, a local file of fallback records, registries in memory | writeAccount, readAccount, findAccountsByOwner, create / update / fetch of policies, appendAuditEntry, anchorProof |
| Session anchor | `src/anchoring` | the session and closing accounts | startSession, closeSession, verifySession |
| CLI commands and registries | `src/cli` | three JSON files: wallets, agents, activity | forty commands over upsert, patch, append |
| Funding, RPC clients | `src/core/funding`, `src/core/rpc` | none; retries in flight | fundExactSol, ensureMinimumSol, requestAirdrop, executeWithFailover |
| DeFi: orchestrator, live executors, coordinator, verifier, guards | `src/defi`, `src/core/transactions/PostTransactionVerifier.ts`, `src/policy/PolicyGuard.ts` | none; the progress of each call | execute, executeBatch, routeToEvm, runFullSuite, verifyExecution, validate |
| Adapters, relays, strategies | `src/evm`, `src/dex`, `src/kora`, `src/agent/DecisionEngine.ts`, `src/strategy` | none | build instructions, relay, decide |

How they interact. The runner (or the CLI) asks a strategy for intents, builds a
transaction and calls the sandbox executor of the agent. The executor calls its
policy engine synchronously, then awaits in turn the RPC node (simulation), a
callback (approval), the node again (send, confirmation), the engine
synchronously (record), and storage (anchor, audit). The engine reads the
emergency lock from files at each inspection. A DeFi intent goes through the
orchestrator, which reads a market, takes a snapshot of balances, asks the same
executor with a policy patch (for which the runner builds a fresh engine),
verifies what grew, and, when nothing was sent, relays a memo over Kora under a
guard of its own. The runner opens and closes sessions in the compressed store,
where the executor also leaves its audit entries and proofs. The CLI builds a
runner, and with it an engine, for every run, and shares its files with every
other CLI process. The fleet runs its agents in
rounds behind a barrier. The on-chain program is independent of all this: it
trusts only its accounts, the clock and the signature of the policy's verifier.

What is hard about it:

- *Check and record are far apart.* The engine's counters are read before the
  first await and raised after the confirmation. Overlapping calls, midnights,
  the lock and the session's expiry all fall in between.
- *Partial failure.* Every await may reject, at six places, before and after
  the transaction is on the ledger.
- *Delivery.* Signed transfers reach the program late, twice and reordered.
- *Time.* Lazy daily resets on chain and off chain, sliding windows, cooldowns
  measured from a captured instant, TTLs with lazy cleanup.
- *Several writers.* Processes on one JSON file, writers of one address, calls
  that spend from one wallet.
- *Errors that say nothing.* A request that failed may have taken effect; it is
  repeated, answered by a fallback, or answered by "no execution".
- *Death of the process.* Registries in memory go, a file under the pen is cut
  short.

What makes each part correct:

- program: the daily limit per vault and day; each nonce once and in order;
  only authorised transfers; lamports conserved; ended sessions stay ended; the
  kill switch holds the vault;
- engine and executor: a bound on how far limits are overshot; books that agree
  with the ledger; no broadcast past a gate; truthful answers; every call answers;
- fleet: the rate limit over every window; the breaker's pause; no agent paying
  for another's failures; all rounds complete;
- idempotency guard: an id is granted once per TTL; forgotten only under
  pressure; bounded;
- store and sessions: what was reported done can be read back; a closed session
  verifies; the policy in memory is the one stored;
- CLI: policy commands are not undone by commands that overlap them, agents have
  wallets and a key on file is never lost to a command, but for a process that was
  inside one update when another wrote the same file;
- funding: a call that resolves brought its amount, short only of what the ledger
  refused; the treasury pays once;
- DeFi: one transaction per intent; truthful reports; a verification that is
  wrong about its transaction has another call of the wallet as its cause.

`PROJECT.json` lists every hazard with its line and the properties that cover it.

## 2. The modules

| Module | What it is |
|---|---|
| `SpendLedger` | abstract promise of the on-chain program: pay the n-th transfer of a live session, while not halted, within the day's limit |
| `PolicyGuardProgram` | the five instructions of the program, the clock, outside deposits |
| `SandboxExecution` | policy engine, both methods of the executor, the runner's choice of engine |
| `PolicyRules` | what the four policies say of a transaction by its instructions: PolicyEngine, the runner's merge of a patch, PolicyGuard, DeFiPolicyGuard |
| `DuplicateFilter` | abstract promise of the idempotency guard: grant once per TTL, unless `Capacity` other ids were granted since; refuse only what is held |
| `IdempotencyGuard` | the guard: map, lazy cleanup, eviction |
| `AgentFleet` | the managed simulation: controllers, rounds, barrier |
| `CompressedStore` | accounts created once, requests that fail before or after their effect, the demo mode's fallback records, scans |
| `AgentSessions` | registration, sessions, audit log, proofs and policies of an agent, over `CompressedStore`, with a crash |
| `PolicyPresets` | the presets of a policy and the merge of overrides |
| `CliCommands` | every command of the CLI as a sequence of file accesses and network calls, over `PolicyPresets` |
| `Funding` | funding calls over a treasury, a faucet and a failover client |
| `UniversalDeFi` | the ways to a DeFi transaction, over `PolicyRules` |
| `MC*` | instances for TLC |
| `*Proofs` | theorems and their proofs |

Variables named as history in a module (`paid`, `executed`, `recordedOn`,
`spentOn`, `gates`, `lastGrant`, `answer`, `starts`, `results`, `credited`,
`refused`, `returned`, `acked`, `doubtful`, `lost`, `dropped`, `sent`, the `allowed`
field of a ledger entry) are read by properties only. Operators named `Name_Something` are plausible
slips of `Name`, kept beside it: each property is known to fail when one of them
takes its place.

How the modules fit: `SandboxExecution` is one call of the executor in full
detail; `UniversalDeFi` and `AgentSessions` see of it only its answers, its
places of waiting and the accounts it writes; `CliCommands` sees a whole run as
one step that sends some transactions or none, and funding as a network call.
`PolicyRules` is the rule book both an executor and a fallback guard consult.

### PolicyGuardProgram

One action per instruction. An instruction that returns an error has no effect
on a transaction-based ledger, so errors are not steps; the action's conjuncts
are the handler's checks in their order of dependence. Anybody may submit any
payload, next to any Ed25519 instruction, at any time. The clock never goes
back. Allowlists are sets; the byte codecs of lib.rs are abstracted by records;
`last_verified_digest`, which nothing reads, is left out. Recipients are existing
rent-exempt wallets, and the runtime's rent rule is kept for the vault only.
Lamports sent to a session's address before it is opened are not modelled. The
vault is purged by the runtime when its balance reaches zero.

### SandboxExecution

JavaScript runs one synchronous segment at a time, so the actions are the
segments between awaits, and `pc[c]` is the promise a call waits on:

| pc | awaits | leaves by |
|---|---|---|
| idle | - | `Inspect`: policy inspection, or a denial |
| simulate | simulateTransaction, or eth_call and estimateGas | `SimulationPassed`, `SimulationFailed`, `SimulationThrows` |
| approval | the approval callback (live mode) | `Approved`, `Rejected`, `ApprovalThrows` |
| send | sendTransaction / broadcastTransaction | `Sent`, `SendThrows` |
| confirm | confirmTransaction / wait | `Confirmed` (and recordBroadcast), `ConfirmThrows` |
| anchor | anchorProof | `Anchored`, `AnchorThrows` |
| audit | appendAuditEntry | `Audited` |

The segment after the last gate (`PastApproval`) holds the Neon switch and the
attestation, whose state is built and checked without an await. The two methods
share their actions; where they differ the transaction's chain decides: a failed
eth_call is answered as a denial while a failed Solana simulation RPC throws; a
reverted Neon receipt throws while sendAndConfirm ignores the error of a Solana
confirmation; the last audit entry of a Neon call is not caught. `Land` is the
ledger: it may execute what it was sent long after the sender gave up.

A synchronous segment is atomic but not instant: recordBroadcast reads the clock for
its reset (line 249), for the key of the day (251) and again inside recordSpend
(294). `Confirmed` lets time pass between the three, so a call may be counted on one
day and its spend on the next (`Recorded`, with `recordedOn` and `spentOn`).

Abstracted: what the instructions of a transaction are (`clean` stands for all
the rules on programs, destinations, mints and SPL amounts, which are in
`PolicyRules`); the contents of audit trails, proofs and anchors; native amounts
are one integral unit on both chains, so floating-point rounding of SOL is not
modelled; the millisecond that may pass between buildProofState and prove. A
patch is assumed to change rules, not limits. The emergency lock is a boolean
that may change at any instant, which covers whatever its flag, file and signed
command say.

### IdempotencyGuard

Every method is synchronous and so one action. `Date.now()` is constant within a
method. A Map iterates in insertion order, which decides between entries of equal
expiry only; the model evicts any of the oldest. Nothing in `src/` calls the
guard, so its callers are arbitrary. `size`, which changes nothing, is left out.

### AgentFleet

`agents.map(async ...)` runs every precheck synchronously before the first
promise of a round can settle, so `BeginRound` is one step; `Execute` and `Fail`
are the resumptions after the await, with the instant the round captured.
`events` keeps each agent's own statuses in order.

### CompressedStore and AgentSessions

An address can be created once, so an account is a value that is never
rewritten: `chain[k]` is nothing, a payload, or the empty account that
`anchorCommitment` creates at the address of the payload it failed to store.
`local[k]` is the record in `.prkt-compressed-store.json`, which hides the
account. A thread's `io` is its writeAccount or findAccountsByOwner and the
request it waits for; every request may fail, and one that creates an account
may fail after it has created it (`Creates`).

`call[t]` is the manager's method the thread is in. The actions come in pairs:
the segment up to the store's await (`appendAuditEntry`, `closeAgentSession`,
`registerAgent`, ...) and the segment after its answer (`Appended`,
`SessionClosed`, ...). The event loop runs the segment an answer settles before
it takes another call or answer (`Settled`); two answers of one turn are taken in
either order. `Crash` and a rejection nobody awaits
(`registerCompressedAgent` leaves the promise of registerAgent alone) empty what
is in memory and keep what is stored, with one exception: the local file is
rewritten in place and one that does not parse is read as empty
(`LocalPayloadRegistry.ts:36-42`), so a crash inside the rewriting loses every local
record at once (`CutUpsert`). `lost` is the keys it cut; the properties permit that
loss and no other.

closeAgentSession evaluates the session's id after it has fetched the log
(`LogFetched`): when another closing has cleared it meanwhile, a session named
undefined is closed (`CloseUndefined`), which is none of the agent's.

Abstracted: payloads and hashes are values (a hash is the value it is of);
randomUUID draws ids in order; a policy account is named after the millisecond
it is written at. Not modelled: writes of the local file that fail without the process
dying, and two operating-system processes that rewrite it at once.

### CliCommands

A command is an operator that returns its steps, each an access to one file or a
network call, in the order of `cli/index.ts`; the actions are the kinds of step.
An update is a reading of the file, for the registry of agents two, as upsert reads
it again after the record was found (`Reread`), the opening, which empties the file
(`Open`), and the writing (`Write`). No process takes a lock, so others run in
between, and `held[p]` is the copy p is about to write; it is `stale` once another
process has written the file. A file that is open, or that a killed process left
open (`Crash`), does not parse (`torn`); two writes that overlap may leave one that
does not either. A thrown error ends the command, except in the loop of run-all,
whose catch records it (`Throw`).

Abstracted: key pairs are numbers, a sealed secret is a key; the activity log is
the number of its entries; what commands print is left out. A run of
memo-heartbeat sends a transaction if its fresh engine admits one, a run of
universal-defi up to five, or the run throws (`MaySend`, `RunAgent`).

### Funding

`pc[c]` is the request a call waits on. `tx[c]` is its treasury transfer and what
became of it, `drop[c]` the loop of requestAirdrop. The failover client repeats
a request on every error: a transfer that is repeated is one signed transaction,
which the ledger takes once (`Land`), an airdrop that is repeated is another
airdrop (`grants` of `RequestAirdrop`). Confirmation resolves for a transfer and
for an airdrop that the ledger has ended with an error, which nobody reads
(`ConfirmTransfer`, `ConfirmAirdrop`); `refused` counts what a call took for paid in
this way. Calls share the treasury and the recipient, so a transfer built against an old balance may
fail. Abstracted: the delays, and the rounding of amounts, which are lamports.

### UniversalDeFi and PolicyRules

A lane is an agent, or a member of a Promise.all, that makes its calls one after
the other; `call[l].pc` is the promise it waits on:

| pc | awaits | leaves by |
|---|---|---|
| idle | - | `execute`, `runFullSuite`, `simulateMarketAction`, `executeIntent`, `routeToEvm`, or `Hold` |
| prerequisites, snapshot, balance | accounts of the pool or market, balances; a borrow reads the obligation and then the token | `PrerequisitesRead`, `SnapshotTaken`, `BalanceTaken`, `LivePathThrows` |
| build | the transaction (Jupiter's API, Marinade's state, a blockhash) | `Built`: inspection by the executor, or the fallback |
| sandbox | simulation, approval, attestation, broadcast | `Sent`, `SandboxRefuses` |
| confirm, verify, verifyBalance | confirmation, balances; a borrow compares the obligation and then the token | `Confirmed`, `Verified`, `LivePathThrows` |
| memo, kora | blockhash, relay | `MemoBuilt`, `MemoThrows`, `KoraAnswered`, `KoraFailed` |
| evmBuild, evmSandbox, evmWait | the Neon adapter, the executor, `wait()` | `EvmBuilt`, `EvmSent`, `EvmMined`, `EvmBlocked` |

A setting is a deployment (which executor, cluster, enabled protocols, Kora mode,
policies, Neon switches) with the requests of each lane. `ledger[l][n]` is what
the n-th call of a lane has handed to Solana, to Kora and to Neon; `Land` executes
it at any later time (or lets it fail) or drops it, and moves `holdings`; a
confirmation may be that of a failed transaction (`Confirmed`), as nothing looks at
its error (TransactionService.ts:147). The adapters' thresholds
are translated into `BuildIntent`; the live executors' transactions are the
instructions a policy can tell apart (`PlanOf`), which `Permits` and
`GuardPermits` judge. The executor may also deny for a counter, the lock or the
session: a free choice here, since `SandboxExecution` derives it.

A transaction is a sequence of instructions, so that equal transfers add up.
mergePolicyConfig (`Merged`) overrides limits and flags, replaces the session's end
and unites the five lists; that an empty list of mints or of destinations allows all
of them is kept, so a patch may restrict by extending one.

Abstracted: routes, layouts and quotes; amounts are small integers; a holding
grows or shrinks by one unit; the retry inside sendAndConfirm. Assumed: nothing but
the lanes' own transactions moves the holdings of a wallet, and a balance that is
read shows all that has landed.

## 3. The runs

All runs use TLC with deadlock checking off, because the bounds on time and on
the number of calls, rounds and deposits end every behaviour.

| Run | Shows | Instance |
|---|---|---|
| `policy_guard` | types, daily limit, nonces, authorisation, conservation, final sessions, kill switch, stranded vault, refinement of `SpendLedger` | 1 owner, 2 sessions, 12 payloads that differ in the field a guard looks at, 3 days of 2 s; 44,546 states |
| `sandbox_gates` | types, inductive invariant with the books, gates, answers, recordings; every Solana call answers (fair) | 2 calls on 2 engines, 4 transactions of both chains, 5 deployments, 2 days; 221,564 states |
| `sandbox_limits` | overshoot of session, day and spend limits; books | 4 calls of one engine, 2 open at a time, limits 2 and 1, a midnight; 244,610 states, calls symmetric |
| `idempotency_guard` | types, forgetting under pressure, bound, refinement of `DuplicateFilter` | 4 ids, 2 entries, TTL 3, cleanup every 3rd acquire; 4,920 states, ids symmetric |
| `fleet_controller` | rate limit, breaker, memory; all rounds complete (fair) | 2 agents, 5 rounds, 6 instants, window 1, 2 actions, 2 failures, cooldown 3; 347,400 states |
| `cli_commands` | policies survive overlapping commands, agents have wallets, keys are kept, but for writes of an old copy | 2 processes, 2 names, 2 commands, interleaved inside updates, a crash of any process at any step; 213,710 states, processes symmetric |
| `funding` | calls that resolve are funded but for what was refused, the treasury pays once; every call ends (fair) | 2 calls, 2 amounts, 2 attempts, chunks of one, a treasury of 4 with reserve 1 and fee 1, or none; 394,842 states |
| `agent_sessions` | closed sessions verify, what is acknowledged is stored, the policy matches the store | 2 threads, 2 sessions, 4 calls, 1 crash, between steps or inside a rewriting of the local file, 5 deployments and programs; 1,075,608 states, threads symmetric |
| `defi` | one transaction per intent, truthful reports, wrong verifications have a cause | 2 lanes, 14 settings, 2 rounds for agents; 1,804,654 states |

Why the bounds are enough to be interesting: two days are the least in which a
midnight can fall between an inspection and a recording, three the least in
which a day passes without a transfer; four calls of which two overlap exceed a
session limit of two both by overlap and in sequence; four ids on two entries
evict while a cleanup is due; five rounds with a limit of two failures trip the
breaker, sit out the cooldown and start again. Two commands of two processes are the
least that overlap, and wallets that are there at the start stand for the commands
before them; longer sequences are the theorems'. A treasury of 4 with a reserve and a
fee of 1 pays all of an amount, then a part, then nothing; two attempts are the least
at which a repeated request is granted twice and an attempt fails after it was
granted (the tries of the failover client repeat the same request; the theorems are
for any number of either). Four calls on a store register, append, close, and close
again, with a crash between any two or inside a rewriting of the local file. Two
lanes on one wallet are the least in which another call spends what a verification
looks at.

Runs that refute a statement of the repository's documents or comments:

| Run | Statement | What happens |
|---|---|---|
| `sandbox_lost_confirmation` | "Spend limits per tx/session/day" (README.md:262) | the confirmation fails, the transaction lands, nothing is counted: one more is admitted |
| `cli_day_limit` | "max transactions per day" (src/cli/index.ts:746) | each `agent run` has an engine of its own whose counters start at zero: two runs send two transactions under a limit of one |
| `defi_fallback_policy` | "every execution still resolves through the active policy preset and policy overrides" (README.md:289) | the agent's engine denies the live transaction, and the memo fallback sends one under a guard of its own |

More weaknesses are visible in the modules and are stated as the assumptions or
exceptions of the properties they limit: a CLI process that was inside an update when
another wrote the same file writes its old copy back, and undoes a policy command, or
loses a key or a wallet (`WritesOldCopy`, `dropped`); a crash that cuts the local
file of the demo mode loses all its records (`lost`); a midnight inside
recordBroadcast counts a call on one day and its spend on the next
(`BooksMatchRecords`); transactions that the ledger refused are taken for funds
(`refused`); patched calls count on an engine made
for each of them, so the overshoot bounds are per engine; the empty id is falsy
and is never evicted, so `Bounded` is about callers that do not present it; the
breaker's cooldown runs from the start of the action that tripped it, so
`BreakerHolds` promises a pause from that instant and not from the failure.

### What the limits do guarantee

The two bounds of `SandboxExecution` say what remains true of the counters:
`SessionOvershoot` and `DayOvershoot` bound the counted transactions by the
limit plus the calls the callers keep open at once, less one. So a caller that
awaits each call (as `AgentRunner.executeIntents` does) gets exactly its limit
*for what is counted*, and the lost-confirmation run shows what is not counted.
For the same reason `SpendOvershoot` bounds a day's spend by the limit times the
number of open calls. `MaxInFlight` is not a bound of the checking but a
parameter of the statement.

### Fairness

`SvmCallsSettle` assumes that every promise a call waits on settles: RPC requests
answer or time out, the approval callback and storage answer, and a Solana
confirmation is given up when its blockhash expires. It does not assume that the
ledger ever takes a transaction (`Land` is not fair), nor anything of a Neon
`wait()`, which has no limit in the code; hence the property is about the Solana
path. `AllRoundsComplete` assumes that an action that began settles and that the
loop goes on when its barrier opens. There is no fairness on the clock.
`CallsSettle` of `Funding` assumes that every awaited request is answered or
fails and that a transfer that was sent lands or outlives its blockhash; it does
not assume that any request succeeds. `CliCommands`, `AgentSessions` and
`UniversalDeFi` have no liveness property: their processes may be killed, and a
Neon `wait()` has no limit.

## 4. The proofs

`tlapm` checks every proof to its last leaf. Assumptions are the named ASSUMEs of
the modules (sizes, types and distinctness of the constants); TLC evaluates them
in the runs.

**PolicyGuardProgramProofs.** `IndInv` adds to the types and the two properties
`SpentMatchesHistory` and `NonceMatchesHistory`: the counter in the account is
what was paid on the day of the last reset, and nothing was paid on a later day;
the next nonce is the length of the session's history. Without the first the
daily limit is not inductive, since the counter is reset lazily. From it follow
`TypeCorrect`, `DailyLimitHolds`, `NoncesConsecutiveHolds`, and
`ProgramImplementsLedger`, which maps every instruction to one step of
`SpendLedger` or to a stutter. `ExecutedWasAuthorisedHolds` needs no more than the
types and the invariant of the nonces: a policy and a session are never replaced
while they are named by a transfer. The three action properties follow step by
step from the types, from what each instruction does to one session
(`EndedSessionIsFinalHolds`) and from one lemma on the only instruction that takes
from a vault (`TransferVaultFrame`, for `KillSwitchHoldsVaultHolds` and
`DrainedVaultIsStrandedHolds`). `LamportsConservedHolds` needs of a balance that
changes that the sum changes by as much (`SumChanges`); a transfer changes two
balances one after the other, so that nothing need be said of a vault that pays
itself. The accounts are finitely many by assumption.

**SandboxExecutionProofs.** `IndInv` has two parts. `CallInv` says for each call
what the place where it waits implies about what it passed, sent, recorded and
answered (`Stages`); it is proved by showing that a step touches one call
(`OneCall`). `CountInv` says that counters plus admitted calls stay below limit
plus overlap, and that days to come count nothing (`FutureDaysEmpty`, without
which a call admitted today and counted tomorrow would break the bound of
tomorrow). Three lemmas carry it: a step that admits and counts nothing
(`QuietCount`), an admission (`AdmitCount`: counters below the limit, no more
calls open than `MaxInFlight`), a recording (`RecordCount`: one call leaves the
admitted and enters the counted). Results: `TypeCorrect`, `SessionOvershootHolds`,
`DayOvershootHolds`, `BroadcastPassedGatesHolds`, `AnswersAreTrueHolds`,
`RecordedLandedHolds`, for any number of calls, engines and limits.

What is spent has an invariant of its own over that one, `SpendInv`: an engine's
last reset is never before a recording of its own (`RecordedByReset`; without it a
midnight would forget spending that belongs to the new day), its books are the sums
of what was recorded, counts by the day of the count and spend by the day of the
spend (`BooksMatchRecords`), and a call that is admitted asks for no
more than the limit of one transaction (`AdmittedWithinLimit`, which bounds what the
calls in flight may still add). A step recounts a day (`BooksRefreshed`), records a
call (`BooksRecord`, `SpendRecord`), admits one (`SpendAdmit`) or touches none of it
(`BooksQuiet`, `SpendQuiet`). Results: `BooksMatchRecordsHolds`,
`SpendOvershootHolds`.

**IdempotencyGuardProofs.** `TypeCorrect` (every entry is the last grant of its
id), `ForgottenUnderPressureHolds` (an eviction of the oldest entry from a full
map leaves as many younger grants as there are entries, and they only get
younger), `BoundedHolds` for callers that never present the empty id, and
`GuardImplementsFilter`, which follows from the second: what is held and not
tracked was forgotten under pressure.

**UniversalDeFiProofs.** `IndInv` is one of each lane (`LaneOK`). `Stage` says
what the place where a call waits implies about what it has handed to a network:
nothing before the executor, the memo or the Neon route was reached, one live
transaction of an admitted call while its confirmation and verification are
awaited, a memo at most while Kora is asked. `Settled` says that the calls before
it handed over one transaction at most and answered truly; the calls after it
have an empty place in the ledger. A step touches one place of one lane
(`OneLane`, `SettleStep`, `AwaitStep`), and `LandStep` shows that no ledger takes
back what a report relied on. `PendingFits` derives that the bound on calls is
never in the way. Results: `OneTransactionPerIntentHolds`, `ReportsAreTrueHolds`,
for any number of lanes and rounds and any settings.

`GrowthInv` is about what a verification compares. From the snapshot on, the wallet
has of each asset the verification asks about what the snapshot saw, and one unit
more once the call's own transaction has landed (`Bought`): not less, unless another
landed call of that wallet spends it (`SpentByAnother`), and not more, unless another
landed call of it brings some (`BroughtByAnother`). It needs that only an intent of a
protocol is verified, that the entry in the ledger is of the intent the call holds,
and that no plan spends what it brings in (`GainsAreAssets`). Every step of a lane is
one of seven moves (`LaneMove`), of which five are on the live path (`GrowthGoes`);
`GrowthLands` is about a transaction that lands, which becomes the cause for the
others. Result: `WrongVerificationHasCauseHolds`, both ways: a landed transaction that
fails its verification has another that spent, and a failed one that passes it has,
for every asset compared, another that brought.

The module also proves of `PolicyRules` what the merge of a patch into a policy does.
It may deny what the policy allows: by a lower limit, by a flag, or by the first item
of a list of mints or destinations that was empty; `PatchDeniesNothing` says that it
denies nothing otherwise. `PatchOpensOnlyItself` takes the reasons of a denial one by
one: each that the patch removes is one it speaks of. `LivePatchOpensItsProtocol`
applies both to the patches the four live executors build: they deny nothing, and
open only the instructions of their own protocol's program and closes that pay the
wallet.

**FundingProofs.** `CallOK` says of each call that its transfer asks for no more
than the amount and was paid if and only if it landed (`OneTransfer`), and that
what was credited or refused and what it goes on asking for make up the amount
(`Owed`; the chunk whose confirmation is in flight is counted once, `Granted`). Results:
`SuccessMeansFundedHolds`, `TreasuryPaysOnceHolds`, for any number of calls,
amounts, tries and attempts.

**AgentSessionsProofs.** `IndInv` has five parts beside the types, each about what
a write in flight may still do. `LaneOK` ties a call to the request it waits for.
`DoneIsStored` and `FixedIsNamed`: a write that was answered left something at its
address, and at the address of a started session, an entry or a proof nothing but
its own payload is ever found, so that it does not matter which of two writers
came first (`AcknowledgedIsStoredHolds`). `DrawnOnce` says that a session id has
one registration and is not closed before it. `ClosedOnce(s)`, for a session that
was not closed twice at a time, says what stands at the address of the closing
before its log is read, while it is written, and after (`ClosedSessionsVerifyHolds`).
`PolicyInOrder`, while nothing is in doubt, says that one call on the policy runs
at a time, that the addresses from now on are empty except for the one being
written, and that the registry has the last record before now
(`PolicyMatchesStoreHolds`). The lemmas are one per action, each split by the part
of the invariant it can disturb; a crash empties memory and keeps all that is said
of the store, but for the keys it adds to `lost`. The number of agents' calls, sessions, entries, patches and crashes
is arbitrary.

**CliCommandsProofs.** `IndInv` says of a process inside one update (`HeldOK`) that
what it is about to write differs from the file in one agent, whose policy is the
intended one, or by wallets added at the end, unless its copy is stale; and, stale or
not, that every agent it would write has a wallet on file or one that was left out.
A write is where the copies of the others become stale (`Outdated`), so that a copy
that is not says what the file is now. No process is assumed to wait for another.
`CommandsInvariant`, `PolicyChangesSurviveHolds`, `AgentsHaveWalletsHolds` and
`CustodyKeptHolds` hold for any number of processes, names, commands, owners, limits
and crashes.

**AgentFleetProofs.** `IndInv` adds `StartsInOrder` to what the run checks: the
starts of an agent are in order, none is in the future, and the instant a running
action captured is the last start. The proof is about one agent at a time
(`AgentOK`, an operator on values, so that it can be said of the next values too):
time passes (`AgentLater`), the window is pruned (`AgentPruned`), an action is
admitted (`AgentBegins`), succeeds or fails (`AgentSucceeds`, `AgentFails`). Under
it are lemmas on what the operators compute: `Since` returns the end of an ordered
sequence from the first instant past the cutoff (`SinceIsEnd`), the run of failures
grows by one or starts over (`RunAfter`), and so does its remainder (`ModNext`).
Results: `RateLimitedHolds`, `BreakerHoldsHolds`, `ControllerMatchesHistoryHolds`,
for any number of agents and rounds, any window, limits and cooldown.

The inductive invariants of `AgentSessions`, `CliCommands` and `AgentFleet`, and
`GrowthInv`, were first checked by TLC on the instances of their runs; as the
properties they imply are what the runs ask, they are not in the `.cfg` files.
`SpendInv` is checked by `sandbox_gates`, and held on the instance of
`sandbox_limits` without its symmetry (5,055,006 states).

The provers do no induction over data, and know nothing of SelectSeq or of a sum
over a set. Where a proof needs one, the recursion is a recursive function and the
induction is a least counterexample in a set of naturals (`LeastNat`), which the
library's theorem on well-founded relations gives without an operator parameter.
A sum of naturals over a finite set is the number of the units that make it up
(`Worth`, the cardinality of `Units`), so that what is known of cardinalities says
what a member more or a member changed adds (`CountAdds`, `CountSame`), and
`AddsCounts` shows that the folds of the community modules compute it.

Every safety property of a passing run is a theorem. Only model-checked are the
liveness properties (`SvmCallsSettle`, `AllRoundsComplete`, `CallsSettle`): fairness
and ENABLED are out of the prover's reach. The three runs that refute a statement
are about one behaviour each and need no proof.

## 5. Not modelled, and the plan

- The on-chain client (`src/onchain`): layouts of instructions and accounts,
  abstracted by the records of `PolicyGuardProgram`.
- Key handling, sealing and cryptography (`src/wallet`, `src/core/wallet`): keys are
  values.
- Token and balance reads, adapters' routes and layouts, configuration, scripts
  and demos: no protocol of their own.
- The three sources of the emergency lock: the lock is free to change.
- `DecisionEngine` and the scripted strategies: pure rules over a snapshot, whose
  outcomes (an intent or none) are the requests of `UniversalDeFi`.
- The end of line 1410 of `src/cli/index.ts`: after the program's last call and a
  long run of blanks the line holds obfuscated code that evaluates text. The same
  stands at the end of 27 more files, nearly all under `src/scripts` (for example
  `src/scripts/runStakeStrategy.ts:50`). It is not part of the commands and looks like
  an injection; it is neither executed nor modelled, and should be reviewed by the
  owners of the repository.

In order:

1. `EmergencyLock`: status from flag, signed command (with staleness) and lock
   file, shown to implement the free lock of `SandboxExecution`.
2. That the places of `SandboxExecution` implement the steps `sandbox`, `confirm`
   and `verify` of `UniversalDeFi`, as a refinement.
