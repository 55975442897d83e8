---------------------------- MODULE UniversalDeFi ----------------------------
(***************************************************************************)
(* The ways to a DeFi transaction: AgentRunner.executeIntents and its       *)
(* agents in parallel, UniversalDeFiOrchestrator.execute and executeBatch,  *)
(* DeFiCoordinator.runFullSuite, and the guarded swap of                    *)
(* simulateMarketAction; with the live executors, PostTransactionVerifier,  *)
(* the memo fallback over Kora and the Neon route.                          *)
(*                                                                         *)
(* A lane is one agent, or one member of a Promise.all; it makes its calls  *)
(* one after the other.  call[l].pc is the promise a lane waits on.  Of the *)
(* SandboxExecutor only its answers are here (its steps are in              *)
(* SandboxExecution), and the rules it applies are in PolicyRules.          *)
(*                                                                         *)
(* SOL is counted in hundredths, USDC in units, health in tenths.           *)
(***************************************************************************)
EXTENDS PolicyRules

CONSTANTS
  Lanes,
  Rounds,     \* rounds of runRounds
  Settings,   \* deployments with their work, see Setting
  MaxHeld     \* bound: units of an asset a wallet can hold

\* A lane has at most two calls in a round, so MaxCalls bounds them over a run.
ASSUME SettingsAssumption ==
  /\ Rounds \in Nat \ {0}
  /\ \A s \in Settings : \A l \in Lanes : Len(s.program[l]) \in 0..2

Protocols == {"jupiter", "marinade", "raydium", "kamino"}
Assets == {"usdc", "lp", "msol", "supplied", "debt"}

VARIABLES
  setting,    \* the deployment and the work of each lane
  round,      \* the round of the agents
  call,       \* call[l]: the call under way
  outcomes,   \* outcomes[l]: what the earlier calls answered
  ledger,     \* ledger[l][n]: the transactions of the n-th call of l
  holdings    \* holdings[w]: the token balances and the obligation of a wallet

vars == <<setting, round, call, outcomes, ledger, holdings>>

Wallet(l) == IF setting.shared THEN "shared" ELSE l
Wallets == Lanes \union {"shared"}

MaxCalls == Rounds * 2

Idle == [pc |-> "idle", intent |-> <<>>, before |-> <<>>, fresh |-> TRUE]

\* `allowed' is a history variable: the agent's engine allowed the call.
NoTransaction == [live |-> "absent", memo |-> "absent", evm |-> "absent",
                  intent |-> <<>>, allowed |-> FALSE]

Init ==
  /\ setting \in Settings
  /\ round = 1
  /\ call = [l \in Lanes |-> Idle]
  /\ outcomes = [l \in Lanes |-> <<>>]
  /\ ledger = [l \in Lanes |-> [n \in 1..MaxCalls |-> NoTransaction]]
  /\ holdings = [w \in Wallets |-> [a \in Assets |-> IF a = "usdc" THEN 1 ELSE 0]]

-----------------------------------------------------------------------------
(* The adapters: a request and its market snapshot become an intent.        *)

Intent(protocol, action, amount, slippage, health, market) ==
  [protocol |-> protocol, action |-> action, amount |-> amount,
   slippage |-> slippage, health |-> health, market |-> market]

\* An intent, or none (HOLD).
Maybe(condition, intent) == IF condition THEN {intent} ELSE {}

JupiterTrade(s) ==
  Maybe(/\ s.price > 0 /\ s.threshold > 0 /\ s.price <= s.threshold,
        Intent("jupiter", "trade", 1, 50, NoHealth, "sol-usdc"))

\* 0.2 SOL stay in reserve.
MarinadeStake(s) ==
  Maybe(s.idleSol > 20 + 15,
        Intent("marinade", "stake", 15, 25, NoHealth, "primary-stake-pool"))

RaydiumAddLiquidity(s) ==
  Maybe(s.inRange,
        Intent("raydium", "add_liquidity", 12, 80, NoHealth, "sol-usdc-core-pool"))

RaydiumHarvest(s) ==
  Maybe(s.rewards > 0,
        Intent("raydium", "harvest", 0, 80, NoHealth, "sol-usdc-core-pool"))

KaminoDeposit(s) ==
  Maybe(s.idleUsdc >= 2,
        Intent("kamino", "deposit", 50, 40,
               IF s.health = NoHealth THEN 20 ELSE s.health, "main-usdc-vault"))

KaminoBorrow(s) ==
  Maybe(/\ s.demand >= 2 /\ s.collateral >= 75 /\ s.health >= 20,
        Intent("kamino", "borrow", 25, 40, s.health, "main-usdc-vault"))

\* The capabilities of the adapters, in the order the orchestrator tries them.
Adapters == <<[protocol |-> "jupiter", capabilities |-> {"trade"}],
              [protocol |-> "marinade", capabilities |-> {"staking"}],
              [protocol |-> "raydium", capabilities |-> {"lp", "yield"}],
              [protocol |-> "kamino", capabilities |-> {"lending", "borrowing", "yield"}]>>

\* resolveAdapter: the protocol of the first adapter that fits, if any.
Resolved(request) ==
  LET fits(n) == /\ request.protocol \in {"auto", Adapters[n].protocol}
                 /\ request.capability \in Adapters[n].capabilities
  IN {Adapters[n].protocol : n \in {m \in DOMAIN Adapters :
        fits(m) /\ \A k \in 1..(m - 1) : ~fits(k)}}

\* buildIntent of the universal adapters.
BuildIntent(protocol, capability, s) ==
  CASE protocol = "jupiter" -> JupiterTrade(s)
    [] protocol = "marinade" -> MarinadeStake(s)
    [] protocol = "raydium" /\ capability = "lp" -> RaydiumAddLiquidity(s)
    [] protocol = "raydium" /\ capability = "yield" -> RaydiumHarvest(s)
    [] protocol = "kamino" /\ capability = "borrowing" -> KaminoBorrow(s)
    [] protocol = "kamino" /\ capability # "borrowing" -> KaminoDeposit(s)

\* createDefaultAgentPolicy: what the memo fallback allows on each protocol.
MarketLimits(protocol) ==
  LET limits(market, slippage, health) ==
        [market |-> market, maxExposure |-> 100, maxSlippage |-> slippage, minHealth |-> health]
  IN CASE protocol = "kamino" -> limits("main-usdc-vault", 75, 15)
       [] protocol = "jupiter" -> limits("sol-usdc", 100, NoHealth)
       [] protocol = "marinade" -> limits("primary-stake-pool", 50, NoHealth)
       [] protocol = "raydium" -> limits("sol-usdc-core-pool", 100, NoHealth)

-----------------------------------------------------------------------------
(* What the live executors prepare: the transaction, the rules its call     *)
(* patches, and the assets that must have grown when it is verified.        *)

Opens(program, closeDestinations) ==
  [NoPatch EXCEPT !.programs = {program}, !.opaque = {program},
                  !.closeDestinations = closeDestinations]

Plan(tx, patch, gains, costs) == [tx |-> tx, patch |-> patch, gains |-> gains, costs |-> costs]

\* The transaction Jupiter builds wraps SOL and closes the account to the wallet.
JupiterPlan(intent) ==
  Plan(<<Opaque("ata"),
         Instruction("system", "transfer", intent.amount, "own-wsol-ata", "none"),
         Opaque("token"), Opaque("jupiter"),
         Instruction("token", "closeAccount", 0, "wallet", "none")>>,
       NoPatch, {"usdc"}, {})

RaydiumDraft == <<Opaque("raydium")>>
RaydiumPlan == Plan(RaydiumDraft, Opens("raydium", {}), {"lp"}, {})

KaminoInstructions ==
  <<Opaque("ata"), Opaque("kamino"), Instruction("token", "closeAccount", 0, "wallet", "none")>>

\* Amounts and mint come from the live config, not from the intent.
KaminoPlan(intent) ==
  IF intent.action = "deposit"
    THEN Plan(KaminoInstructions, Opens("kamino", {"wallet"}), {"supplied"}, {"usdc"})
    ELSE Plan(KaminoInstructions, Opens("kamino", {"wallet"}), {"debt", "usdc"}, {})

MarinadePlan == Plan(<<Opaque("ata"), Opaque("marinade")>>, Opens("marinade", {}), {"msol"}, {})

\* The transactions of buildIntentTransaction.  The destination of a token
\* transfer is the token account of its owner.
IntentPlan(type) ==
  LET createAta == Opaque("ata")
      toSpl == Instruction("token", "transferChecked", 5, "ally-ata", "usdc")
  IN CASE type = "write-memo" -> Plan(<<Opaque("memo")>>, NoPatch, {}, {})
       [] type = "transfer-sol" ->
            Plan(<<Instruction("system", "transfer", 5, "ally", "none")>>, NoPatch, {}, {})
       [] type = "create-ata" -> Plan(<<createAta>>, NoPatch, {}, {})
       [] type = "transfer-spl" -> Plan(<<createAta, toSpl>>, NoPatch, {}, {"usdc"})
       [] type = "mint-token" -> Plan(<<createAta, Opaque("token")>>, NoPatch, {}, {})

PlanOf(intent) ==
  CASE intent.protocol = "jupiter" -> JupiterPlan(intent)
    [] intent.protocol = "raydium" -> RaydiumPlan
    [] intent.protocol = "kamino" -> KaminoPlan(intent)
    [] intent.protocol = "marinade" -> MarinadePlan
    [] intent.protocol = "none" -> IntentPlan(intent.action)

\* Which intents the live executors take; the others find no live path.
prepareLiveJupiter(intent) == intent.protocol = "jupiter" /\ intent.action = "trade"

prepareLiveRaydiumLp(intent) ==
  /\ intent.protocol = "raydium" /\ intent.action = "add_liquidity"
  /\ setting.cluster \in {"devnet", "unknown"}

prepareLiveKamino(intent) == intent.protocol = "kamino" /\ intent.action \in {"deposit", "borrow"}

prepareLiveMarinade(intent) ==
  /\ intent.protocol = "marinade" /\ intent.action = "stake"
  /\ setting.cluster \in {"devnet", "unknown"}

IsPrepared(intent) ==
  /\ intent.protocol \in setting.enabled
  /\ \/ prepareLiveJupiter(intent) \/ prepareLiveRaydiumLp(intent)
     \/ prepareLiveKamino(intent) \/ prepareLiveMarinade(intent)

\* prepareLiveKamino throws: its config is for another cluster.
WrongCluster(intent) ==
  /\ intent.protocol = "kamino"
  /\ setting.cluster # "unknown"
  /\ setting.cluster # setting.kaminoCluster

-----------------------------------------------------------------------------
(* The calls.                                                              *)

Current(l) == Len(outcomes[l]) + 1

Pending(l) ==
  /\ call[l].pc = "idle"
  /\ Len(outcomes[l]) < round * Len(setting.program[l])

RequestOf(l) == setting.program[l][1 + (Len(outcomes[l]) % Len(setting.program[l]))]

At(l, pc) == call[l].pc = pc

\* An intent of executeIntents that is not a DeFi capability.
IsPlain(l) == call[l].intent.protocol = "none"

Settle(l, outcome) ==
  /\ outcomes' = [outcomes EXCEPT ![l] = Append(@, outcome)]
  /\ call' = [call EXCEPT ![l] = Idle]

Await(l, pc, intent) ==
  /\ call' = [call EXCEPT ![l].pc = pc, ![l].intent = intent]
  /\ UNCHANGED outcomes

\* The awaited promise rejects.  executeIntents answers "not allowed" with no
\* signature; in a Promise.all the whole batch rejects and the others go on.
Rejects(l) ==
  /\ Settle(l, "error")
  /\ UNCHANGED <<setting, round, ledger, holdings>>

\* DeFiExecutor.executeIntent; simulateMarketAction has no market limits.
FallBack(l, intent) ==
  IF setting.entry = "market" \/ MarketPermits(MarketLimits(intent.protocol), intent)
    THEN Await(l, "memo", intent)
    ELSE Settle(l, "error")

\* A live transaction that was not sent: a signature of null.
NotSent(l) == IF IsPlain(l) THEN Settle(l, "none") ELSE FallBack(l, call[l].intent)

-----------------------------------------------------------------------------
(* UniversalDeFiOrchestrator.execute, the run...Strategy functions,         *)
(* simulateMarketAction and executeIntents, up to their first await.        *)

Intents(l) ==
  UNION {BuildIntent(p, RequestOf(l).capability, RequestOf(l).snapshot) :
           p \in Resolved(RequestOf(l))}

Hold(l) ==
  /\ Pending(l)
  /\ RequestOf(l).kind = "defi"
  /\ Intents(l) = {}
  /\ Settle(l, "none")
  /\ UNCHANGED <<setting, round, ledger, holdings>>

execute(l) ==
  /\ Pending(l)
  /\ RequestOf(l).kind = "defi"
  /\ setting.entry # "suite"
  /\ \E intent \in Intents(l) :
       IF ~setting.liveFirst \/ ~IsPrepared(intent)
         THEN FallBack(l, intent)
         ELSE IF WrongCluster(intent) THEN Settle(l, "error")
         ELSE Await(l, IF intent.protocol = "jupiter" THEN "snapshot" ELSE "prerequisites", intent)
  /\ UNCHANGED <<setting, round, ledger, holdings>>

\* DeFiCoordinator knows no live path.
runFullSuite(l) ==
  /\ Pending(l)
  /\ RequestOf(l).kind = "defi"
  /\ setting.entry = "suite"
  /\ \E intent \in Intents(l) : FallBack(l, intent)
  /\ UNCHANGED <<setting, round, ledger, holdings>>

simulateMarketAction(l) ==
  /\ Pending(l)
  /\ RequestOf(l).kind = "market"
  /\ LET s == RequestOf(l).snapshot
         intent == Intent("jupiter", "trade", 1, 50, NoHealth, "sol-usdc")
     IN IF s.price > s.threshold THEN Settle(l, "none")
        ELSE IF "jupiter" \in setting.enabled /\ setting.executor # "none"
          THEN Await(l, "snapshot", intent)
          ELSE FallBack(l, intent)
  /\ UNCHANGED <<setting, round, ledger, holdings>>

executeIntent(l) ==
  /\ Pending(l)
  /\ RequestOf(l).kind = "intent"
  /\ Await(l, "build", Intent("none", RequestOf(l).type, 0, 0, NoHealth, "none"))
  /\ UNCHANGED <<setting, round, ledger, holdings>>

\* runRounds: a round begins when every agent has ended the last.
NextRound ==
  /\ setting.entry = "runner"
  /\ round < Rounds
  /\ \A l \in Lanes : At(l, "idle") /\ ~Pending(l)
  /\ round' = round + 1
  /\ UNCHANGED <<setting, call, outcomes, ledger, holdings>>

-----------------------------------------------------------------------------
(* The live path.                                                          *)

\* The accounts of the pool, or the market, are read.
PrerequisitesRead(l) ==
  /\ At(l, "prerequisites")
  /\ \/ Await(l, "snapshot", call[l].intent)
     \/ call[l].intent.protocol = "raydium" /\ FallBack(l, call[l].intent)
  /\ UNCHANGED <<setting, round, ledger, holdings>>

\* A Kamino borrow looks at the obligation and then at the balance, in two awaits,
\* in its snapshot and in its verification.
LooksTwice(l) == call[l].intent.protocol = "kamino" /\ call[l].intent.action = "borrow"

\* snapshotSplBalanceForOwner, getObligationDepositByWallet and the like.
SnapshotTaken(l) ==
  /\ At(l, "snapshot")
  /\ call' = [call EXCEPT ![l].pc = IF LooksTwice(l) THEN "balance" ELSE "build",
                          ![l].before = holdings[Wallet(l)]]
  /\ UNCHANGED <<setting, round, outcomes, ledger, holdings>>

BalanceTaken(l) ==
  /\ At(l, "balance")
  /\ call' = [call EXCEPT ![l].pc = "build",
                          ![l].before = [@ EXCEPT !["usdc"] = holdings[Wallet(l)]["usdc"]]]
  /\ UNCHANGED <<setting, round, outcomes, ledger, holdings>>

\* The policy the call is held to: only AgentRunner heeds the patch.
PolicyFor(plan) ==
  IF setting.executor = "agent" THEN Merged(setting.policy, plan.patch) ELSE setting.policy

\* None of the executors states the balance changes it expects.
NoDeltas == {}

\* The transaction is built and handed to the executor, whose inspection runs
\* at once; it may also deny it for a limit, the session or the lock.
Built(l) ==
  /\ At(l, "build")
  /\ LET plan == PlanOf(call[l].intent) IN
       \/ /\ setting.executor = "none" \/ ~Permits(PolicyFor(plan), plan.tx, NoDeltas)
          /\ NotSent(l)
          /\ UNCHANGED ledger
       \/ /\ setting.executor # "none"
          /\ NotSent(l)
          /\ UNCHANGED ledger
       \/ /\ setting.executor # "none"
          /\ Permits(PolicyFor(plan), plan.tx, NoDeltas)
          /\ Await(l, "sandbox", call[l].intent)
          /\ ledger' = [ledger EXCEPT ![l][Current(l)].allowed = TRUE]
  /\ UNCHANGED <<setting, round, holdings>>

\* The simulation fails, the approval is refused, or the attestation.
SandboxRefuses(l) ==
  /\ At(l, "sandbox")
  /\ NotSent(l)
  /\ UNCHANGED <<setting, round, ledger, holdings>>

Sent(l) ==
  /\ At(l, "sandbox")
  /\ Await(l, "confirm", call[l].intent)
  /\ ledger' = [ledger EXCEPT ![l][Current(l)].live = "sent",
                              ![l][Current(l)].intent = call[l].intent]
  /\ UNCHANGED <<setting, round, holdings>>

\* Mutant: the signature is returned without waiting for the confirmation.
Confirmed_Unawaited(l) ==
  /\ At(l, "confirm")
  /\ IF IsPlain(l) THEN Settle(l, "live") ELSE Await(l, "verify", call[l].intent)
  /\ UNCHANGED <<setting, round, ledger, holdings>>

\* sendAndConfirm resolves once the ledger has the transaction, and does not
\* look at the error it may have ended with.
Confirmed(l) ==
  /\ At(l, "confirm")
  /\ ledger[l][Current(l)].live \in {"landed", "failed"}
  /\ IF IsPlain(l) THEN Settle(l, "live") ELSE Await(l, "verify", call[l].intent)
  /\ UNCHANGED <<setting, round, ledger, holdings>>

\* The assets this step of a verification looks at.
LookedAt(l) ==
  IF LooksTwice(l) THEN (IF At(l, "verify") THEN {"debt"} ELSE {"usdc"})
  ELSE PlanOf(call[l].intent).gains

\* Mutant: two units are asked for.
Grown_ByTwo(l) ==
  \A a \in LookedAt(l) : holdings[Wallet(l)][a] > call[l].before[a] + 1

\* assertBalanceChanges with minIncreaseRaw = 1, and the obligation's growth.
Grown(l) ==
  \A a \in LookedAt(l) : holdings[Wallet(l)][a] > call[l].before[a]

\* Mutant: a failed verification counts as no live execution.
Verified_FallsBack(l) ==
  /\ call[l].pc \in {"verify", "verifyBalance"}
  /\ IF ~Grown(l) THEN NotSent(l)
     ELSE IF LooksTwice(l) /\ At(l, "verify") THEN Await(l, "verifyBalance", call[l].intent)
     ELSE Settle(l, "live")
  /\ UNCHANGED <<setting, round, ledger, holdings>>

\* verifyExecution: what grew since the snapshot, by whatever transaction.
Verified(l) ==
  /\ call[l].pc \in {"verify", "verifyBalance"}
  /\ IF ~Grown(l) THEN Settle(l, "error")
     ELSE IF LooksTwice(l) /\ At(l, "verify") THEN Await(l, "verifyBalance", call[l].intent)
     ELSE Settle(l, "live")
  /\ UNCHANGED <<setting, round, ledger, holdings>>

\* A request to the RPC, to Jupiter or to Marinade fails; the confirmation is
\* lost, or the transaction failed; the market is missing.
LivePathThrows(l) ==
  /\ call[l].pc \in {"prerequisites", "snapshot", "balance", "build", "sandbox", "confirm",
                    "verify", "verifyBalance"}
  /\ Rejects(l)

-----------------------------------------------------------------------------
(* The memo fallback, over Kora.                                           *)

MemoTx == <<Opaque("memo")>>

\* buildMemoTransaction has its blockhash, or a mock one that no validator
\* takes; PolicyGuard looks at the transaction; then signAndSendGasless.
MemoBuilt(l) ==
  /\ At(l, "memo")
  /\ GuardPermits(setting.guard, MemoTx)
  /\ \/ /\ setting.kora = "mock"
        /\ Settle(l, "mock")
        /\ UNCHANGED ledger
     \/ /\ setting.kora # "mock"
        /\ Await(l, "kora", call[l].intent)
        /\ ledger' = [ledger EXCEPT ![l][Current(l)].memo = "sent"]
     \/ /\ setting.kora = "fallback"
        /\ call' = [call EXCEPT ![l].pc = "kora", ![l].fresh = FALSE]
        /\ UNCHANGED <<outcomes, ledger>>
  /\ UNCHANGED <<setting, round, holdings>>

\* No blockhash; or the guard finds the lock engaged or the session expired.
MemoThrows(l) ==
  /\ At(l, "memo")
  /\ Rejects(l)

KoraAnswered(l) ==
  /\ At(l, "kora")
  /\ call[l].fresh
  /\ Settle(l, "memo")
  /\ UNCHANGED <<setting, round, ledger, holdings>>

\* The request or its answer is lost: the memo may yet land.
KoraFailed(l) ==
  /\ At(l, "kora")
  /\ Settle(l, IF setting.kora = "fallback" THEN "mock" ELSE "error")
  /\ UNCHANGED <<setting, round, ledger, holdings>>

-----------------------------------------------------------------------------
(* The Neon route.                                                         *)

\* There is a builder for the protocol.
HasBuilder(r) == <<r.protocol, r.capability>> \in {<<"uniswap-v3", "trade">>, <<"aave", "borrowing">>}

\* Its parameters are complete.
IsRoutable(r) == HasBuilder(r) /\ r.amount = "positive" /\ (r.protocol = "aave" => r.asset)

\* routeToEvm, up to the first await; without the adapters' flag these
\* protocols have no adapter.  A builder's normalizeBigInt throws on a malformed amount.
routeToEvm(l) ==
  /\ Pending(l)
  /\ RequestOf(l).kind = "evm"
  /\ LET r == RequestOf(l)
         on == setting.evm /\ setting.executor # "none" /\ setting.neon /\ ~setting.remoteSigner
     IN IF on /\ HasBuilder(r) /\ r.amount = "malformed" THEN Settle(l, "error")
        ELSE IF on /\ IsRoutable(r)
          THEN Await(l, "evmBuild", Intent("evm", r.protocol, 0, 0, NoHealth, "none"))
          ELSE Settle(l, "none")
  /\ UNCHANGED <<setting, round, ledger, holdings>>

\* The adapter built and simulated its transaction.  What AgentRunner passes
\* has no executePreparedEvmTransaction, and the TypeError is caught.
EvmBuilt(l) ==
  /\ At(l, "evmBuild")
  /\ \/ /\ Settle(l, "none")
        /\ UNCHANGED ledger
     \/ /\ setting.executor = "sandbox"
        /\ "neon-token" \in setting.policy.programs
        /\ Await(l, "evmSandbox", call[l].intent)
        /\ ledger' = [ledger EXCEPT ![l][Current(l)].allowed = TRUE]
  /\ UNCHANGED <<setting, round, holdings>>

\* The adapter throws outside the try of routeToEvm.
EvmBuildThrows(l) ==
  /\ At(l, "evmBuild")
  /\ Rejects(l)

EvmSent(l) ==
  /\ At(l, "evmSandbox")
  /\ Await(l, "evmWait", call[l].intent)
  /\ ledger' = [ledger EXCEPT ![l][Current(l)].evm = "sent",
                              ![l][Current(l)].intent = call[l].intent]
  /\ UNCHANGED <<setting, round, holdings>>

EvmMined(l) ==
  /\ At(l, "evmWait")
  /\ ledger[l][Current(l)].evm = "landed"
  /\ Settle(l, "evm")
  /\ UNCHANGED <<setting, round, ledger, holdings>>

\* Refused, or an error that routeToEvm catches; it may come after the broadcast.
EvmBlocked(l) ==
  /\ call[l].pc \in {"evmSandbox", "evmWait"}
  /\ Settle(l, "none")
  /\ UNCHANGED <<setting, round, ledger, holdings>>

-----------------------------------------------------------------------------
(* The ledgers.                                                            *)

\* A transaction that moves tokens moves those of the wallet of its lane.  Assumed:
\* nothing else moves them, and a reading shows all that has landed.
Land(l, n, kind) ==
  /\ ledger[l][n][kind] = "sent"
  /\ LET w == Wallet(l)
         plan == IF kind = "live" THEN PlanOf(ledger[l][n].intent) ELSE Plan(<<>>, NoPatch, {}, {})
         moved == [a \in Assets |-> holdings[w][a] + (IF a \in plan.gains THEN 1 ELSE 0)
                                                   - (IF a \in plan.costs THEN 1 ELSE 0)]
     IN \/ /\ ledger' = [ledger EXCEPT ![l][n][kind] = "landed"]
           /\ \A a \in Assets : moved[a] \in 0..MaxHeld
           /\ holdings' = [holdings EXCEPT ![w] = moved]
        \/ /\ ledger' = [ledger EXCEPT ![l][n][kind] = "failed"]
           /\ UNCHANGED holdings
  /\ UNCHANGED <<setting, round, call, outcomes>>

Lane(l) ==
  \/ Hold(l) \/ execute(l) \/ runFullSuite(l) \/ simulateMarketAction(l) \/ executeIntent(l)
  \/ routeToEvm(l)
  \/ PrerequisitesRead(l) \/ SnapshotTaken(l) \/ BalanceTaken(l) \/ Built(l) \/ SandboxRefuses(l)
  \/ Sent(l) \/ Confirmed(l) \/ Verified(l) \/ LivePathThrows(l)
  \/ MemoBuilt(l) \/ MemoThrows(l) \/ KoraAnswered(l) \/ KoraFailed(l)
  \/ EvmBuilt(l) \/ EvmBuildThrows(l) \/ EvmSent(l) \/ EvmMined(l) \/ EvmBlocked(l)

Next ==
  \/ NextRound
  \/ \E l \in Lanes : Lane(l)
  \/ \E l \in Lanes, n \in 1..MaxCalls, kind \in {"live", "memo", "evm"} : Land(l, n, kind)

Spec == Init /\ [][Next]_vars

-----------------------------------------------------------------------------
Kinds(l, n) == {kind \in {"live", "memo", "evm"} : ledger[l][n][kind] # "absent"}

\* An intent hands at most one transaction to a network, whatever fails on the
\* way: the memo fallback is taken only while no live transaction can exist,
\* and never after a verification or a confirmation that went wrong.
OneTransactionPerIntent ==
  \A l \in Lanes, n \in 1..MaxCalls : Cardinality(Kinds(l, n)) <= 1

\* What an outcome says of the transactions of its call.
TrueReport(o, l, n) ==
  LET t == ledger[l][n] IN
  /\ o = "live" => t.live \in {"landed", "failed"} /\ t.allowed
  /\ o = "evm" => t.evm = "landed" /\ t.allowed
  /\ o = "memo" => Kinds(l, n) = {"memo"}
  /\ o = "mock" => Kinds(l, n) \subseteq {"memo"} /\ (setting.kora = "mock" => Kinds(l, n) = {})
  /\ o = "none" => Kinds(l, n) \subseteq {"evm"}

\* What a settled call reports is what happened: a live execution was taken by
\* the ledger, with or without an error, a Neon execution was mined, a relayed
\* memo was the only transaction, a mock and a "no execution" hide no live
\* transaction.  Only an error says nothing of the ledger, and the Neon route,
\* whose caught errors answer "no execution".
ReportsAreTrue ==
  \A l \in Lanes : \A n \in DOMAIN outcomes[l] : TrueReport(outcomes[l][n], l, n)

\* The landed calls of the wallet of l other than the one under way.
Others(l) ==
  {t \in Lanes \X (1..MaxCalls) :
     /\ t # <<l, Current(l)>>
     /\ Wallet(t[1]) = Wallet(l)
     /\ ledger[t[1]][t[2]].live = "landed"}

\* A verification is wrong only on account of another call of the same wallet, a
\* lane of the same batch or an earlier call whose confirmation was lost: a step
\* of it fails a transaction that landed if one of them spent an asset the step
\* looks at, and passes a transaction that failed if they brought in every asset
\* it looks at.  This is so where only the lanes move the holdings of the wallet.
WrongVerificationHasCause ==
  \A l \in Lanes :
    LET planOf(t) == PlanOf(ledger[t[1]][t[2]].intent)
        landed == ledger[l][Current(l)].live = "landed"
    IN call[l].pc \in {"verify", "verifyBalance"} =>
         /\ landed /\ ~Grown(l) =>
              \E t \in Others(l) : planOf(t).costs \intersect LookedAt(l) # {}
         /\ ~landed /\ Grown(l) =>
              \A a \in LookedAt(l) : \E t \in Others(l) : a \in planOf(t).gains

\* README.md:289: every execution of an agent resolves through its policy.  The
\* memo fallback asks PolicyGuard with a policy of its own, not the agent's
\* engine, and is taken when that engine has just denied the live transaction.
ExecutedUnderAgentPolicy ==
  setting.entry = "runner" =>
    \A l \in Lanes, n \in 1..MaxCalls : Kinds(l, n) # {} => ledger[l][n].allowed
=============================================================================
