-------------------------- MODULE MCUniversalDeFi --------------------------
(* Instances of UniversalDeFi: markets, policies, deployments and work.     *)
EXTENDS UniversalDeFi, TLC

Market(favourable, health) ==
  IF favourable
    THEN [price |-> 95, threshold |-> 100, idleSol |-> 40, idleUsdc |-> 2, demand |-> 2,
          collateral |-> 75, health |-> health, inRange |-> TRUE, rewards |-> 1]
    ELSE [price |-> 101, threshold |-> 100, idleSol |-> 35, idleUsdc |-> 1, demand |-> 1,
          collateral |-> 74, health |-> health, inRange |-> FALSE, rewards |-> 0]

Ask(capability, protocol, market) ==
  [kind |-> "defi", capability |-> capability, protocol |-> protocol, snapshot |-> market]
Good == Market(TRUE, 20)
Trade == Ask("trade", "auto", Good)
Stake == Ask("staking", "auto", Good)
Lp == Ask("lp", "raydium", Good)
Harvest == Ask("yield", "auto", Good)
Lend == Ask("lending", "auto", Good)
Borrow == Ask("borrowing", "kamino", Good)
RiskyYield == Ask("yield", "kamino", Market(TRUE, 12))
Quiet == Ask("trade", "jupiter", Market(FALSE, NoHealth))
NoAdapter == Ask("borrowing", "marinade", Good)
Swap(favourable) == [kind |-> "market", snapshot |-> Market(favourable, NoHealth)]
Plain(type) == [kind |-> "intent", type |-> type]
Evm(protocol, capability, amount) ==
  [kind |-> "evm", protocol |-> protocol, capability |-> capability, amount |-> amount, asset |-> TRUE]

\* The policy of an agent, and the policy of the memo fallback.
Policy(extra, destinations) ==
  [programs |-> Known \union extra, opaque |-> extra, closeDestinations |-> IF extra = {} THEN {} ELSE {"wallet"},
   destinations |-> destinations, mints |-> {}, expires |-> 1,
   limits |-> [maxSol |-> 100, maxSpl |-> 10], flags |-> [denyUnknown |-> TRUE, rejectDeltas |-> TRUE]]
Guard == [programs |-> Known, destinations |-> {}, maxSpend |-> 200]

Deployment(entry, executor, kora, policy) ==
  [entry |-> entry, executor |-> executor, kora |-> kora, policy |-> policy, guard |-> Guard,
   liveFirst |-> TRUE, enabled |-> Protocols, cluster |-> "devnet", kaminoCluster |-> "devnet",
   evm |-> TRUE, neon |-> TRUE, remoteSigner |-> FALSE, shared |-> entry # "runner"]

With(deployment, first, second) == {deployment @@ [program |-> [l \in Lanes |-> IF l = "first" THEN first ELSE second]]}

Bare == Policy({}, {})
Opened == Policy({"jupiter", "neon-token"}, {})
Strict == Policy({}, {"ally"})

\* Agents over two rounds: protocols, plain intents, what the fallback refuses.
Agents ==
  LET agents(kora, policy) == Deployment("runner", "agent", kora, policy)
  IN With(agents("strict", Bare), <<Lend>>, <<Trade>>)
     \union With(agents("fallback", Opened), <<Trade>>, <<RiskyYield>>)
     \union With(agents("mock", Strict), <<Plain("transfer-spl"), Plain("transfer-sol")>>, <<Borrow>>)
     \union With(agents("mock", Bare), <<Plain("create-ata"), Plain("mint-token")>>, <<Plain("write-memo")>>)
     \union With(agents("strict", Bare), <<Evm("aave", "borrowing", "positive"), NoAdapter>>, <<Quiet>>)

\* Promise.all over one wallet.
Batches ==
  LET batch(executor, kora) == Deployment("batch", executor, kora, Opened)
  IN With(batch("sandbox", "strict"), <<Trade>>, <<Lend>>)
     \union With(batch("agent", "fallback"), <<Borrow>>, <<Lend>>)
     \union With(batch("agent", "strict"), <<Lp>>, <<Stake>>)
     \union With(batch("none", "strict"), <<Harvest>>, <<Stake>>)
     \union With(batch("sandbox", "mock"), <<Evm("uniswap-v3", "trade", "positive")>>, <<Evm("uniswap-v3", "trade", "malformed")>>)
     \union With([batch("agent", "fallback") EXCEPT !.cluster = "mainnet-beta"], <<Lend>>, <<Stake>>)
     \union With(Deployment("suite", "none", "fallback", Bare), <<Trade>>, <<Lend>>)
     \union With(Deployment("market", "sandbox", "strict", Opened), <<Swap(TRUE)>>, <<Swap(FALSE)>>)
     \union With(Deployment("market", "none", "fallback", Bare), <<Swap(TRUE)>>, <<>>)

MCSettings == Agents \union Batches
MCLanes == {"first", "second"}
=============================================================================
