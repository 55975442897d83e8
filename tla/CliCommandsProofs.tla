-------------------------- MODULE CliCommandsProofs --------------------------
(***************************************************************************)
(* Proofs about the prkt command line: any number of processes, names,     *)
(* owners, presets and limits, interleaved at every access of a file.      *)
(***************************************************************************)
EXTENDS CliCommands, FiniteSetTheorems, SequenceTheorems, TLAPS

-----------------------------------------------------------------------------
(* Operators on sets and sequences.                                        *)

\* A set of natural numbers that is not empty has a least element.
LEMMA LeastNat ==
  ASSUME NEW T, T \subseteq Nat, T # {}
  PROVE  \E m \in T : \A n \in T : m <= n
<1> DEFINE R == OpToRel(<, Nat)
<1>1. IsWellFoundedOn(R, Nat)
  BY NatLessThanWellFounded
<1>2. \A x \in Nat, y \in Nat : <<y, x>> \in R <=> y < x
  BY DEF OpToRel
<1> HIDE DEF R
<1>3. PICK m \in T : \A n \in T : ~(<<n, m>> \in R)
  BY <1>1, WFMin
<1>4. m \in Nat /\ \A n \in T : n \in Nat /\ ~(n < m)
  BY <1>2, <1>3
<1> QED
  BY <1>4

\* SetToSeq lists the elements of a finite set.
LEMMA SetToSeqTyped ==
  ASSUME NEW S, IsFiniteSet(S)
  PROVE  /\ Cardinality(S) \in Nat
         /\ SetToSeq(S) \in [1..Cardinality(S) -> S]
<1>1. Cardinality(S) \in Nat /\ ExistsBijection(1..Cardinality(S), S)
  BY FS_CardinalityType
<1>2. PICK f \in [1..Cardinality(S) -> S] : IsInjective(f)
  BY <1>1, Zenon DEF ExistsBijection, Bijection, Injection
<1> QED
  BY <1>1, <1>2, Zenon DEF SetToSeq

\* FlattenSeq of sequences over S is a sequence over S.
LEMMA FlattenSeqTyped ==
  ASSUME NEW S, NEW n \in Nat, NEW seqs, seqs \in [1..n -> Seq(S)]
  PROVE  FlattenSeq(seqs) \in Seq(S)
<1>1. seqs \in Seq(Seq(S)) /\ Len(seqs) = n
  OBVIOUS
<1>2. CASE n = 0
  <2>1. seqs = <<>>
    BY <1>1, <1>2
  <2> QED
    BY <1>1, <1>2, <2>1, EmptySeq, Zenon DEF FlattenSeq
<1>3. CASE n # 0
  <2> DEFINE step(g, i) == IF i = 1 THEN seqs[i] ELSE g[i-1] \o seqs[i]
             flatten == CHOOSE g : g = [i \in 1..n |-> step(g, i)]
             Upto(m) == \E g \in [1..m -> Seq(S)] : \A i \in 1..m : g[i] = step(g, i)
             T == {m \in 1..n : ~Upto(m)}
  <2>a. Upto(1)
    <3> DEFINE g == [i \in 1..1 |-> seqs[1]]
    <3>1. 1..1 = {1} /\ seqs[1] \in Seq(S)
      BY <1>3
    <3>2. g \in [1..1 -> Seq(S)] /\ g[1] = step(g, 1)
      BY <3>1
    <3> QED
      BY <3>1, <3>2
  <2>b. ASSUME NEW m \in 2..n, Upto(m-1)
        PROVE  Upto(m)
    <3>1. PICK g \in [1..(m-1) -> Seq(S)] : \A i \in 1..(m-1) : g[i] = step(g, i)
      BY <2>b
    <3> DEFINE h == [i \in 1..m |-> IF i = m THEN g[m-1] \o seqs[m] ELSE g[i]]
    <3>2. g[m-1] \o seqs[m] \in Seq(S)
      BY <3>1, ConcatProperties
    <3>3. h \in [1..m -> Seq(S)]
      BY <3>1, <3>2
    <3>a. \A k \in 1..m : h[k] = IF k = m THEN g[m-1] \o seqs[m] ELSE g[k]
      OBVIOUS
    <3>4. ASSUME NEW i \in 1..m PROVE h[i] = step(h, i)
      <4> HIDE DEF h
      <4>1. CASE i = m
        <5>1. m - 1 \in 1..m /\ m \in 1..m /\ m - 1 # m /\ m # 1
          OBVIOUS
        <5>2. h[m-1] = g[m-1] /\ h[m] = g[m-1] \o seqs[m]
          BY <5>1, <3>a, Zenon
        <5> QED
          BY <4>1, <5>1, <5>2
      <4>2. CASE i # m
        <5>0. i \in 1..(m-1)
          BY <4>2
        <5>1. h[i] = g[i] /\ g[i] = step(g, i)
          <6>1. h[i] = g[i]
            BY <3>a, <4>2, Zenon
          <6>2. g[i] = step(g, i)
            BY <3>1, <5>0, Zenon
          <6> QED
            BY <6>1, <6>2
        <5>2. i # 1 => h[i-1] = g[i-1]
          BY <5>0, <3>a
        <5> QED
          BY <5>1, <5>2
      <4> QED
        BY <4>1, <4>2
    <3> HIDE DEF h
    <3> QED
      BY <3>3, <3>4
  <2>1. T = {}
    <3> HIDE DEF Upto
    <3>1. SUFFICES ASSUME T # {} PROVE FALSE
      OBVIOUS
    <3>2. T \subseteq Nat
      OBVIOUS
    <3> DEFINE least(m) == m \in T /\ \A k \in T : m <= k
    <3>3. PICK m : least(m)
      <4> HIDE DEF T
      <4> QED
        BY <3>1, <3>2, LeastNat
    <3>4. m \in 1..n /\ ~Upto(m)
      BY <3>3
    <3>5. m # 1
      BY <2>a, <3>4
    <3>6. m - 1 \in 1..n /\ m - 1 \notin T
      BY <3>3, <3>4, <3>5
    <3>7. Upto(m-1) /\ m \in 2..n
      BY <3>4, <3>5, <3>6
    <3> QED
      BY <2>b, <3>4, <3>7
  <2>2. Upto(n)
    <3> HIDE DEF Upto
    <3>1. n \in 1..n
      BY <1>3
    <3>2. n \notin T
      <4> HIDE DEF T
      <4> QED
        BY <2>1
    <3> QED
      BY <3>1, <3>2
  <2>3. PICK g \in [1..n -> Seq(S)] : \A i \in 1..n : g[i] = step(g, i)
    BY <2>2
  <2>4. g = [i \in 1..n |-> step(g, i)]
    BY <2>3
  <2>5. flatten = [i \in 1..n |-> step(flatten, i)]
    BY <2>4
  <2>6. \A i \in 1..n : flatten[i] = step(flatten, i)
    <3> HIDE DEF flatten
    <3> QED
      BY <2>5
  <2> HIDE DEF flatten
  <2> DEFINE U == {i \in 1..n : flatten[i] \notin Seq(S)}
  <2>7. U = {}
    <3>1. SUFFICES ASSUME U # {} PROVE FALSE
      OBVIOUS
    <3>2. U \subseteq Nat
      OBVIOUS
    <3> DEFINE least(m) == m \in U /\ \A k \in U : m <= k
    <3>3. PICK m : least(m)
      <4> HIDE DEF U
      <4> QED
        BY <3>1, <3>2, LeastNat
    <3>4. m \in 1..n /\ flatten[m] \notin Seq(S)
      BY <3>3
    <3>5. m # 1
      BY <2>6, <3>4
    <3>6. m - 1 \in 1..n /\ m - 1 \notin U
      BY <3>3, <3>4, <3>5
    <3>7. flatten[m] = flatten[m-1] \o seqs[m] /\ seqs[m] \in Seq(S)
      BY <2>6, <3>4, <3>5
    <3>8. flatten[m-1] \in Seq(S)
      BY <3>6
    <3> QED
      BY <3>4, <3>7, <3>8, ConcatProperties
  <2>8. flatten[n] \in Seq(S)
    <3>1. n \in 1..n
      BY <1>3
    <3>2. n \notin U
      <4> HIDE DEF U
      <4> QED
        BY <2>7
    <3> QED
      BY <3>1, <3>2
  <2>9. FlattenSeq(seqs) = flatten[n]
    BY <1>1, <1>3, Zenon DEF FlattenSeq, flatten
  <2> QED
    BY <2>8, <2>9
<1> QED
  BY <1>2, <1>3

-----------------------------------------------------------------------------
(* The steps of the commands.                                              *)

Nameless == {"call", "log", "readLog", "list", "sync", "sweep"}
Named ==
  {"find", "absent", "provision", "ensure", "entity", "key", "resolve", "run",
   "settle", "failed"}

\* A step that names a wallet or an agent names one there can be, and what it
\* changes is of its kind.
LEMMA StepKinds ==
  ASSUME NEW s \in Steps
  PROVE  /\ s.op \notin Nameless => s.name \in Names
         /\ s.op = "policy" => s.change \in PolicyChanges
         /\ s.op = "patch" => s.change \in RunChanges
         /\ s.op = "createAgent" => s.change \in Owners
         /\ s.op = "take" => s.change \in AgentRecords
BY DEF Steps, Nameless

LEMMA StepsTyped ==
  /\ \A op \in Nameless : Step(op, "") \in Steps
  /\ \A op \in Named, n \in Names : Step(op, n) \in Steps
  /\ \A n \in Names, change \in PolicyChanges : Patch("policy", n, change) \in Steps
  /\ \A n \in Names, change \in RunChanges : Patch("patch", n, change) \in Steps
  /\ \A n \in Names, change \in Owners : Patch("createAgent", n, change) \in Steps
  /\ \A n \in Names, change \in AgentRecords : Patch("take", n, change) \in Steps
BY DEF Steps, Step, Patch, Nameless, Named

LEMMA ChangesTyped ==
  /\ \A preset \in Presets, mode \in ApprovalModes :
       [policyPreset |-> preset, policyMode |-> mode] \in PolicyChanges
  /\ \A overrides \in Overrides : [policyOverrides |-> overrides] \in PolicyChanges
  /\ \A overrides \in Overrides, mode \in ApprovalModes :
       [policyOverrides |-> overrides, policyMode |-> mode] \in PolicyChanges
  /\ [status |-> "stopped"] \in RunChanges
  /\ \A strategy \in Strategies :
       [status |-> "active", strategy |-> strategy] \in RunChanges
  /\ [status |-> "active", lastRun |-> "ok"] \in RunChanges
BY DEF PolicyChanges, RunChanges

LEMMA ShortSeqs ==
  ASSUME NEW S, NEW a \in S, NEW b \in S, NEW c \in S, NEW d \in S, NEW e \in S,
         NEW f \in S
  PROVE  /\ <<a>> \in Seq(S)
         /\ <<a, b>> \in Seq(S)
         /\ <<a, b, c>> \in Seq(S)
         /\ <<a, b, c, d>> \in Seq(S)
         /\ <<a, b, c, d, e>> \in Seq(S)
         /\ <<a, b, c, d, e, f>> \in Seq(S)
OBVIOUS

\* Every command is a sequence of steps.
LEMMA NamelessCommands ==
  ASSUME NEW steps,
         steps \in {init, config_show, doctor, verify_session, verify_tx,
                   multi_agent_devnet, wallet_list, monitor_balances, monitor_txs,
                   monitor_agents, overview, watch, audit, agent_list, agent_logs, run_all}
  PROVE  steps \in Seq(Steps)
<1> DEFINE step(op) == Step(op, "")
<1>1. \A op \in Nameless : step(op) \in Steps
  BY StepsTyped
<1>2. /\ step("call") \in Steps /\ step("log") \in Steps /\ step("readLog") \in Steps
      /\ step("list") \in Steps /\ step("sync") \in Steps /\ step("sweep") \in Steps
  BY <1>1 DEF Nameless
<1> HIDE DEF step
<1>3. \A a, b, c, d \in Steps :
        /\ <<a>> \in Seq(Steps) /\ <<a, b>> \in Seq(Steps)
        /\ <<a, b, c>> \in Seq(Steps) /\ <<a, b, c, d>> \in Seq(Steps)
  BY ShortSeqs
<1>4. /\ init = <<step("log")>> /\ config_show = <<step("log")>>
      /\ doctor = <<step("log")>> /\ verify_session = <<step("call")>>
      /\ verify_tx = <<step("call")>> /\ multi_agent_devnet = <<step("call"), step("log")>>
      /\ wallet_list = <<step("list")>> /\ monitor_balances = <<step("list"), step("call")>>
      /\ monitor_txs = <<step("readLog")>> /\ monitor_agents = <<step("sync")>>
      /\ overview = <<step("sync"), step("list"), step("call"), step("log")>>
      /\ audit = <<step("readLog")>> /\ agent_list = <<step("sync")>>
      /\ agent_logs = <<step("readLog")>>
      /\ run_all = <<step("sync"), step("sweep"), step("log")>>
  BY DEF step, Call, Log, init, config_show, doctor, verify_session, verify_tx,
     multi_agent_devnet, wallet_list, monitor_balances, monitor_txs, monitor_agents,
     overview, audit, agent_list, agent_logs, run_all
<1>5. overview \in Seq(Steps)
  BY <1>2, <1>3, <1>4
<1>6. watch \in Seq(Steps)
  BY <1>5, ConcatProperties DEF watch
<1>7. /\ init \in Seq(Steps) /\ config_show \in Seq(Steps) /\ doctor \in Seq(Steps)
      /\ verify_session \in Seq(Steps) /\ verify_tx \in Seq(Steps)
      /\ multi_agent_devnet \in Seq(Steps) /\ wallet_list \in Seq(Steps)
      /\ monitor_balances \in Seq(Steps) /\ monitor_txs \in Seq(Steps)
      /\ monitor_agents \in Seq(Steps) /\ audit \in Seq(Steps)
      /\ agent_list \in Seq(Steps) /\ agent_logs \in Seq(Steps) /\ run_all \in Seq(Steps)
  BY <1>2, <1>3, <1>4
<1> QED
  BY <1>5, <1>6, <1>7, Zenon

LEMMA NamedCommands ==
  ASSUME NEW n \in Names, NEW steps,
         steps \in {wallet_show(n), wallet_create(n), wallet_fund(n), wallet_balance(n),
                   export_secret(n), transfer_sol(n), transfer_spl(n), mint_demo(n),
                   create_ata(n), policy_show(n), validate_intent(n), agent_fund(n),
                   agent_balance(n), export_wallet(n), agent_show(n)}
  PROVE  steps \in Seq(Steps)
<1> DEFINE step(op) == Step(op, n)
<1>1. Call \in Steps /\ Log \in Steps
  BY StepsTyped DEF Call, Log, Nameless
<1>2. /\ step("find") \in Steps /\ step("absent") \in Steps /\ step("provision") \in Steps
      /\ step("ensure") \in Steps /\ step("entity") \in Steps /\ step("key") \in Steps
      /\ step("resolve") \in Steps
  BY StepsTyped DEF Named
<1> HIDE DEF step
<1>3. \A a, b, c, d, e, f \in Steps :
        /\ <<a>> \in Seq(Steps) /\ <<a, b>> \in Seq(Steps)
        /\ <<a, b, c>> \in Seq(Steps) /\ <<a, b, c, d>> \in Seq(Steps)
        /\ <<a, b, c, d, e>> \in Seq(Steps) /\ <<a, b, c, d, e, f>> \in Seq(Steps)
  BY ShortSeqs
<1>4. /\ wallet_show(n) = <<step("find")>>
      /\ wallet_create(n) = <<step("absent"), step("provision"), step("ensure"), Log>>
      /\ wallet_fund(n) = <<step("entity"), step("key"), Call, Call, Log>>
      /\ wallet_balance(n) = <<step("entity"), step("key"), Call>>
      /\ export_secret(n) = <<step("entity"), step("key"), step("find")>>
      /\ transfer_sol(n) = <<step("entity"), step("key"), Call, Log>>
      /\ transfer_spl(n) = <<step("entity"), step("key"), Call, Call, Call, Log>>
      /\ mint_demo(n) = <<step("key"), Call, Call, Call, Call, Log>>
      /\ create_ata(n) = <<step("key"), Call, Call, Log>>
      /\ policy_show(n) = <<step("resolve")>>
      /\ validate_intent(n) = <<step("resolve"), step("key"), Call, Log>>
      /\ agent_fund(n) = <<step("resolve"), step("key"), Call, Call, Log>>
      /\ agent_balance(n) = <<step("resolve"), step("key"), Call>>
      /\ export_wallet(n) = <<step("resolve"), step("key"), step("find")>>
      /\ agent_show(n) = <<step("resolve"), step("find")>>
  BY DEF step, wallet_show, wallet_create, wallet_fund, wallet_balance, export_secret,
     transfer_sol, transfer_spl, mint_demo, create_ata, policy_show, validate_intent,
     agent_fund, agent_balance, export_wallet, agent_show
<1> DEFINE short ==
      /\ wallet_show(n) \in Seq(Steps) /\ wallet_create(n) \in Seq(Steps)
      /\ wallet_fund(n) \in Seq(Steps) /\ wallet_balance(n) \in Seq(Steps)
      /\ export_secret(n) \in Seq(Steps) /\ transfer_sol(n) \in Seq(Steps)
      /\ transfer_spl(n) \in Seq(Steps) /\ mint_demo(n) \in Seq(Steps)
      /\ create_ata(n) \in Seq(Steps) /\ policy_show(n) \in Seq(Steps)
      /\ validate_intent(n) \in Seq(Steps) /\ agent_fund(n) \in Seq(Steps)
      /\ agent_balance(n) \in Seq(Steps) /\ export_wallet(n) \in Seq(Steps)
      /\ agent_show(n) \in Seq(Steps)
<1>5. short
  BY <1>1, <1>2, <1>3, <1>4
<1> QED
  BY <1>5

LEMMA ChangingCommands ==
  ASSUME NEW n \in Names
  PROVE  /\ \A preset \in Presets : set_preset(n, preset) \in Seq(Steps)
         /\ \A overrides \in Limits : set_limits(n, overrides) \in Seq(Steps)
         /\ clear_overrides(n) \in Seq(Steps)
         /\ \A owner \in Owners : agent_create(n, owner) \in Seq(Steps)
         /\ \A strategy \in Strategies : agent_run(n, strategy) \in Seq(Steps)
         /\ agent_stop(n) \in Seq(Steps)
<1>1. Log \in Steps
  BY StepsTyped DEF Log, Nameless
<1>2. /\ Step("absent", n) \in Steps /\ Step("provision", n) \in Steps
      /\ Step("key", n) \in Steps /\ Step("resolve", n) \in Steps
      /\ Step("run", n) \in Steps
  BY StepsTyped DEF Named
<1>3. \A a, b, c, d, e, f \in Steps :
        /\ <<a, b>> \in Seq(Steps) /\ <<a, b, c, d>> \in Seq(Steps)
        /\ <<a, b, c, d, e, f>> \in Seq(Steps)
  BY ShortSeqs
<1>4. ASSUME NEW preset \in Presets
      PROVE  set_preset(n, preset) \in Seq(Steps)
  <2> DEFINE mode == IF preset = "guarded-live" THEN "live" ELSE "sandbox"
             change == [policyPreset |-> preset, policyMode |-> mode]
  <2>1. mode \in ApprovalModes
    BY DEF ApprovalModes
  <2>2. change \in PolicyChanges
    BY <2>1, ChangesTyped
  <2>3. set_preset(n, preset) = <<Step("resolve", n), Patch("policy", n, change)>>
    BY DEF set_preset
  <2> HIDE DEF change
  <2>4. Patch("policy", n, change) \in Steps
    BY <2>2, StepsTyped
  <2> QED
    BY <1>2, <1>3, <2>3, <2>4
<1>5. ASSUME NEW overrides \in Limits
      PROVE  set_limits(n, overrides) \in Seq(Steps)
  <2> DEFINE change ==
        IF overrides.approvalMode = {} THEN [policyOverrides |-> overrides]
        ELSE [policyOverrides |-> overrides,
              policyMode |-> Or(overrides.approvalMode, "sandbox")]
  <2>1. change \in PolicyChanges
    <3>1. CASE overrides.approvalMode = {}
      BY <3>1, ChangesTyped DEF Overrides
    <3>2. CASE overrides.approvalMode # {}
      <4>1. Or(overrides.approvalMode, "sandbox") \in overrides.approvalMode
        BY <3>2 DEF Or
      <4>2. Or(overrides.approvalMode, "sandbox") \in ApprovalModes
        BY <4>1, ConstantsAssumption
      <4> QED
        BY <3>2, <4>2, ChangesTyped DEF Overrides
    <3> QED
      BY <3>1, <3>2
  <2>2. set_limits(n, overrides) = <<Step("resolve", n), Patch("policy", n, change)>>
    BY DEF set_limits
  <2> HIDE DEF change
  <2>3. Patch("policy", n, change) \in Steps
    BY <2>1, StepsTyped
  <2> QED
    BY <1>2, <1>3, <2>2, <2>3
<1>6. clear_overrides(n) \in Seq(Steps)
  <2>1. Patch("policy", n, [policyOverrides |-> NoOverrides]) \in Steps
    BY ChangesTyped, StepsTyped DEF Overrides
  <2> QED
    BY <1>2, <1>3, <2>1 DEF clear_overrides
<1>7. ASSUME NEW owner \in Owners
      PROVE  agent_create(n, owner) \in Seq(Steps)
  <2>1. Patch("createAgent", n, owner) \in Steps
    BY StepsTyped
  <2> QED
    BY <1>1, <1>2, <1>3, <2>1 DEF agent_create
<1>8. ASSUME NEW strategy \in Strategies
      PROVE  agent_run(n, strategy) \in Seq(Steps)
  <2>1. /\ Patch("patch", n, [status |-> "active", strategy |-> strategy]) \in Steps
        /\ Patch("patch", n, [status |-> "active", lastRun |-> "ok"]) \in Steps
    BY ChangesTyped, StepsTyped
  <2> QED
    BY <1>1, <1>2, <1>3, <2>1 DEF agent_run
<1>9. agent_stop(n) \in Seq(Steps)
  <2>1. Patch("patch", n, [status |-> "stopped"]) \in Steps
    BY ChangesTyped, StepsTyped
  <2> QED
    BY <1>1, <1>3, <2>1 DEF agent_stop
<1> QED
  BY <1>4, <1>5, <1>6, <1>7, <1>8, <1>9

\* A command that is issued is a sequence of steps.
LEMMA CommandsTyped ==
  ASSUME NEW p, Begin(p)
  PROVE  \E steps \in Seq(Steps) : Issue(p, steps)
<1>1. CASE \E n \in Names :
             \/ \E preset \in Presets : Issue(p, set_preset(n, preset))
             \/ \E overrides \in Limits : Issue(p, set_limits(n, overrides))
             \/ Issue(p, clear_overrides(n))
             \/ \E owner \in Owners : Issue(p, agent_create(n, owner))
             \/ \E strategy \in Strategies : Issue(p, agent_run(n, strategy))
             \/ Issue(p, agent_stop(n))
  BY <1>1, ChangingCommands, Zenon
<1>2. CASE \E n \in Names :
             \E steps \in {wallet_show(n), wallet_create(n), wallet_fund(n),
                           wallet_balance(n), export_secret(n), transfer_sol(n),
                           transfer_spl(n), mint_demo(n), create_ata(n), policy_show(n),
                           validate_intent(n), agent_fund(n), agent_balance(n),
                           export_wallet(n), agent_show(n)} : Issue(p, steps)
  BY <1>2, NamedCommands, Zenon
<1>3. CASE \E steps \in {init, config_show, doctor, verify_session, verify_tx,
                         multi_agent_devnet, wallet_list, monitor_balances, monitor_txs,
                         monitor_agents, overview, watch, audit, agent_list, agent_logs,
                         run_all} : Issue(p, steps)
  BY <1>3, NamelessCommands, Zenon
<1> HIDE DEF Issue
<1> QED
  BY <1>1, <1>2, <1>3, Zenon DEF Begin

-----------------------------------------------------------------------------
(* Agent records.                                                          *)

LEMMA NewAgentTyped ==
  ASSUME NEW n \in Names, NEW owners \in SUBSET Owners
  PROVE  /\ NewAgent(n, owners) \in AgentRecords
         /\ NewAgent(n, owners).name = n
BY DEF NewAgent, AgentRecords, ApprovalModes, Overrides

\* Changing a record keeps its kind and its name.
LEMMA MergeTyped ==
  ASSUME NEW a \in AgentRecords,
         NEW u, u \in PolicyChanges \union RunChanges \union [lastRun : {"ok", "error"}]
  PROVE  Merge(a, u) \in AgentRecords /\ Merge(a, u).name = a.name
<1>1. DOMAIN a = {"name", "ownerId", "policyMode", "policyPreset", "policyOverrides",
                  "status", "strategy", "lastRun"}
  BY DEF AgentRecords
<1>2. /\ "name" \notin DOMAIN u /\ "ownerId" \notin DOMAIN u
      /\ "policyMode" \in DOMAIN u => u["policyMode"] \in ApprovalModes
      /\ "policyPreset" \in DOMAIN u => u["policyPreset"] \in Presets
      /\ "policyOverrides" \in DOMAIN u => u["policyOverrides"] \in Overrides
      /\ "status" \in DOMAIN u => u["status"] \in {"active", "stopped"}
      /\ "strategy" \in DOMAIN u => u["strategy"] \in Strategies
      /\ "lastRun" \in DOMAIN u => u["lastRun"] \in {"ok", "error"}
  BY DEF PolicyChanges, RunChanges
<1> DEFINE m == Merge(a, u)
<1>3. /\ DOMAIN m = DOMAIN a
      /\ \A field \in DOMAIN a :
           m[field] = IF field \in DOMAIN u THEN u[field] ELSE a[field]
  BY DEF Merge
<1>4. /\ a["name"] \in Names /\ a["ownerId"] \in SUBSET Owners
      /\ a["policyMode"] \in ApprovalModes
      /\ a["policyPreset"] \in Presets \union {DEFAULT_POLICY_PRESET}
      /\ a["policyOverrides"] \in Overrides
      /\ a["status"] \in {"active", "stopped"}
      /\ a["strategy"] \in Strategies \union {"memo-heartbeat"}
      /\ a["lastRun"] \in {"never", "ok", "error"}
  BY DEF AgentRecords
<1>5. m = [name |-> m["name"], ownerId |-> m["ownerId"], policyMode |-> m["policyMode"],
           policyPreset |-> m["policyPreset"], policyOverrides |-> m["policyOverrides"],
           status |-> m["status"], strategy |-> m["strategy"], lastRun |-> m["lastRun"]]
  BY <1>1 DEF Merge
<1>6. m["name"] = a["name"] /\ m["ownerId"] = a["ownerId"]
  BY <1>1, <1>2, <1>3
<1>7. m["policyMode"] \in ApprovalModes
  BY <1>1, <1>2, <1>3, <1>4
<1>8. m["policyPreset"] \in Presets \union {DEFAULT_POLICY_PRESET}
  BY <1>1, <1>2, <1>3, <1>4
<1>9. m["policyOverrides"] \in Overrides
  BY <1>1, <1>2, <1>3, <1>4
<1>10. m["status"] \in {"active", "stopped"}
  BY <1>1, <1>2, <1>3, <1>4
<1>11. m["strategy"] \in Strategies \union {"memo-heartbeat"}
  BY <1>1, <1>2, <1>3, <1>4
<1>12. m["lastRun"] \in {"never", "ok", "error"}
  BY <1>1, <1>2, <1>3, <1>4
<1> HIDE DEF m
<1> QED
  BY <1>4, <1>5, <1>6, <1>7, <1>8, <1>9, <1>10, <1>11, <1>12 DEF AgentRecords, m

\* A run or a stop leaves the policy as it is; a policy command sets what it names.
LEMMA MergePolicy ==
  ASSUME NEW a \in AgentRecords,
         NEW u, u \in PolicyChanges \union RunChanges \union [lastRun : {"ok", "error"}]
  PROVE  /\ u \in PolicyChanges => PolicyOf(Merge(a, u)) = Set(PolicyOf(a), u)
         /\ u \notin PolicyChanges => PolicyOf(Merge(a, u)) = PolicyOf(a)
<1>1. "policyPreset" \in DOMAIN a /\ "policyOverrides" \in DOMAIN a
  BY DEF AgentRecords
<1>2. /\ Merge(a, u)["policyPreset"] =
           IF "policyPreset" \in DOMAIN u THEN u["policyPreset"] ELSE a["policyPreset"]
      /\ Merge(a, u)["policyOverrides"] =
           IF "policyOverrides" \in DOMAIN u THEN u["policyOverrides"]
           ELSE a["policyOverrides"]
  BY <1>1 DEF Merge
<1>3. u \notin PolicyChanges =>
        "policyPreset" \notin DOMAIN u /\ "policyOverrides" \notin DOMAIN u
  BY DEF RunChanges
<1>4. PolicyOf(a)[1] = a["policyPreset"] /\ PolicyOf(a)[2] = a["policyOverrides"]
  BY DEF PolicyOf
<1>5. PolicyOf(Merge(a, u)) = <<Merge(a, u)["policyPreset"], Merge(a, u)["policyOverrides"]>>
  BY DEF PolicyOf
<1>6. Set(PolicyOf(a), u) =
        <<IF "policyPreset" \in DOMAIN u THEN u["policyPreset"] ELSE a["policyPreset"],
          IF "policyOverrides" \in DOMAIN u THEN u["policyOverrides"]
          ELSE a["policyOverrides"]>>
  BY <1>4 DEF Set
<1>7. PolicyOf(a) = <<a["policyPreset"], a["policyOverrides"]>>
  BY DEF PolicyOf
<1> QED
  BY <1>2, <1>3, <1>5, <1>6, <1>7

-----------------------------------------------------------------------------
(* What a step of a command does.                                          *)

\* A step of p that writes nothing: p is in no update, or gives one up.
Quiet(p, steps) ==
  /\ todo' = [todo EXCEPT ![p] = steps]
  /\ DOMAIN held' = Processes
  /\ \A q \in Processes : held'[q] = IF q = p THEN {} ELSE held[q]
  /\ torn' \subseteq Files
  /\ UNCHANGED <<wallets, agents, keys, dropped>>

\* A step of p that begins an update, or takes it one stage on.
Takes(p, w) ==
  /\ todo' = todo
  /\ DOMAIN held' = Processes
  /\ \A q \in Processes : held'[q] = IF q = p THEN {w} ELSE held[q]
  /\ torn' \subseteq Files /\ keys' \in Nat
  /\ UNCHANGED <<wallets, agents, dropped>>

LEMMA AtFacts ==
  ASSUME TypeOK, NEW p \in Processes, NEW op, At(p, op)
  PROVE  /\ held[p] = {} /\ todo[p] # <<>> /\ todo[p] \in Seq(Steps)
         /\ Now(p) \in Steps /\ Now(p).op = op
         /\ Tail(todo[p]) \in Seq(Steps)
<1>1. todo[p] \in Seq(Steps) /\ todo[p] # <<>>
  BY DEF TypeOK, At
<1>2. Head(todo[p]) \in Steps /\ Tail(todo[p]) \in Seq(Steps)
  BY <1>1, HeadTailProperties
<1> QED
  BY <1>1, <1>2 DEF At, Now

\* What an exception leaves of a command is a sequence of steps.
LEMMA ThrowTyped ==
  ASSUME TypeOK, NEW p \in Processes, Throw(p)
  PROVE  \E steps \in Seq(Steps) : todo' = [todo EXCEPT ![p] = steps]
<1> DEFINE steps == todo[p]
           settles == {i \in DOMAIN steps : steps[i].op = "settle"}
           first == CHOOSE i \in settles : \A j \in settles : i <= j
           left == <<Step("failed", steps[first].name)>>
                     \o SubSeq(steps, first + 1, Len(steps))
<1>1. steps \in Seq(Steps) /\ Len(steps) \in Nat /\ DOMAIN steps = 1..Len(steps)
  BY DEF TypeOK
<1>2. todo' = [todo EXCEPT ![p] = IF settles = {} \/ Now(p).op = "failed" THEN <<>> ELSE left]
  BY DEF Throw, Goto
<1>3. <<>> \in Seq(Steps)
  BY EmptySeq
<1>4. ASSUME settles # {}
      PROVE  left \in Seq(Steps)
  <2>0. settles \subseteq 1..Len(steps)
    BY <1>1
  <2>1. settles \subseteq Nat
    BY <2>0, <1>1
  <2>2. \E m \in settles : \A n \in settles : m <= n
    <3> HIDE DEF settles
    <3> QED
      BY <1>4, <2>1, LeastNat
  <2>3. first \in settles
    <3> HIDE DEF settles
    <3> QED
      BY <2>2
  <2> HIDE DEF first
  <2>4. first \in 1..Len(steps) /\ steps[first] \in Steps /\ steps[first].op = "settle"
    BY <1>1, <2>3
  <2>5. steps[first].name \in Names
    BY <2>4, StepKinds DEF Nameless
  <2>6. Step("failed", steps[first].name) \in Steps
    BY <2>5, StepsTyped DEF Named
  <2>7. <<Step("failed", steps[first].name)>> \in Seq(Steps)
    BY <2>6
  <2>8. SubSeq(steps, first + 1, Len(steps)) \in Seq(Steps)
    <3>1. \A i \in (first + 1)..Len(steps) : steps[i] \in Steps
      BY <1>1, <2>4
    <3> QED
      BY <1>1, <2>4, <3>1, SubSeqProperties
  <2> QED
    BY <2>7, <2>8, ConcatProperties
<1> HIDE DEF left, settles
<1> QED
  BY <1>2, <1>3, <1>4

\* What CustodyKept and PolicyChangesSurvive ask of a step.
CustodyStep ==
  \/ \E p \in Processes : WritesOldCopy(p, "wallets")
  \/ \A i \in DOMAIN wallets :
       /\ i \in DOMAIN wallets'
       /\ wallets'[i].name = wallets[i].name
       /\ wallets'[i].key = wallets[i].key

PolicyStep ==
  \/ \E p \in Processes : WritesOldCopy(p, "agents")
  \/ \A n \in DOMAIN agents :
       /\ n \in DOMAIN agents'
       /\ \/ PolicyOf(agents'[n]) = PolicyOf(agents[n])
          \/ \E p \in Processes :
               /\ SetsPolicy(p, n)
               /\ PolicyOf(agents'[n]) = Set(PolicyOf(agents[n]), Now(p).change)

Kept == IndInv' /\ CustodyStep /\ PolicyStep

\* What a process has of an update stays right while its command, the wallets and
\* the agents are as they were.
LEMMA UpdateStays ==
  ASSUME NEW p, NEW w, UpdateOK(p, w),
         todo'[p] = todo[p], UNCHANGED <<wallets, agents, dropped>>
  PROVE  UpdateOK(p, w)'
<1>1. Now(p)' = Now(p)
  BY DEF Now
<1>2. \A S : HaveWallets(S)' = HaveWallets(S)
  BY DEF HaveWallets, Stored
<1>3. WalletsHeld(p, w)' = WalletsHeld(p, w)
  BY <1>1 DEF WalletsHeld
<1>4. PolicyKept(p, w.value)' = PolicyKept(p, w.value)
      /\ PolicyKept(p, w.value[Now(p).name])' = PolicyKept(p, w.value[Now(p).name])
  BY <1>1 DEF PolicyKept
<1>5. AgentFound(p, w)' = AgentFound(p, w)
  BY <1>1, <1>2, <1>4 DEF AgentFound
<1>6. AgentsRead(p, w)' = AgentsRead(p, w)
  BY <1>1, <1>2, <1>4 DEF AgentsRead
<1> QED
  BY <1>1, <1>3, <1>5, <1>6 DEF UpdateOK

LEMMA QuietKept ==
  ASSUME IndInv, NEW p \in Processes, NEW steps \in Seq(Steps), Quiet(p, steps)
  PROVE  Kept
<1>1. /\ wallets' = wallets /\ agents' = agents /\ dropped' = dropped /\ keys' = keys
      /\ torn' \subseteq Files /\ DOMAIN held' = Processes
      /\ \A q \in Processes : held'[q] = IF q = p THEN {} ELSE held[q]
      /\ todo' = [todo EXCEPT ![p] = steps]
  BY DEF Quiet
<1>2. TypeOK'
  <2>1. todo' \in [Processes -> Seq(Steps)]
    BY <1>1 DEF IndInv, TypeOK
  <2> QED
    BY <1>1, <2>1 DEF IndInv, TypeOK, IsAgentFile
<1>3. HeldOK'
  <2>1. ASSUME NEW q \in Processes, NEW w \in held'[q]
        PROVE  held'[q] = {w} /\ UpdateOK(q, w)'
    <3>1. q # p /\ w \in held[q] /\ held'[q] = held[q]
      BY <1>1, <2>1
    <3>2. todo'[q] = todo[q]
      BY <1>1, <3>1 DEF IndInv, TypeOK
    <3>3. held[q] = {w} /\ UpdateOK(q, w)
      BY <3>1 DEF IndInv, HeldOK
    <3>4. UpdateOK(q, w)'
      BY <1>1, <3>2, <3>3, UpdateStays
    <3> QED
      BY <3>1, <3>3, <3>4
  <2> QED
    BY <2>1 DEF HeldOK
<1>4. HaveWallets(DOMAIN agents)'
  BY <1>1 DEF IndInv, HaveWallets, Stored
<1>5. CustodyStep /\ PolicyStep
  BY <1>1 DEF CustodyStep, PolicyStep
<1> QED
  BY <1>2, <1>3, <1>4, <1>5 DEF IndInv, Kept

LEMMA TakesKept ==
  ASSUME IndInv, NEW p \in Processes, NEW w, UpdateOK(p, w), Takes(p, w)
  PROVE  Kept
<1>1. /\ wallets' = wallets /\ agents' = agents /\ dropped' = dropped /\ keys' \in Nat
      /\ torn' \subseteq Files /\ DOMAIN held' = Processes
      /\ \A q \in Processes : held'[q] = IF q = p THEN {w} ELSE held[q]
      /\ todo' = todo
  BY DEF Takes
<1>2. TypeOK'
  BY <1>1 DEF IndInv, TypeOK, IsAgentFile
<1>3. HeldOK'
  <2>1. ASSUME NEW q \in Processes, NEW v \in held'[q]
        PROVE  held'[q] = {v} /\ UpdateOK(q, v)'
    <3>1. UpdateOK(q, v) /\ held'[q] = {v}
      <4>1. CASE q = p
        BY <1>1, <2>1, <4>1
      <4>2. CASE q # p
        BY <1>1, <2>1, <4>2 DEF IndInv, HeldOK
      <4> QED
        BY <4>1, <4>2
    <3>2. UpdateOK(q, v)'
      BY <1>1, <3>1, UpdateStays
    <3> QED
      BY <3>1, <3>2
  <2> QED
    BY <2>1 DEF HeldOK
<1>4. HaveWallets(DOMAIN agents)'
  BY <1>1 DEF IndInv, HaveWallets, Stored
<1>5. CustodyStep /\ PolicyStep
  BY <1>1 DEF CustodyStep, PolicyStep
<1> QED
  BY <1>2, <1>3, <1>4, <1>5 DEF IndInv, Kept

-----------------------------------------------------------------------------
(* The steps of an update.                                                 *)

\* Beginning an update of a file.
LEMMA HoldKept ==
  ASSUME IndInv, NEW p \in Processes, NEW file, NEW stage, NEW value,
         Hold(p, file, stage, value), todo' = todo, keys' \in Nat,
         UNCHANGED <<files, dropped>>,
         UpdateOK(p, [file |-> file, stage |-> stage, value |-> value, stale |-> FALSE])
  PROVE  Kept
<1> DEFINE w == [file |-> file, stage |-> stage, value |-> value, stale |-> FALSE]
<1>1. /\ DOMAIN held' = Processes
      /\ \A q \in Processes : held'[q] = IF q = p THEN {w} ELSE held[q]
  BY DEF Hold, IndInv, TypeOK
<1>2. UpdateOK(p, w)
  OBVIOUS
<1> HIDE DEF w
<1>3. Takes(p, w)
  BY <1>1 DEF Takes, files, IndInv, TypeOK
<1> QED
  BY <1>2, <1>3, TakesKept

\* A record that is added to the registry, or replaces the one of its name.
LEMMA UpsertTyped ==
  ASSUME IsAgentFile(agents), NEW agent \in AgentRecords
  PROVE  /\ IsAgentFile(Upsert(agent)) /\ Upsert(agent)[agent.name] = agent
         /\ DOMAIN Upsert(agent) = DOMAIN agents \union {agent.name}
         /\ \A n \in DOMAIN agents : n # agent.name => Upsert(agent)[n] = agents[n]
<1> DEFINE file == Upsert(agent)
<1>1. /\ DOMAIN file = DOMAIN agents \union {agent.name}
      /\ \A n \in DOMAIN file : file[n] = IF n = agent.name THEN agent ELSE agents[n]
  BY DEF Upsert
<1>2. agent.name \in Names
  BY DEF AgentRecords
<1>3. IsFiniteSet(DOMAIN agents \union {agent.name})
  BY FS_AddElement DEF IsAgentFile
<1> HIDE DEF file
<1>4. IsAgentFile(file)
  BY <1>1, <1>2, <1>3 DEF IsAgentFile
<1>5. /\ IsAgentFile(file) /\ file[agent.name] = agent
      /\ DOMAIN file = DOMAIN agents \union {agent.name}
      /\ \A n \in DOMAIN agents : n # agent.name => file[n] = agents[n]
  BY <1>1, <1>4
<1> QED
  BY <1>5 DEF file

LEMMA RereadKept ==
  ASSUME IndInv, NEW p \in Processes, Reread(p)
  PROVE  Kept
<1>1. PICK w \in held[p] :
        /\ w.stage = "found"
        /\ \/ /\ held' = [held EXCEPT
                     ![p] = {[w EXCEPT !.stage = "read", !.value = Upsert(w.value)]}]
              /\ UNCHANGED <<todo, record>>
           \/ held' = [held EXCEPT ![p] = {}] /\ Throw(p)
  BY DEF Reread
<1>2. UNCHANGED <<files, keys, dropped>>
  BY DEF Reread, history
<1>3. UpdateOK(p, w)
  BY DEF IndInv, HeldOK
<1>4. CASE held' = [held EXCEPT ![p] = {}] /\ Throw(p)
  <2>1. PICK steps \in Seq(Steps) : todo' = [todo EXCEPT ![p] = steps]
    BY <1>4, ThrowTyped DEF IndInv
  <2>2. Quiet(p, steps)
    BY <1>2, <1>4, <2>1 DEF Quiet, files, IndInv, TypeOK
  <2> QED
    BY <2>2, QuietKept
<1>5. CASE /\ held' = [held EXCEPT
                ![p] = {[w EXCEPT !.stage = "read", !.value = Upsert(w.value)]}]
           /\ todo' = todo
  <2> DEFINE n == Now(p).name
             v == [w EXCEPT !.stage = "read", !.value = Upsert(w.value)]
  <2>1. /\ todo[p] # <<>> /\ w.file = "agents" /\ n \in Names
        /\ Now(p).op \in UpdatesAgents /\ AgentFound(p, w)
        /\ DOMAIN w = {"file", "stage", "value", "stale"}
    BY <1>1, <1>3 DEF UpdateOK, Files, WalletsHeld
  <2>2. /\ w.value \in AgentRecords /\ w.value.name = n /\ HaveWallets({n})
        /\ ~w.stale => PolicyKept(p, w.value)
    BY <2>1 DEF AgentFound
  <2>3. /\ DOMAIN v = {"file", "stage", "value", "stale"}
        /\ v.file = "agents" /\ v.stage = "read" /\ v.value = Upsert(w.value)
        /\ v.stale = w.stale
    BY <2>1
  <2> HIDE DEF v
  <2>4. IsAgentFile(agents) /\ HaveWallets(DOMAIN agents)
    BY DEF IndInv, TypeOK
  <2>5. /\ IsAgentFile(v.value) /\ v.value[n] = w.value
        /\ DOMAIN v.value = DOMAIN agents \union {n}
        /\ \A m \in DOMAIN agents : m # n => v.value[m] = agents[m]
    BY <2>2, <2>3, <2>4, UpsertTyped
  <2>6. HaveWallets(DOMAIN v.value)
    BY <2>2, <2>4, <2>5 DEF HaveWallets
  <2>7. AgentsRead(p, v)
    BY <2>2, <2>3, <2>5, <2>6 DEF AgentsRead
  <2>8. UpdateOK(p, v)
    BY <2>1, <2>3, <2>7 DEF UpdateOK, Files
  <2>9. Takes(p, v)
    <3>1. held' = [held EXCEPT ![p] = {v}]
      BY <1>5 DEF v
    <3> QED
      BY <1>2, <1>5, <3>1 DEF Takes, files, IndInv, TypeOK
  <2> QED
    BY <2>8, <2>9, TakesKept
<1> QED
  BY <1>1, <1>4, <1>5

LEMMA OpenKept ==
  ASSUME IndInv, NEW p \in Processes, Open(p)
  PROVE  Kept
<1>1. PICK w \in held[p] :
        /\ w.stage = "read"
        /\ torn' = torn \union {w.file}
        /\ held' = [held EXCEPT ![p] = {[w EXCEPT !.stage = "open"]}]
  BY DEF Open
<1>2. UNCHANGED <<wallets, agents, todo, keys, dropped>>
  BY DEF Open, history
<1>3. UpdateOK(p, w)
  BY DEF IndInv, HeldOK
<1> DEFINE v == [w EXCEPT !.stage = "open"]
<1>4. /\ DOMAIN v = {"file", "stage", "value", "stale"} /\ v.stage = "open"
      /\ v.file = w.file /\ v.value = w.value /\ v.stale = w.stale
  BY <1>3 DEF UpdateOK
<1>5. held' = [held EXCEPT ![p] = {v}]
  BY <1>1
<1> HIDE DEF v
<1>6. UpdateOK(p, v)
  <2>1. WalletsHeld(p, w) => WalletsHeld(p, v)
    BY <1>4 DEF WalletsHeld
  <2>2. AgentsRead(p, w) => AgentsRead(p, v)
    BY <1>4 DEF AgentsRead
  <2> QED
    BY <1>1, <1>3, <1>4, <2>1, <2>2 DEF UpdateOK
<1>7. Takes(p, v)
  <2>1. torn' \subseteq Files
    BY <1>1, <1>3 DEF UpdateOK, IndInv, TypeOK
  <2>2. /\ DOMAIN held' = Processes
        /\ \A q \in Processes : held'[q] = IF q = p THEN {v} ELSE held[q]
    BY <1>5 DEF IndInv, TypeOK
  <2> QED
    BY <1>2, <2>1, <2>2 DEF Takes, IndInv, TypeOK
<1> QED
  BY <1>6, <1>7, TakesKept

\* A write of the wallets takes no wallet from an agent, but for those it leaves out.
LEMMA WalletsStay ==
  ASSUME TypeOK, NEW value, value \in Seq(WalletRecords), wallets' = value,
         \/ /\ \A i \in DOMAIN wallets : i \in DOMAIN value /\ value[i].name = wallets[i].name
            /\ dropped' = dropped
         \/ dropped' = dropped \union (NamesIn(wallets) \ NamesIn(value)),
         NEW S, HaveWallets(S)
  PROVE  HaveWallets(S)'
<1>1. SUFFICES ASSUME NEW n \in S
               PROVE  Stored(n)' # {} \/ n \in dropped'
  BY DEF HaveWallets
<1>2. CASE n \in dropped
  BY <1>2
<1>3. CASE Stored(n) # {}
  <2>1. PICK i \in DOMAIN wallets : wallets[i].name = n
    BY <1>3 DEF Stored
  <2>2. n \in NamesIn(wallets)
    BY <2>1 DEF NamesIn
  <2>3. CASE n \in NamesIn(value)
    <3>1. PICK j \in DOMAIN value : value[j].name = n
      BY <2>3 DEF NamesIn
    <3> QED
      BY <3>1 DEF Stored
  <2>4. CASE n \notin NamesIn(value)
    <3>1. ~(i \in DOMAIN value /\ value[i].name = wallets[i].name)
      BY <2>1, <2>4 DEF NamesIn
    <3> QED
      BY <2>1, <2>2, <2>4, <3>1
  <2> QED
    BY <2>3, <2>4
<1> QED
  BY <1>1, <1>2, <1>3 DEF HaveWallets

\* What another process has of an update stays right, or is stale, after a write.
LEMMA OthersKept ==
  ASSUME NEW q \in Processes, NEW v, UpdateOK(q, v), todo'[q] = todo[q],
         NEW file \in Files,
         file # "wallets" => wallets' = wallets,
         file # "agents" => agents' = agents,
         \A S : HaveWallets(S) => HaveWallets(S)',
         NEW w, w = IF v.file = file THEN [v EXCEPT !.stale = TRUE] ELSE v
  PROVE  UpdateOK(q, w)'
<1>1. Now(q)' = Now(q)
  BY DEF Now
<1>2. /\ DOMAIN w = {"file", "stage", "value", "stale"}
      /\ w.file = v.file /\ w.stage = v.stage /\ w.value = v.value
      /\ v.file = file => w.stale = TRUE
      /\ v.file # file => w = v
  <2>1. DOMAIN v = {"file", "stage", "value", "stale"}
    BY DEF UpdateOK
  <2> QED
    BY <2>1
<1>3. WalletsHeld(q, v) /\ v.file = "wallets" => WalletsHeld(q, w)'
  BY <1>1, <1>2 DEF WalletsHeld
<1>4. ASSUME v.file = "agents", AgentFound(q, v)
      PROVE  AgentFound(q, w)'
  <2>1. HaveWallets({Now(q).name})'
    BY <1>1, <1>4 DEF AgentFound
  <2>2. ~w.stale => PolicyKept(q, w.value)'
    <3>1. CASE file = "agents"
      BY <1>2, <1>4, <3>1
    <3>2. CASE file # "agents"
      BY <1>1, <1>2, <1>4, <3>2 DEF AgentFound, PolicyKept
    <3> QED
      BY <3>1, <3>2
  <2> QED
    BY <1>1, <1>2, <1>4, <2>1, <2>2 DEF AgentFound
<1>5. ASSUME v.file = "agents", AgentsRead(q, v)
      PROVE  AgentsRead(q, w)'
  <2>1. HaveWallets(DOMAIN w.value)'
    BY <1>2, <1>5 DEF AgentsRead
  <2>2. CASE file = "agents"
    <3>1. w.stale = TRUE
      BY <1>2, <1>5, <2>2
    <3> QED
      BY <1>1, <1>2, <1>5, <2>1, <3>1 DEF AgentsRead, IsAgentFile
  <2>3. CASE file # "agents"
    <3>1. w = v /\ agents' = agents
      BY <1>2, <1>5, <2>3
    <3>2. PolicyKept(q, w.value[Now(q).name])' = PolicyKept(q, w.value[Now(q).name])
      BY <1>1, <3>1 DEF PolicyKept
    <3> QED
      BY <1>1, <1>5, <2>1, <3>1, <3>2 DEF AgentsRead, IsAgentFile
  <2> QED
    BY <2>2, <2>3
<1>6. /\ todo[q] # <<>> /\ v.file \in Files
      /\ v.file = "wallets" => WalletsHeld(q, v)
      /\ v.file = "agents" =>
           /\ Now(q).name \in Names /\ Now(q).op \in UpdatesAgents
           /\ v.stage \in {"found", "read", "open"}
           /\ IF v.stage = "found" THEN AgentFound(q, v) ELSE AgentsRead(q, v)
      /\ v.file = "activity" => Now(q).op = "log" /\ v.stage \in {"read", "open"}
  BY DEF UpdateOK
<1>7. /\ w.file = "wallets" => WalletsHeld(q, w)'
      /\ w.file = "agents" =>
           IF w.stage = "found" THEN AgentFound(q, w)' ELSE AgentsRead(q, w)'
  BY <1>2, <1>3, <1>4, <1>5, <1>6
<1> QED
  BY <1>1, <1>2, <1>6, <1>7 DEF UpdateOK

LEMMA WriteKept ==
  ASSUME IndInv, NEW p \in Processes, Write(p)
  PROVE  Kept
<1>1. PICK w \in held[p] :
        /\ w.stage = "open"
        /\ wallets' = IF w.file = "wallets" THEN w.value ELSE wallets
        /\ agents' = IF w.file = "agents" THEN w.value ELSE agents
        /\ torn' = torn \ {w.file} \/ torn' = torn \union {w.file}
        /\ held' = Outdated(p, w.file)
        /\ todo' = [todo EXCEPT ![p] = Tail(@)]
        /\ dropped' = IF w.file = "wallets" /\ w.stale
                      THEN dropped \union (NamesIn(wallets) \ NamesIn(w.value)) ELSE dropped
        /\ keys' = keys
  BY DEF Write
<1>2. UpdateOK(p, w)
  BY DEF IndInv, HeldOK
<1>3. todo[p] # <<>> /\ w.file \in Files
  BY <1>2 DEF UpdateOK
<1>4. /\ DOMAIN held' = Processes /\ held'[p] = {}
      /\ \A q \in Processes \ {p} :
           held'[q] = {IF v.file = w.file THEN [v EXCEPT !.stale = TRUE] ELSE v : v \in held[q]}
  BY <1>1 DEF Outdated
<1>5. /\ todo' \in [Processes -> Seq(Steps)]
      /\ \A q \in Processes \ {p} : todo'[q] = todo[q]
  <2>1. Tail(todo[p]) \in Seq(Steps)
    BY <1>3, HeadTailProperties DEF IndInv, TypeOK
  <2> QED
    BY <1>1, <2>1 DEF IndInv, TypeOK
<1>6. torn' \subseteq Files /\ keys' \in Nat
  BY <1>1, <1>3 DEF IndInv, TypeOK
<1>7. w.file = "wallets" => WalletsHeld(p, w)
  BY <1>2 DEF UpdateOK
<1>8. w.file = "agents" =>
        /\ AgentsRead(p, w) /\ Now(p).name \in Names
  BY <1>1, <1>2 DEF UpdateOK
<1>9. wallets' \in Seq(WalletRecords) /\ IsAgentFile(agents')
  BY <1>1, <1>7, <1>8 DEF WalletsHeld, AgentsRead, IndInv, TypeOK
<1>10. TypeOK'
  BY <1>4, <1>5, <1>6, <1>9 DEF TypeOK, IsAgentFile
<1>11. ASSUME NEW S, HaveWallets(S)
       PROVE  HaveWallets(S)'
  <2>1. CASE w.file = "wallets"
    <3>1. /\ w.value \in Seq(WalletRecords) /\ wallets' = w.value
          /\ ~w.stale => \A i \in DOMAIN wallets :
                           i \in DOMAIN w.value /\ w.value[i].name = wallets[i].name
          /\ w.stale => dropped' = dropped \union (NamesIn(wallets) \ NamesIn(w.value))
          /\ ~w.stale => dropped' = dropped
      BY <1>1, <1>7, <2>1 DEF WalletsHeld
    <3>2. \/ /\ \A i \in DOMAIN wallets :
                  i \in DOMAIN w.value /\ w.value[i].name = wallets[i].name
             /\ dropped' = dropped
          \/ dropped' = dropped \union (NamesIn(wallets) \ NamesIn(w.value))
      BY <3>1, Zenon
    <3>3. TypeOK
      BY DEF IndInv
    <3> HIDE DEF TypeOK
    <3> QED
      BY <1>11, <3>1, <3>2, <3>3, WalletsStay
  <2>2. CASE w.file # "wallets"
    BY <1>1, <1>11, <2>2 DEF HaveWallets, Stored
  <2> QED
    BY <2>1, <2>2
<1>12. HeldOK'
  <2>1. ASSUME NEW q \in Processes, NEW u \in held'[q]
        PROVE  held'[q] = {u} /\ UpdateOK(q, u)'
    <3>1. q # p
      BY <1>4, <2>1
    <3>2. PICK v \in held[q] : u = IF v.file = w.file THEN [v EXCEPT !.stale = TRUE] ELSE v
      BY <1>4, <2>1, <3>1
    <3>3. held[q] = {v} /\ UpdateOK(q, v)
      BY <3>2 DEF IndInv, HeldOK
    <3>4. held'[q] = {u}
      BY <1>4, <3>1, <3>2, <3>3
    <3>5. todo'[q] = todo[q]
      BY <1>5, <3>1
    <3>6. /\ w.file # "wallets" => wallets' = wallets
          /\ w.file # "agents" => agents' = agents
      BY <1>1
    <3>7. UpdateOK(q, u)'
      BY <1>3, <1>11, <3>2, <3>3, <3>5, <3>6, OthersKept
    <3> QED
      BY <3>4, <3>7
  <2> QED
    BY <2>1 DEF HeldOK
<1>13. HaveWallets(DOMAIN agents)'
  <2>1. HaveWallets(DOMAIN agents')
    BY <1>1, <1>8 DEF AgentsRead, IndInv
  <2> DEFINE S == DOMAIN agents'
  <2>2. HaveWallets(S)
    BY <2>1
  <2> HIDE DEF S
  <2>3. PICK T : T = S
    OBVIOUS
  <2>4. HaveWallets(T)
    BY <2>2, <2>3
  <2>5. HaveWallets(T)'
    BY <1>11, <2>4
  <2> QED
    BY <2>3, <2>5 DEF S, HaveWallets
<1>14. WritesOldCopy(p, w.file) \/ ~w.stale
  BY <1>1, <1>4 DEF WritesOldCopy
<1>15. CustodyStep
  <2>1. CASE w.file # "wallets"
    BY <1>1, <2>1 DEF CustodyStep
  <2>2. CASE w.file = "wallets" /\ w.stale
    BY <1>14, <2>2 DEF CustodyStep
  <2>3. CASE w.file = "wallets" /\ ~w.stale
    BY <1>1, <1>7, <2>3 DEF CustodyStep, WalletsHeld
  <2> QED
    BY <2>1, <2>2, <2>3
<1>16. PolicyStep
  <2>1. CASE w.file # "agents"
    BY <1>1, <2>1 DEF PolicyStep
  <2>2. CASE w.file = "agents" /\ w.stale
    BY <1>14, <2>2 DEF PolicyStep
  <2>3. CASE w.file = "agents" /\ ~w.stale
    <3> DEFINE n == Now(p).name
    <3>1. /\ IsAgentFile(w.value) /\ n \in DOMAIN w.value /\ agents' = w.value
          /\ \A m \in DOMAIN agents :
               m \in DOMAIN w.value /\ (m # n => w.value[m] = agents[m])
          /\ PolicyKept(p, w.value[n])
      BY <1>1, <1>8, <2>3 DEF AgentsRead
    <3>2. w.value[n].name = n
      BY <3>1 DEF IsAgentFile
    <3>3. n \in DOMAIN agents =>
            PolicyOf(agents'[n]) =
              IF Now(p).op = "policy" THEN Set(PolicyOf(agents[n]), Now(p).change)
              ELSE PolicyOf(agents[n])
      BY <3>1, <3>2 DEF PolicyKept
    <3>4. Now(p).op = "policy" => SetsPolicy(p, n)
      BY <1>1, <1>4, <2>3 DEF SetsPolicy
    <3>5. ASSUME NEW m \in DOMAIN agents
          PROVE  /\ m \in DOMAIN agents'
                 /\ \/ PolicyOf(agents'[m]) = PolicyOf(agents[m])
                    \/ \E q \in Processes :
                         /\ SetsPolicy(q, m)
                         /\ PolicyOf(agents'[m]) = Set(PolicyOf(agents[m]), Now(q).change)
      <4>1. CASE m # n
        BY <3>1, <4>1
      <4>2. CASE m = n
        <5>1. CASE Now(p).op = "policy"
          BY <3>1, <3>3, <3>4, <4>2, <5>1
        <5>2. CASE Now(p).op # "policy"
          BY <3>1, <3>3, <4>2, <5>2
        <5> QED
          BY <5>1, <5>2
      <4> QED
        BY <4>1, <4>2
    <3> QED
      BY <3>5 DEF PolicyStep
  <2> QED
    BY <2>1, <2>2, <2>3
<1> QED
  BY <1>10, <1>12, <1>13, <1>15, <1>16 DEF IndInv, Kept

LEMMA CrashKept ==
  ASSUME IndInv, NEW p \in Processes, Crash(p)
  PROVE  Kept
<1>1. PICK cut \in {{}} \union {{w.file} : w \in {v \in held[p] : v.stage = "open"}} :
        torn' = torn \union cut
  BY DEF Crash
<1>2. cut \subseteq Files
  BY <1>1 DEF IndInv, HeldOK, UpdateOK
<1>3. /\ todo' = [todo EXCEPT ![p] = <<>>]
      /\ held' = [held EXCEPT ![p] = {}]
      /\ UNCHANGED <<wallets, agents, keys, dropped>>
  BY DEF Crash, Goto, history
<1>4. <<>> \in Seq(Steps)
  BY EmptySeq
<1>5. Quiet(p, <<>>)
  BY <1>1, <1>2, <1>3 DEF Quiet, IndInv, TypeOK
<1> QED
  BY <1>4, <1>5, QuietKept

-----------------------------------------------------------------------------
(* The actions.                                                            *)

\* A step that only moves its command on, or ends it with an exception.
LEMMA MovesOn ==
  ASSUME IndInv, NEW p \in Processes, held[p] = {}, todo[p] # <<>>,
         Advance(p) \/ Throw(p),
         UNCHANGED <<files, held, keys, dropped>>
  PROVE  Kept
<1>1. todo[p] \in Seq(Steps)
  BY DEF IndInv, TypeOK
<1>2. \E steps \in Seq(Steps) : todo' = [todo EXCEPT ![p] = steps]
  <2>1. CASE Advance(p)
    BY <1>1, <2>1, HeadTailProperties DEF Advance, Goto
  <2>2. CASE Throw(p)
    BY <2>2, ThrowTyped DEF IndInv
  <2> QED
    BY <2>1, <2>2
<1>3. \E steps \in Seq(Steps) : Quiet(p, steps)
  BY <1>2 DEF Quiet, files, IndInv, TypeOK
<1> QED
  BY <1>3, QuietKept

LEMMA BeginKept ==
  ASSUME IndInv, NEW p \in Processes, Begin(p)
  PROVE  Kept
<1>1. PICK steps \in Seq(Steps) : Issue(p, steps)
  BY CommandsTyped
<1>2. held[p] = {}
  <2>1. todo[p] = <<>>
    BY <1>1 DEF Issue
  <2> QED
    BY <2>1 DEF IndInv, HeldOK, UpdateOK
<1>3. Quiet(p, steps)
  BY <1>1, <1>2 DEF Issue, Quiet, IndInv, TypeOK, files, history
<1> QED
  BY <1>3, QuietKept

\* The steps that write nothing and read what no property is about.
LEMMA ReadsKept ==
  ASSUME IndInv, NEW p \in Processes,
         \/ NetworkCall(p) \/ ReadWallets(p) \/ ReadLog(p) \/ ResolveEntity(p)
         \/ RequireAbsent(p) \/ RunAgent(p)
  PROVE  Kept
<1>1. held[p] = {} /\ todo[p] # <<>>
  BY DEF NetworkCall, ReadWallets, ReadLog, ResolveEntity, RequireAbsent, RunAgent, At
<1>2. /\ Advance(p) \/ Throw(p)
      /\ UNCHANGED <<files, held, keys, dropped>>
  BY DEF NetworkCall, ReadWallets, ReadLog, ResolveEntity, RequireAbsent, RunAgent, history
<1> QED
  BY <1>1, <1>2, MovesOn

LEMMA TakeRecordKept ==
  ASSUME IndInv, NEW p \in Processes, TakeRecord(p)
  PROVE  Kept
<1>1. held[p] = {} /\ Tail(todo[p]) \in Seq(Steps)
  BY AtFacts DEF IndInv, TakeRecord
<1>2. Quiet(p, Tail(todo[p]))
  BY <1>1 DEF TakeRecord, Quiet, IndInv, TypeOK, files, history
<1> QED
  BY <1>1, <1>2, QuietKept

\* The names of the wallets are listed, each once, and each is a name.
LEMMA SynchronizeKept ==
  ASSUME IndInv, NEW p \in Processes, Synchronize(p)
  PROVE  Kept
<1>1. held[p] = {} /\ todo[p] # <<>> /\ Tail(todo[p]) \in Seq(Steps)
  BY AtFacts DEF IndInv, Synchronize
<1>2. UNCHANGED <<files, held, keys, dropped>>
  BY DEF Synchronize, history
<1>3. CASE Throw(p)
  BY <1>1, <1>2, <1>3, MovesOn
<1>4. CASE ~Throw(p)
  <2> DEFINE S == {wallets[i].name : i \in DOMAIN wallets}
             names == SetToSeq(S)
             more == [i \in DOMAIN names |-> Step("ensure", names[i])]
  <2>1. /\ wallets \in [1..Len(wallets) -> WalletRecords] /\ Len(wallets) \in Nat
        /\ DOMAIN wallets = 1..Len(wallets)
    BY DEF IndInv, TypeOK
  <2>2. S \subseteq Names
    BY <2>1 DEF WalletRecords
  <2>3. IsFiniteSet(S)
    <3> DEFINE f == [i \in 1..Len(wallets) |-> wallets[i].name]
    <3>1. f \in Surjection(1..Len(wallets), S)
      BY <2>1 DEF Surjection
    <3>2. IsFiniteSet(1..Len(wallets))
      BY <2>1, FS_Interval
    <3> QED
      BY <3>1, <3>2, FS_Surjection
  <2>4. Cardinality(S) \in Nat /\ names \in [1..Cardinality(S) -> S]
    BY <2>3, SetToSeqTyped
  <2>5. more \in Seq(Steps)
    <3> HIDE DEF names, S
    <3>1. more \in [1..Cardinality(S) -> Steps]
      BY <2>2, <2>4, StepsTyped DEF Named
    <3> HIDE DEF more
    <3> QED
      BY <2>4, <3>1
  <2>6. todo' = [todo EXCEPT ![p] = more \o Tail(todo[p])]
    BY <1>4 DEF Synchronize, Goto
  <2> HIDE DEF more
  <2>7. more \o Tail(todo[p]) \in Seq(Steps)
    BY <1>1, <2>5, ConcatProperties
  <2>8. Quiet(p, more \o Tail(todo[p]))
    BY <1>1, <1>2, <2>6 DEF Quiet, IndInv, TypeOK, files
  <2> QED
    BY <2>7, <2>8, QuietKept
<1> QED
  BY <1>3, <1>4

\* The active agents are listed, each once, with the records they have.
LEMMA ListActiveKept ==
  ASSUME IndInv, NEW p \in Processes, ListActive(p)
  PROVE  Kept
<1>1. held[p] = {} /\ todo[p] # <<>> /\ Tail(todo[p]) \in Seq(Steps)
  BY AtFacts DEF IndInv, ListActive
<1>2. UNCHANGED <<files, held, keys, dropped>>
  BY DEF ListActive, history
<1>3. CASE Throw(p)
  BY <1>1, <1>2, <1>3, MovesOn
<1>4. CASE ~Throw(p)
  <2> DEFINE S == {n \in DOMAIN agents : agents[n].status = "active"}
             active == SetToSeq(S)
             runs == [i \in DOMAIN active |-> sweep_one(agents[active[i]])]
             more == FlattenSeq(runs)
  <2>1. IsFiniteSet(S)
    BY FS_Subset DEF IndInv, TypeOK, IsAgentFile
  <2>2. Cardinality(S) \in Nat /\ active \in [1..Cardinality(S) -> S]
    BY <2>1, SetToSeqTyped
  <2>3. ASSUME NEW n \in S
        PROVE  sweep_one(agents[n]) \in Seq(Steps)
    <3>1. agents[n] \in AgentRecords /\ agents[n].name \in Names
      BY DEF IndInv, TypeOK, IsAgentFile
    <3>2. /\ Patch("take", agents[n].name, agents[n]) \in Steps
          /\ Step("key", agents[n].name) \in Steps
          /\ Step("run", agents[n].name) \in Steps
          /\ Step("settle", agents[n].name) \in Steps
      BY <3>1, StepsTyped DEF Named
    <3>3. \A a, b, c, d \in Steps : <<a, b, c, d>> \in Seq(Steps)
      BY ShortSeqs
    <3> QED
      BY <3>2, <3>3 DEF sweep_one
  <2>4. runs \in [1..Cardinality(S) -> Seq(Steps)]
    <3> HIDE DEF active, S
    <3> QED
      BY <2>2, <2>3
  <2>5. more \in Seq(Steps)
    <3> HIDE DEF runs
    <3> QED
      BY <2>2, <2>4, FlattenSeqTyped
  <2>6. todo' = [todo EXCEPT ![p] = more \o Tail(todo[p])]
    BY <1>4 DEF ListActive, Goto
  <2> HIDE DEF more
  <2>7. more \o Tail(todo[p]) \in Seq(Steps)
    BY <1>1, <2>5, ConcatProperties
  <2>8. Quiet(p, more \o Tail(todo[p]))
    BY <1>1, <1>2, <2>6 DEF Quiet, IndInv, TypeOK, files
  <2> QED
    BY <2>7, <2>8, QuietKept
<1> QED
  BY <1>3, <1>4

LEMMA AppendActivityKept ==
  ASSUME IndInv, NEW p \in Processes, AppendActivity(p)
  PROVE  Kept
<1>1. held[p] = {} /\ todo[p] # <<>> /\ Now(p).op = "log"
  BY AtFacts DEF IndInv, AppendActivity
<1>2. UNCHANGED <<files, keys, dropped>>
  BY DEF AppendActivity, history
<1>3. CASE Advance(p) /\ UNCHANGED held
  BY <1>1, <1>2, <1>3, MovesOn
<1>4. CASE Hold(p, "activity", "read", activity + 1) /\ todo' = todo
  <2> DEFINE w == [file |-> "activity", stage |-> "read", value |-> activity + 1,
                   stale |-> FALSE]
  <2>1. UpdateOK(p, w)
    BY <1>1 DEF UpdateOK, Files
  <2>2. keys' \in Nat
    BY <1>2 DEF IndInv, TypeOK
  <2>3. UNCHANGED <<files, dropped>>
    BY <1>2
  <2> QED
    BY <1>4, <2>1, <2>2, <2>3, HoldKept
<1> QED
  BY <1>3, <1>4 DEF AppendActivity

\* The name that is not looked up again is appended: no wallet is replaced.
LEMMA ProvisionKept ==
  ASSUME IndInv, NEW p \in Processes, Provision(p)
  PROVE  Kept
<1>1. /\ held[p] = {} /\ todo[p] # <<>> /\ Now(p) \in Steps
      /\ Now(p).op = "provision"
  BY AtFacts DEF IndInv, Provision
<1>2. UNCHANGED <<files, dropped>>
  BY DEF Provision, history
<1>3. CASE Throw(p) /\ UNCHANGED <<held, keys>>
  BY <1>1, <1>2, <1>3, MovesOn
<1>4. CASE ~(Throw(p) /\ UNCHANGED <<held, keys>>)
  <2> DEFINE value == Provisioned(Now(p).name, keys + 1)
             w == [file |-> "wallets", stage |-> "read", value |-> value, stale |-> FALSE]
  <2>1. Hold(p, "wallets", "read", value) /\ todo' = todo /\ keys' = keys + 1
    BY <1>4 DEF Provision
  <2>2. keys \in Nat /\ keys' \in Nat /\ wallets \in Seq(WalletRecords)
    BY <2>1 DEF IndInv, TypeOK
  <2>3. Wallet(Now(p).name, keys + 1, FALSE) \in WalletRecords
    BY <1>1, <2>2, StepKinds DEF Nameless, Wallet, WalletRecords
  <2>4. /\ value \in Seq(WalletRecords) /\ Len(value) = Len(wallets) + 1
        /\ \A i \in 1..Len(wallets) : value[i] = wallets[i]
    BY <2>2, <2>3, AppendProperties DEF Provisioned
  <2> HIDE DEF value
  <2>5. \A i \in DOMAIN wallets :
          /\ i \in DOMAIN value
          /\ value[i].name = wallets[i].name /\ value[i].key = wallets[i].key
    <3>1. DOMAIN wallets = 1..Len(wallets) /\ DOMAIN value = 1..Len(value)
          /\ Len(wallets) \in Nat
      BY <2>2, <2>4, LenProperties
    <3>2. \A i \in DOMAIN wallets : i \in DOMAIN value
      BY <2>4, <3>1
    <3> QED
      BY <2>4, <3>1, <3>2
  <2>6. WalletsHeld(p, w)
    BY <1>1, <2>4, <2>5 DEF WalletsHeld
  <2>7. UpdateOK(p, w)
    BY <1>1, <2>6 DEF UpdateOK, Files
  <2> QED
    BY <1>2, <2>1, <2>2, <2>7, HoldKept
<1> QED
  BY <1>3, <1>4

LEMMA FirstStored ==
  ASSUME TypeOK, NEW n, Stored(n) # {}
  PROVE  First(n) \in DOMAIN wallets
<1>1. Stored(n) \subseteq DOMAIN wallets /\ DOMAIN wallets \subseteq Nat
  BY DEF Stored, TypeOK
<1>2. \E i \in Stored(n) : \A j \in Stored(n) : i <= j
  BY <1>1, LeastNat
<1> QED
  BY <1>1, <1>2 DEF First

\* Migrating a record drops the key kept in the clear, and nothing else.
LEMMA RequireRecordKept ==
  ASSUME IndInv, NEW p \in Processes, RequireRecord(p)
  PROVE  Kept
<1>1. held[p] = {} /\ todo[p] # <<>> /\ Now(p).op = "key"
  BY AtFacts DEF IndInv, RequireRecord
<1>2. UNCHANGED <<files, keys, dropped>>
  BY DEF RequireRecord, history
<1> DEFINE first == First(Now(p).name)
           value == [wallets EXCEPT ![first].legacy = FALSE]
           w == [file |-> "wallets", stage |-> "read", value |-> value, stale |-> FALSE]
<1>3. CASE (Advance(p) \/ Throw(p)) /\ UNCHANGED held
  BY <1>1, <1>2, <1>3, MovesOn
<1>4. CASE ~((Advance(p) \/ Throw(p)) /\ UNCHANGED held)
  <2>1. /\ Stored(Now(p).name) # {}
        /\ Hold(p, "wallets", "read", value) /\ todo' = todo
    BY <1>4 DEF RequireRecord
  <2>2. first \in DOMAIN wallets /\ wallets \in Seq(WalletRecords)
    BY <2>1, FirstStored DEF IndInv, TypeOK
  <2> HIDE DEF first
  <2>3. wallets[first] \in WalletRecords
    BY <2>2
  <2>4. [wallets[first] EXCEPT !.legacy = FALSE] \in WalletRecords
    BY <2>3 DEF WalletRecords
  <2>5. /\ value \in Seq(WalletRecords) /\ DOMAIN value = DOMAIN wallets
        /\ \A i \in DOMAIN wallets :
             value[i] = IF i = first THEN [wallets[first] EXCEPT !.legacy = FALSE]
                        ELSE wallets[i]
    <3>1. first \in 1..Len(wallets) /\ DOMAIN wallets = 1..Len(wallets)
      BY <2>2, LenProperties
    <3>2. value = [wallets EXCEPT ![first] = [wallets[first] EXCEPT !.legacy = FALSE]]
      OBVIOUS
    <3>3. value \in Seq(WalletRecords)
      BY <2>2, <2>4, <3>1, <3>2, ExceptSeq
    <3> QED
      BY <3>2, <3>3, <2>2
  <2>6. /\ [wallets[first] EXCEPT !.legacy = FALSE].name = wallets[first].name
        /\ [wallets[first] EXCEPT !.legacy = FALSE].key = wallets[first].key
    BY <2>3 DEF WalletRecords
  <2> HIDE DEF value
  <2>7. WalletsHeld(p, w)
    BY <1>1, <2>5, <2>6 DEF WalletsHeld
  <2>8. keys' \in Nat /\ UNCHANGED <<files, dropped>>
    BY <1>2 DEF IndInv, TypeOK
  <2>9. UpdateOK(p, w)
    BY <1>1, <2>7 DEF UpdateOK, Files
  <2> QED
    BY <2>1, <2>8, <2>9, HoldKept
<1> QED
  BY <1>3, <1>4

\* Beginning an update of the registry with a record whose wallet is on file.
LEMMA FoundKept ==
  ASSUME IndInv, NEW p \in Processes, NEW agent \in AgentRecords,
         todo[p] # <<>>, Now(p).name \in Names, agent.name = Now(p).name,
         Now(p).op \in UpdatesAgents, HaveWallets({Now(p).name}), PolicyKept(p, agent),
         Hold(p, "agents", "found", agent), UNCHANGED <<files, keys, todo, dropped>>
  PROVE  Kept
<1> DEFINE w == [file |-> "agents", stage |-> "found", value |-> agent, stale |-> FALSE]
<1>1. AgentFound(p, w)
  BY DEF AgentFound
<1>2. UpdateOK(p, w)
  BY <1>1 DEF UpdateOK, Files
<1>3. keys' \in Nat /\ todo' = todo
  BY DEF IndInv, TypeOK
<1> QED
  BY <1>2, <1>3, HoldKept

LEMMA ResolveAgentKept ==
  ASSUME IndInv, NEW p \in Processes, ResolveAgent(p)
  PROVE  Kept
<1> DEFINE n == Now(p).name
<1>1. /\ held[p] = {} /\ todo[p] # <<>> /\ Tail(todo[p]) \in Seq(Steps)
      /\ Now(p).op \in {"resolve", "ensure"} /\ Now(p) \in Steps
  BY AtFacts DEF IndInv, ResolveAgent
<1>2. n \in Names
  BY <1>1, StepKinds DEF Nameless
<1>3. UNCHANGED <<files, keys, dropped>>
  BY DEF ResolveAgent, history
<1>4. CASE /\ todo' = [todo EXCEPT ![p] = Tail(@)]
           /\ UNCHANGED held
  <2>1. Quiet(p, Tail(todo[p]))
    BY <1>1, <1>3, <1>4 DEF Quiet, files, IndInv, TypeOK
  <2> QED
    BY <1>1, <2>1, QuietKept
<1>5. CASE Throw(p) /\ UNCHANGED held
  BY <1>1, <1>3, <1>5, MovesOn
<1>6. CASE /\ ~Registered(n) /\ Parses("agents") /\ HasWallet(n)
           /\ Hold(p, "agents", "found", NewAgent(n, {}))
           /\ UNCHANGED todo
  <2>1. NewAgent(n, {}) \in AgentRecords /\ NewAgent(n, {}).name = n
    BY <1>2, NewAgentTyped
  <2>2. Stored(n) # {} /\ n \notin DOMAIN agents
    BY <1>6 DEF Registered, HasWallet, Parses
  <2>3. HaveWallets({n}) /\ PolicyKept(p, NewAgent(n, {}))
    BY <2>1, <2>2 DEF HaveWallets, PolicyKept
  <2>4. Now(p).op \in UpdatesAgents
    BY <1>1 DEF UpdatesAgents
  <2> QED
    BY <1>1, <1>2, <1>3, <1>6, <2>1, <2>3, <2>4, FoundKept
<1> QED
  BY <1>4, <1>5, <1>6 DEF ResolveAgent

LEMMA CreateAgentKept ==
  ASSUME IndInv, NEW p \in Processes, CreateAgent(p)
  PROVE  Kept
<1> DEFINE n == Now(p).name
           agent == NewAgent(n, {Now(p).change})
<1>1. /\ held[p] = {} /\ todo[p] # <<>>
      /\ Now(p).op = "createAgent" /\ Now(p) \in Steps
  BY AtFacts DEF IndInv, CreateAgent
<1>2. n \in Names /\ Now(p).change \in Owners
  BY <1>1, StepKinds DEF Nameless
<1>3. UNCHANGED <<files, keys, dropped>>
  BY DEF CreateAgent, history
<1>4. CASE Throw(p) /\ UNCHANGED held
  BY <1>1, <1>3, <1>4, MovesOn
<1>5. CASE /\ n \notin DOMAIN agents /\ HasWallet(n)
           /\ Hold(p, "agents", "found", agent)
           /\ UNCHANGED todo
  <2>1. agent \in AgentRecords /\ agent.name = n
    BY <1>2, NewAgentTyped
  <2> HIDE DEF agent
  <2>2. HaveWallets({n}) /\ PolicyKept(p, agent)
    BY <1>5, <2>1 DEF HaveWallets, HasWallet, PolicyKept
  <2>3. Now(p).op \in UpdatesAgents
    BY <1>1 DEF UpdatesAgents
  <2> QED
    BY <1>1, <1>2, <1>3, <1>5, <2>1, <2>2, <2>3, FoundKept
<1> QED
  BY <1>4, <1>5 DEF CreateAgent

\* The record is read again when it is patched, so what is written keeps the
\* policy stored, unless the patch is a policy command's own.
LEMMA PatchAgentKept ==
  ASSUME IndInv, NEW p \in Processes, PatchAgent(p)
  PROVE  Kept
<1> DEFINE n == Now(p).name
           update == CASE Now(p).op = "settle" -> [lastRun |-> "ok"]
                       [] Now(p).op = "failed" -> [lastRun |-> "error"]
                       [] OTHER -> Now(p).change
           agent == Patched(p, n, update)
<1>1. /\ held[p] = {} /\ todo[p] # <<>> /\ Now(p) \in Steps
      /\ Now(p).op \in {"policy", "patch", "settle", "failed"}
  BY AtFacts DEF IndInv, PatchAgent
<1>2. n \in Names
  BY <1>1, StepKinds DEF Nameless
<1>3. UNCHANGED <<files, keys, dropped>>
  BY DEF PatchAgent, history
<1>4. CASE Throw(p) /\ UNCHANGED held
  BY <1>1, <1>3, <1>4, MovesOn
<1>5. CASE Registered(n) /\ Hold(p, "agents", "found", agent) /\ UNCHANGED todo
  <2>1. n \in DOMAIN agents /\ agents[n] \in AgentRecords /\ agents[n].name = n
    BY <1>5 DEF Registered, IndInv, TypeOK, IsAgentFile
  <2>2. /\ Now(p).op = "policy" => update \in PolicyChanges /\ update = Now(p).change
        /\ Now(p).op # "policy" =>
             update \in RunChanges \union [lastRun : {"ok", "error"}]
    <3>1. CASE Now(p).op \in {"policy", "patch"}
      <4>1. update = Now(p).change
        BY <3>1
      <4> HIDE DEF update
      <4> QED
        BY <1>1, <3>1, <4>1, StepKinds
    <3>2. CASE Now(p).op \in {"settle", "failed"}
      BY <3>2
    <3> QED
      BY <1>1, <3>1, <3>2
  <2> HIDE DEF update
  <2>3. Now(p).op # "policy" => update \notin PolicyChanges
    BY <2>2 DEF PolicyChanges, RunChanges
  <2>4. agent \in AgentRecords /\ agent.name = n
    BY <2>1, <2>2, MergeTyped DEF Patched
  <2>5. PolicyOf(agent) = IF Now(p).op = "policy" THEN Set(PolicyOf(agents[n]), Now(p).change)
                          ELSE PolicyOf(agents[n])
    BY <2>1, <2>2, <2>3, MergePolicy DEF Patched
  <2> HIDE DEF agent
  <2>6. HaveWallets({n})
    BY <2>1 DEF IndInv, HaveWallets
  <2>7. PolicyKept(p, agent)
    BY <2>4, <2>5 DEF PolicyKept
  <2>8. Now(p).op \in UpdatesAgents
    BY <1>1 DEF UpdatesAgents
  <2> QED
    BY <1>1, <1>2, <1>3, <1>5, <2>4, <2>6, <2>7, <2>8, FoundKept
<1> QED
  BY <1>4, <1>5 DEF PatchAgent

-----------------------------------------------------------------------------
(* The theorems.                                                           *)

LEMMA InitKept == Init => IndInv
<1> SUFFICES ASSUME Init PROVE IndInv
  OBVIOUS
<1>1. TypeOK
  <2>1. wallets \in Seq(WalletRecords) /\ keys \in Nat
    BY ConstantsAssumption DEF Init
  <2>2. DOMAIN agents = {} /\ IsFiniteSet(DOMAIN agents)
    <3>1. DOMAIN agents = {}
      BY DEF Init
    <3> QED
      BY <3>1, FS_EmptySet
  <2>3. todo \in [Processes -> Seq(Steps)]
    BY EmptySeq DEF Init
  <2> QED
    BY <2>1, <2>2, <2>3 DEF Init, TypeOK, IsAgentFile
<1>2. HeldOK
  BY DEF Init, HeldOK
<1>3. HaveWallets(DOMAIN agents)
  BY DEF Init, HaveWallets
<1> QED
  BY <1>1, <1>2, <1>3 DEF IndInv

LEMMA StepKept ==
  ASSUME IndInv, [Next]_vars
  PROVE  IndInv' /\ ((CustodyStep /\ PolicyStep) \/ UNCHANGED vars)
<1>1. ASSUME NEW p \in Processes,
             \/ Begin(p) \/ NetworkCall(p) \/ ReadWallets(p) \/ ReadLog(p)
             \/ ResolveEntity(p) \/ RequireAbsent(p) \/ Provision(p) \/ RequireRecord(p)
             \/ ResolveAgent(p) \/ CreateAgent(p) \/ PatchAgent(p) \/ Synchronize(p)
             \/ ListActive(p) \/ TakeRecord(p) \/ RunAgent(p) \/ AppendActivity(p)
             \/ Reread(p) \/ Open(p) \/ Write(p) \/ Crash(p)
      PROVE  Kept
  BY <1>1, BeginKept, ReadsKept, ProvisionKept, RequireRecordKept, ResolveAgentKept,
     CreateAgentKept, PatchAgentKept, SynchronizeKept, ListActiveKept, TakeRecordKept,
     AppendActivityKept, RereadKept, OpenKept, WriteKept, CrashKept, Zenon
<1>2. CASE UNCHANGED vars
  <2>1. UNCHANGED <<wallets, agents, torn, todo, held, keys, dropped>>
    BY <1>2 DEF vars, files, history
  <2>2. TypeOK'
    BY <2>1 DEF IndInv, TypeOK, IsAgentFile
  <2>3. HeldOK'
    <3>1. ASSUME NEW p \in Processes, NEW w \in held[p]
          PROVE  held[p] = {w} /\ UpdateOK(p, w)'
      <4>1. held[p] = {w} /\ UpdateOK(p, w)
        BY DEF IndInv, HeldOK
      <4> QED
        BY <2>1, <4>1, UpdateStays
    <3> QED
      BY <2>1, <3>1 DEF HeldOK
  <2>4. HaveWallets(DOMAIN agents)'
    BY <2>1 DEF IndInv, HaveWallets, Stored
  <2> QED
    BY <1>2, <2>2, <2>3, <2>4 DEF IndInv
<1>3. CASE Next
  BY <1>1, <1>3, Zenon DEF Next, Kept
<1> QED
  BY <1>2, <1>3

\* What every process holds of a file differs from the file by its own change, unless
\* another process has written the file since; for any processes, however they
\* overlap and wherever they are killed.
THEOREM CommandsInvariant == Spec => []IndInv
<1>1. IndInv /\ [Next]_vars => IndInv'
  BY StepKept
<1> QED
  BY InitKept, <1>1, PTL DEF Spec

\* What a policy command stored stays until the next one, unless a process that was
\* inside one update when the file was written writes its old copy.
THEOREM PolicyChangesSurviveHolds == Spec => PolicyChangesSurvive
<1>1. IndInv /\ [Next]_vars =>
        [ \/ \E p \in Processes : WritesOldCopy(p, "agents")
          \/ \A n \in DOMAIN agents :
               /\ n \in DOMAIN agents'
               /\ \/ PolicyOf(agents'[n]) = PolicyOf(agents[n])
                  \/ \E p \in Processes :
                       /\ SetsPolicy(p, n)
                       /\ PolicyOf(agents'[n])
                            = Set(PolicyOf(agents[n]), Now(p).change) ]_vars
  BY StepKept DEF PolicyStep
<1> QED
  BY CommandsInvariant, <1>1, PTL DEF Spec, PolicyChangesSurvive

\* No agent is registered whose wallet is not on file, but for a wallet that was left
\* out by an old copy.
THEOREM AgentsHaveWalletsHolds == Spec => []AgentsHaveWallets
<1>1. IndInv => AgentsHaveWallets
  BY DEF IndInv, HaveWallets, AgentsHaveWallets
<1> QED
  BY CommandsInvariant, <1>1, PTL

\* A wallet on file keeps its place and its key, and a file that was cut short is
\* never replaced by one without what it last held, but by a process that writes an
\* old copy.
THEOREM CustodyKeptHolds == Spec => CustodyKept
<1>1. IndInv /\ [Next]_vars =>
        [ \/ \E p \in Processes : WritesOldCopy(p, "wallets")
          \/ \A i \in DOMAIN wallets :
               /\ i \in DOMAIN wallets'
               /\ wallets'[i].name = wallets[i].name
               /\ wallets'[i].key = wallets[i].key ]_vars
  BY StepKept DEF CustodyStep
<1> QED
  BY CommandsInvariant, <1>1, PTL DEF Spec, CustodyKept
=============================================================================
