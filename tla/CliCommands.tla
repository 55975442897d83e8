----------------------------- MODULE CliCommands -----------------------------
(***************************************************************************)
(* The prkt command line: processes that share three JSON files, the       *)
(* wallets, the agents and the activity log.                               *)
(*                                                                         *)
(* A command is a sequence of steps (its operator below), each of which    *)
(* reads or updates one file or makes a call over the network.  An update  *)
(* reads all of the file and writes all of it back, and no process takes a *)
(* lock: another may run between the two, and between the opening of the   *)
(* file, which empties it, and the writing.  A process may be killed       *)
(* anywhere.                                                               *)
(*                                                                         *)
(* `stale' (in held), `dropped' and `sent' are history: no guard reads     *)
(* them but Write, where an old copy may also leave its file unreadable.   *)
(***************************************************************************)
EXTENDS Naturals, Sequences, FiniteSets, SequencesExt, PolicyPresets

CONSTANTS
  Processes,
  Names,          \* names of wallets and agents
  Owners,
  Presets,        \* presets set-preset is given
  Limits,         \* overrides set-limits is given, with its approval mode
  Strategies,     \* strategies agent run is given
  Initial,        \* wallet files at the start
  DataAnchoring,  \* defaultPRKTConfig.dataAnchoring.enabled
  MaxCommands     \* bound: commands issued

WalletRecords == [name : Names, key : Nat, legacy : BOOLEAN]

ASSUME ConstantsAssumption ==
  /\ Presets \subseteq PresetNames
  /\ \A overrides \in Limits : overrides.approvalMode \subseteq ApprovalModes
  /\ Initial \subseteq Seq(WalletRecords)
  /\ DataAnchoring \in BOOLEAN
  /\ MaxCommands \in Nat

\* memo-heartbeat and universal-defi need nothing; simple-scripted-transfer needs a
\* strategyConfig, which no command stores; createStrategy throws on any other name.
Runnable == {"memo-heartbeat", "universal-defi"}

VARIABLES
  wallets,   \* cli-wallets.json, or what it last held: a sequence of records
  agents,    \* cli-agents.json: a function from the names registered
  activity,  \* cli-activity.json: how many entries it has
  torn,      \* files that do not parse: emptied to be written, or cut short
  todo,      \* todo[p]: steps left of the command p runs
  held,      \* held[p]: {} or {the update p is in}
  record,    \* record[p]: {} or {the agent record p has read}
  issued,    \* commands issued
  keys,      \* key pairs generated
  dropped,   \* history: wallets left out by a process that wrote an old copy
  sent       \* history: sent[n], transactions sent since n's policy was set

files == <<wallets, agents, activity, torn>>
history == <<dropped, sent>>
vars == <<files, todo, held, record, issued, keys, history>>

Wallet(name, key, legacy) == [name |-> name, key |-> key, legacy |-> legacy]
Files == {"wallets", "agents", "activity"}

Init ==
  /\ wallets \in Initial
  /\ agents = [n \in {} |-> {}]
  /\ activity = 0
  /\ torn = {}
  /\ todo = [p \in Processes |-> <<>>]
  /\ held = [p \in Processes |-> {}]
  /\ record = [p \in Processes |-> {}]
  /\ issued = 0
  /\ keys = Len(wallets)
  /\ dropped = {}
  /\ sent = [n \in Names |-> 0]

-----------------------------------------------------------------------------
(* The commands.                                                           *)

Step(op, name) == [op |-> op, name |-> name]
Patch(op, name, change) == [op |-> op, name |-> name, change |-> change]
Call == Step("call", "")        \* a call over the network, which may throw
Log == Step("log", "")          \* activity()

\* activity() alone, and the read-only views, which access no file for writing.
\* The one call of doctor is caught.
init == <<Log>>
config_show == <<Log>>
doctor == <<Log>>
verify_session == <<Call>>
verify_tx == <<Call>>
monitor_txs == <<Step("readLog", "")>>
audit == <<Step("readLog", "")>>
agent_logs == <<Step("readLog", "")>>
wallet_list == <<Step("list", "")>>
monitor_balances == <<Step("list", ""), Call>>
wallet_show(n) == <<Step("find", n)>>
multi_agent_devnet == <<Call, Log>>

wallet_create(n) ==
  <<Step("absent", n), Step("provision", n), Step("ensure", n), Log>>
wallet_fund(n) == <<Step("entity", n), Step("key", n), Call, Call, Log>>
wallet_balance(n) == <<Step("entity", n), Step("key", n), Call>>
export_secret(n) == <<Step("entity", n), Step("key", n), Step("find", n)>>
transfer_sol(n) == <<Step("entity", n), Step("key", n), Call, Log>>
transfer_spl(n) == <<Step("entity", n), Step("key", n), Call, Call, Call, Log>>
mint_demo(n) == <<Step("key", n), Call, Call, Call, Call, Log>>
create_ata(n) == <<Step("key", n), Call, Call, Log>>

policy_show(n) == <<Step("resolve", n)>>
set_preset(n, preset) ==
  <<Step("resolve", n),
    Patch("policy", n,
      [policyPreset |-> preset,
       policyMode |-> IF preset = "guarded-live" THEN "live" ELSE "sandbox"])>>
\* Without --approval-mode the policyMode of the record read is written again.
set_limits(n, overrides) ==
  <<Step("resolve", n),
    Patch("policy", n,
      IF overrides.approvalMode = {} THEN [policyOverrides |-> overrides]
      ELSE [policyOverrides |-> overrides,
            policyMode |-> Or(overrides.approvalMode, "sandbox")])>>
clear_overrides(n) ==
  <<Step("resolve", n), Patch("policy", n, [policyOverrides |-> NoOverrides])>>
validate_intent(n) == <<Step("resolve", n), Step("key", n), Call, Log>>

agent_create(n, owner) ==
  <<Step("absent", n), Step("provision", n), Patch("createAgent", n, owner), Log>>
agent_fund(n) == <<Step("resolve", n), Step("key", n), Call, Call, Log>>
agent_balance(n) == <<Step("resolve", n), Step("key", n), Call>>
export_wallet(n) == <<Step("resolve", n), Step("key", n), Step("find", n)>>
agent_list == <<Step("sync", "")>>
monitor_agents == <<Step("sync", "")>>
agent_show(n) == <<Step("resolve", n), Step("find", n)>>
agent_stop(n) == <<Patch("patch", n, [status |-> "stopped"]), Log>>
\* run-once of one agent; the strategy and the status are stored before the
\* strategy is known to exist, and the status again when the run is over.
agent_run(n, strategy) ==
  <<Step("resolve", n),
    Patch("patch", n, [status |-> "active", strategy |-> strategy]),
    Step("key", n), Step("run", n),
    Patch("patch", n, [status |-> "active", lastRun |-> "ok"]), Log>>
run_all == <<Step("sync", ""), Step("sweep", ""), Log>>
\* One iteration of run-all: the try block, and the patch of its two branches.
sweep_one(agent) ==
  <<Patch("take", agent.name, agent), Step("key", agent.name), Step("run", agent.name),
    Step("settle", agent.name)>>
overview == <<Step("sync", ""), Step("list", ""), Call, Log>>
watch == overview \o overview

-----------------------------------------------------------------------------
(* The steps.                                                              *)

Now(p) == Head(todo[p])
At(p, op) ==
  /\ todo[p] # <<>>
  /\ Now(p).op = op
  /\ held[p] = {}

Goto(p, steps) ==
  /\ todo' = [todo EXCEPT ![p] = steps]
  /\ record' = [record EXCEPT ![p] = IF steps = <<>> THEN {} ELSE @]
Advance(p) == Goto(p, Tail(todo[p]))

\* An exception ends the command, unless it leaves the try block of run-all,
\* whose catch records it.
Throw(p) ==
  LET steps == todo[p]
      settles == {i \in DOMAIN steps : steps[i].op = "settle"}
      first == CHOOSE i \in settles : \A j \in settles : i <= j
  IN Goto(p, IF settles = {} \/ Now(p).op = "failed" THEN <<>>
             ELSE <<Step("failed", steps[first].name)>>
                    \o SubSeq(steps, first + 1, Len(steps)))

\* JSON.parse throws on a file that is empty or cut short.
Parses(file) == file \notin torn

\* p is in an update of the file.  The registry of agents is read once to find a
\* record ("found": value is the record to store) and again by upsert ("read": value
\* is what is about to be written); "open" is inside writeFileSync.  The copy is
\* stale when another process has written the file since p began.
Hold(p, file, stage, value) ==
  held' = [held EXCEPT
    ![p] = {[file |-> file, stage |-> stage, value |-> value, stale |-> FALSE]}]

Stored(n) == {i \in DOMAIN wallets : wallets[i].name = n}
\* find returns the first record of the name.
First(n) == CHOOSE i \in Stored(n) : \A j \in Stored(n) : i <= j

NewAgent(n, owner) ==
  [name |-> n, ownerId |-> owner, policyMode |-> "sandbox",
   policyPreset |-> DEFAULT_POLICY_PRESET, policyOverrides |-> NoOverrides,
   status |-> "active", strategy |-> "memo-heartbeat", lastRun |-> "never"]

\* {...existing, ...update}
Merge(existing, update) ==
  [field \in DOMAIN existing |->
    IF field \in DOMAIN update THEN update[field] ELSE existing[field]]

Upsert(agent) ==
  [n \in DOMAIN agents \union {agent.name} |->
    IF n = agent.name THEN agent ELSE agents[n]]

\* Mutant: the record is merged into the copy read when the command began.
Patched_Stale(p, n, update) ==
  Merge(IF record[p] = {} THEN agents[n] ELSE CHOOSE r \in record[p] : TRUE, update)

\* patch reads the record again, whatever the command holds of it.
Patched(p, n, update) == Merge(agents[n], update)

Issue(p, steps) ==
  /\ todo[p] = <<>>
  /\ issued < MaxCommands
  /\ issued' = issued + 1
  /\ todo' = [todo EXCEPT ![p] = steps]
  /\ UNCHANGED <<files, held, record, keys, history>>

Begin(p) ==
  \/ Issue(p, init)
  \/ Issue(p, config_show)
  \/ Issue(p, doctor)
  \/ Issue(p, verify_session)
  \/ Issue(p, verify_tx)
  \/ Issue(p, multi_agent_devnet)
  \/ Issue(p, wallet_list)
  \/ Issue(p, monitor_balances)
  \/ Issue(p, monitor_txs)
  \/ Issue(p, monitor_agents)
  \/ Issue(p, overview)
  \/ Issue(p, watch)
  \/ Issue(p, audit)
  \/ Issue(p, agent_list)
  \/ Issue(p, agent_logs)
  \/ Issue(p, run_all)
  \/ \E n \in Names :
       \/ Issue(p, wallet_show(n))
       \/ Issue(p, wallet_create(n))
       \/ Issue(p, wallet_fund(n))
       \/ Issue(p, wallet_balance(n))
       \/ Issue(p, export_secret(n))
       \/ Issue(p, transfer_sol(n))
       \/ Issue(p, transfer_spl(n))
       \/ Issue(p, mint_demo(n))
       \/ Issue(p, create_ata(n))
       \/ Issue(p, policy_show(n))
       \/ \E preset \in Presets : Issue(p, set_preset(n, preset))
       \/ \E overrides \in Limits : Issue(p, set_limits(n, overrides))
       \/ Issue(p, clear_overrides(n))
       \/ Issue(p, validate_intent(n))
       \/ \E owner \in Owners : Issue(p, agent_create(n, owner))
       \/ Issue(p, agent_fund(n))
       \/ Issue(p, agent_balance(n))
       \/ Issue(p, export_wallet(n))
       \/ Issue(p, agent_show(n))
       \/ \E strategy \in Strategies : Issue(p, agent_run(n, strategy))
       \/ Issue(p, agent_stop(n))

\* A network call resolves or throws; what it does there is in Funding and
\* SandboxExecution.
NetworkCall(p) ==
  /\ At(p, "call")
  /\ Advance(p) \/ Throw(p)
  /\ UNCHANGED <<files, held, issued, keys, history>>

\* The wallets, or the log, are read and shown.
ReadWallets(p) ==
  /\ At(p, "list") \/ At(p, "find")
  /\ IF Parses("wallets") THEN Advance(p) ELSE Throw(p)
  /\ UNCHANGED <<files, held, issued, keys, history>>
ReadLog(p) ==
  /\ At(p, "readLog")
  /\ IF Parses("activity") THEN Advance(p) ELSE Throw(p)
  /\ UNCHANGED <<files, held, issued, keys, history>>

\* resolveWalletName
ResolveEntity(p) ==
  /\ At(p, "entity")
  /\ IF /\ Parses("wallets")
        /\ \/ Stored(Now(p).name) # {}
           \/ Parses("agents") /\ Now(p).name \in DOMAIN agents
       THEN Advance(p) ELSE Throw(p)
  /\ UNCHANGED <<files, held, issued, keys, history>>

\* WalletRegistry.create: the name must be free.
RequireAbsent(p) ==
  /\ At(p, "absent")
  /\ IF Parses("wallets") /\ Stored(Now(p).name) = {} THEN Advance(p) ELSE Throw(p)
  /\ UNCHANGED <<files, held, issued, keys, history>>

\* Mutant: a record of that name is replaced.
Provisioned_Upsert(n, key) ==
  IF Stored(n) = {} THEN Append(wallets, Wallet(n, key, FALSE))
  ELSE [wallets EXCEPT ![First(n)] = Wallet(n, key, FALSE)]

Provisioned(n, key) == Append(wallets, Wallet(n, key, FALSE))

\* provision derives the recovery key, reads the file again and appends: the
\* name is not looked up a second time.
Provision(p) ==
  /\ At(p, "provision")
  /\ \/ /\ Parses("wallets")
        /\ Hold(p, "wallets", "read", Provisioned(Now(p).name, keys + 1))
        /\ keys' = keys + 1
        /\ UNCHANGED <<todo, record>>
     \/ /\ ~Parses("wallets")
        /\ Throw(p)
        /\ UNCHANGED <<held, keys>>
  /\ UNCHANGED <<files, issued, history>>

\* toWalletManager and exportSecretKeyWithRecovery: requireRecord migrates a
\* record that still holds its key in the clear.
RequireRecord(p) ==
  /\ At(p, "key")
  /\ LET n == Now(p).name IN
     \/ /\ ~Parses("wallets") \/ Stored(n) = {}
        /\ Throw(p)
        /\ UNCHANGED held
     \/ /\ Parses("wallets") /\ Stored(n) # {}
        /\ IF wallets[First(n)].legacy
             THEN /\ Hold(p, "wallets", "read", [wallets EXCEPT ![First(n)].legacy = FALSE])
                  /\ UNCHANGED <<todo, record>>
             ELSE Advance(p) /\ UNCHANGED held
  /\ UNCHANGED <<files, issued, keys, history>>

Registered(n) == Parses("agents") /\ n \in DOMAIN agents

\* Mutant: the wallet is not looked up.
HasWallet_Unchecked(n) == Parses("wallets")

HasWallet(n) == Parses("wallets") /\ Stored(n) # {}

\* resolveAgentRecord and ensureForWallet: an agent that is missing is made for
\* the wallet of its name.
ResolveAgent(p) ==
  /\ At(p, "resolve") \/ At(p, "ensure")
  /\ LET n == Now(p).name IN
     \/ /\ Registered(n)
        /\ todo' = [todo EXCEPT ![p] = Tail(@)]
        /\ record' = [record EXCEPT ![p] = {agents[n]}]
        /\ UNCHANGED held
     \/ /\ ~Registered(n) /\ Parses("agents") /\ HasWallet(n)
        /\ Hold(p, "agents", "found", NewAgent(n, {}))
        /\ UNCHANGED <<todo, record>>
     \/ /\ ~Registered(n) /\ ~(Parses("agents") /\ HasWallet(n))
        /\ Throw(p)
        /\ UNCHANGED held
  /\ UNCHANGED <<files, issued, keys, history>>

\* AgentRegistryStore.createAgent
CreateAgent(p) ==
  /\ At(p, "createAgent")
  /\ LET n == Now(p).name IN
     IF Parses("agents") /\ n \notin DOMAIN agents /\ HasWallet(n)
       THEN /\ Hold(p, "agents", "found", NewAgent(n, {Now(p).change}))
            /\ UNCHANGED <<todo, record>>
       ELSE Throw(p) /\ UNCHANGED held
  /\ UNCHANGED <<files, issued, keys, history>>

\* AgentRegistryStore.patch, for the policy commands, agent run and stop, and the
\* two branches of run-all.
PatchAgent(p) ==
  /\ \E op \in {"policy", "patch", "settle", "failed"} : At(p, op)
  /\ LET n == Now(p).name
         update == CASE Now(p).op = "settle" -> [lastRun |-> "ok"]
                     [] Now(p).op = "failed" -> [lastRun |-> "error"]
                     [] OTHER -> Now(p).change
     IN IF Registered(n)
          THEN /\ Hold(p, "agents", "found", Patched(p, n, update))
               /\ UNCHANGED <<todo, record>>
          ELSE Throw(p) /\ UNCHANGED held
  /\ UNCHANGED <<files, issued, keys, history>>

\* synchronizeWithWallets: an agent for every wallet listed.
Synchronize(p) ==
  /\ At(p, "sync")
  /\ IF Parses("wallets") /\ Parses("agents")
       THEN LET names == SetToSeq({wallets[i].name : i \in DOMAIN wallets})
            IN Goto(p, [i \in DOMAIN names |-> Step("ensure", names[i])]
                         \o Tail(todo[p]))
       ELSE Throw(p)
  /\ UNCHANGED <<files, held, issued, keys, history>>

\* run-all lists the active agents once, and runs the records it read.
ListActive(p) ==
  /\ At(p, "sweep")
  /\ IF Parses("agents")
       THEN LET active == SetToSeq({n \in DOMAIN agents : agents[n].status = "active"})
            IN Goto(p, FlattenSeq([i \in DOMAIN active |-> sweep_one(agents[active[i]])])
                         \o Tail(todo[p]))
       ELSE Throw(p)
  /\ UNCHANGED <<files, held, issued, keys, history>>

TakeRecord(p) ==
  /\ At(p, "take")
  /\ todo' = [todo EXCEPT ![p] = Tail(@)]
  /\ record' = [record EXCEPT ![p] = {Now(p).change}]
  /\ UNCHANGED <<files, held, issued, keys, history>>

\* Transactions an engine lets one run send: every run builds an AgentRunner, and with
\* it a PolicyEngine whose counters are at zero.  No command gives it an approval
\* callback, so a live policy sends nothing.
Allowance(agent) ==
  LET policy == resolvePolicyConfig(agent.policyPreset, agent.policyOverrides)
  IN IF policy.approvalMode = "live" THEN 0
     ELSE IF policy.maxTransactionsPerSession < policy.maxTransactionsPerDay
            THEN policy.maxTransactionsPerSession ELSE policy.maxTransactionsPerDay

\* memo-heartbeat has one intent.  universal-defi has one for each of five
\* capabilities, and what its memo fallback sends passes no engine.
MaySend(agent) ==
  IF agent.strategy = "universal-defi" THEN 0..5 ELSE {k \in {0, 1} : k <= Allowance(agent)}

\* runAgentOnce.  registerAgent is not awaited: with data anchoring on it is
\* still starting its session when the agents are listed, and there is no result.
RunAgent(p) ==
  /\ At(p, "run")
  /\ \E agent \in record[p] :
       \/ /\ agent.strategy \notin Runnable \/ DataAnchoring
          /\ Throw(p)
          /\ UNCHANGED sent
       \/ /\ agent.strategy \in Runnable /\ ~DataAnchoring
          /\ Advance(p)
          /\ \E k \in MaySend(agent) : sent' = [sent EXCEPT ![agent.name] = @ + k]
  /\ UNCHANGED <<files, held, issued, keys, dropped>>

\* ActivityStore.append, whose errors are only reported.
AppendActivity(p) ==
  /\ At(p, "log")
  /\ \/ /\ Parses("activity")
        /\ Hold(p, "activity", "read", activity + 1)
        /\ UNCHANGED <<todo, record>>
     \/ /\ ~Parses("activity")
        /\ Advance(p)
        /\ UNCHANGED held
  /\ UNCHANGED <<files, issued, keys, history>>

\* The second read of upsert.
Reread(p) ==
  /\ \E w \in held[p] :
       /\ w.stage = "found"
       /\ \/ /\ Parses("agents")
             /\ held' = [held EXCEPT
                  ![p] = {[w EXCEPT !.stage = "read", !.value = Upsert(w.value)]}]
             /\ UNCHANGED <<todo, record>>
          \/ /\ ~Parses("agents")
             /\ held' = [held EXCEPT ![p] = {}]
             /\ Throw(p)
  /\ UNCHANGED <<files, issued, keys, history>>

\* writeFileSync opens the file, and empties it.
Open(p) ==
  /\ \E w \in held[p] :
       /\ w.stage = "read"
       /\ torn' = torn \union {w.file}
       /\ held' = [held EXCEPT ![p] = {[w EXCEPT !.stage = "open"]}]
  /\ UNCHANGED <<wallets, agents, activity, todo, record, issued, keys, history>>

\* What the others hold of a file is old once p has written it.
Outdated(p, file) ==
  [q \in Processes |->
    IF q = p THEN {}
    ELSE {IF v.file = file THEN [v EXCEPT !.stale = TRUE] ELSE v : v \in held[q]}]

NamesIn(records) == {records[i].name : i \in DOMAIN records}

\* writeFileSync completes.  Two that overlapped may leave the end of the longer
\* content behind the shorter.
Write(p) ==
  \E w \in held[p] :
    /\ w.stage = "open"
    /\ wallets' = IF w.file = "wallets" THEN w.value ELSE wallets
    /\ agents' = IF w.file = "agents" THEN w.value ELSE agents
    /\ activity' = IF w.file = "activity" THEN w.value ELSE activity
    /\ \/ torn' = torn \ {w.file}
       \/ w.stale /\ torn' = torn \union {w.file}
    /\ held' = Outdated(p, w.file)
    /\ todo' = [todo EXCEPT ![p] = Tail(@)]
    /\ record' = [record EXCEPT ![p] =
         IF Len(todo[p]) = 1 THEN {}
         ELSE IF w.file = "agents" THEN {w.value[Now(p).name]} ELSE @]
    /\ dropped' = IF w.file = "wallets" /\ w.stale
                   THEN dropped \union (NamesIn(wallets) \ NamesIn(w.value)) ELSE dropped
    /\ sent' = IF Now(p).op = "policy" THEN [sent EXCEPT ![Now(p).name] = 0] ELSE sent
    /\ UNCHANGED <<issued, keys>>

\* The process is killed, between two steps or in the middle of a write.
Crash(p) ==
  /\ todo[p] # <<>>
  /\ \E cut \in {{}} \union {{w.file} : w \in {v \in held[p] : v.stage = "open"}} :
       torn' = torn \union cut
  /\ Goto(p, <<>>)
  /\ held' = [held EXCEPT ![p] = {}]
  /\ UNCHANGED <<wallets, agents, activity, issued, keys, history>>

Next ==
  \E p \in Processes :
    \/ Begin(p)
    \/ NetworkCall(p)
    \/ ReadWallets(p)
    \/ ReadLog(p)
    \/ ResolveEntity(p)
    \/ RequireAbsent(p)
    \/ Provision(p)
    \/ RequireRecord(p)
    \/ ResolveAgent(p)
    \/ CreateAgent(p)
    \/ PatchAgent(p)
    \/ Synchronize(p)
    \/ ListActive(p)
    \/ TakeRecord(p)
    \/ RunAgent(p)
    \/ AppendActivity(p)
    \/ Reread(p)
    \/ Open(p)
    \/ Write(p)
    \/ Crash(p)

Spec == Init /\ [][Next]_vars

-----------------------------------------------------------------------------
(* Properties.                                                             *)

PolicyOf(agent) == <<agent.policyPreset, agent.policyOverrides>>

\* What a change of a record makes of its policy.
Set(policy, update) ==
  <<IF "policyPreset" \in DOMAIN update THEN update.policyPreset ELSE policy[1],
    IF "policyOverrides" \in DOMAIN update THEN update.policyOverrides ELSE policy[2]>>

\* p ends an update it began before another process wrote the same file.
WritesOldCopy(p, file) ==
  \E w \in held[p] : w.file = file /\ w.stage = "open" /\ w.stale /\ held'[p] = {}

\* p ends a policy command's update of n.
SetsPolicy(p, n) ==
  /\ \E w \in held[p] : w.file = "agents" /\ w.stage = "open" /\ held'[p] = {}
  /\ Now(p).op = "policy" /\ Now(p).name = n

\* What a policy command stored stays until the next one of that agent: an agent run,
\* a sweep or a stop that began before it and ends after it writes its own fields
\* only.  The one exception is a process that was between the reading and the writing
\* of a single update when the file was written; upsert takes no lock.
PolicyChangesSurvive ==
  [][ \/ \E p \in Processes : WritesOldCopy(p, "agents")
      \/ \A n \in DOMAIN agents :
           /\ n \in DOMAIN agents'
           /\ \/ PolicyOf(agents'[n]) = PolicyOf(agents[n])
              \/ \E p \in Processes :
                   /\ SetsPolicy(p, n)
                   /\ PolicyOf(agents'[n]) = Set(PolicyOf(agents[n]), Now(p).change) ]_vars

\* Whatever is interrupted, no agent is registered whose wallet is not on file, but
\* for a wallet that a process left out by writing an old copy of the file.
AgentsHaveWallets ==
  Parses("wallets") => \A n \in DOMAIN agents : Stored(n) # {} \/ n \in dropped

\* A wallet on file keeps its place and its key, so its name finds the same key for
\* good; and a file that was cut short is never replaced by one without the keys it
\* last held.  Again the exception is a process that writes an old copy.
CustodyKept ==
  [][ \/ \E p \in Processes : WritesOldCopy(p, "wallets")
      \/ \A i \in DOMAIN wallets :
           /\ i \in DOMAIN wallets'
           /\ wallets'[i].name = wallets[i].name
           /\ wallets'[i].key = wallets[i].key ]_vars

-----------------------------------------------------------------------------
(* The inductive invariant.                                                *)

Overrides == Limits \union {NoOverrides}
AgentRecords ==
  [name : Names, ownerId : SUBSET Owners, policyMode : ApprovalModes,
   policyPreset : Presets \union {DEFAULT_POLICY_PRESET}, policyOverrides : Overrides,
   status : {"active", "stopped"}, strategy : Strategies \union {"memo-heartbeat"},
   lastRun : {"never", "ok", "error"}]

\* What a policy command changes of a record, and what a run or a stop does.
PolicyChanges ==
  [policyPreset : Presets, policyMode : ApprovalModes]
    \union [policyOverrides : Overrides]
    \union [policyOverrides : Overrides, policyMode : ApprovalModes]
RunChanges ==
  [status : {"active", "stopped"}]
    \union [status : {"active"}, strategy : Strategies]
    \union [status : {"active"}, lastRun : {"ok"}]

Steps ==
  [op : {"call", "log", "readLog", "list", "sync", "sweep"}, name : {""}]
    \union [op : {"find", "absent", "provision", "ensure", "entity", "key", "resolve", "run",
                  "settle", "failed"}, name : Names]
    \union [op : {"policy"}, name : Names, change : PolicyChanges]
    \union [op : {"patch"}, name : Names, change : RunChanges]
    \union [op : {"createAgent"}, name : Names, change : Owners]
    \union [op : {"take"}, name : Names, change : AgentRecords]

IsAgentFile(file) ==
  /\ DOMAIN file \subseteq Names /\ IsFiniteSet(DOMAIN file)
  /\ \A n \in DOMAIN file : file[n] \in AgentRecords /\ file[n].name = n

TypeOK ==
  /\ wallets \in Seq(WalletRecords)
  /\ IsAgentFile(agents)
  /\ torn \subseteq Files
  /\ todo \in [Processes -> Seq(Steps)]
  /\ DOMAIN held = Processes
  /\ keys \in Nat

\* Every name has a wallet on file, or one that was left out.
HaveWallets(names) == \A n \in names : Stored(n) # {} \/ n \in dropped

\* A copy of the wallets that is not stale adds wallets and changes none.
WalletsHeld(p, w) ==
  /\ Now(p).op \in {"provision", "key"} /\ w.stage \in {"read", "open"}
  /\ w.value \in Seq(WalletRecords)
  /\ ~w.stale =>
       \A i \in DOMAIN wallets :
         /\ i \in DOMAIN w.value
         /\ w.value[i].name = wallets[i].name /\ w.value[i].key = wallets[i].key

\* The policy of a record to be stored is the one on file, but for what its command
\* is to change of it.
PolicyKept(p, agent) ==
  agent.name \in DOMAIN agents =>
    PolicyOf(agent) =
      IF Now(p).op = "policy" THEN Set(PolicyOf(agents[agent.name]), Now(p).change)
      ELSE PolicyOf(agents[agent.name])

UpdatesAgents ==
  {"resolve", "ensure", "createAgent", "policy", "patch", "settle", "failed"}

AgentFound(p, w) ==
  /\ w.value \in AgentRecords /\ w.value.name = Now(p).name
  /\ HaveWallets({Now(p).name})
  /\ ~w.stale => PolicyKept(p, w.value)

AgentsRead(p, w) ==
  /\ IsAgentFile(w.value) /\ Now(p).name \in DOMAIN w.value
  /\ HaveWallets(DOMAIN w.value)
  /\ ~w.stale =>
       /\ \A n \in DOMAIN agents :
            n \in DOMAIN w.value /\ (n # Now(p).name => w.value[n] = agents[n])
       /\ PolicyKept(p, w.value[Now(p).name])

UpdateOK(p, w) ==
  /\ todo[p] # <<>>
  /\ DOMAIN w = {"file", "stage", "value", "stale"} /\ w.file \in Files
  /\ w.file = "wallets" => WalletsHeld(p, w)
  /\ w.file = "agents" =>
       /\ Now(p).name \in Names /\ Now(p).op \in UpdatesAgents
       /\ w.stage \in {"found", "read", "open"}
       /\ IF w.stage = "found" THEN AgentFound(p, w) ELSE AgentsRead(p, w)
  /\ w.file = "activity" => Now(p).op = "log" /\ w.stage \in {"read", "open"}

\* What a process holds of a file differs from the file by its own change, unless
\* another has written the file since.
HeldOK == \A p \in Processes : \A w \in held[p] : held[p] = {w} /\ UpdateOK(p, w)

IndInv == TypeOK /\ HeldOK /\ HaveWallets(DOMAIN agents)

-----------------------------------------------------------------------------
(* What the repository's documents say, which the code does not keep.      *)

\* "--max-transactions-per-day", "max transactions per day": the transactions an
\* agent sends under one policy stay within the policy's day limit.
DayLimitOfPolicy ==
  \A n \in DOMAIN agents :
    sent[n] <= resolvePolicyConfig(agents[n].policyPreset, agents[n].policyOverrides)
                 .maxTransactionsPerDay
=============================================================================
