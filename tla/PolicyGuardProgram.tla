------------------------- MODULE PolicyGuardProgram -------------------------
(***************************************************************************)
(* The on-chain policy program (programs/policy_guard/src/lib.rs): one     *)
(* policy account and one vault per owner, and per-session accounts.  The  *)
(* five instructions are the five operations below.  A Solana transaction  *)
(* is atomic, so an instruction that returns an error changes nothing and  *)
(* is not a step.                                                          *)
(*                                                                         *)
(* Anybody may submit a transfer, in any order and as often as he likes:   *)
(* ExecuteTransfer ranges over every payload and every Ed25519 instruction *)
(* that may precede it, so delayed, reordered and repeated submissions are *)
(* all behaviours of the specification.                                    *)
(*                                                                         *)
(* `paid' and `executed' are history variables: no guard reads them.       *)
(***************************************************************************)
EXTENDS Integers, Sequences, FiniteSets, Functions

CONSTANTS
  Owners,             \* wallets that own a policy
  SessionIds,         \* 32-byte session identifiers
  Accounts,           \* addresses that hold lamports: vaults and recipients
  VaultOf,            \* VaultOf[o]: the vault address derived from o's policy
  Programs,           \* program addresses a transfer may name
  Verifiers,          \* Ed25519 keys
  SignedBy,           \* SignedBy[v]: the payloads v signs, off chain
  PolicyParams,       \* payloads of initialize_policy
  Payloads,           \* payloads of execute_transfer
  Deposits,           \* amounts sent to a vault by a plain system transfer
  SecondsPerDay, SecondsPerMinute, MaxFutureSkew,
  MaxAllowlistItems,
  VaultRent,          \* rent-exempt minimum of the vault account
  U64Max,
  NoPolicy, NoSession,
  MaxTime,            \* bound: last second of the clock
  MaxFunding          \* bound: lamports ever moved into vaults

Day(t) == t \div SecondsPerDay
Days == {Day(t) : t \in 0..MaxTime}

Amount == 0..U64Max
Vaults == {VaultOf[o] : o \in Owners}
Params == [ttl : Nat, limit : Amount, verifier : Verifiers,
           programs : SUBSET Programs, recipients : SUBSET Accounts]
Payload == [session : SessionIds, nonce : Amount, amount : Amount,
            timestamp : Int, expiresAt : Int, program : Programs,
            recipient : Accounts]
Policy == [kill : BOOLEAN, spent : Amount, lastDay : Int, params : Params]
Session == [active : BOOLEAN, expiresAt : Int, nextNonce : Amount]

ASSUME ConstantsAssumption ==
  /\ SecondsPerDay \in Nat \ {0}
  /\ SecondsPerMinute \in Nat \ {0}
  /\ MaxFutureSkew \in Nat
  /\ U64Max \in Nat
  /\ VaultRent \in Amount \ {0}
  /\ MaxAllowlistItems \in Nat
  /\ MaxTime \in Nat
  /\ MaxFunding \in Nat
  /\ MaxFunding <= U64Max
  /\ Deposits \subseteq Amount

ASSUME InputsAssumption ==
  /\ IsFiniteSet(Accounts)
  /\ VaultOf \in [Owners -> Accounts]
  /\ SignedBy \in [Verifiers -> SUBSET Payloads]
  /\ PolicyParams \subseteq Params
  /\ Payloads \subseteq Payload
  /\ NoPolicy \notin Policy
  /\ NoSession \notin Session

\* Distinct owners have distinct vaults.
ASSUME VaultAssumption ==
  \A o1, o2 \in Owners : VaultOf[o1] = VaultOf[o2] => o1 = o2

VARIABLES
  clock,      \* unix_timestamp of the Clock sysvar
  policy,     \* policy[o]: PolicyState, or NoPolicy
  session,    \* session[o][s]: SessionState of o's session s, or NoSession
  lamports,   \* lamports[a]: balance of address a
  vaultLive,  \* vaultLive[o]: the vault is an account owned by the program
  funded,     \* history: lamports moved into vaults from outside
  paid,       \* history: paid[o][d], lamports o's vault paid on day d
  executed    \* history: executed[o][s], transfers of the session in order

vars == <<clock, policy, session, lamports, vaultLive, funded, paid, executed>>

\* Recipients are existing wallets; no vault exists yet.
Init ==
  /\ clock = 0
  /\ policy = [o \in Owners |-> NoPolicy]
  /\ session = [o \in Owners |-> [s \in SessionIds |-> NoSession]]
  /\ lamports = [a \in Accounts |-> IF a \in Vaults THEN 0 ELSE VaultRent]
  /\ vaultLive = [o \in Owners |-> FALSE]
  /\ funded = 0
  /\ paid = [o \in Owners |-> [d \in Days |-> 0]]
  /\ executed = [o \in Owners |-> [s \in SessionIds |-> <<>>]]

-----------------------------------------------------------------------------
(* The environment.                                                        *)

Tick ==
  /\ clock < MaxTime
  /\ clock' = clock + 1
  /\ UNCHANGED <<policy, session, lamports, vaultLive, funded, paid, executed>>

\* A plain transfer to the vault address.  Nothing asks whether the vault
\* exists yet, or still exists; only the runtime's rent rule applies.
Deposit(o, amount) ==
  /\ funded + amount <= MaxFunding
  /\ lamports[VaultOf[o]] + amount >= VaultRent
  /\ lamports' = [lamports EXCEPT ![VaultOf[o]] = @ + amount]
  /\ funded' = funded + amount
  /\ UNCHANGED <<clock, policy, session, vaultLive, paid, executed>>

-----------------------------------------------------------------------------
(* The instructions.                                                       *)

\* Mutant: only the length of each list is checked (read_pubkey_vec), not the
\* space the two need together.
WithinAllowlistSpace_EachList(params) ==
  /\ Cardinality(params.programs) <= MaxAllowlistItems
  /\ Cardinality(params.recipients) <= MaxAllowlistItems

\* PolicyState::space_for: the two lists share 64 slots.
WithinAllowlistSpace(params) ==
  Cardinality(params.programs) + Cardinality(params.recipients)
    <= MaxAllowlistItems

\* create_program_account: the system program creates an account only at an
\* address that holds no lamports yet.
AddressFree(account) == lamports[account] = 0

\* Mutant: refuses only when policy and vault both exist.
InitializePolicy_BothExist(o, params) ==
  /\ params.ttl # 0
  /\ WithinAllowlistSpace(params)
  /\ policy[o] = NoPolicy \/ ~vaultLive[o]
  /\ AddressFree(VaultOf[o])
  /\ funded + VaultRent <= MaxFunding
  /\ policy' = [policy EXCEPT ![o] =
       [kill |-> FALSE, spent |-> 0, lastDay |-> Day(clock), params |-> params]]
  /\ lamports' = [lamports EXCEPT ![VaultOf[o]] = VaultRent]
  /\ vaultLive' = [vaultLive EXCEPT ![o] = TRUE]
  /\ funded' = funded + VaultRent
  /\ UNCHANGED <<clock, session, paid, executed>>

\* process_initialize_policy.
InitializePolicy(o, params) ==
  /\ params.ttl # 0
  /\ WithinAllowlistSpace(params)
  /\ policy[o] = NoPolicy
  /\ AddressFree(VaultOf[o])
  /\ funded + VaultRent <= MaxFunding
  /\ policy' = [policy EXCEPT ![o] =
       [kill |-> FALSE, spent |-> 0, lastDay |-> Day(clock), params |-> params]]
  /\ lamports' = [lamports EXCEPT ![VaultOf[o]] = VaultRent]
  /\ vaultLive' = [vaultLive EXCEPT ![o] = TRUE]
  /\ funded' = funded + VaultRent
  /\ UNCHANGED <<clock, session, paid, executed>>

SetKillSwitch(o, active) ==
  /\ policy[o] # NoPolicy
  /\ policy' = [policy EXCEPT ![o].kill = active]
  /\ UNCHANGED <<clock, session, lamports, vaultLive, funded, paid, executed>>

\* Mutant: does not ask whether the session account exists.
OpenSession_Reopen(o, s) ==
  /\ policy[o] # NoPolicy
  /\ session' = [session EXCEPT ![o][s] =
       [active |-> TRUE,
        expiresAt |-> clock + policy[o].params.ttl * SecondsPerMinute,
        nextNonce |-> 0]]
  /\ UNCHANGED <<clock, policy, lamports, vaultLive, funded, paid, executed>>

\* process_open_session: the session account must not exist yet.
OpenSession(o, s) ==
  /\ policy[o] # NoPolicy
  /\ session[o][s] = NoSession
  /\ session' = [session EXCEPT ![o][s] =
       [active |-> TRUE,
        expiresAt |-> clock + policy[o].params.ttl * SecondsPerMinute,
        nextNonce |-> 0]]
  /\ UNCHANGED <<clock, policy, lamports, vaultLive, funded, paid, executed>>

CloseSession(o, s) ==
  /\ policy[o] # NoPolicy
  /\ session[o][s] # NoSession
  /\ session' = [session EXCEPT ![o][s].active = FALSE]
  /\ UNCHANGED <<clock, policy, lamports, vaultLive, funded, paid, executed>>

\* Mutants: the reset on the wrong side of the test, and no reset at all.
RefreshedSpend_Swapped(pol, now) ==
  IF Day(now) = pol.lastDay THEN 0 ELSE pol.spent
RefreshedSpend_Never(pol, now) == pol.spent

\* refresh_daily_spend: the counter is reset by the first transfer of a day.
RefreshedSpend(pol, now) == IF Day(now) # pol.lastDay THEN 0 ELSE pol.spent

\* An empty allowlist allows everything.
Allows(list, item) == list = {} \/ item \in list

\* Mutants of the window: one guard missing or loosened in each.
InWindow_NoKill(pol, ses, p) ==
  /\ ses.active
  /\ clock <= ses.expiresAt /\ clock <= p.expiresAt
  /\ p.timestamp <= clock + MaxFutureSkew
  /\ p.nonce = ses.nextNonce
InWindow_NoSessionExpiry(pol, ses, p) ==
  /\ ses.active /\ ~pol.kill
  /\ clock <= p.expiresAt
  /\ p.timestamp <= clock + MaxFutureSkew
  /\ p.nonce = ses.nextNonce
InWindow_NonceGap(pol, ses, p) ==
  /\ ses.active /\ ~pol.kill
  /\ clock <= ses.expiresAt /\ clock <= p.expiresAt
  /\ p.timestamp <= clock + MaxFutureSkew
  /\ p.nonce >= ses.nextNonce

\* Session, kill switch, expiries, clock skew and nonce.
InWindow(pol, ses, p) ==
  /\ ses.active
  /\ ~pol.kill
  /\ clock <= ses.expiresAt
  /\ clock <= p.expiresAt
  /\ p.timestamp <= clock + MaxFutureSkew
  /\ p.nonce = ses.nextNonce

\* Mutant: the message that was signed is not compared with the payload.
ProvenBy_AnyMessage(proof, verifier, p) ==
  /\ proof.message \in SignedBy[proof.verifier]
  /\ proof.verifier = verifier

\* verify_ed25519_instruction: the previous instruction of the transaction
\* proves that the policy's verifier signed exactly this payload.  The
\* Ed25519 precompile lets through only what was really signed.
ProvenBy(proof, verifier, p) ==
  /\ proof.message \in SignedBy[proof.verifier]
  /\ proof.verifier = verifier
  /\ proof.message = p

\* Mutant: both balances are read before either is written.
Moved_ReadFirst(from, to, amount) ==
  [lamports EXCEPT ![from] = @ - amount, ![to] = lamports[to] + amount]

\* transfer_lamports: the vault is debited, then the recipient is credited
\* with what it holds at that point (the two may be one account).
Moved(from, to, amount) ==
  LET debited == [lamports EXCEPT ![from] = @ - amount]
  IN  [debited EXCEPT ![to] = @ + amount]

\* The runtime lets a program debit only an account that it owns, refuses a
\* transaction that leaves the vault below its rent-exempt minimum, and
\* deletes an account left with no lamports at all.
RuntimeAccepts(o, amount, balances) ==
  /\ amount # 0 => vaultLive[o]
  /\ balances[VaultOf[o]] # lamports[VaultOf[o]]
       => balances[VaultOf[o]] = 0 \/ balances[VaultOf[o]] >= VaultRent

\* process_execute_transfer.
ExecuteTransfer(o, p, proof) ==
  LET pol == policy[o]
      ses == session[o][p.session]
      newSpend == RefreshedSpend(pol, clock) + p.amount
      balances == Moved(VaultOf[o], p.recipient, p.amount)
  IN
  /\ pol # NoPolicy
  /\ ses # NoSession
  /\ InWindow(pol, ses, p)
  /\ Allows(pol.params.programs, p.program)
  /\ Allows(pol.params.recipients, p.recipient)
  /\ newSpend <= pol.params.limit
  /\ ProvenBy(proof, pol.params.verifier, p)
  /\ ses.nextNonce < U64Max
  /\ lamports[VaultOf[o]] >= p.amount
  /\ RuntimeAccepts(o, p.amount, balances)
  /\ balances[p.recipient] <= U64Max
  /\ policy' = [policy EXCEPT ![o] =
       [pol EXCEPT !.spent = newSpend, !.lastDay = Day(clock)]]
  /\ session' = [session EXCEPT ![o][p.session].nextNonce = @ + 1]
  /\ lamports' = balances
  /\ vaultLive' = [vaultLive EXCEPT ![o] = @ /\ balances[VaultOf[o]] # 0]
  /\ paid' = [paid EXCEPT ![o][Day(clock)] = @ + p.amount]
  /\ executed' = [executed EXCEPT ![o][p.session] =
       Append(@, [payload |-> p, at |-> clock])]
  /\ UNCHANGED <<clock, funded>>

Proofs == [verifier : Verifiers, message : Payloads]

Next ==
  \/ Tick
  \/ \E o \in Owners :
       \/ \E amount \in Deposits : Deposit(o, amount)
       \/ \E params \in PolicyParams : InitializePolicy(o, params)
       \/ \E active \in BOOLEAN : SetKillSwitch(o, active)
       \/ \E s \in SessionIds : OpenSession(o, s) \/ CloseSession(o, s)
       \/ \E p \in Payloads, proof \in Proofs : ExecuteTransfer(o, p, proof)

Spec == Init /\ [][Next]_vars

-----------------------------------------------------------------------------
(* Properties.                                                             *)

\* The lists fit the account they were allocated for, so pack cannot fail.
WellFormed(params) ==
  /\ params.ttl # 0
  /\ Cardinality(params.programs) + Cardinality(params.recipients)
       <= MaxAllowlistItems

\* The accounts and the history hold values of the expected kinds, and no
\* account is smaller than its contents (PolicyState, SessionState in lib.rs).
TypeOK ==
  /\ clock \in 0..MaxTime
  /\ policy \in [Owners -> Policy \cup {NoPolicy}]
  /\ \A o \in Owners : policy[o] # NoPolicy => WellFormed(policy[o].params)
  /\ session \in [Owners -> [SessionIds -> Session \cup {NoSession}]]
  /\ lamports \in [Accounts -> Nat]
  /\ vaultLive \in [Owners -> BOOLEAN]
  /\ funded \in 0..MaxFunding
  /\ paid \in [Owners -> [Days -> Nat]]
  /\ executed \in
       [Owners -> [SessionIds -> Seq([payload : Payloads, at : 0..MaxTime])]]

\* Whatever sessions, kill switches and late submissions do, the vault never
\* pays more than the daily limit on one day, although the counter is reset
\* only by the first transfer of a day (refresh_daily_spend).
DailyLimit ==
  \A o \in Owners, d \in Days :
    policy[o] # NoPolicy => paid[o][d] <= policy[o].params.limit

\* The transfers of a session carry the nonces 0, 1, 2, ... in this order,
\* whatever order they were submitted in: none executes twice, none is skipped.
NoncesConsecutive ==
  \A o \in Owners, s \in SessionIds :
    \A k \in 1..Len(executed[o][s]) : executed[o][s][k].payload.nonce = k - 1

\* Every transfer that executed was signed by the policy's verifier, names an
\* allowed recipient and program, and ran before its own expiry and before
\* the expiry of the session account as it stands now.
ExecutedWasAuthorised ==
  \A o \in Owners, s \in SessionIds :
    \A k \in 1..Len(executed[o][s]) :
      LET p == executed[o][s][k].payload
          at == executed[o][s][k].at
          params == policy[o].params
      IN  /\ p.session = s
          /\ p \in SignedBy[params.verifier]
          /\ Allows(params.programs, p.program)
          /\ Allows(params.recipients, p.recipient)
          /\ at <= p.expiresAt
          /\ at <= session[o][s].expiresAt

\* Lamports are only moved, never made or lost, also when the recipient of a
\* transfer is the vault itself (transfer_lamports).
LamportsConserved ==
  SumFunction(lamports) = funded + VaultRent * Cardinality(Accounts \ Vaults)

\* A session that has been closed, or has run out, never pays again: neither
\* its nonce nor its history moves, and it cannot be opened a second time.
EndedSessionIsFinal ==
  [][\A o \in Owners, s \in SessionIds :
       /\ session[o][s] # NoSession
       /\ ~session[o][s].active \/ clock > session[o][s].expiresAt
       => /\ executed'[o][s] = executed[o][s]
          /\ ~session'[o][s].active \/ clock' > session'[o][s].expiresAt]_vars

\* No lamport leaves a vault while its owner's kill switch is on, nor before
\* the policy exists.
KillSwitchHoldsVault ==
  [][\A o \in Owners :
       policy[o] = NoPolicy \/ policy[o].kill
       => lamports'[VaultOf[o]] >= lamports[VaultOf[o]]]_vars

\* Once a transfer has drained the vault to its last lamport the runtime
\* deletes it, and it never becomes usable again: what is deposited later
\* stays there (initialize_policy refuses a second run).
DrainedVaultIsStranded ==
  [][\A o \in Owners :
       policy[o] # NoPolicy /\ ~vaultLive[o]
       => /\ ~vaultLive'[o]
          /\ lamports'[VaultOf[o]] >= lamports[VaultOf[o]]]_vars

\* Why the lazy reset is sound: the counter of the policy account is what the
\* vault paid on the day of the last reset, that day is not in the future, and
\* nothing has been paid on a later day.
SpentMatchesHistory ==
  \A o \in Owners :
    IF policy[o] = NoPolicy
    THEN /\ \A d \in Days : paid[o][d] = 0
         /\ \A s \in SessionIds : session[o][s] = NoSession
    ELSE /\ policy[o].lastDay \in Days
         /\ policy[o].lastDay <= Day(clock)
         /\ paid[o][policy[o].lastDay] = policy[o].spent
         /\ \A d \in Days : d > policy[o].lastDay => paid[o][d] = 0

\* The nonce a session expects next counts the transfers it has executed.
NonceMatchesHistory ==
  \A o \in Owners, s \in SessionIds :
    Len(executed[o][s]) =
      IF session[o][s] = NoSession THEN 0 ELSE session[o][s].nextNonce

\* The inductive invariant behind DailyLimit, NoncesConsecutive and the
\* refinement.
IndInv ==
  /\ TypeOK
  /\ SpentMatchesHistory
  /\ NonceMatchesHistory
  /\ DailyLimit
  /\ NoncesConsecutive

\* The abstract ledger seen in the accounts.  A session is live while it is
\* active and has not run out.
Halted == [o \in Owners |-> policy[o] # NoPolicy /\ policy[o].kill]
Limit == [o \in Owners |->
            IF policy[o] = NoPolicy THEN 0 ELSE policy[o].params.limit]
Live == [o \in Owners |->
           {s \in SessionIds : /\ session[o][s] # NoSession
                               /\ session[o][s].active
                               /\ clock <= session[o][s].expiresAt}]
Count == [o \in Owners |-> [s \in SessionIds |->
            IF session[o][s] = NoSession THEN 0 ELSE session[o][s].nextNonce]]

Ledger == INSTANCE SpendLedger WITH
  Amounts <- Amount, today <- Day(clock), halted <- Halted, limit <- Limit,
  live <- Live, count <- Count, paidOn <- paid

\* The program keeps the abstract promise: every step of it is a step of the
\* spending ledger or leaves the ledger unchanged.
ImplementsLedger == Ledger!LedgerSpec
=============================================================================
