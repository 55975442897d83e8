----------------------------- MODULE PolicyRules -----------------------------
(***************************************************************************)
(* What the policies say of a transaction by its instructions alone.       *)
(*                                                                         *)
(*   PolicyEngine.inspect    Permits(policy, tx, deltas), the agent's own   *)
(*   AgentRunner             Merged(policy, patch), for one live call       *)
(*   PolicyGuard.validate    GuardPermits(policy, tx), the memo fallback's  *)
(*   DeFiPolicyGuard         MarketPermits(limits, intent)                  *)
(*                                                                         *)
(* A transaction is the sequence of its instructions.  `kind' is what the  *)
(* decoders of @solana/spl-token and SystemInstruction see; "other" is an  *)
(* instruction none of them decodes.  A policy has its limits and its       *)
(* flags, each a record, its five lists, and the end of its session.  The  *)
(* counters, the clock and the emergency lock are in SandboxExecution.      *)
(***************************************************************************)
EXTENDS Integers, Sequences, FiniteSetsExt

\* The programs whose undecoded instructions are taken for harmless.
Known == {"system", "token", "ata", "memo"}

Instruction(program, kind, amount, destination, mint) ==
  [program |-> program, kind |-> kind, amount |-> amount,
   destination |-> destination, mint |-> mint]

Opaque(program) == Instruction(program, "other", 0, "none", "none")

IsSolSpend(i) == i.program = "system" /\ i.kind = "transfer"
IsSplSpend(i) == i.program = "token" /\ i.kind \in {"transfer", "transferChecked"}

\* tryDecodeSpend.
IsSpend(i) == IsSolSpend(i) \/ IsSplSpend(i)

\* The lamports, or raw token units, of some of the instructions, by their places:
\* two transfers that are alike count twice.
Total(tx, places) == MapThenSumSet(LAMBDA n : tx[n].amount, places)

SolSpent(tx) == Total(tx, {n \in DOMAIN tx : IsSolSpend(tx[n])})
SplSpent(tx) == Total(tx, {n \in DOMAIN tx : IsSplSpend(tx[n])})

\* detectBlockedSpendVector: approvals and revocations, a change of owner, close
\* or mint authority, and a close that pays a stranger.
IsBlockedVector(closeDestinations, i) ==
  /\ i.program = "token"
  /\ \/ i.kind \in {"approve", "approveChecked", "revoke", "setAuthority"}
     \/ i.kind = "closeAccount" /\ i.destination \notin closeDestinations

-----------------------------------------------------------------------------
(* PolicyEngine.                                                           *)

\* One turn of inspect's loop.  A reason once pushed denies the transaction,
\* whatever the later turns say.
InstructionPermitted(policy, i) ==
  /\ i.program \in policy.programs
  /\ ~IsBlockedVector(policy.closeDestinations, i)
  /\ IsSpend(i) \/ i.program \in policy.opaque \union Known \/ ~policy.flags.denyUnknown
  /\ IsSpend(i) /\ policy.destinations # {} => i.destination \in policy.destinations

\* With a list of mints, a transfer that does not name its mint is denied.
MintsPermitted(policy, tx) ==
  policy.mints # {} =>
    \A n \in DOMAIN tx : IsSplSpend(tx[n]) =>
      tx[n].kind = "transferChecked" /\ tx[n].mint \in policy.mints

\* `deltas' are the balance changes the caller expects.
DeltasPermitted(policy, deltas) == policy.flags.rejectDeltas => \A d \in deltas : d >= 0

\* inspect, but for the counters.
Permits(policy, tx, deltas) ==
  /\ \A n \in DOMAIN tx : InstructionPermitted(policy, tx[n])
  /\ SolSpent(tx) <= policy.limits.maxSol
  /\ SplSpent(tx) <= policy.limits.maxSpl
  /\ MintsPermitted(policy, tx)
  /\ DeltasPermitted(policy, deltas)

-----------------------------------------------------------------------------
(* AgentRunner.                                                            *)

\* A patch has the lists it adds, empty where it has none, and the limits, flags
\* and session end it sets: records of some of the fields, a set of one at most.
Nothing == [field \in {} |-> 0]

NoPatch == [limits |-> Nothing, flags |-> Nothing, programs |-> {}, opaque |-> {},
            closeDestinations |-> {}, mints |-> {}, destinations |-> {}, expires |-> {}]

\* {...base, ...extra}
Spread(base, extra) ==
  [field \in DOMAIN base \union DOMAIN extra |->
     IF field \in DOMAIN extra THEN extra[field] ELSE base[field]]

\* mergePolicyConfig: limits and flags are overridden, lists united.
Merged(policy, patch) ==
  [policy EXCEPT !.limits = Spread(@, patch.limits),
                 !.flags = Spread(@, patch.flags),
                 !.programs = @ \union patch.programs,
                 !.opaque = @ \union patch.opaque,
                 !.closeDestinations = @ \union patch.closeDestinations,
                 !.mints = @ \union patch.mints,
                 !.destinations = @ \union patch.destinations,
                 !.expires = IF patch.expires = {} THEN @ ELSE CHOOSE t \in patch.expires : TRUE]

-----------------------------------------------------------------------------
(* PolicyGuard.                                                            *)

\* detectBlockedSpendVector of PolicyGuard: every close is a drain.
IsGuardVector(i) == IsBlockedVector({}, i)

\* ensureProgramAllowed and ensureInstructionShapeAllowed.
ShapePermitted(policy, i) ==
  /\ i.program \in policy.programs
  /\ ~IsGuardVector(i)
  /\ IsSpend(i) \/ i.program \in Known

\* validate: no list of destinations means no destination, and lamports and
\* token units are summed together.
GuardPermits(policy, tx) ==
  /\ \A n \in DOMAIN tx : ShapePermitted(policy, tx[n])
  /\ \A n \in DOMAIN tx : IsSpend(tx[n]) => tx[n].destination \in policy.destinations
  /\ Total(tx, {n \in DOMAIN tx : IsSpend(tx[n])}) <= policy.maxSpend

-----------------------------------------------------------------------------
(* DeFiPolicyGuard.                                                        *)

NoHealth == -1

\* validateIntent, of an enabled protocol.
MarketPermits(limits, intent) ==
  /\ intent.market = limits.market
  /\ intent.amount <= limits.maxExposure
  /\ intent.slippage <= limits.maxSlippage
  /\ limits.minHealth # NoHealth /\ intent.health # NoHealth =>
       intent.health >= limits.minHealth
=============================================================================
