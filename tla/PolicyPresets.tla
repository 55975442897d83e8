---------------------------- MODULE PolicyPresets ----------------------------
(***************************************************************************)
(* The provider presets of an agent's policy, and resolvePolicyConfig,     *)
(* which merges the overrides stored with the agent into its preset.       *)
(*                                                                         *)
(* An optional field is a set of at most one value.  Of the configuration  *)
(* the approval mode and the three limits the presets differ in are kept;  *)
(* the rules are merged field by field in the same way.                    *)
(***************************************************************************)
EXTENDS Naturals

PresetNames ==
  {"observe-only", "simulate-only", "auto-devnet-safe", "guarded-live", "custom"}
DEFAULT_POLICY_PRESET == "auto-devnet-safe"
ApprovalModes == {"sandbox", "live"}

Config(approval, sol, perSession, perDay) ==
  [approvalMode |-> approval, maxSolPerTxLamports |-> sol,
   maxTransactionsPerSession |-> perSession, maxTransactionsPerDay |-> perDay]

\* Lamports are counted in millions.
POLICY_PRESETS == [preset \in PresetNames |->
  CASE preset = "observe-only"     -> Config("sandbox", 1000, 0, 0)
    [] preset = "simulate-only"    -> Config("sandbox", 100, 5, 25)
    [] preset = "auto-devnet-safe" -> Config("sandbox", 300, 5, 20)
    [] preset = "guarded-live"     -> Config("live", 1000, 10, 50)
    [] preset = "custom"           -> Config("sandbox", 1000, 50, 500)]

NoOverrides == [approvalMode |-> {}, maxSolPerTxLamports |-> {},
                maxTransactionsPerSession |-> {}, maxTransactionsPerDay |-> {}]

\* override ?? base
Or(option, base) == IF option = {} THEN base ELSE CHOOSE v \in option : TRUE

resolvePolicyConfig(preset, overrides) ==
  [field \in DOMAIN overrides |->
    Or(overrides[field], POLICY_PRESETS[preset][field])]
=============================================================================
