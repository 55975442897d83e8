--------------------------- MODULE MCAgentSessions ---------------------------
(***************************************************************************)
(* Instance of AgentSessions for TLC: two calls at a time, two sessions,   *)
(* an audit entry, a kill switch to be set, and one crash.  A program      *)
(* calls the session managers, the policy manager, or those the sandbox    *)
(* executor uses: they share nothing but the store.                        *)
(***************************************************************************)
EXTENDS AgentSessions, TLC

CONSTANTS t1, t2

MCThreads == {t1, t2}
MCSymmetry == Permutations(MCThreads)
MCFirstPolicy == [limit |-> "low", kill |-> "off"]
MCPatches == {[field |-> "kill", value |-> "on"]}

Config(anchoring, demo, program) ==
  [compression |-> TRUE, anchoring |-> anchoring, fallback |-> demo, program |-> program]

MCConfigs ==
  {Config(TRUE, demo, program) :
     demo \in BOOLEAN,
     program \in
       {{"registerAgent", "closeAgentSession", "appendAuditEntry"},
        {"createCompressedPolicyAccount", "updateCompressedPolicyAccount",
         "registerCompressedAgent"}}}
  \union
  {Config(FALSE, FALSE,
     {"createCompressedPolicyAccount", "registerCompressedAgent", "registerAgent",
      "appendAuditEntry", "anchorProof"})}
=============================================================================
