----------------------------- MODULE MCAgentFleet -----------------------------
(***************************************************************************)
(* Instances of AgentFleet for TLC: agents are interchangeable, and only   *)
(* the barrier ties them together.                                         *)
(***************************************************************************)
EXTENDS AgentFleet

CONSTANTS a1, a2

TwoAgents == {a1, a2}
=============================================================================
