-------------------------- MODULE MCSandboxExecution --------------------------
(***************************************************************************)
(* Instances of SandboxExecution for TLC: two days of two instants, the    *)
(* session ending in the second, transactions of both chains.              *)
(***************************************************************************)
EXTENDS SandboxExecution, TLC

CONSTANTS c1, c2, c3, c4

Tx(chain, lamports, clean) ==
  [chain |-> chain, lamports |-> lamports, clean |-> clean]
Deployment(live, callback, zkProofs, neonBroadcast, compression) ==
  [live |-> live, callback |-> callback, zkProofs |-> zkProofs,
   neonBroadcast |-> neonBroadcast, compression |-> compression]

\* The gates: two calls, the second on an engine of its own.
GateCalls == {c1, c2}
GatePatched == {c2}
GateRequests ==
  {Tx("svm", 1, TRUE), Tx("svm", 2, TRUE), Tx("evm", 1, TRUE),
   Tx("svm", 0, FALSE)}
\* Sandbox with every feature off, sandbox and live with every feature on, live
\* without a callback, sandbox with only Neon broadcasting on.
GateConfigs ==
  {Deployment(FALSE, FALSE, FALSE, FALSE, FALSE),
   Deployment(FALSE, FALSE, TRUE, TRUE, TRUE),
   Deployment(TRUE, TRUE, TRUE, TRUE, TRUE),
   Deployment(TRUE, FALSE, FALSE, TRUE, FALSE),
   Deployment(FALSE, FALSE, FALSE, TRUE, FALSE)}

\* The limits: four calls of one engine, in the default deployment.
LimitCalls == {c1, c2, c3, c4}
LimitRequests == {Tx("svm", n, TRUE) : n \in 1..3}
PlainConfigs == {Deployment(FALSE, FALSE, FALSE, FALSE, FALSE)}
LimitSymmetry == Permutations(LimitCalls)

\* One request, in the default deployment.
PlainRequests == {Tx("svm", 1, TRUE)}
NoCalls == {}
=============================================================================
