------------------------ MODULE MCPolicyGuardProgram ------------------------
(***************************************************************************)
(* One owner with two sessions, and payloads that differ in the one field  *)
(* each guard looks at.  Three days of two seconds.                        *)
(***************************************************************************)
EXTENDS PolicyGuardProgram

CONSTANTS o1, s1, s2, vault1, r1, r2, v1, v2

MCVaultOf == [o \in {o1} |-> vault1]

Base == [session |-> s1, nonce |-> 0, amount |-> 2, timestamp |-> 0,
         expiresAt |-> 4, program |-> "transfer", recipient |-> r1]

\* Signed by v2, which is not the verifier of the policy.
Stray == [Base EXCEPT !.nonce = 1, !.amount = 1]

MCPayloads ==
  {[Base EXCEPT !.nonce = n] : n \in 0..1}
  \cup {[Base EXCEPT !.session = s2, !.nonce = n, !.amount = 1] : n \in 0..1}
  \cup {[Base EXCEPT !.amount = 0],
        [Base EXCEPT !.timestamp = 3],
        [Base EXCEPT !.expiresAt = 1],
        [Base EXCEPT !.program = "swap"],
        [Base EXCEPT !.recipient = r2],
        Stray,
        [Base EXCEPT !.recipient = vault1]}

MCSignedBy == [v \in {v1, v2} |->
  IF v = v1 THEN MCPayloads \ {Stray} ELSE {Stray}]

MCPolicyParams ==
  {[ttl |-> t, limit |-> 3, verifier |-> v1,
    programs |-> {"transfer"}, recipients |-> rs] :
     t \in {0, 2}, rs \in {{r1, vault1}, {r1, r2, vault1}}}
=============================================================================
