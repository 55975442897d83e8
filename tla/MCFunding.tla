------------------------------ MODULE MCFunding ------------------------------
(***************************************************************************)
(* Instance of Funding for TLC: two calls, a faucet that every chunk asks  *)
(* twice, and a treasury that can pay all of an amount, then a part, then  *)
(* nothing.                                                                *)
(***************************************************************************)
EXTENDS Funding

CONSTANTS c1, c2

MCCalls == {c1, c2}
MCTreasuries == {-1, 4}
=============================================================================
