-------------------------- MODULE MCIdempotencyGuard --------------------------
(***************************************************************************)
(* Instances of IdempotencyGuard for TLC: more ids than entries.           *)
(***************************************************************************)
EXTENDS IdempotencyGuard, TLC

CONSTANTS i1, i2, i3, i4

FourIds == {i1, i2, i3, i4}
IdSymmetry == Permutations(FourIds)
=============================================================================
