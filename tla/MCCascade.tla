----------------------------- MODULE MCCascade -----------------------------
(* Constants for model-checking Cascade. *)
EXTENDS Cascade, TLC

CONSTANTS i1, i2, i3, w1, r1, r2

MCPayload == {"any"}
Symmetry == Permutations(Ids) \cup Permutations(Revokers)
=============================================================================
