--------------------------- MODULE MCCascadeWorker --------------------------
(* Constants for model-checking CascadeWorker. *)
EXTENDS CascadeWorker, TLC

CONSTANTS i1, i2, i3, w, r1, r2, s1

MCPayload == {"any"}
Symmetry == Permutations(Ids) \cup Permutations(Revokers)
=============================================================================
