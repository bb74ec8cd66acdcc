---------------------------- MODULE MCVerifier -----------------------------
(* Constants for model-checking Verifier. *)
EXTENDS Verifier, TLC

CONSTANTS i1, i2, i3, c1, v1, v2

\* Attestations that live until the first tick.
MCPayload == {[notBefore |-> None, expires |-> 0, sigOk |-> TRUE]}
Symmetry == Permutations(Ids) \cup Permutations(Verifiers)
=============================================================================
