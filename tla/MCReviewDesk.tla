---------------------------- MODULE MCReviewDesk ----------------------------
(* Constants for model-checking ReviewDesk: one process with two threads and *)
(* a reviewer's session, another that only issues; one intent root, one      *)
(* artifact under review, reviews one more than the limit lets through.      *)
EXTENDS ReviewDesk, TLC

CONSTANTS root, gen, r1, r2, r3, desk, other, t1, t2, t3, ann

MCStoreOf == (t1 :> desk) @@ (t2 :> desk) @@ (t3 :> other)
MCSessionAt == ann :> desk
MCPayload == [type: ReviewedTypes, tier: Tiers]
MCIdsFor == [type \in ReviewedTypes |->
  CASE type = "intent_root" -> {root} [] type = "generation" -> {gen} [] OTHER -> {r1, r2, r3}]
MCRequests ==
  {[intent |-> None, preds |-> {}, payload |-> [type |-> "intent_root", tier |-> 5]]} \cup
  {[intent |-> root, preds |-> {root}, payload |-> [type |-> "generation", tier |-> tier]] :
     tier \in Tiers}
Symmetry == Permutations({t1, t2}) \cup Permutations({r1, r2, r3})
=============================================================================
