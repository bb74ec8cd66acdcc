------------------------------ MODULE MCBrain ------------------------------
(* Constants for model-checking Brain: two processes, three nodes of the     *)
(* types whose merging and linking differ, all about one topic.              *)
EXTENDS Brain, TLC

CONSTANTS p1, p2, t1

MCWrites ==
  {[type |-> "problem", text |-> {t1}, confidence |-> 5],
   [type |-> "solution", text |-> {}, confidence |-> 5]}
Symmetry == Permutations(Processes)
=============================================================================
