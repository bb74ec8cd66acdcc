----------------------------- MODULE MCLearning -----------------------------
(* Constants for model-checking Learning, and with it Memory: two claims      *)
(* exist already, in states the fabric leaves them in, and maybe an outcome;  *)
(* two more claims and two or three outcomes may be written.                  *)
EXTENDS Learning, TLC

CONSTANTS p1, p2, i1

MCOutcomes == MaxFacts + 1 .. MaxFacts + 3
MCNodes == 1..MaxFacts + 3
MCRetention ==
  ("working" :> 5) @@ ("reflective" :> 3) @@ ("episodic" :> 4) @@ ("semantic" :> 4) @@
  ("strategic" :> 0) @@ ("governance" :> 0)

Done == [approved |-> TRUE, parseable |-> TRUE, slow |-> FALSE, action |-> "read"]
Refused == [approved |-> FALSE, parseable |-> TRUE, slow |-> TRUE, action |-> "write"]
Failed == [approved |-> FALSE, parseable |-> FALSE, slow |-> FALSE, action |-> "none"]
MCOutcomeKinds == {Done, Refused, Failed}

SeedClaim(state, tier, contra) ==
  [intent |-> i1, type |-> "episodic", sure |-> TRUE, state |-> state, tier |-> tier,
   contra |-> contra, parent |-> None, lineage |-> {}, at |-> 0]
MCStarts ==
  {[seed |-> <<SeedClaim("ATTESTED", "quarantine", {}), SeedClaim("VALIDATED", "authoritative", {})>>,
    past |-> MaxFacts + 1 :> Done],
   [seed |-> <<SeedClaim("UNVERIFIED", "quarantine", {2}), SeedClaim("VALIDATED", "authoritative", {1})>>,
    past |-> <<>>]}

Symmetry == Permutations(Processes)
=============================================================================
