---------------------------- MODULE MCIssuance -----------------------------
(* Constants for model-checking Issuance: tiers 4 and 5 of the default       *)
(* table, one clock tick standing for more than an intent root's age limit   *)
(* there.                                                                    *)
EXTENDS Issuance, TLC

CONSTANTS i1, i2, i3, i4, t1, t2, service, reviewer, ann, bob

MCKind == (service :> "service") @@ (reviewer :> "personal")
\* A tick is an hour.
MCCeremony ==
  [tier \in {4, 5} |-> [DefaultTierRequirements[tier] EXCEPT !.rootMaxAge = @ \div 3600]]
MCCeremonyOfTier4 == [t \in {4} |-> MCCeremony[t]]
MCCeremonyOfTier5 == [t \in {5} |-> MCCeremony[t]]
MCPayload == IssuedPayload
Symmetry ==
  Permutations(Ids) \cup Permutations(Threads) \cup Permutations(People)
=============================================================================
