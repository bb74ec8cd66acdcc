---------------------------- MODULE MCGovernance ----------------------------
(* Constants for model-checking Governance.  Directory a's path is a string  *)
(* prefix of its sibling ab's, which it does not contain.                    *)
EXTENDS Governance, TLC

CONSTANTS r1, r2, k1, k2, p1, p2

MCWithin == {<<s, s>> : s \in Scopes} \cup {<<s, "ws">> : s \in Scopes}
MCTextPrefix == MCWithin \cup {<<"ab", "a">>}
MCMintRequests ==
  {[scope |-> "ws", types |-> {"write", "commit"}, ceiling |-> 2],
   [scope |-> "ws", types |-> {"write", "commit"}, ceiling |-> 1],
   [scope |-> "a", types |-> {"write", "commit"}, ceiling |-> 2]}
MCProposals ==
  {[type |-> "write", scope |-> "ab", tier |-> 1], [type |-> "spawn", scope |-> "ws", tier |-> 1],
   [type |-> "read", scope |-> "ws", tier |-> None]}
Symmetry == Permutations(Processes)
=============================================================================
