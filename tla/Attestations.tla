---------------------------- MODULE Attestations ----------------------------
(***************************************************************************)
(* Attestations and their references (cogtrust/attestations.py), shared by *)
(* the lineage store, the revocation index and the verifier.               *)
(***************************************************************************)
EXTENDS Naturals, FiniteSets

CONSTANTS
  Ids,      \* attestation ids
  Payload,  \* what an attestation says besides its references
  None      \* Python's None

Attestation == [intent: Ids \cup {None}, preds: SUBSET Ids, payload: Payload]

ASSUME IdsAssumption ==
  None \notin Ids /\ None \notin Attestation /\ IsFiniteSet(Ids)

\* Mutant: only explicit predecessors are parents, the intent root is forgotten.
ParentsOfWithoutRoot(a) == a.preds

\* LineageStore._parents_of: the predecessors and the intent root.
ParentsOf(a) == a.preds \cup ({a.intent} \ {None})

-----------------------------------------------------------------------------
\* The least set that holds `start` and is closed under `next`.
Closure(start, next(_)) ==
  {x \in Ids : \A S \in SUBSET Ids :
     (start \subseteq S /\ \A y \in S : next(y) \subseteq S) => x \in S}
=============================================================================
