--------------------------- MODULE AttestationDag ---------------------------
(***************************************************************************)
(* What the lineage store promises its readers (cogtrust/lineage.py): a    *)
(* dictionary of immutable attestations that grows one accepted            *)
(* attestation at a time and stays a DAG.  Lineage.tla is the store that   *)
(* implements it; Verifier.tla is a reader that relies on nothing more.    *)
(***************************************************************************)
EXTENDS Attestations

VARIABLE attestations  \* _attestations: id -> attestation, or None (dict.get)

Known == {i \in Ids : attestations[i] # None}

\* Mutant: a predecessor need not be in the lineage.
AcceptsDangling(id, a) == id \notin Known /\ a.intent \in Known \cup {None}

\* append() raises LineageError unless the id is new and every reference exists.
Accepts(id, a) ==
  /\ id \notin Known
  /\ a.preds \subseteq Known
  /\ a.intent \in Known \cup {None}

DagInit == attestations = [i \in Ids |-> None]

Add(id, a) == Accepts(id, a) /\ attestations' = [attestations EXCEPT ![id] = a]

DagNext == \E id \in Ids, a \in Attestation : Add(id, a)

DagSpec == DagInit /\ [][DagNext]_attestations

-----------------------------------------------------------------------------
\* What an attestation refers to; nothing while it is not in the lineage.
Upstream(id) ==
  IF attestations[id] = None THEN {}
  ELSE attestations[id].preds \cup ({attestations[id].intent} \ {None})

\* An attestation with everything it is derived from, and what is derived from it.
Lineal(id) == Closure({id}, Upstream)
DerivedFrom(id) == {d \in Ids : d # id /\ id \in Lineal(d)}

DagTypeOK == attestations \in [Ids -> Attestation \cup {None}]

\* Every reference of a stored attestation is to a stored attestation
\* (lineage.py:67-79), at every moment a lockless reader may look.
NoDanglingReference == \A i \in Known : Upstream(i) \subseteq Known

\* CT-I9: what a stored attestation is derived from is settled when it is stored. No
\* later append changes it, adds to its provenance or takes from it, so walking back
\* from it (chain_back_to_intent, the verifier) finds the same attestations for ever.
ProvenanceForever ==
  [][\A i \in Known : attestations'[i] = attestations[i] /\ Lineal(i)' = Lineal(i)]_attestations
=============================================================================
