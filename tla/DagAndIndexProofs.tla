------------------------- MODULE DagAndIndexProofs --------------------------
(***************************************************************************)
(* Proofs about what the readers of the lineage rely on: AttestationDag -- *)
(* lemmas on what an attestation is derived from, that no reference        *)
(* dangles, and that provenance is settled once and for all -- and         *)
(* RevocationIndex -- its type, what its version counts, and that it       *)
(* implements RevocationLog.                                               *)
(***************************************************************************)
EXTENDS AttestationDag, RevocationIndex, FiniteSetTheorems, TLAPS

\* The DAG invariant: types, and references that are met.
DagInv == DagTypeOK /\ NoDanglingReference

-----------------------------------------------------------------------------
\* Upstream is a set of ids.
LEMMA UpstreamType ==
  ASSUME DagTypeOK, NEW i \in Ids
  PROVE  Upstream(i) \subseteq Ids
BY DEF DagTypeOK, Upstream, Attestation

\* Lineal(id) holds id, and is within the ids.
LEMMA LinealSelf ==
  ASSUME NEW id \in Ids
  PROVE  id \in Lineal(id) /\ Lineal(id) \subseteq Ids
BY DEF Lineal, Closure

\* Lineal(id) is closed under references.
LEMMA LinealClosed ==
  ASSUME DagTypeOK, NEW id \in Ids, NEW y \in Lineal(id)
  PROVE  Upstream(y) \subseteq Lineal(id)
<1> SUFFICES ASSUME NEW x \in Upstream(y) PROVE x \in Lineal(id)
  OBVIOUS
<1>1. y \in Ids /\ x \in Ids
  BY LinealSelf, UpstreamType
<1>2. ASSUME NEW S \in SUBSET Ids, {id} \subseteq S, \A z \in S : Upstream(z) \subseteq S
      PROVE  x \in S
  BY <1>2 DEF Lineal, Closure
<1> QED  BY <1>1, <1>2 DEF Lineal, Closure

\* Lineal(id) is the least such set.
LEMMA LinealLeast ==
  ASSUME NEW id \in Ids, NEW S \in SUBSET Ids, id \in S, \A z \in S : Upstream(z) \subseteq S
  PROVE  Lineal(id) \subseteq S
BY DEF Lineal, Closure

\* The same two facts of the state after a step.
LEMMA LinealClosedNext ==
  ASSUME NEW id \in Ids, NEW y \in Lineal(id)', NEW x \in Upstream(y)', x \in Ids
  PROVE  x \in Lineal(id)'
<1>1. ASSUME NEW S \in SUBSET Ids, {id} \subseteq S, \A z \in S : Upstream(z)' \subseteq S
      PROVE  x \in S
  BY <1>1 DEF Lineal, Closure
<1> QED  BY <1>1 DEF Lineal, Closure

LEMMA LinealLeastNext ==
  ASSUME NEW id \in Ids, NEW S \in SUBSET Ids, id \in S, \A z \in S : Upstream(z)' \subseteq S
  PROVE  Lineal(id)' \subseteq S
BY DEF Lineal, Closure

\* What x is derived from, x aside, is derived from through one of its references.
LEMMA LinealUnfold ==
  ASSUME DagTypeOK, NEW x \in Ids, NEW a \in Lineal(x), a # x
  PROVE  \E p \in Upstream(x) : a \in Lineal(p)
<1> DEFINE S == {x} \cup {z \in Ids : \E p \in Upstream(x) : z \in Lineal(p)}
<1>1. S \in SUBSET Ids /\ x \in S
  OBVIOUS
<1>2. ASSUME NEW z \in S, NEW w \in Upstream(z) PROVE w \in S
  <2>1. w \in Ids
    BY <1>2, <1>1, UpstreamType
  <2>2. CASE z = x
    BY <2>1, <2>2, <1>2, LinealSelf
  <2>3. CASE z # x
    <3>1. PICK p \in Upstream(x) : z \in Lineal(p)
      BY <2>3, <1>2
    <3>2. w \in Lineal(p)
      BY <3>1, <1>2, LinealClosed, UpstreamType
    <3> QED  BY <2>1, <3>1, <3>2
  <2> QED  BY <2>2, <2>3
<1>3. Lineal(x) \subseteq S
  BY <1>1, <1>2, LinealLeast
<1> QED  BY <1>3

\* Everything a stored attestation is derived from is stored.
LEMMA LinealKnown ==
  ASSUME DagInv, NEW i \in Known
  PROVE  Lineal(i) \subseteq Known
<1>1. Known \in SUBSET Ids
  BY DEF Known
<1> QED  BY <1>1, LinealLeast DEF DagInv, NoDanglingReference

-----------------------------------------------------------------------------
\* The lineage starts empty.
LEMMA DagInvInit == DagInit => DagInv
BY DEF DagInit, DagInv, DagTypeOK, NoDanglingReference, Known

\* An append leaves what is stored alone.
LEMMA AddKeepsKnown ==
  ASSUME DagTypeOK, NEW id \in Ids, NEW a \in Attestation, Add(id, a)
  PROVE  /\ Known' = Known \cup {id}
         /\ \A i \in Known : attestations'[i] = attestations[i] /\ Upstream(i)' = Upstream(i)
         /\ Upstream(id)' \subseteq Known
<1>1. a # None
  BY IdsAssumption
<1> QED  BY <1>1 DEF DagTypeOK, Add, Accepts, Known, Upstream

\* No append makes a reference dangle.
LEMMA DagInvStep == DagInv /\ [DagNext]_attestations => DagInv'
<1> SUFFICES ASSUME DagInv, [DagNext]_attestations PROVE DagInv'
  OBVIOUS
<1>1. ASSUME NEW id \in Ids, NEW a \in Attestation, Add(id, a)
      PROVE  DagInv'
  <2>1. DagTypeOK'
    BY <1>1 DEF DagInv, DagTypeOK, Add
  <2>2. NoDanglingReference'
    BY <1>1, AddKeepsKnown DEF DagInv, NoDanglingReference
  <2> QED  BY <2>1, <2>2 DEF DagInv
<1>2. CASE UNCHANGED attestations
  BY <1>2 DEF DagInv, DagTypeOK, NoDanglingReference, Known, Upstream
<1> QED  BY <1>1, <1>2 DEF DagNext

\* Nothing stored ever changes its provenance: the closure of a stored attestation lies
\* within what is stored, and there no reference moves.
LEMMA ProvenanceStep ==
  ASSUME DagInv, [DagNext]_attestations, NEW i \in Known
  PROVE  attestations'[i] = attestations[i] /\ Lineal(i)' = Lineal(i)
<1>1. CASE UNCHANGED attestations
  BY <1>1 DEF Lineal, Closure, Upstream
<1>2. ASSUME NEW id \in Ids, NEW a \in Attestation, Add(id, a)
      PROVE  attestations'[i] = attestations[i] /\ Lineal(i)' = Lineal(i)
  <2>1. /\ Known' = Known \cup {id}
        /\ \A k \in Known : attestations'[k] = attestations[k] /\ Upstream(k)' = Upstream(k)
    BY <1>2, AddKeepsKnown DEF DagInv
  <2>2. DagInv' /\ i \in Ids
    BY <1>2, DagInvStep DEF DagNext, Known
  <2>3. Lineal(i) \subseteq Known /\ Lineal(i) \in SUBSET Ids
    BY <2>2, LinealKnown, LinealSelf
  <2>4. Lineal(i)' \subseteq Lineal(i)
    <3>1. \A z \in Lineal(i) : Upstream(z)' \subseteq Lineal(i)
      BY <2>1, <2>2, <2>3, LinealClosed DEF DagInv
    <3> QED  BY <3>1, <2>2, <2>3, LinealSelf, LinealLeastNext
  <2>5. Lineal(i) \subseteq Lineal(i)'
    <3>1. \A z \in Lineal(i)' : Upstream(z) \subseteq Lineal(i)'
      <4> SUFFICES ASSUME NEW z \in Lineal(i)' PROVE Upstream(z) \subseteq Lineal(i)'
        OBVIOUS
      <4>1. z \in Known
        BY <2>3, <2>4
      <4>2. Upstream(z)' = Upstream(z)
        BY <4>1, <2>1
      <4>3. Upstream(z)' \subseteq Lineal(i)'
        BY <2>2, <4>1, <4>2, UpstreamType, LinealClosedNext DEF DagInv, Known
      <4> QED  BY <4>2, <4>3
    <3>2. Lineal(i)' \in SUBSET Ids /\ i \in Lineal(i)'
      BY <2>2 DEF Lineal, Closure
    <3> QED  BY <3>1, <3>2, <2>2, LinealLeast
  <2> QED  BY <2>1, <2>4, <2>5
<1> QED  BY <1>1, <1>2 DEF DagNext

-----------------------------------------------------------------------------
\* Every reference of a stored attestation is met, for any set of ids (lineage.py:67-79).
THEOREM NoReferenceDangles == DagSpec => []NoDanglingReference
<1>1. DagInv => NoDanglingReference
  BY DEF DagInv
<1> QED  BY <1>1, DagInvInit, DagInvStep, PTL DEF DagSpec

\* CT-I9: the provenance of a stored attestation never changes.
THEOREM ProvenanceIsForever == DagSpec => ProvenanceForever
<1>1. DagInv /\ [DagNext]_attestations =>
        [\A i \in Known : attestations'[i] = attestations[i] /\ Lineal(i)' = Lineal(i)]_attestations
  BY ProvenanceStep
<1> QED  BY <1>1, DagInvInit, DagInvStep, PTL DEF DagSpec, ProvenanceForever

-----------------------------------------------------------------------------
\* A call past its first write holds the lock, and what it is about to store is not in
\* the index yet.
Exclusive ==
  \A t \in Revokers :
    /\ revoking[t].pc = "insert" <=> indexLock = t
    /\ revoking[t].pc = "insert" => revoking[t].id \in Ids /\ revoking[t].id \notin Revoked

IndexInv == IndexTypeOK /\ Exclusive /\ VersionCountsEntries

-----------------------------------------------------------------------------
\* The ids that are revoked are finitely many, so they can be counted.
LEMMA RevokedFinite == IsFiniteSet(Revoked) /\ Cardinality(Revoked) \in Nat
<1>1. IsFiniteSet(Ids) /\ Revoked \in SUBSET Ids
  BY IdsAssumption DEF Revoked
<1>2. IsFiniteSet(Revoked)
  BY <1>1, FS_Subset
<1> QED  BY <1>2, FS_CardinalityType

\* The index starts empty, unlocked and at version 0.
LEMMA IndexInvInit == IndexInit => IndexInv
<1> SUFFICES ASSUME IndexInit PROVE IndexInv
  OBVIOUS
<1> USE RevokersAssumption DEF IndexInit, NotRevoking
<1>1. IndexTypeOK
  BY DEF IndexTypeOK, RevokingState
<1>2. Exclusive
  BY DEF Exclusive
<1>3. Revoked = {}
  BY DEF Revoked
<1>4. VersionCountsEntries
  BY <1>3, FS_EmptySet DEF VersionCountsEntries
<1> QED  BY <1>1, <1>2, <1>4 DEF IndexInv

\* The first write of revoke() keeps the invariant: the version runs ahead by one.
LEMMA BumpKeepsIndexInv ==
  ASSUME IndexInv, NEW t \in Revokers, NEW id \in Ids, NEW derivative \in BOOLEAN,
         RevokeBump(t, id, derivative)
  PROVE  IndexInv'
<1> USE RevokersAssumption DEF IndexInv, RevokeBump
<1>1. IndexTypeOK'
  BY DEF IndexTypeOK, RevokingState
<1>2. Revoked' = Revoked
  BY DEF Revoked
<1>3. Exclusive'
  BY <1>2 DEF Exclusive, IndexTypeOK
<1>4. VersionCountsEntries'
  BY <1>2, RevokedFinite DEF VersionCountsEntries, IndexTypeOK
<1> QED  BY <1>1, <1>3, <1>4

\* What the second write of revoke() does to the entries: one more revocation, under
\* the version that counts it.
LEMMA InsertAddsEntry ==
  ASSUME IndexInv, NEW t \in Revokers, RevokeInsert(t)
  PROVE  LET id == revoking[t].id
         IN /\ id \in Ids \ Revoked
            /\ Revoked' = Revoked \cup {id}
            /\ version = Cardinality(Revoked) + 1
            /\ entries' = [entries EXCEPT ![id] =
                 [version |-> version, derivative |-> revoking[t].derivative]]
            /\ revoking[t].derivative \in BOOLEAN
            /\ Cardinality(Revoked') = version
<1> DEFINE id == revoking[t].id
           new == [version |-> version, derivative |-> revoking[t].derivative]
<1> USE RevokersAssumption DEF IndexInv, RevokeInsert
<1>1. id \in Ids \ Revoked /\ indexLock = t
  BY DEF Exclusive
<1>2. new \in Entry /\ revoking[t].derivative \in BOOLEAN
  BY DEF IndexTypeOK, Entry, RevokingState
<1>3. Revoked' = Revoked \cup {id}
  BY <1>1, <1>2 DEF Revoked, IndexTypeOK
<1>4. version = Cardinality(Revoked) + 1
  BY <1>1 DEF VersionCountsEntries
<1>5. Cardinality(Revoked') = Cardinality(Revoked) + 1
  BY <1>1, <1>3, RevokedFinite, FS_AddElement
<1> QED  BY <1>1, <1>2, <1>3, <1>4, <1>5

\* The second write keeps the invariant: the new entry has the newest version.
LEMMA InsertKeepsIndexInv ==
  ASSUME IndexInv, NEW t \in Revokers, RevokeInsert(t)
  PROVE  IndexInv'
<1> DEFINE id == revoking[t].id
<1> USE RevokersAssumption DEF IndexInv
<1>1. IndexTypeOK'
  BY DEF IndexTypeOK, RevokingState, Entry, RevokeInsert, NotRevoking
<1>2. /\ id \in Ids \ Revoked
      /\ Revoked' = Revoked \cup {id}
      /\ version = Cardinality(Revoked) + 1
      /\ entries' = [entries EXCEPT ![id] =
           [version |-> version, derivative |-> revoking[t].derivative]]
      /\ Cardinality(Revoked') = version
  BY InsertAddsEntry
<1>3. Exclusive'
  <2>1. \A u \in Revokers : u # t => revoking[u].pc # "insert" /\ revoking'[u] = revoking[u]
    BY DEF Exclusive, RevokeInsert, IndexTypeOK
  <2>2. revoking'[t].pc = "idle" /\ indexLock' = None
    BY DEF RevokeInsert, IndexTypeOK, NotRevoking
  <2> QED  BY <2>1, <2>2 DEF Exclusive
<1>4. version' = version /\ indexLock' = None
  BY DEF RevokeInsert
<1>5. \A i \in Revoked : entries'[i] = entries[i] /\ entries[i].version < version
  <2> SUFFICES ASSUME NEW i \in Revoked
               PROVE  entries'[i] = entries[i] /\ entries[i].version < version
    OBVIOUS
  <2>1. entries'[i] = entries[i]
    BY <1>2 DEF IndexTypeOK, Revoked
  <2>2. entries[i].version \in 1..Cardinality(Revoked)
    BY DEF VersionCountsEntries
  <2> QED  BY <1>2, <2>1, <2>2, RevokedFinite
<1>6. entries'[id].version = version
  BY <1>2 DEF IndexTypeOK
<1>7. VersionCountsEntries'
  <2>1. \A i \in Revoked' : i \in Revoked \/ i = id
    BY <1>2
  <2>2. \A i \in Revoked' : entries'[i].version \in 1..Cardinality(Revoked')
    BY <1>2, <1>5, <1>6, <2>1, RevokedFinite DEF VersionCountsEntries
  <2>3. \A i, j \in Revoked' : entries'[i].version = entries'[j].version => i = j
    BY <1>2, <1>5, <1>6, <2>1, RevokedFinite DEF VersionCountsEntries
  <2>4. version' = Cardinality(Revoked') + (IF indexLock' = None THEN 0 ELSE 1)
    BY <1>2, <1>4 DEF IndexTypeOK
  <2> HIDE DEF IndexInv
  <2> QED  BY <2>2, <2>3, <2>4, Zenon DEF VersionCountsEntries
<1> QED  BY <1>1, <1>3, <1>7

\* Every step of the index, by whatever thread, keeps its invariant.
LEMMA IndexInvStep == IndexInv /\ [IndexNext]_indexVars => IndexInv'
<1> SUFFICES ASSUME IndexInv, [IndexNext]_indexVars PROVE IndexInv'
  OBVIOUS
<1>1. ASSUME NEW t \in Revokers, NEW id \in Ids, NEW derivative \in BOOLEAN,
             RevokeBump(t, id, derivative)
      PROVE  IndexInv'
  BY <1>1, BumpKeepsIndexInv
<1>2. ASSUME NEW t \in Revokers, RevokeInsert(t) PROVE IndexInv'
  BY <1>2, InsertKeepsIndexInv
<1>3. CASE UNCHANGED indexVars
  BY <1>3 DEF indexVars, IndexInv, IndexTypeOK, Exclusive, VersionCountsEntries, Revoked
<1> QED  BY <1>1, <1>2, <1>3 DEF IndexNext

\* The index's variables keep their types (revocation.py:34-58).
THEOREM IndexTypeCorrect == IndexSpec => []IndexTypeOK
<1>1. IndexInv => IndexTypeOK
  BY DEF IndexInv
<1> QED  BY <1>1, IndexInvInit, IndexInvStep, PTL DEF IndexSpec

\* The version orders the revocations, for any number of ids and revoking threads.
THEOREM VersionsCountEntries == IndexSpec => []VersionCountsEntries
<1>1. IndexInv => VersionCountsEntries
  BY DEF IndexInv
<1> QED  BY <1>1, IndexInvInit, IndexInvStep, PTL DEF IndexSpec

-----------------------------------------------------------------------------
\* Every step of the index is a step of the log or does not show in it: the first write
\* of revoke() is invisible, the second is the revocation.
LEMMA IndexStepIsLogStep ==
  IndexInv /\ [IndexNext]_indexVars => [Log!LogNext]_(Log!logVars)
<1> SUFFICES ASSUME IndexInv, [IndexNext]_indexVars PROVE [Log!LogNext]_(Log!logVars)
  OBVIOUS
<1>1. ASSUME NEW t \in Revokers, NEW id \in Ids, NEW derivative \in BOOLEAN,
             RevokeBump(t, id, derivative)
      PROVE  UNCHANGED Log!logVars
  BY <1>1 DEF RevokeBump, Log!logVars, Revoked
<1>2. ASSUME NEW t \in Revokers, RevokeInsert(t)
      PROVE  Log!LogNext
  <2> DEFINE id == revoking[t].id
  <2>1. /\ id \in Ids \ Revoked
        /\ version = Cardinality(Revoked) + 1
        /\ entries' = [entries EXCEPT ![id] =
             [version |-> version, derivative |-> revoking[t].derivative]]
        /\ revoking[t].derivative \in BOOLEAN
        /\ Cardinality(Revoked') = version
    BY <1>2, InsertAddsEntry
  <2>2. Log!LogRevoke(id, revoking[t].derivative)
    BY <2>1 DEF Log!LogRevoke, Revoked
  <2> QED  BY <2>1, <2>2 DEF Log!LogNext
<1>3. CASE UNCHANGED indexVars
  BY <1>3 DEF indexVars, Log!logVars, Revoked
<1> QED  BY <1>1, <1>2, <1>3 DEF IndexNext

\* The index implements the log: seen through is_revoked() and entry(), revoke() is
\* atomic and for ever, whichever threads call it.
THEOREM IndexImplementsLog == IndexSpec => RevokeIsAtomic
<1>1. IndexInit => Log!LogInit
  <2> SUFFICES ASSUME IndexInit PROVE Log!LogInit
    OBVIOUS
  <2>1. Revoked = {}
    BY DEF IndexInit, Revoked
  <2> QED  BY <2>1, FS_EmptySet DEF IndexInit, Log!LogInit
<1> QED
  BY <1>1, IndexInvInit, IndexInvStep, IndexStepIsLogStep, PTL
  DEF IndexSpec, RevokeIsAtomic, Log!LogSpec
=============================================================================
