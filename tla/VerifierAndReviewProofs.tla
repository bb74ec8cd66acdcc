---------------------- MODULE VerifierAndReviewProofs -----------------------
(***************************************************************************)
(* Proofs about the two sides of the lineage.                              *)
(*                                                                         *)
(* Verifier, which reads it: how stale a cached "valid" can be, and that a *)
(* walk never meets a hole.                                                *)
(*                                                                         *)
(* ReviewDesk, which writes the SQLite one: whatever is rolled back or     *)
(* killed, the committed tables are one hash chain of the DAG, and         *)
(* implement AttestationDag.                                               *)
(***************************************************************************)
EXTENDS Verifier, ReviewDesk, DagAndIndexProofs, SequenceTheorems

-----------------------------------------------------------------------------
(***************************************************************************)
(* Verifier                                                                *)
(***************************************************************************)
\* What `id` is derived from that was revoked under a version before `v`.
Early(id, v) == {a \in Lineal(id) \cap Revoked : entries[a].version < v}

\* A call in progress.  What it must not overlook is still ahead of it: every early
\* revocation above the target is above (or is) a vertex it has yet to look at.
WalkOk(t) ==
  LET v == verify[t]
  IN /\ v.version <= version
     /\ v.pc # "idle" => v.target \in Ids
     /\ v.todo \subseteq Known \cup {v.target}
     /\ v.state # "missing_predecessor"
     /\ v.pc = "walk" => /\ v.target \in v.todo \cup Known
                         /\ \A a \in Early(v.target, v.version) : \E x \in v.todo : a \in Lineal(x)
     /\ v.pc = "store" /\ v.state = "valid" =>
          v.target \in Known /\ Early(v.target, v.version) = {}

CacheOk(c) ==
  /\ c.version <= version
  /\ c.state = "valid" => c.id \in Known /\ Early(c.id, c.version) = {}

VerifierInv ==
  /\ VerifierTypeOK
  /\ DagInv
  /\ IndexInv
  /\ \A t \in Verifiers : WalkOk(t)
  /\ \A c \in cache : CacheOk(c)

-----------------------------------------------------------------------------
\* A step of the index leaves what is revoked alone, and what it adds is as new as the
\* version that was current.
LEMMA IndexGrows ==
  ASSUME IndexInv, [IndexNext]_indexVars
  PROVE  /\ version' >= version
         /\ \A i \in Revoked' : \/ i \in Revoked /\ entries'[i] = entries[i]
                                \/ entries'[i].version >= version
<1>1. ASSUME NEW t \in Revokers, NEW id \in Ids, NEW derivative \in BOOLEAN,
             RevokeBump(t, id, derivative)
      PROVE  version' >= version /\ Revoked' = Revoked /\ entries' = entries
  BY <1>1 DEF RevokeBump, Revoked, IndexInv, IndexTypeOK
<1>2. ASSUME NEW t \in Revokers, RevokeInsert(t)
      PROVE  /\ version' >= version
             /\ \A i \in Revoked' : \/ i \in Revoked /\ entries'[i] = entries[i]
                                    \/ entries'[i].version >= version
  <2>1. version' = version /\ version \in Nat
    BY <1>2 DEF RevokeInsert, IndexInv, IndexTypeOK
  <2>2. /\ revoking[t].id \in Ids \ Revoked
        /\ Revoked' = Revoked \cup {revoking[t].id}
        /\ entries' = [entries EXCEPT ![revoking[t].id] =
             [version |-> version, derivative |-> revoking[t].derivative]]
    BY <1>2, InsertAddsEntry
  <2>3. entries'[revoking[t].id].version = version
    BY <2>2 DEF IndexInv, IndexTypeOK
  <2>4. \A i \in Revoked : entries'[i] = entries[i]
    BY <2>2 DEF IndexInv, IndexTypeOK, Revoked
  <2> QED  BY <2>1, <2>2, <2>3, <2>4
<1>3. CASE UNCHANGED indexVars
  BY <1>3 DEF indexVars, Revoked, IndexInv, IndexTypeOK
<1> QED  BY <1>1, <1>2, <1>3 DEF IndexNext, IndexInv, IndexTypeOK

\* No append and no revocation adds an early revocation above a stored attestation.
LEMMA EarlyKept ==
  ASSUME VerifierInv, StoreStep, NEW id \in Known, NEW v \in Nat, v <= version
  PROVE  Early(id, v)' \subseteq Early(id, v)
<1>1. CASE DagNext /\ UNCHANGED indexVars
  <2>1. Lineal(id)' = Lineal(id)
    BY <1>1, ProvenanceStep DEF VerifierInv
  <2>2. Revoked' = Revoked /\ entries' = entries
    BY <1>1 DEF indexVars, Revoked
  <2> QED  BY <2>1, <2>2 DEF Early
<1>2. CASE IndexNext /\ UNCHANGED attestations
  <2>1. Lineal(id)' = Lineal(id)
    BY <1>2, ProvenanceStep DEF VerifierInv
  <2>2. /\ version \in Nat
        /\ \A i \in Revoked' : \/ i \in Revoked /\ entries'[i] = entries[i]
                               \/ entries'[i].version >= version
    BY <1>2, IndexGrows DEF VerifierInv, IndexInv, IndexTypeOK
  <2>3. ASSUME NEW a \in Early(id, v)' PROVE a \in Early(id, v)
    <3>1. a \in Lineal(id) /\ a \in Revoked' /\ entries'[a].version < v
      BY <2>1 DEF Early
    <3>2. entries'[a].version \in Nat
      <4>1. IndexTypeOK'
        BY <1>2, IndexInvStep DEF VerifierInv, IndexInv
      <4>2. a \in Ids /\ entries'[a] # None
        BY <3>1 DEF Revoked
      <4> QED  BY <4>1, <4>2 DEF IndexTypeOK, Entry
    <3> QED  BY <2>2, <3>1, <3>2 DEF Early
  <2> QED  BY <2>3
<1> QED  BY <1>1, <1>2 DEF StoreStep

-----------------------------------------------------------------------------
LEMMA VerifierInvInit == VerifierInit => VerifierInv
<1> SUFFICES ASSUME VerifierInit PROVE VerifierInv
  OBVIOUS
<1>1. DagInv /\ IndexInv
  BY DagInvInit, IndexInvInit DEF VerifierInit
<1>2. VerifierTypeOK
  BY <1>1, VerifierAssumption
  DEF VerifierInit, VerifierTypeOK, DagInv, IndexInv, VerifyState, NoVerify, TrustState
<1>3. \A t \in Verifiers : WalkOk(t)
  BY DEF VerifierInit, IndexInit, WalkOk, NoVerify
<1>4. \A c \in cache : CacheOk(c)
  BY DEF VerifierInit
<1> QED  BY <1>1, <1>2, <1>3, <1>4 DEF VerifierInv

\* Appends and revocations.
LEMMA StoreStepKeepsVerifierInv ==
  ASSUME VerifierInv, StoreStep
  PROVE  VerifierInv'
<1>1. UNCHANGED <<clock, cache, verify, verifies>>
  BY DEF StoreStep
<1>2. DagInv' /\ IndexInv'
  <2>1. [DagNext]_attestations /\ [IndexNext]_indexVars
    BY DEF StoreStep
  <2> QED  BY <2>1, DagInvStep, IndexInvStep DEF VerifierInv
<1>3. Known \subseteq Known' /\ \A i \in Known : Lineal(i)' = Lineal(i)
  <2>1. [DagNext]_attestations
    BY DEF StoreStep
  <2>2. \A i \in Known : attestations'[i] = attestations[i] /\ Lineal(i)' = Lineal(i)
    BY <2>1, ProvenanceStep DEF VerifierInv
  <2> QED  BY <2>2 DEF Known
<1>4. version' >= version /\ version \in Nat /\ version' \in Nat
  <2>1. [IndexNext]_indexVars
    BY DEF StoreStep
  <2> QED  BY <2>1, <1>2, IndexGrows DEF VerifierInv, IndexInv, IndexTypeOK
<1>5. VerifierTypeOK'
  BY <1>1, <1>2 DEF VerifierInv, VerifierTypeOK, DagInv, IndexInv
<1>6. ASSUME NEW t \in Verifiers PROVE WalkOk(t)'
  <2>1. WalkOk(t) /\ verify[t] \in VerifyState
    BY DEF VerifierInv, VerifierTypeOK
  <2>2. PICK target, ver : target = verify[t].target /\ ver = verify[t].version
    OBVIOUS
  <2>3. ver \in Nat /\ ver <= version /\ verify[t].todo \subseteq Known \cup {target}
    BY <2>1, <2>2 DEF WalkOk, VerifyState
  <2>4. target \in Known => Early(target, ver)' \subseteq Early(target, ver)
    BY <2>3, EarlyKept
  <2>5. ASSUME verify[t].pc = "walk"
        PROVE  \A a \in Early(target, ver)' : \E x \in verify[t].todo : a \in Lineal(x)'
    <3>1. CASE target \in verify[t].todo
      BY <3>1 DEF Early
    <3>2. CASE target \in Known
      <4>1. \A a \in Early(target, ver) : \E x \in verify[t].todo : a \in Lineal(x)
        BY <2>1, <2>2, <2>5 DEF WalkOk
      <4>2. \A x \in verify[t].todo : Lineal(x)' = Lineal(x)
        BY <3>2, <2>3, <1>3
      <4> QED  BY <4>1, <4>2, <3>2, <2>4
    <3> QED  BY <3>1, <3>2, <2>1, <2>2, <2>5 DEF WalkOk
  <2>6. verify[t].pc = "store" /\ verify[t].state = "valid" =>
          target \in Known' /\ Early(target, ver)' = {}
    BY <2>1, <2>2, <2>4, <1>3 DEF WalkOk
  <2>7. verify'[t] = verify[t]
    BY <1>1
  <2>8. ver <= version'
    BY <2>3, <1>4
  <2> QED  BY <2>1, <2>2, <2>3, <2>5, <2>6, <2>7, <2>8, <1>3 DEF WalkOk, Early
<1>7. ASSUME NEW c \in cache PROVE CacheOk(c)'
  <2>1. CacheOk(c) /\ c.version \in Nat
    BY DEF VerifierInv, VerifierTypeOK, CacheEntry
  <2>2. c.state = "valid" => Early(c.id, c.version)' \subseteq Early(c.id, c.version)
    BY <2>1, EarlyKept DEF CacheOk
  <2> QED  BY <2>1, <2>2, <1>3, <1>4 DEF CacheOk
<1> QED  BY <1>1, <1>2, <1>5, <1>6, <1>7 DEF VerifierInv

-----------------------------------------------------------------------------
\* What every step that leaves the store alone keeps.
LEMMA StoreAlone ==
  ASSUME VerifierInv, UNCHANGED storeVars
  PROVE  /\ DagInv' /\ IndexInv' /\ DagTypeOK' /\ IndexTypeOK'
         /\ Known' = Known /\ version' = version
         /\ \A i : Lineal(i)' = Lineal(i)
         /\ \A i, v : Early(i, v)' = Early(i, v)
<1>1. UNCHANGED <<attestations, indexVars>>
  BY DEF storeVars
<1>2. DagInv' /\ IndexInv'
  BY <1>1, DagInvStep, IndexInvStep DEF VerifierInv
<1>3. Known' = Known /\ Revoked' = Revoked /\ version' = version /\ entries' = entries
  BY <1>1 DEF Known, Revoked, indexVars
<1>4. \A i : Lineal(i)' = Lineal(i)
  BY <1>1 DEF Lineal, Closure, Upstream
<1>5. \A i, v : Early(i, v)' = Early(i, v)
  BY <1>3, <1>4 DEF Early
<1> QED  BY <1>2, <1>3, <1>4, <1>5 DEF DagInv, IndexInv

\* A step of one call leaves the other calls' invariants alone.
LEMMA OtherWalks ==
  ASSUME VerifierInv, UNCHANGED storeVars, NEW u \in Verifiers, verify'[u] = verify[u]
  PROVE  WalkOk(u)'
<1>1. WalkOk(u)
  BY DEF VerifierInv
<1>2. PICK target, ver : target = verify[u].target /\ ver = verify[u].version
  OBVIOUS
<1> QED  BY <1>1, <1>2, StoreAlone DEF WalkOk, Early, Lineal, Closure, Upstream, storeVars, indexVars, Revoked

\* And the cache.
LEMMA OldCache ==
  ASSUME VerifierInv, UNCHANGED storeVars, NEW c \in cache
  PROVE  CacheOk(c)'
BY StoreAlone DEF VerifierInv, CacheOk

\* The state a vertex gives is a trust state, and "valid" only when it is stored and not
\* revoked; on a stored attestation no reference is missing.
LEMMA VertexStateFacts ==
  ASSUME VerifierInv, NEW x \in Ids
  PROVE  /\ VertexState(x) \in TrustState \ {"missing_predecessor"}
         /\ VertexState(x) = "valid" => x \in Known \ Revoked
<1>1. CASE attestations[x] = None
  BY <1>1 DEF VertexState, TrustState
<1>2. CASE attestations[x] # None
  <2>1. x \in Known
    BY <1>2 DEF Known
  <2>2. attestations[x].intent \in Known \cup {None}
    BY <1>2, <2>1 DEF VerifierInv, DagInv, NoDanglingReference, Upstream
  <2> QED  BY <1>2, <2>1, <2>2 DEF VertexState, TrustState
<1> QED  BY <1>1, <1>2

\* An idle verifier's record has its type.
LEMMA NoVerifyType == NoVerify \in VerifyState
BY DEF NoVerify, VerifyState, TrustState

LEMMA StartKeepsVerifierInv ==
  ASSUME VerifierInv, NEW t \in Verifiers, NEW id \in Ids, VerifyStart(t, id)
  PROVE  VerifierInv'
<1>1. UNCHANGED <<storeVars, clock, cache>> /\ UNCHANGED storeVars
  BY DEF VerifyStart
<1>2. /\ verify'[t] = [NoVerify EXCEPT !.pc = "lookup", !.target = id, !.version = version]
      /\ \A u \in Verifiers : u # t => verify'[u] = verify[u]
  BY DEF VerifyStart, VerifierInv, VerifierTypeOK
<1>3. version \in Nat /\ version' = version
  BY <1>1, StoreAlone DEF VerifierInv, IndexInv, IndexTypeOK
<1>4. VerifierTypeOK'
  <2>1. verify'[t] \in VerifyState
    BY <1>2, <1>3, NoVerifyType DEF VerifyState
  <2>2. verify' \in [Verifiers -> VerifyState]
    BY <2>1 DEF VerifyStart, VerifierInv, VerifierTypeOK
  <2>3. verifies' \in 0..MaxVerifies
    BY VerifierAssumption DEF VerifyStart, VerifierInv, VerifierTypeOK
  <2> QED  BY <2>2, <2>3, <1>1, StoreAlone DEF VerifierInv, VerifierTypeOK
<1>5. WalkOk(t)'
  BY <1>2, <1>3 DEF WalkOk, NoVerify
<1> QED  BY <1>1, <1>2, <1>4, <1>5, StoreAlone, OtherWalks, OldCache DEF VerifierInv

LEMMA LookupKeepsVerifierInv ==
  ASSUME VerifierInv, NEW t \in Verifiers, VerifyLookup(t)
  PROVE  VerifierInv'
<1>1. UNCHANGED <<storeVars, clock, cache, verifies>> /\ UNCHANGED storeVars
  BY DEF VerifyLookup
<1>2. PICK target \in Ids, ver \in Nat : target = verify[t].target /\ ver = verify[t].version
  BY DEF VerifyLookup, VerifierInv, WalkOk, VerifierTypeOK, VerifyState
<1>3. /\ \/ verify'[t] = NoVerify
         \/ verify'[t] = [verify[t] EXCEPT !.pc = "walk", !.todo = {target}]
      /\ \A u \in Verifiers : u # t => verify'[u] = verify[u]
  BY <1>2 DEF VerifyLookup, VerifierInv, VerifierTypeOK
<1>4. verify[t] \in VerifyState /\ WalkOk(t) /\ version \in Nat
  BY DEF VerifierInv, VerifierTypeOK, IndexInv, IndexTypeOK
<1>5. verify'[t] \in VerifyState
  <2>1. CASE verify'[t] = NoVerify
    BY <2>1, NoVerifyType
  <2>2. CASE verify'[t] = [verify[t] EXCEPT !.pc = "walk", !.todo = {target}]
    <3>1. verify'[t] = [pc |-> "walk", target |-> verify[t].target,
                        version |-> verify[t].version, todo |-> {target},
                        state |-> verify[t].state]
      BY <2>2, <1>4 DEF VerifyState
    <3> QED  BY <3>1, <1>2, <1>4 DEF VerifyState
  <2> QED  BY <2>1, <2>2, <1>3
<1>6. VerifierTypeOK'
  BY <1>1, <1>5, StoreAlone DEF VerifyLookup, VerifierInv, VerifierTypeOK
<1>7. WalkOk(t)'
  <2>1. CASE verify'[t] = NoVerify
    BY <2>1, <1>1, <1>4, StoreAlone DEF WalkOk, NoVerify
  <2>2. CASE verify'[t] = [verify[t] EXCEPT !.pc = "walk", !.todo = {target}]
    <3>1. /\ verify'[t].pc = "walk" /\ verify'[t].todo = {target}
          /\ verify'[t].target = target /\ verify'[t].version = ver
          /\ verify'[t].state = verify[t].state
      BY <2>2, <1>2, <1>4 DEF VerifyState
    <3>2. \A a \in Early(target, ver)' : a \in Lineal(target)'
      BY DEF Early
    <3> QED  BY <3>1, <3>2, <1>1, <1>2, <1>4, StoreAlone DEF WalkOk, Early
  <2> QED  BY <2>1, <2>2, <1>3
<1> QED  BY <1>1, <1>3, <1>6, <1>7, StoreAlone, OtherWalks, OldCache DEF VerifierInv

\* The walk: a vertex found valid is not itself revoked, so whatever early revocation
\* was above it is above one of its references, which are ahead of the walk now.
LEMMA VertexKeepsVerifierInv ==
  ASSUME VerifierInv, NEW t \in Verifiers, VerifyVertex(t)
  PROVE  VerifierInv'
<1>1. UNCHANGED <<storeVars, clock, cache, verifies>> /\ UNCHANGED storeVars
  BY DEF VerifyVertex
<1>2. PICK target \in Ids, ver \in Nat : target = verify[t].target /\ ver = verify[t].version
  BY DEF VerifyVertex, VerifierInv, WalkOk, VerifierTypeOK, VerifyState
<1>3. /\ verify[t] \in VerifyState /\ WalkOk(t) /\ version \in Nat /\ verify[t].pc = "walk"
      /\ DagTypeOK
  BY DEF VerifyVertex, VerifierInv, VerifierTypeOK, IndexInv, IndexTypeOK
<1>4. PICK x \in verify[t].todo :
        LET s == VertexState(x)
            rest == IF s = "valid" THEN (verify[t].todo \ {x}) \cup WalkOn(x) ELSE {}
        IN verify' = [verify EXCEPT
             ![t].todo = rest,
             ![t].pc = IF rest = {} THEN "store" ELSE "walk",
             ![t].state = IF x = verify[t].target THEN s ELSE Inherited(s)]
  BY DEF VerifyVertex
<1> DEFINE s == VertexState(x)
           rest == IF s = "valid" THEN (verify[t].todo \ {x}) \cup WalkOn(x) ELSE {}
<1>5. x \in Ids
  BY <1>3 DEF VerifyState
<1>6. s \in TrustState \ {"missing_predecessor"} /\ (s = "valid" => x \in Known \ Revoked)
  BY <1>5, VertexStateFacts
<1>7. s = "valid" => WalkOn(x) = Upstream(x) /\ Upstream(x) \subseteq Known
  BY <1>6 DEF WalkOn, ParentsOf, Upstream, Known, VerifierInv, DagInv, NoDanglingReference
<1>8. /\ verify'[t].todo = rest
      /\ verify'[t].pc = IF rest = {} THEN "store" ELSE "walk"
      /\ verify'[t].state = IF x = target THEN s ELSE Inherited(s)
      /\ verify'[t].target = target
      /\ verify'[t].version = ver
  BY <1>2, <1>3, <1>4 DEF VerifierInv, VerifierTypeOK, VerifyState
<1>9. \A u \in Verifiers : u # t => verify'[u] = verify[u]
  BY <1>4 DEF VerifierInv, VerifierTypeOK
<1>10. rest \subseteq Ids /\ rest \subseteq Known \cup {target}
  BY <1>2, <1>3, <1>7 DEF VerifyState, WalkOk, Known
<1>11. /\ verify'[t].state \in TrustState \ {"missing_predecessor"}
       /\ verify'[t].state = "valid" => s = "valid"
  BY <1>6, <1>8 DEF Inherited, TrustState
<1>12. VerifierTypeOK'
  <2>1. verify' \in [Verifiers -> VerifyState]
    BY <1>3, <1>4, <1>8, <1>10, <1>11 DEF VerifierInv, VerifierTypeOK, VerifyState
  <2> QED  BY <2>1, <1>1, StoreAlone DEF VerifierInv, VerifierTypeOK
<1>13. s = "valid" => \A a \in Early(target, ver) : \E y \in rest : a \in Lineal(y)
  <2> SUFFICES ASSUME s = "valid", NEW a \in Early(target, ver)
               PROVE  \E y \in rest : a \in Lineal(y)
    OBVIOUS
  <2>1. PICK y \in verify[t].todo : a \in Lineal(y)
    BY <1>2, <1>3 DEF WalkOk
  <2>2. CASE y # x
    BY <2>1, <2>2
  <2>3. CASE y = x
    <3>1. a # x
      BY <1>6 DEF Early
    <3>2. PICK p \in Upstream(x) : a \in Lineal(p)
      BY <2>1, <2>3, <3>1, <1>3, <1>5, LinealUnfold
    <3> QED  BY <3>2, <1>7
  <2> QED  BY <2>2, <2>3
<1>14. s = "valid" => target \in rest \cup Known
  BY <1>2, <1>3, <1>6 DEF WalkOk
<1>15. WalkOk(t)'
  <2>1. CASE rest # {}
    BY <2>1, <1>1, <1>2, <1>3, <1>8, <1>10, <1>11, <1>13, <1>14, StoreAlone DEF WalkOk, Early
  <2>2. CASE rest = {}
    BY <2>2, <1>1, <1>2, <1>3, <1>8, <1>11, <1>13, <1>14, StoreAlone DEF WalkOk, Early
  <2> QED  BY <2>1, <2>2
<1> QED  BY <1>1, <1>9, <1>12, <1>15, StoreAlone, OtherWalks, OldCache DEF VerifierInv

\* The answer goes into the cache under the version the call began with.
LEMMA StoreKeepsVerifierInv ==
  ASSUME VerifierInv, NEW t \in Verifiers, VerifyStore(t)
  PROVE  VerifierInv'
<1>1. UNCHANGED <<storeVars, clock, verifies>> /\ UNCHANGED storeVars
  BY DEF VerifyStore
<1>2. PICK target \in Ids, ver \in Nat : target = verify[t].target /\ ver = verify[t].version
  BY DEF VerifyStore, VerifierInv, WalkOk, VerifierTypeOK, VerifyState
<1>3. verify[t] \in VerifyState /\ WalkOk(t) /\ version \in Nat /\ verify[t].pc = "store"
  BY DEF VerifyStore, VerifierInv, VerifierTypeOK, IndexInv, IndexTypeOK
<1>4. PICK new : new = [id |-> target, version |-> ver, state |-> verify[t].state]
  OBVIOUS
<1>5. cache' \subseteq cache \cup {new}
  BY <1>2, <1>4 DEF VerifyStore
<1>6. verify'[t] = NoVerify /\ \A u \in Verifiers : u # t => verify'[u] = verify[u]
  BY DEF VerifyStore, VerifierInv, VerifierTypeOK
<1>7. VerifierTypeOK'
  <2>1. new \in CacheEntry
    BY <1>3, <1>4 DEF CacheEntry, VerifyState
  <2>2. verify' \in [Verifiers -> VerifyState]
    BY NoVerifyType DEF VerifyStore, VerifierInv, VerifierTypeOK
  <2> QED  BY <2>1, <2>2, <1>1, <1>5, StoreAlone DEF VerifierInv, VerifierTypeOK
<1>8. WalkOk(t)'
  BY <1>1, <1>3, <1>6, StoreAlone DEF WalkOk, NoVerify
<1>9. CacheOk(new)'
  <2>1. CacheOk(new)
    BY <1>2, <1>3, <1>4 DEF WalkOk, CacheOk
  <2> QED  BY <2>1, <1>1, StoreAlone DEF CacheOk
<1>10. \A c \in cache' : CacheOk(c)'
  BY <1>1, <1>5, <1>9, OldCache
<1> QED  BY <1>1, <1>6, <1>7, <1>8, <1>10, StoreAlone, OtherWalks DEF VerifierInv

\* Clearing the cache, the clock, and steps of others.
LEMMA OtherStepsKeepVerifierInv ==
  ASSUME VerifierInv, UNCHANGED storeVars, UNCHANGED <<verify, verifies>>,
         clock' \in 0..MaxClock, cache' \subseteq cache
  PROVE  VerifierInv'
<1>1. VerifierTypeOK'
  BY StoreAlone DEF VerifierInv, VerifierTypeOK
<1>2. \A c \in cache' : CacheOk(c)'
  BY OldCache
<1> QED  BY <1>1, <1>2, StoreAlone, OtherWalks DEF VerifierInv

LEMMA VerifierInvStep == VerifierInv /\ [VerifierNext]_verifierVars => VerifierInv'
<1> SUFFICES ASSUME VerifierInv, [VerifierNext]_verifierVars PROVE VerifierInv'
  OBVIOUS
<1>1. clock \in 0..MaxClock /\ MaxClock \in Nat
  BY VerifierAssumption DEF VerifierInv, VerifierTypeOK
<1>2. CASE StoreStep
  BY <1>2, StoreStepKeepsVerifierInv
<1>3. ASSUME NEW t \in Verifiers, NEW id \in Ids, VerifyStart(t, id) PROVE VerifierInv'
  BY <1>3, StartKeepsVerifierInv
<1>4. ASSUME NEW t \in Verifiers, VerifyLookup(t) \/ VerifyVertex(t) \/ VerifyStore(t)
      PROVE  VerifierInv'
  BY <1>4, LookupKeepsVerifierInv, VertexKeepsVerifierInv, StoreKeepsVerifierInv
<1>5. CASE InvalidateCache
  BY <1>1, <1>5, OtherStepsKeepVerifierInv DEF InvalidateCache
<1>6. CASE Tick
  BY <1>1, <1>6, OtherStepsKeepVerifierInv DEF Tick
<1>7. CASE UNCHANGED verifierVars
  BY <1>1, <1>7, OtherStepsKeepVerifierInv DEF verifierVars
<1> QED  BY <1>2, <1>3, <1>4, <1>5, <1>6, <1>7 DEF VerifierNext

LEMMA VerifierInvariant == VerifierSpec => []VerifierInv
BY VerifierInvInit, VerifierInvStep, PTL DEF VerifierSpec

-----------------------------------------------------------------------------
\* The verifier's variables keep their types.
THEOREM VerifierTypeCorrect == VerifierSpec => []VerifierTypeOK
<1>1. VerifierInv => VerifierTypeOK
  BY DEF VerifierInv
<1> QED  BY <1>1, VerifierInvariant, PTL

\* However many verifiers, appends and revocations interleave, a cached "valid" lags
\* the index by no more than the revocation that was being stored when its version
\* was read.
THEOREM CacheIsNearlyFresh == VerifierSpec => []CacheLagsOneRevocation
<1>1. VerifierInv => CacheLagsOneRevocation
  <2> SUFFICES ASSUME VerifierInv, NEW c \in cache, c.state = "valid",
                      NEW a \in Lineal(c.id) \cap Revoked
               PROVE  entries[a].version >= c.version
    BY DEF CacheLagsOneRevocation
  <2>1. a \notin Early(c.id, c.version)
    BY DEF VerifierInv, CacheOk
  <2>2. ~(entries[a].version < c.version)
    BY <2>1 DEF Early
  <2>3. entries[a].version \in Nat /\ c.version \in Nat
    BY DEF VerifierInv, VerifierTypeOK, CacheEntry, IndexTypeOK, Entry, Revoked
  <2> QED  BY <2>2, <2>3
<1> QED  BY <1>1, VerifierInvariant, PTL

\* No walk meets a hole, however appends interleave with it.
THEOREM WalkMeetsNoHole == VerifierSpec => []WalkNeverMissesPredecessor
<1>1. VerifierInv => WalkNeverMissesPredecessor
  BY DEF VerifierInv, WalkOk, WalkNeverMissesPredecessor
<1> QED  BY <1>1, VerifierInvariant, PTL

-----------------------------------------------------------------------------
(***************************************************************************)
(* ReviewDesk                                                              *)
(***************************************************************************)
Inserting == {"edges", "link", "commit"}

\* What is known of a thread's append: the lock is its own, what it refers to is
\* committed, and once it has inserted it is SQLite's writer and the rows are its own.
TxOk(t) ==
  LET ap == appending[t]
      s == StoreOf[t]
  IN /\ InTransaction(t) => /\ storeLock[s] = t
                            /\ ap.id \in Ids /\ ap.att \in Attestation
                            /\ ParentsOf(ap.att) \subseteq Known
     /\ ap.pc \in Inserting => /\ writer = s
                               /\ ap.id \notin Known
                               /\ open[s].rows = {<<ap.id, ap.att>>}
     /\ ap.pc \in {"edges", "link"} => open[s].links = <<>>
     /\ ap.pc = "commit" =>
          open[s].links = <<[id |-> ap.id, hash |-> Append(HeadOf(chain), ap.id)]>>

\* A store none of whose threads has inserted has nothing open.
StoreOk(s) ==
  (\A t \in Threads : StoreOf[t] = s => appending[t].pc \notin Inserting)
    => open[s] = NoTransaction /\ writer # s

SqliteTypeOK ==
  /\ chain \in Seq(Link)
  /\ open \in [Stores -> Transaction]
  /\ writer \in Stores \cup {None}
  /\ storeLock \in [Stores -> Threads \cup {None}]
  /\ appending \in [Threads -> AppendState]

SqliteInv ==
  /\ DagInv
  /\ SqliteTypeOK
  /\ ChainLinksCommitted
  /\ \A t \in Threads : TxOk(t)
  /\ \A s \in Stores : StoreOk(s)

\* The steps of the lineage, whoever takes them.
SqliteStep ==
  \/ \E t \in Threads :
       \/ \E id \in Ids, a \in Attestation, twice \in BOOLEAN : AppendCheck(t, id, a, twice)
       \/ AppendStep(t) \/ AppendOver(t)
  \/ \E s \in Stores : StoreCrash(s)

-----------------------------------------------------------------------------
LEMMA SqliteInvInit == SqliteInit => SqliteInv
<1> SUFFICES ASSUME SqliteInit PROVE SqliteInv
  OBVIOUS
<1> USE StoresAssumption DEF SqliteInit, NoAppend, NoTransaction
<1>1. DagInv /\ Known = {}
  BY DagInvInit DEF DagInit, Known
<1>2. SqliteTypeOK
  BY DEF SqliteTypeOK, AppendState, Transaction
<1>3. ChainLinksCommitted
  BY <1>1 DEF ChainLinksCommitted, ValidateChain
<1>4. \A t \in Threads : TxOk(t)
  BY DEF TxOk, InTransaction, Inserting
<1>5. \A s \in Stores : StoreOk(s)
  BY DEF StoreOk
<1> QED  BY <1>1, <1>2, <1>3, <1>4, <1>5 DEF SqliteInv

\* The store's lock: no two of its threads are in a transaction.
LEMMA OneTransaction ==
  ASSUME SqliteInv, NEW t \in Threads, NEW u \in Threads, StoreOf[u] = StoreOf[t],
         InTransaction(t), InTransaction(u)
  PROVE  u = t
BY DEF SqliteInv, TxOk

\* SQLite's write lock: no two threads have inserted.
LEMMA OneWriter ==
  ASSUME SqliteInv, NEW t \in Threads, NEW u \in Threads,
         appending[t].pc \in Inserting, appending[u].pc \in Inserting
  PROVE  u = t
<1>1. StoreOf[u] = StoreOf[t]
  BY DEF SqliteInv, TxOk
<1> QED  BY <1>1, OneTransaction DEF InTransaction, Inserting

\* The committed tables depend on nothing else.
LEMMA CommittedTablesKept ==
  ASSUME DagInv, ChainLinksCommitted, UNCHANGED <<attestations, chain>>
  PROVE  DagInv' /\ ChainLinksCommitted' /\ Known' = Known
BY DEF DagInv, DagTypeOK, NoDanglingReference, ChainLinksCommitted, ValidateChain, Known, Upstream

\* An append that takes the lock has had its references looked up; one that is refused
\* has not started.
LEMMA CheckKeepsSqliteInv ==
  ASSUME SqliteInv, NEW t \in Threads, NEW id \in Ids, NEW a \in Attestation,
         NEW twice \in BOOLEAN, AppendCheck(t, id, a, twice)
  PROVE  SqliteInv'
<1> USE StoresAssumption
<1>1. /\ UNCHANGED <<attestations, chain, open, writer>>
      /\ appending[t].pc = "idle" /\ storeLock[StoreOf[t]] = None /\ StoreOf[t] \in Stores
  BY DEF AppendCheck
<1>2. \/ /\ Accepts(id, a)
         /\ storeLock' = [storeLock EXCEPT ![StoreOf[t]] = t]
         /\ appending' = [appending EXCEPT
              ![t] = [pc |-> "insert", id |-> id, att |-> a, twice |-> twice]]
      \/ /\ storeLock' = [storeLock EXCEPT ![StoreOf[t]] = None]
         /\ appending' = [appending EXCEPT ![t] = [pc |-> "raised"]]
  BY DEF AppendCheck, Leave
<1>3. DagInv' /\ ChainLinksCommitted' /\ Known' = Known
  BY <1>1, CommittedTablesKept DEF SqliteInv
<1>4. SqliteTypeOK'
  BY <1>1, <1>2 DEF SqliteInv, SqliteTypeOK, AppendState
<1>5. \A u \in Threads : u # t => appending'[u] = appending[u]
  BY <1>2 DEF SqliteInv, SqliteTypeOK
<1>6. \A u \in Threads : u # t /\ InTransaction(u) => storeLock'[StoreOf[u]] = storeLock[StoreOf[u]]
  <2>1. ASSUME NEW u \in Threads, InTransaction(u) PROVE StoreOf[u] # StoreOf[t]
    <3>1. storeLock[StoreOf[u]] = u
      BY <2>1 DEF SqliteInv, TxOk
    <3> QED  BY <1>1, <3>1
  <2> QED  BY <1>2, <2>1 DEF SqliteInv, SqliteTypeOK
<1>7. \A u \in Threads : u # t => TxOk(u)'
  BY <1>1, <1>3, <1>5, <1>6 DEF SqliteInv, TxOk, InTransaction, Inserting, HeadOf
<1>8. TxOk(t)'
  <2>1. CASE Accepts(id, a) /\ appending'[t] = [pc |-> "insert", id |-> id, att |-> a, twice |-> twice]
             /\ storeLock'[StoreOf[t]] = t
    BY <2>1, <1>3 DEF TxOk, InTransaction, Inserting, Accepts, ParentsOf
  <2>2. CASE appending'[t] = [pc |-> "raised"]
    BY <2>2 DEF TxOk, InTransaction, Inserting
  <2> QED  BY <1>1, <1>2, <2>1, <2>2 DEF SqliteInv, SqliteTypeOK
<1>9. \A s \in Stores : StoreOk(s)'
  <2>1. \A u \in Threads : appending'[u].pc \notin Inserting <=> appending[u].pc \notin Inserting
    BY <1>1, <1>2, <1>5 DEF Inserting, SqliteInv, SqliteTypeOK
  <2> QED  BY <1>1, <2>1 DEF SqliteInv, StoreOk
<1> QED  BY <1>3, <1>4, <1>7, <1>8, <1>9 DEF SqliteInv

\* A thread's own step inside its transaction leaves what is known of the others.
LEMMA OthersKept ==
  ASSUME SqliteInv, NEW t \in Threads, InTransaction(t),
         UNCHANGED <<attestations, chain>>, NEW v, appending' = [appending EXCEPT ![t] = v],
         \A s \in Stores : s # StoreOf[t] => open'[s] = open[s] /\ storeLock'[s] = storeLock[s],
         writer' = writer \/ (writer \in {None, StoreOf[t]} /\ writer' \in {None, StoreOf[t]})
  PROVE  /\ \A u \in Threads : u # t => TxOk(u)' /\ appending'[u] = appending[u]
         /\ \A s \in Stores : s # StoreOf[t] => StoreOk(s)'
<1> USE StoresAssumption
<1>1. ASSUME NEW u \in Threads, u # t PROVE TxOk(u)' /\ appending'[u] = appending[u]
  <2>1. appending'[u] = appending[u] /\ StoreOf[u] \in Stores
    BY <1>1 DEF SqliteInv, SqliteTypeOK
  <2>2. CASE InTransaction(u)
    <3>1. StoreOf[u] # StoreOf[t]
      BY <2>2, <1>1, OneTransaction
    <3>2. appending[u].pc \in Inserting => writer = StoreOf[u]
      BY DEF SqliteInv, TxOk
    <3>3. appending[u].pc \in Inserting => writer' = StoreOf[u]
      BY <2>1, <3>1, <3>2
    <3>4. TxOk(u) /\ open'[StoreOf[u]] = open[StoreOf[u]]
          /\ storeLock'[StoreOf[u]] = storeLock[StoreOf[u]]
      BY <2>1, <3>1 DEF SqliteInv
    <3> QED  BY <2>1, <3>3, <3>4 DEF TxOk, InTransaction, HeadOf, Known
  <2>3. CASE ~InTransaction(u)
    BY <2>1, <2>3 DEF TxOk, InTransaction, Inserting
  <2> QED  BY <2>1, <2>2, <2>3
<1>2. ASSUME NEW s \in Stores, s # StoreOf[t] PROVE StoreOk(s)'
  <2>1. \A u \in Threads : StoreOf[u] = s => appending'[u] = appending[u]
    BY <1>1, <1>2
  <2>2. open'[s] = open[s] /\ (writer # s => writer' # s)
    BY <1>2
  <2> QED  BY <2>1, <2>2 DEF SqliteInv, StoreOk
<1> QED  BY <1>1, <1>2

\* BEGIN and the first INSERT: the store has nothing open, for no other thread of its is in
\* a transaction.
LEMMA InsertKeepsSqliteInv ==
  ASSUME SqliteInv, NEW t \in Threads, AppendInsert(t)
  PROVE  SqliteInv'
<1> USE StoresAssumption
<1> DEFINE s == StoreOf[t]
           ap == appending[t]
<1>1. /\ UNCHANGED <<attestations, chain, storeLock>>
      /\ ap.pc = "insert" /\ s \in Stores /\ writer \in {None, s} /\ writer' = s
      /\ open' = [open EXCEPT ![s].rows = @ \cup {<<ap.id, ap.att>>}]
      /\ appending' = [appending EXCEPT ![t].pc = "edges"]
      /\ ap.id \notin Known
  BY DEF AppendInsert, Seen
<1>2. InTransaction(t) /\ ap.id \in Ids /\ ap.att \in Attestation /\ storeLock[s] = t
      /\ ParentsOf(ap.att) \subseteq Known
  BY <1>1 DEF InTransaction, SqliteInv, TxOk
<1>3. open[s] = NoTransaction
  <2>1. \A u \in Threads : StoreOf[u] = s => appending[u].pc \notin Inserting
    BY <1>1, <1>2, OneTransaction DEF InTransaction, Inserting
  <2> QED  BY <1>1, <2>1 DEF SqliteInv, StoreOk
<1>4. DagInv' /\ ChainLinksCommitted' /\ Known' = Known
  BY <1>1, CommittedTablesKept DEF SqliteInv
<1>5. /\ open'[s].rows = {<<ap.id, ap.att>>} /\ open'[s].links = <<>>
      /\ open'[s] \in Transaction
  <2>1. open'[s] = [open[s] EXCEPT !.rows = @ \cup {<<ap.id, ap.att>>}] /\ open[s] \in Transaction
    BY <1>1 DEF SqliteInv, SqliteTypeOK
  <2>2. open[s].rows = {} /\ open[s].links = <<>>
    BY <1>3 DEF NoTransaction
  <2>3. open'[s].rows = open[s].rows \cup {<<ap.id, ap.att>>} /\ open'[s].links = open[s].links
    BY <2>1 DEF Transaction
  <2>4. open'[s] \in Transaction
    BY <1>2, <2>1 DEF Transaction
  <2> QED  BY <2>2, <2>3, <2>4
<1>6. /\ appending'[t] = [ap EXCEPT !.pc = "edges"] /\ appending[t] \in AppendState
      /\ appending' = [appending EXCEPT ![t] = [ap EXCEPT !.pc = "edges"]]
  BY <1>1 DEF SqliteInv, SqliteTypeOK
<1>7. /\ appending'[t].pc = "edges" /\ appending'[t].id = ap.id /\ appending'[t].att = ap.att
      /\ appending'[t] \in AppendState
  BY <1>1, <1>2, <1>6 DEF AppendState
<1>8. SqliteTypeOK'
  <2>1. open' \in [Stores -> Transaction]
    BY <1>1, <1>5 DEF SqliteInv, SqliteTypeOK
  <2> QED  BY <1>1, <1>6, <1>7, <2>1 DEF SqliteInv, SqliteTypeOK
<1>9. /\ \A u \in Threads : u # t => TxOk(u)'
      /\ \A x \in Stores : x # s => StoreOk(x)'
  <2>1. \A x \in Stores : x # s => open'[x] = open[x]
    BY <1>1 DEF SqliteInv, SqliteTypeOK
  <2> QED  BY <1>1, <1>2, <1>6, <2>1, OthersKept
<1>10. TxOk(t)'
  BY <1>1, <1>2, <1>4, <1>5, <1>7 DEF TxOk, InTransaction, Inserting
<1>11. StoreOk(s)'
  BY <1>7 DEF StoreOk, Inserting
<1> QED  BY <1>4, <1>8, <1>9, <1>10, <1>11 DEF SqliteInv

\* The edges need nothing the rows do not say.
LEMMA EdgesKeepSqliteInv ==
  ASSUME SqliteInv, NEW t \in Threads, AppendEdges(t)
  PROVE  SqliteInv'
<1> USE StoresAssumption
<1> DEFINE s == StoreOf[t]
           ap == appending[t]
<1>1. /\ UNCHANGED <<attestations, chain, open, writer, storeLock>>
      /\ ap.pc = "edges" /\ s \in Stores
      /\ appending' = [appending EXCEPT ![t].pc = "link"]
  BY DEF AppendEdges
<1>2. InTransaction(t)
  BY <1>1 DEF InTransaction
<1>3. DagInv' /\ ChainLinksCommitted' /\ Known' = Known
  BY <1>1, CommittedTablesKept DEF SqliteInv
<1>4. /\ appending'[t] = [ap EXCEPT !.pc = "link"] /\ appending[t] \in AppendState
      /\ appending' = [appending EXCEPT ![t] = [ap EXCEPT !.pc = "link"]]
  BY <1>1 DEF SqliteInv, SqliteTypeOK
<1>5. /\ appending'[t].pc = "link" /\ appending'[t].id = ap.id /\ appending'[t].att = ap.att
      /\ appending'[t] \in AppendState
  BY <1>1, <1>4 DEF AppendState
<1>6. SqliteTypeOK'
  BY <1>1, <1>4, <1>5 DEF SqliteInv, SqliteTypeOK
<1>7. /\ \A u \in Threads : u # t => TxOk(u)'
      /\ \A x \in Stores : x # s => StoreOk(x)'
  BY <1>1, <1>2, <1>4, OthersKept
<1>8. TxOk(t)'
  <2>1. TxOk(t)
    BY DEF SqliteInv
  <2> QED  BY <1>1, <1>2, <1>3, <1>5, <2>1 DEF TxOk, InTransaction, Inserting
<1>9. StoreOk(s)'
  BY <1>5 DEF StoreOk, Inserting
<1> QED  BY <1>3, <1>6, <1>7, <1>8, <1>9 DEF SqliteInv

\* The hash of the newest link.
LEMMA HeadType == SqliteTypeOK => HeadOf(chain) \in Seq(Ids)
<1> SUFFICES ASSUME SqliteTypeOK PROVE HeadOf(chain) \in Seq(Ids)
  OBVIOUS
<1>1. CASE chain = <<>>
  BY <1>1 DEF HeadOf
<1>2. CASE chain # <<>>
  <2>1. chain \in Seq(Link) /\ Len(chain) \in 1..Len(chain)
    BY <1>2 DEF SqliteTypeOK
  <2>2. chain[Len(chain)] \in Link
    BY <2>1
  <2> QED  BY <1>2, <2>2 DEF HeadOf, Link
<1> QED  BY <1>1, <1>2

\* The link is written after the newest committed one: the store has no other open.
LEMMA LinkKeepsSqliteInv ==
  ASSUME SqliteInv, NEW t \in Threads, AppendLink(t)
  PROVE  SqliteInv'
<1> USE StoresAssumption
<1> DEFINE s == StoreOf[t]
           ap == appending[t]
           new == [id |-> ap.id, hash |-> Append(HeadOf(chain), ap.id)]
<1>1. /\ UNCHANGED <<attestations, chain, writer, storeLock>>
      /\ ap.pc = "link" /\ s \in Stores
      /\ open' = [open EXCEPT ![s].links =
           Append(@, [id |-> ap.id, hash |-> Append(HeadOf(ChainIn(s)), ap.id)])]
      /\ appending' = [appending EXCEPT ![t].pc = "commit"]
  BY DEF AppendLink
<1>2. /\ InTransaction(t) /\ TxOk(t) /\ SqliteTypeOK
      /\ open[s].links = <<>> /\ open[s].rows = {<<ap.id, ap.att>>} /\ ap.id \in Ids
  BY <1>1 DEF InTransaction, SqliteInv, TxOk, Inserting
<1>3. ChainIn(s) = chain
  BY <1>2, ConcatEmptySeq DEF ChainIn, SqliteTypeOK
<1>4. DagInv' /\ ChainLinksCommitted' /\ Known' = Known
  BY <1>1, CommittedTablesKept DEF SqliteInv
<1>5. new \in Link
  BY <1>2, HeadType DEF Link
<1>6. open'[s].links = <<new>> /\ open'[s].rows = open[s].rows /\ open'[s] \in Transaction
  <2>1. open'[s] = [open[s] EXCEPT !.links = Append(@, new)] /\ open[s] \in Transaction
    BY <1>1, <1>2, <1>3 DEF SqliteTypeOK
  <2>2. Append(<<>>, new) = <<new>> /\ <<new>> \in Seq(Link)
    BY <1>5
  <2>3. open'[s] = [open[s] EXCEPT !.links = <<new>>]
    BY <1>2, <2>1, <2>2
  <2> QED  BY <2>1, <2>2, <2>3 DEF Transaction
<1>7. /\ appending'[t] = [ap EXCEPT !.pc = "commit"] /\ appending[t] \in AppendState
      /\ appending' = [appending EXCEPT ![t] = [ap EXCEPT !.pc = "commit"]]
  BY <1>1, <1>2 DEF SqliteTypeOK
<1>8. /\ appending'[t].pc = "commit" /\ appending'[t].id = ap.id /\ appending'[t].att = ap.att
      /\ appending'[t] \in AppendState
  BY <1>1, <1>7 DEF AppendState
<1>9. SqliteTypeOK'
  <2>1. open' \in [Stores -> Transaction]
    BY <1>1, <1>2, <1>6 DEF SqliteTypeOK
  <2> QED  BY <1>1, <1>2, <1>7, <1>8, <2>1 DEF SqliteTypeOK
<1>10. /\ \A u \in Threads : u # t => TxOk(u)'
       /\ \A x \in Stores : x # s => StoreOk(x)'
  <2>1. \A x \in Stores : x # s => open'[x] = open[x]
    BY <1>1, <1>2 DEF SqliteTypeOK
  <2> QED  BY <1>1, <1>2, <1>7, <2>1, OthersKept
<1>11. TxOk(t)'
  <2>1. /\ storeLock[s] = t /\ ap.att \in Attestation /\ ParentsOf(ap.att) \subseteq Known
        /\ writer = s /\ ap.id \notin Known
    BY <1>1, <1>2 DEF TxOk, Inserting
  <2>2. open'[s].links = <<[id |-> ap.id, hash |-> Append(HeadOf(chain'), ap.id)]>>
    BY <1>1, <1>6
  <2>3. open'[s].rows = {<<ap.id, ap.att>>}
    BY <1>2, <1>6
  <2>4. /\ storeLock'[s] = t /\ writer' = s
        /\ appending'[t].id \in Ids /\ appending'[t].att \in Attestation
        /\ ParentsOf(appending'[t].att) \subseteq Known' /\ appending'[t].id \notin Known'
        /\ open'[s].rows = {<<appending'[t].id, appending'[t].att>>}
        /\ open'[s].links = <<[id |-> appending'[t].id,
                               hash |-> Append(HeadOf(chain'), appending'[t].id)]>>
    BY <1>1, <1>2, <1>4, <1>8, <2>1, <2>2, <2>3
  <2>5. appending'[t].pc = "commit"
    BY <1>8
  <2> HIDE DEF ap, s, new
  <2> QED  BY <2>4, <2>5 DEF TxOk, s
<1>12. StoreOk(s)'
  BY <1>8 DEF StoreOk, Inserting
<1> QED  BY <1>4, <1>9, <1>10, <1>11, <1>12 DEF SqliteInv

\* A commit adds one accepted attestation and its link.
LEMMA CommitAdds ==
  ASSUME SqliteInv, NEW t \in Threads, AppendCommit(t)
  PROVE  LET ap == appending[t]
         IN /\ ap.id \in Ids /\ ap.att \in Attestation
            /\ Add(ap.id, ap.att)
            /\ chain' = chain \o <<[id |-> ap.id, hash |-> Append(HeadOf(chain), ap.id)]>>
<1> USE StoresAssumption
<1> DEFINE s == StoreOf[t]
           ap == appending[t]
<1>1. /\ ap.pc = "commit" /\ attestations' = Committed(s) /\ chain' = ChainIn(s)
  BY DEF AppendCommit
<1>2. /\ ap.id \in Ids /\ ap.att \in Attestation /\ ParentsOf(ap.att) \subseteq Known
      /\ ap.id \notin Known /\ open[s].rows = {<<ap.id, ap.att>>}
      /\ open[s].links = <<[id |-> ap.id, hash |-> Append(HeadOf(chain), ap.id)]>>
  BY <1>1 DEF SqliteInv, TxOk, InTransaction, Inserting
<1>3. attestations' = [attestations EXCEPT ![ap.id] = ap.att]
  <2> DEFINE mine(i) == {r[2] : r \in {x \in open[s].rows : x[1] = i}}
  <2>1. \A i \in Ids : i # ap.id => mine(i) = {}
    BY <1>2
  <2>2. mine(ap.id) = {ap.att}
    <3>1. {x \in open[s].rows : x[1] = ap.id} = open[s].rows
      BY <1>2
    <3>2. \A r \in open[s].rows : r[2] = ap.att
      BY <1>2
    <3>3. open[s].rows # {}
      BY <1>2
    <3> QED  BY <3>1, <3>2, <3>3
  <2>3. (CHOOSE a \in mine(ap.id) : TRUE) = ap.att
    BY <2>2
  <2>4. attestations' = [i \in Ids |-> IF mine(i) = {} THEN attestations[i]
                                       ELSE CHOOSE a \in mine(i) : TRUE]
    BY <1>1 DEF Committed
  <2> HIDE DEF mine
  <2>5. attestations'[ap.id] = ap.att
    BY <1>2, <2>2, <2>3, <2>4
  <2>6. ASSUME NEW i \in Ids, i # ap.id PROVE attestations'[i] = attestations[i]
    BY <2>1, <2>4, <2>6
  <2>7. attestations \in [Ids -> Attestation \cup {None}]
    BY DEF SqliteInv, DagInv, DagTypeOK
  <2>8. DOMAIN attestations' = Ids
    BY <2>4
  <2> QED  BY <1>2, <2>4, <2>5, <2>6, <2>7, <2>8
<1>4. Accepts(ap.id, ap.att)
  BY <1>2 DEF Accepts, ParentsOf, Attestation
<1> QED  BY <1>1, <1>2, <1>3, <1>4 DEF Add, ChainIn

\* So the committed chain links it, after all it refers to.
LEMMA CommitKeepsChain ==
  ASSUME SqliteInv, NEW t \in Threads, AppendCommit(t)
  PROVE  ChainLinksCommitted' /\ chain' \in Seq(Link)
<1> USE IdsAssumption
<1>1. PICK id \in Ids, a \in Attestation :
        Add(id, a) /\ chain' = chain \o <<[id |-> id, hash |-> Append(HeadOf(chain), id)]>>
  BY CommitAdds
<1> DEFINE L == Len(chain)
           new == [id |-> id, hash |-> Append(HeadOf(chain), id)]
<1>2. /\ Known' = Known \cup {id} /\ id \notin Known
      /\ \A i \in Known : attestations'[i] = attestations[i] /\ Upstream(i)' = Upstream(i)
      /\ Upstream(id)' \subseteq Known
  <2>1. DagTypeOK /\ id \notin Known
    BY <1>1 DEF SqliteInv, DagInv, Add, Accepts
  <2> QED  BY <1>1, <2>1, AddKeepsKnown
<1>3. new \in Link /\ chain \in Seq(Link)
  BY <1>1, HeadType DEF Link, SqliteInv, SqliteTypeOK
<1>4. /\ chain' \in Seq(Link)
      /\ L \in Nat /\ Len(chain') = L + 1
      /\ chain'[L + 1] = new
      /\ \A n \in 1..L : chain'[n] = chain[n]
  <2>1. /\ <<new>> \in Seq(Link) /\ Len(<<new>>) = 1 /\ <<new>>[1] = new
        /\ chain' = chain \o <<new>>
    BY <1>1, <1>3
  <2> HIDE DEF new
  <2>2. /\ chain' \in Seq(Link) /\ Len(chain') = L + 1 /\ L \in Nat
        /\ \A n \in 1..(L + 1) : chain'[n] = IF n <= L THEN chain[n] ELSE <<new>>[n - L]
    BY <1>3, <2>1, ConcatProperties
  <2>3. chain'[L + 1] = <<new>>[(L + 1) - L] /\ (L + 1) - L = 1
    BY <2>2
  <2> QED  BY <2>1, <2>2, <2>3
<1>5. ChainLinksCommitted
  BY DEF SqliteInv
<1>6. \A n \in 1..L : chain[n].id \in Known
  BY <1>5 DEF ChainLinksCommitted, ValidateChain
<1>7. ValidateChain'
  <2> SUFFICES ASSUME NEW n \in 1..(L + 1)
               PROVE  /\ chain'[n].id \in Known'
                      /\ chain'[n].hash =
                           Append(IF n = 1 THEN <<>> ELSE chain'[n - 1].hash, chain'[n].id)
    BY <1>4 DEF ValidateChain
  <2>1. CASE n \in 1..L
    <3>1. /\ chain[n].id \in Known
          /\ chain[n].hash = Append(IF n = 1 THEN <<>> ELSE chain[n - 1].hash, chain[n].id)
      BY <2>1, <1>5 DEF ChainLinksCommitted, ValidateChain
    <3>2. chain'[n] = chain[n] /\ (n # 1 => chain'[n - 1] = chain[n - 1])
      BY <2>1, <1>4
    <3> QED  BY <3>1, <3>2, <1>2
  <2>2. CASE n = L + 1
    <3>1. HeadOf(chain) = IF n = 1 THEN <<>> ELSE chain[n - 1].hash
      BY <2>2, <1>3, <1>4 DEF HeadOf
    <3>2. n # 1 => chain'[n - 1] = chain[n - 1]
      BY <2>2, <1>4
    <3> QED  BY <2>2, <3>1, <3>2, <1>2, <1>4
  <2> QED  BY <2>1, <2>2, <1>4
<1>8. ({chain[n].id : n \in 1..Len(chain)} = Known)'
  <2>1. {chain[n].id : n \in 1..L} = Known
    BY <1>5 DEF ChainLinksCommitted
  <2>2. {chain'[n].id : n \in 1..(L + 1)} = {chain[n].id : n \in 1..L} \cup {id}
    <3>1. \A n \in 1..(L + 1) : n \in 1..L \/ n = L + 1
      BY <1>4
    <3>2. L + 1 \in 1..(L + 1) /\ 1..L \subseteq 1..(L + 1)
      BY <1>4
    <3> QED  BY <1>4, <3>1, <3>2
  <2> QED  BY <1>2, <1>4, <2>1, <2>2
<1>9. (\A m, n \in 1..Len(chain) : chain[m].id = chain[n].id => m = n)'
  <2>1. \A n \in 1..L : chain[n].id # id
    BY <1>2, <1>6
  <2>2. \A m, n \in 1..L : chain[m].id = chain[n].id => m = n
    BY <1>5 DEF ChainLinksCommitted
  <2> QED  BY <1>4, <2>1, <2>2
<1>10. (\A n \in 1..Len(chain) : \A p \in Upstream(chain[n].id) :
          \E m \in 1..(n - 1) : chain[m].id = p)'
  <2> SUFFICES ASSUME NEW n \in 1..(L + 1), NEW p \in Upstream(chain[n].id)'
               PROVE  \E m \in 1..(n - 1) : chain'[m].id = p
    BY <1>4
  <2>1. CASE n \in 1..L
    <3>1. chain'[n].id = chain[n].id /\ chain[n].id \in Known
      BY <2>1, <1>4, <1>6
    <3>2. p \in Upstream(chain[n].id)
      <4>1. PICK x : x = chain[n].id
        OBVIOUS
      <4>2. p \in Upstream(x)' /\ x \in Known
        BY <3>1, <4>1 DEF Upstream
      <4> QED  BY <4>1, <4>2, <1>2
    <3>3. PICK m \in 1..(n - 1) : chain[m].id = p
      BY <2>1, <3>2, <1>5 DEF ChainLinksCommitted
    <3>4. m \in 1..L /\ chain'[m] = chain[m]
      BY <2>1, <1>4
    <3> QED  BY <3>3, <3>4
  <2>2. CASE n = L + 1
    <3>1. p \in Known
      <4>1. chain'[n].id = id
        BY <2>2, <1>4
      <4>2. p \in Upstream(id)'
        BY <4>1 DEF Upstream
      <4> QED  BY <4>2, <1>2
    <3>2. PICK m \in 1..L : chain[m].id = p
      BY <3>1, <1>5 DEF ChainLinksCommitted
    <3> QED  BY <2>2, <3>2, <1>4
  <2> QED  BY <2>1, <2>2, <1>4
<1> QED  BY <1>4, <1>7, <1>8, <1>9, <1>10 DEF ChainLinksCommitted

LEMMA CommitKeepsSqliteInv ==
  ASSUME SqliteInv, NEW t \in Threads, AppendCommit(t)
  PROVE  SqliteInv'
<1> USE StoresAssumption
<1> DEFINE s == StoreOf[t]
<1>1. /\ appending[t].pc = "commit" /\ s \in Stores
      /\ open' = [open EXCEPT ![s] = NoTransaction] /\ writer' = None
      /\ storeLock' = [storeLock EXCEPT ![s] = None]
      /\ appending' = [appending EXCEPT ![t] = [pc |-> "returned"]]
  BY DEF AppendCommit, Leave
<1>2. InTransaction(t) /\ appending[t].pc \in Inserting
  BY <1>1 DEF InTransaction, Inserting
<1>3. DagInv' /\ Known \subseteq Known'
  <2>1. PICK id \in Ids, a \in Attestation : Add(id, a)
    BY CommitAdds
  <2>2. DagInv /\ DagTypeOK
    BY DEF SqliteInv, DagInv
  <2>3. DagInv'
    BY <2>1, <2>2, DagInvStep DEF DagNext
  <2>4. Known' = Known \cup {id}
    BY <2>1, <2>2, AddKeepsKnown
  <2> QED  BY <2>3, <2>4
<1>4. SqliteTypeOK'
  <2>1. NoTransaction \in Transaction /\ [pc |-> "returned"] \in AppendState
    BY DEF NoTransaction, Transaction, AppendState
  <2> QED  BY <1>1, <2>1, CommitKeepsChain DEF SqliteInv, SqliteTypeOK
<1>5. ASSUME NEW u \in Threads PROVE TxOk(u)'
  <2>1. CASE u = t
    <3>1. appending'[u] = [pc |-> "returned"]
      BY <1>1, <2>1 DEF SqliteInv, SqliteTypeOK
    <3> QED  BY <3>1 DEF TxOk, InTransaction, Inserting
  <2>2. CASE u # t
    <3>1. appending'[u] = appending[u]
      BY <1>1, <2>2 DEF SqliteInv, SqliteTypeOK
    <3>2. appending[u].pc \notin Inserting
      BY <1>2, <2>2, OneWriter
    <3>3. CASE InTransaction(u)
      <4>1. StoreOf[u] # s /\ StoreOf[u] \in Stores
        BY <1>2, <2>2, <3>3, OneTransaction
      <4>2. storeLock'[StoreOf[u]] = storeLock[StoreOf[u]]
        BY <1>1, <4>1 DEF SqliteInv, SqliteTypeOK
      <4>3. TxOk(u)
        BY DEF SqliteInv
      <4> QED  BY <1>3, <3>1, <3>2, <3>3, <4>2, <4>3 DEF TxOk, InTransaction, Inserting
    <3>4. CASE ~InTransaction(u)
      BY <3>1, <3>4 DEF TxOk, InTransaction, Inserting
    <3> QED  BY <3>3, <3>4
  <2> QED  BY <2>1, <2>2
<1>6. ASSUME NEW x \in Stores PROVE StoreOk(x)'
  <2>1. CASE x = s
    BY <1>1, <2>1 DEF StoreOk, SqliteInv, SqliteTypeOK
  <2>2. CASE x # s
    <3>1. \A u \in Threads : StoreOf[u] = x => appending'[u] = appending[u]
      BY <1>1, <2>2 DEF SqliteInv, SqliteTypeOK
    <3>2. open'[x] = open[x] /\ writer' # x
      BY <1>1, <2>2 DEF SqliteInv, SqliteTypeOK
    <3> QED  BY <3>1, <3>2 DEF SqliteInv, StoreOk
  <2> QED  BY <2>1, <2>2
<1> QED  BY <1>3, <1>4, <1>5, <1>6, CommitKeepsChain DEF SqliteInv

\* A rollback leaves the committed tables as they are, and nothing open.
LEMMA RaiseKeepsSqliteInv ==
  ASSUME SqliteInv, NEW t \in Threads, AppendRaise(t)
  PROVE  SqliteInv'
<1> USE StoresAssumption
<1> DEFINE s == StoreOf[t]
<1>1. /\ InTransaction(t) /\ s \in Stores
      /\ open' = [open EXCEPT ![s] = NoTransaction]
      /\ writer' = IF writer = s THEN None ELSE writer
      /\ storeLock' = [storeLock EXCEPT ![s] = None]
      /\ appending' = [appending EXCEPT ![t] = [pc |-> "raised"]]
      /\ UNCHANGED <<attestations, chain>>
  BY DEF AppendRaise, Leave
<1>2. DagInv' /\ ChainLinksCommitted'
  BY <1>1, CommittedTablesKept DEF SqliteInv
<1>3. SqliteTypeOK'
  <2>1. NoTransaction \in Transaction /\ [pc |-> "raised"] \in AppendState
    BY DEF NoTransaction, Transaction, AppendState
  <2> QED  BY <1>1, <2>1 DEF SqliteInv, SqliteTypeOK
<1>4. /\ \A u \in Threads : u # t => TxOk(u)'
      /\ \A x \in Stores : x # s => StoreOk(x)'
  <2>1. \A x \in Stores : x # s => open'[x] = open[x] /\ storeLock'[x] = storeLock[x]
    BY <1>1 DEF SqliteInv, SqliteTypeOK
  <2>2. writer' = writer \/ (writer \in {None, s} /\ writer' \in {None, s})
    BY <1>1
  <2> QED  BY <1>1, <2>1, <2>2, OthersKept
<1>5. TxOk(t)'
  <2>1. appending'[t] = [pc |-> "raised"]
    BY <1>1 DEF SqliteInv, SqliteTypeOK
  <2> QED  BY <2>1 DEF TxOk, InTransaction, Inserting
<1>6. StoreOk(s)'
  BY <1>1 DEF StoreOk, SqliteInv, SqliteTypeOK
<1> QED  BY <1>2, <1>3, <1>4, <1>5, <1>6 DEF SqliteInv

LEMMA OverKeepsSqliteInv ==
  ASSUME SqliteInv, NEW t \in Threads, AppendOver(t)
  PROVE  SqliteInv'
<1> USE StoresAssumption
<1>1. /\ appending[t].pc \in {"returned", "raised"}
      /\ appending' = [appending EXCEPT ![t] = NoAppend]
      /\ UNCHANGED <<attestations, chain, open, writer, storeLock>>
  BY DEF AppendOver
<1>2. DagInv' /\ ChainLinksCommitted' /\ Known' = Known
  BY <1>1, CommittedTablesKept DEF SqliteInv
<1>3. SqliteTypeOK'
  BY <1>1 DEF SqliteInv, SqliteTypeOK, NoAppend, AppendState
<1>4. appending'[t] = NoAppend /\ \A u \in Threads : u # t => appending'[u] = appending[u]
  BY <1>1 DEF SqliteInv, SqliteTypeOK
<1>5. ASSUME NEW u \in Threads PROVE TxOk(u)'
  <2>1. CASE u = t
    BY <1>4, <2>1 DEF TxOk, InTransaction, Inserting, NoAppend
  <2>2. CASE u # t
    BY <1>1, <1>2, <1>4, <2>2 DEF SqliteInv, TxOk, InTransaction, Inserting, HeadOf
  <2> QED  BY <2>1, <2>2
<1>6. ASSUME NEW x \in Stores PROVE StoreOk(x)'
  <2>1. \A u \in Threads : appending'[u].pc \notin Inserting => appending[u].pc \notin Inserting
    BY <1>1, <1>4 DEF Inserting
  <2> QED  BY <1>1, <2>1 DEF SqliteInv, StoreOk
<1> QED  BY <1>2, <1>3, <1>5, <1>6 DEF SqliteInv

\* A killed process takes its transaction along, and nobody else's.
LEMMA CrashKeepsSqliteInv ==
  ASSUME SqliteInv, NEW s \in Stores, StoreCrash(s)
  PROVE  SqliteInv'
<1> USE StoresAssumption
<1>1. /\ open' = [open EXCEPT ![s] = NoTransaction]
      /\ writer' = IF writer = s THEN None ELSE writer
      /\ storeLock' = [storeLock EXCEPT ![s] = None]
      /\ appending' = [t \in Threads |-> IF StoreOf[t] = s THEN NoAppend ELSE appending[t]]
      /\ UNCHANGED <<attestations, chain>>
  BY DEF StoreCrash
<1>2. DagInv' /\ ChainLinksCommitted' /\ Known' = Known
  BY <1>1, CommittedTablesKept DEF SqliteInv
<1>3. SqliteTypeOK'
  <2>1. NoTransaction \in Transaction /\ NoAppend \in AppendState
    BY DEF NoTransaction, Transaction, NoAppend, AppendState
  <2> QED  BY <1>1, <2>1 DEF SqliteInv, SqliteTypeOK
<1>4. ASSUME NEW u \in Threads PROVE TxOk(u)'
  <2>1. CASE StoreOf[u] = s
    BY <1>1, <2>1 DEF TxOk, InTransaction, Inserting, NoAppend
  <2>2. CASE StoreOf[u] # s
    <3>1. /\ appending'[u] = appending[u] /\ StoreOf[u] \in Stores
          /\ open'[StoreOf[u]] = open[StoreOf[u]]
          /\ storeLock'[StoreOf[u]] = storeLock[StoreOf[u]]
          /\ writer = StoreOf[u] => writer' = StoreOf[u]
      BY <1>1, <2>2 DEF SqliteInv, SqliteTypeOK
    <3>2. TxOk(u)
      BY DEF SqliteInv
    <3> QED  BY <1>1, <1>2, <3>1, <3>2 DEF TxOk, InTransaction, Inserting, HeadOf
  <2> QED  BY <2>1, <2>2
<1>5. ASSUME NEW x \in Stores PROVE StoreOk(x)'
  <2>1. CASE x = s
    BY <1>1, <2>1 DEF StoreOk, SqliteInv, SqliteTypeOK
  <2>2. CASE x # s
    <3>1. \A u \in Threads : StoreOf[u] = x => appending'[u] = appending[u]
      BY <1>1, <2>2
    <3>2. open'[x] = open[x] /\ (writer # x => writer' # x)
      BY <1>1, <2>2 DEF SqliteInv, SqliteTypeOK
    <3> QED  BY <3>1, <3>2 DEF SqliteInv, StoreOk
  <2> QED  BY <2>1, <2>2
<1> QED  BY <1>2, <1>3, <1>4, <1>5 DEF SqliteInv

LEMMA SqliteInvStep == SqliteInv /\ [SqliteStep]_sqliteVars => SqliteInv'
<1> SUFFICES ASSUME SqliteInv, [SqliteStep]_sqliteVars PROVE SqliteInv'
  OBVIOUS
<1>1. ASSUME NEW t \in Threads, AppendStep(t) PROVE SqliteInv'
  BY <1>1, InsertKeepsSqliteInv, EdgesKeepSqliteInv, LinkKeepsSqliteInv, CommitKeepsSqliteInv,
     RaiseKeepsSqliteInv DEF AppendStep
<1>2. CASE UNCHANGED sqliteVars
  BY <1>2 DEF sqliteVars, SqliteInv, DagInv, DagTypeOK, NoDanglingReference, SqliteTypeOK,
              ChainLinksCommitted, ValidateChain, Known, Upstream, TxOk, InTransaction, HeadOf,
              StoreOk
<1> QED
  BY <1>1, <1>2, CheckKeepsSqliteInv, OverKeepsSqliteInv, CrashKeepsSqliteInv DEF SqliteStep

-----------------------------------------------------------------------------
\* What the desk hands to the lineage is an attestation.
DeskInv ==
  /\ SqliteInv
  /\ drawn \subseteq Ids
  /\ work \in [Threads -> Work]

LEMMA DeskInvInit == DeskInit => DeskInv
BY SqliteInvInit DEF DeskInit, DeskInv, Work, Idle

\* What a thread reads is an attestation, committed or not.
LEMMA ReadType ==
  ASSUME SqliteInv, NEW t \in Threads, NEW i \in Seen(t)
  PROVE  i \in Ids /\ Read(t, i) \in Attestation
<1>1. CASE i \in Known
  BY <1>1 DEF SqliteInv, DagInv, DagTypeOK, Known, Read
<1>2. CASE i \notin Known
  <2> DEFINE mine == {r[2] : r \in {x \in open[StoreOf[t]].rows : x[1] = i}}
  <2>1. open[StoreOf[t]] \in Transaction
    BY StoresAssumption DEF SqliteInv, SqliteTypeOK
  <2>2. open[StoreOf[t]].rows \subseteq Ids \X Attestation
    BY <2>1 DEF Transaction
  <2>3. i \in Ids /\ mine # {} /\ mine \subseteq Attestation
    BY <1>2, <2>2 DEF Seen
  <2>4. Read(t, i) = CHOOSE a \in mine : TRUE
    BY <1>2 DEF Read
  <2> HIDE DEF mine
  <2> QED  BY <2>3, <2>4
<1> QED  BY <1>1, <1>2

\* Every step of the desk is one of the lineage's, or leaves its tables alone.
LEMMA DeskStepIsSqliteStep ==
  DeskInv /\ [DeskNext]_deskVars => [SqliteStep]_sqliteVars
<1> SUFFICES ASSUME DeskInv, DeskNext PROVE [SqliteStep]_sqliteVars
  BY DEF deskVars
<1>1. ASSUME NEW t \in Threads, DeskStep(t) PROVE [SqliteStep]_sqliteVars
  <2>1. ASSUME IssueAppend(t) PROVE SqliteStep
    <3>1. work[t] \in Work /\ work[t].pc = "append"
      BY <2>1 DEF DeskInv, IssueAppend
    <3>2. work[t].id \in Ids /\ work[t].att \in Attestation /\ work[t].twice \in BOOLEAN
      BY <3>1 DEF Work, Idle
    <3> QED  BY <2>1, <3>2 DEF IssueAppend, SqliteStep
  <2>2. CASE IssueAppendStep(t)
    BY <2>2 DEF IssueAppendStep, SqliteStep
  <2>3. CASE Conclude(t)
    BY <2>3 DEF Conclude, SqliteStep
  <2>4. CASE \/ \E s \in Sessions, target \in drawn : Submit(t, s, target)
             \/ \E a \in Requests, twice \in BOOLEAN : Issue(t, a, twice)
             \/ \E id \in Ids : IssueCheck(t, id)
             \/ SubmitTarget(t) \/ IssueSign(t)
    BY <2>4 DEF Submit, Issue, IssueCheck, SubmitTarget, IssueSign
  <2> QED  BY <1>1, <2>1, <2>2, <2>3, <2>4 DEF DeskStep
<1>2. ASSUME NEW s \in Sessions, RevokeSession(s) \/ Reauthenticate(s) \/ Age(s)
      PROVE  UNCHANGED sqliteVars
  BY <1>2 DEF RevokeSession, Reauthenticate, Age
<1>3. ASSUME NEW s \in Stores, Crash(s) PROVE SqliteStep
  BY <1>3 DEF Crash, SqliteStep
<1> QED  BY <1>1, <1>2, <1>3 DEF DeskNext

\* Every thread goes on with an attestation.
LEMMA WorkKept ==
  ASSUME DeskInv, [DeskNext]_deskVars
  PROVE  drawn' \subseteq Ids /\ work' \in [Threads -> Work]
<1> USE DEF DeskInv
<1>1. ASSUME NEW t \in Threads, DeskStep(t) PROVE drawn' \subseteq Ids /\ work' \in [Threads -> Work]
  <2>1. Idle \in Work /\ work[t] \in Work
    BY DEF Work
  <2>2. ASSUME NEW s \in Sessions, NEW target \in drawn, Submit(t, s, target)
        PROVE  drawn' \subseteq Ids /\ work' \in [Threads -> Work]
    <3>1. [pc |-> "target", session |-> s, target |-> target, tired |-> Tired(s)] \in Work
      BY DEF Work, Tired
    <3> QED  BY <2>2, <3>1 DEF Submit, Turn
  <2>3. ASSUME SubmitTarget(t) PROVE drawn' \subseteq Ids /\ work' \in [Threads -> Work]
    <3> DEFINE w == work[t]
               target == Read(t, w.target)
               review == [pc |-> "issue", session |-> w.session, twice |-> FALSE,
                          att |-> [intent |-> target.intent, preds |-> {w.target},
                                   payload |-> [type |-> "review", tier |-> target.payload.tier]]]
    <3>1. w.session \in Sessions /\ w.target \in Ids
      BY <2>1, <2>3 DEF SubmitTarget, Work, Idle
    <3>2. ASSUME w.target \in Seen(t) PROVE review \in Work
      <4>1. target \in Attestation
        BY <3>2, ReadType
      <4>2. [type |-> "review", tier |-> target.payload.tier] \in Payload /\ target.intent \in Ids \cup {None}
        BY <4>1, DeskAssumption DEF Attestation, ReviewedTypes
      <4>3. review.att \in Attestation
        BY <3>1, <4>2 DEF Attestation
      <4> QED  BY <3>1, <4>3 DEF Work
    <3>3. \/ work' = [work EXCEPT ![t] = Idle]
          \/ w.target \in Seen(t) /\ work' = [work EXCEPT ![t] = review]
      BY <2>3 DEF SubmitTarget, Turn
    <3> QED  BY <2>1, <2>3, <3>2, <3>3 DEF SubmitTarget
  <2>4. ASSUME NEW a \in Requests, NEW twice \in BOOLEAN, Issue(t, a, twice)
        PROVE  drawn' \subseteq Ids /\ work' \in [Threads -> Work]
    <3>1. [pc |-> "issue", session |-> None, att |-> a, twice |-> twice] \in Work
      BY DeskAssumption DEF Work
    <3> QED  BY <2>4, <3>1 DEF Issue, Turn
  <2>5. ASSUME NEW id \in Ids, IssueCheck(t, id)
        PROVE  drawn' \subseteq Ids /\ work' \in [Threads -> Work]
    <3> DEFINE w == work[t]
               next == [pc |-> "sign", session |-> w.session, att |-> w.att, twice |-> w.twice,
                        id |-> id]
    <3>1. w.session \in Sessions \cup {None} /\ w.att \in Attestation /\ w.twice \in BOOLEAN
      BY <2>1, <2>5 DEF IssueCheck, Work, Idle
    <3>2. next \in Work
      BY <3>1 DEF Work
    <3>3. /\ work' = [work EXCEPT ![t] = Idle] \/ work' = [work EXCEPT ![t] = next]
          /\ drawn' = drawn \/ drawn' = drawn \cup {id}
      BY <2>5 DEF IssueCheck, Turn
    <3> QED  BY <2>1, <3>2, <3>3
  <2>6. ASSUME IssueSign(t) PROVE drawn' \subseteq Ids /\ work' \in [Threads -> Work]
    <3>1. [work[t] EXCEPT !.pc = "append"] \in Work
      BY <2>1, <2>6 DEF IssueSign, Work, Idle
    <3> QED  BY <2>1, <2>6, <3>1 DEF IssueSign, Turn
  <2>7. ASSUME IssueAppend(t) PROVE drawn' \subseteq Ids /\ work' \in [Threads -> Work]
    <3>1. [work[t] EXCEPT !.pc = "store"] \in Work
      BY <2>1, <2>7 DEF IssueAppend, Work, Idle
    <3> QED  BY <2>7, <3>1 DEF IssueAppend, Turn
  <2>8. CASE IssueAppendStep(t)
    BY <2>8 DEF IssueAppendStep
  <2>9. CASE Conclude(t)
    BY <2>1, <2>9 DEF Conclude, Turn
  <2> QED  BY <1>1, <2>2, <2>3, <2>4, <2>5, <2>6, <2>7, <2>8, <2>9 DEF DeskStep
<1>2. ASSUME NEW s \in Sessions, RevokeSession(s) \/ Reauthenticate(s) \/ Age(s)
      PROVE  UNCHANGED <<drawn, work>>
  BY <1>2 DEF RevokeSession, Reauthenticate, Age
<1>3. ASSUME NEW s \in Stores, Crash(s) PROVE drawn' \subseteq Ids /\ work' \in [Threads -> Work]
  BY <1>3 DEF Crash, Work
<1>4. CASE UNCHANGED deskVars
  BY <1>4 DEF deskVars
<1> QED  BY <1>1, <1>2, <1>3, <1>4 DEF DeskNext

LEMMA DeskInvStep == DeskInv /\ [DeskNext]_deskVars => DeskInv'
BY DeskStepIsSqliteStep, SqliteInvStep, WorkKept DEF DeskInv

LEMMA DeskInvariant == DeskSpec => []DeskInv
BY DeskInvInit, DeskInvStep, PTL DEF DeskSpec

\* CT-I9, CT-I11: for any number of processes, threads and sessions, the committed hash
\* chain links every committed attestation once and after what it refers to, and
\* validate_chain accepts it.
THEOREM DeskChain == DeskSpec => []ChainLinksCommitted
<1>1. DeskInv => ChainLinksCommitted
  BY DEF DeskInv, SqliteInv
<1> QED  BY <1>1, DeskInvariant, PTL

-----------------------------------------------------------------------------
\* Only a commit changes the committed attestations, and it adds one that is accepted.
LEMMA SqliteStepAddsOne ==
  ASSUME SqliteInv, [SqliteStep]_sqliteVars
  PROVE  [\E id \in Ids \ Known : attestations'[id] # None /\ Add(id, attestations'[id])]_attestations
<1>1. ASSUME NEW t \in Threads, AppendCommit(t)
      PROVE  \E id \in Ids \ Known : attestations'[id] # None /\ Add(id, attestations'[id])
  <2>1. PICK id \in Ids, a \in Attestation : Add(id, a)
    BY <1>1, CommitAdds
  <2>2. attestations'[id] = a /\ id \notin Known
    BY <2>1 DEF Add, Accepts, SqliteInv, DagInv, DagTypeOK
  <2> QED  BY <2>1, <2>2, IdsAssumption
<1>2. ASSUME NEW t \in Threads, AppendStep(t), ~AppendCommit(t) PROVE UNCHANGED attestations
  BY <1>2 DEF AppendStep, AppendInsert, AppendEdges, AppendLink, AppendRaise
<1> QED
  BY <1>1, <1>2 DEF SqliteStep, sqliteVars, AppendCheck, AppendOver, StoreCrash

\* The committed attestations change by one accepted attestation at a time, though what
\* services check and sign may be rolled back.
THEOREM DeskCommitsOneAccepted == DeskSpec => CommitsOneAccepted
<1>1. DeskInit => DagInit
  BY DEF DeskInit, SqliteInit
<1>2. DeskInv /\ [DeskNext]_deskVars
        => [\E id \in Ids \ Known : attestations'[id] # None /\ Add(id, attestations'[id])]_attestations
  BY DeskStepIsSqliteStep, SqliteStepAddsOne DEF DeskInv
<1> QED  BY <1>1, <1>2, DeskInvariant, PTL DEF DeskSpec, CommitsOneAccepted

\* So the SQLite store is the lineage its readers were promised,
THEOREM DeskImplementsDag == DeskSpec => DagSpec
<1>1. DeskInit => DagInit
  BY DEF DeskInit, SqliteInit
<1>2. DeskInv /\ [DeskNext]_deskVars => [DagNext]_attestations
  <2> SUFFICES ASSUME SqliteInv, [SqliteStep]_sqliteVars PROVE [DagNext]_attestations
    BY DeskStepIsSqliteStep DEF DeskInv
  <2>1. ASSUME NEW t \in Threads, AppendCommit(t) PROVE DagNext
    BY <2>1, CommitAdds DEF DagNext
  <2>2. ASSUME NEW t \in Threads, AppendStep(t), ~AppendCommit(t) PROVE UNCHANGED attestations
    BY <2>2 DEF AppendStep, AppendInsert, AppendEdges, AppendLink, AppendRaise
  <2> QED  BY <2>1, <2>2 DEF SqliteStep, sqliteVars, AppendCheck, AppendOver, StoreCrash
<1> QED  BY <1>1, <1>2, DeskInvariant, PTL DEF DeskSpec, DagSpec

\* and provenance in it is settled for ever (CT-I9).
THEOREM DeskProvenance == DeskSpec => ProvenanceForever
BY DeskImplementsDag, ProvenanceIsForever

-----------------------------------------------------------------------------
\* Fatigue.  The threads of a session's process; those of them that are past the check of
\* its fatigue, and those that are about to count a review; the reviews it has stored.
Mine(s) == {t \in Threads : StoreOf[t] = SessionAt[s]}
Pending(s) ==
  {t \in Threads : /\ work[t].pc # "idle" /\ work[t].session = s
                   /\ work[t].pc = "target" => ~work[t].tired}
Due(s) ==
  {t \in Mine(s) : work[t].pc = "store" /\ work[t].session = s /\ appending[t].pc = "returned"}
Stored(s) == reviewsOf[s] \cap Known

\* What a thread has drawn and hands to the lineage is its own.
SigningOk(t) ==
  LET w == work[t]
  IN /\ w.pc # "idle" /\ w.session \in Sessions => SessionAt[w.session] = StoreOf[t]
     /\ w.pc # "store" => appending[t].pc = "idle"
     /\ InTransaction(t) => appending[t].id = w.id
     /\ w.pc \in {"sign", "append", "store"} =>
          w.id \in drawn /\ \A s \in Sessions : w.session = s <=> w.id \in reviewsOf[s]

\* A session's count is that of its stored reviews but those due; and no more submissions
\* are past the check than there are other threads.
CountOk(s) ==
  /\ reviewsOf[s] \subseteq drawn
  /\ Cardinality(Stored(s)) = sessions[s].count + Cardinality(Due(s))
  /\ sessions[s].count + Cardinality(Pending(s)) <= ReviewLimit - 1 + Cardinality(Mine(s))

FatigueInv ==
  /\ DeskInv
  /\ sessions \in [Sessions -> Session]
  /\ reviewsOf \in [Sessions -> SUBSET Ids]
  /\ Known \subseteq drawn
  /\ \A t \in Threads : SigningOk(t)
  /\ \A s \in Sessions : CountOk(s)

\* All these sets are finite.
LEMMA FiniteParts ==
  ASSUME FatigueInv, NEW s \in Sessions
  PROVE  /\ IsFiniteSet(Mine(s)) /\ IsFiniteSet(Pending(s)) /\ IsFiniteSet(Due(s))
         /\ IsFiniteSet(Stored(s))
         /\ Cardinality(Mine(s)) \in Nat /\ Cardinality(Pending(s)) \in Nat
         /\ Cardinality(Due(s)) \in Nat /\ Cardinality(Stored(s)) \in Nat
         /\ sessions[s].count \in Nat /\ ReviewLimit \in Nat \ {0}
<1>1. IsFiniteSet(Threads) /\ IsFiniteSet(Ids) /\ ReviewLimit \in Nat \ {0}
  BY DeskAssumption, IdsAssumption
<1>2. /\ Mine(s) \subseteq Threads /\ Pending(s) \subseteq Threads /\ Due(s) \subseteq Threads
      /\ Stored(s) \subseteq Ids
  BY DEF Mine, Pending, Due, Stored, Known
<1>3. IsFiniteSet(Mine(s)) /\ IsFiniteSet(Pending(s)) /\ IsFiniteSet(Due(s)) /\ IsFiniteSet(Stored(s))
  BY <1>1, <1>2, FS_Subset
<1>4. sessions[s].count \in Nat
  BY DEF FatigueInv, Session
<1> QED  BY <1>1, <1>3, <1>4, FS_CardinalityType

LEMMA FatigueInvInit == DeskInit => FatigueInv
<1> SUFFICES ASSUME DeskInit PROVE FatigueInv
  OBVIOUS
<1> USE DEF DeskInit, SqliteInit, DagInit
<1>1. DeskInv
  BY DeskInvInit
<1>2. Known = {}
  BY DEF Known
<1>3. sessions \in [Sessions -> Session] /\ \A s \in Sessions : sessions[s].count = 0
  BY DEF Session, NewSession
<1>4. \A t \in Threads : SigningOk(t)
  BY DEF SigningOk, Idle, NoAppend, InTransaction
<1>5. ASSUME NEW s \in Sessions PROVE CountOk(s)
  <2>1. Stored(s) = {} /\ Due(s) = {} /\ Pending(s) = {}
    BY <1>2 DEF Stored, Due, Mine, Pending, Idle
  <2>2. IsFiniteSet(Mine(s)) /\ ReviewLimit \in Nat \ {0}
    BY DeskAssumption, FS_Subset DEF Mine
  <2>3. Cardinality(Mine(s)) \in Nat /\ Cardinality({}) = 0
    BY <2>2, FS_CardinalityType, FS_EmptySet
  <2> QED  BY <1>3, <2>1, <2>2, <2>3 DEF CountOk
<1> QED  BY <1>1, <1>2, <1>3, <1>4, <1>5 DEF FatigueInv

\* Nothing is counted, stored or due: at most a submission was given up.
LEMMA CountKept ==
  ASSUME FatigueInv, NEW s \in Sessions,
         reviewsOf'[s] \subseteq drawn', Stored(s)' = Stored(s), Due(s)' = Due(s),
         sessions'[s].count = sessions[s].count, Pending(s)' \subseteq Pending(s)
  PROVE  CountOk(s)'
<1>1. CountOk(s) /\ Mine(s)' = Mine(s)
  BY DEF FatigueInv, Mine
<1>2. IsFiniteSet(Pending(s)')
  BY FiniteParts, FS_Subset
<1>3. Cardinality(Pending(s)') <= Cardinality(Pending(s)) /\ Cardinality(Pending(s)') \in Nat
  BY <1>2, FiniteParts, FS_Subset, FS_CardinalityType
<1>4. sessions[s].count + Cardinality(Pending(s)') <= ReviewLimit - 1 + Cardinality(Mine(s))
  BY <1>1, <1>3, FiniteParts DEF CountOk
<1> QED  BY <1>1, <1>4 DEF CountOk

\* A thread that takes no part keeps what it signs.
LEMMA SigningKept ==
  ASSUME FatigueInv, NEW u \in Threads, SigningOk(u), work'[u] = work[u],
         appending'[u] = appending[u], drawn \subseteq drawn',
         \A s \in Sessions : \A i \in drawn : i \in reviewsOf'[s] <=> i \in reviewsOf[s]
  PROVE  SigningOk(u)'
BY DEF SigningOk, InTransaction

\* A thread goes on and neither stores nor counts a review; if it comes to be past the
\* check of a session, the session was not tired.
LEMMA TurnKeepsCount ==
  ASSUME FatigueInv, NEW t \in Threads, \A u \in Threads : SigningOk(u)',
         \A u \in Threads : u # t => work'[u] = work[u] /\ appending'[u] = appending[u],
         UNCHANGED sessions,
         \A s \in Sessions : reviewsOf'[s] \subseteq drawn' /\ Stored(s)' = Stored(s),
         ~(work[t].pc = "store" /\ appending[t].pc = "returned"),
         ~(work'[t].pc = "store" /\ appending'[t].pc = "returned"),
         \A s \in Sessions :
           t \in Pending(s)' => t \in Pending(s) \/ sessions[s].count < ReviewLimit
  PROVE  \A s \in Sessions : CountOk(s)'
<1> SUFFICES ASSUME NEW s \in Sessions PROVE CountOk(s)'
  OBVIOUS
<1>1. Due(s)' = Due(s) /\ Mine(s)' = Mine(s)
  BY DEF Due, Mine
<1>2. \A u \in Threads : u # t => (u \in Pending(s)' <=> u \in Pending(s))
  BY DEF Pending
<1>3. Pending(s) \subseteq Threads /\ Pending(s)' \subseteq Threads
  BY DEF Pending
<1>4. CASE Pending(s)' \subseteq Pending(s)
  BY <1>1, <1>4, CountKept
<1>5. CASE ~(Pending(s)' \subseteq Pending(s))
  <2>1. sessions[s].count < ReviewLimit
    BY <1>2, <1>3, <1>5
  <2>2. Pending(s)' \subseteq Mine(s)
    BY DEF Pending, Mine, SigningOk
  <2>3. Cardinality(Pending(s)') <= Cardinality(Mine(s)) /\ Cardinality(Pending(s)') \in Nat
    BY <2>2, FiniteParts, FS_Subset, FS_CardinalityType
  <2>4. sessions[s].count + Cardinality(Pending(s)') <= ReviewLimit - 1 + Cardinality(Mine(s))
    BY <2>1, <2>3, FiniteParts
  <2> QED  BY <1>1, <2>4 DEF FatigueInv, CountOk
<1> QED  BY <1>4, <1>5

\* submit() up to the append of the review, and issue() for anything else.
LEMMA CallKeepsFatigueInv ==
  ASSUME FatigueInv, DeskInv', NEW t \in Threads,
         \/ \E s \in Sessions, target \in drawn : Submit(t, s, target)
         \/ \E a \in Requests, twice \in BOOLEAN : Issue(t, a, twice)
         \/ SubmitTarget(t) \/ IssueSign(t)
  PROVE  FatigueInv'
<1>1. /\ UNCHANGED <<sqliteVars, sessions, drawn, reviewsOf>>
      /\ work[t].pc \in {"idle", "target", "sign"}
      /\ work \in [Threads -> Work]
  <2>1. work \in [Threads -> Work] /\ Idle.pc = "idle"
    BY DEF FatigueInv, DeskInv, Idle
  <2>2. CASE \E s \in Sessions, target \in drawn : Submit(t, s, target)
    BY <2>1, <2>2 DEF Submit
  <2>3. CASE \E a \in Requests, twice \in BOOLEAN : Issue(t, a, twice)
    BY <2>1, <2>3 DEF Issue
  <2>4. CASE SubmitTarget(t) \/ IssueSign(t)
    BY <2>1, <2>4 DEF SubmitTarget, IssueSign
  <2> QED  BY <2>2, <2>3, <2>4
<1>2. /\ UNCHANGED <<attestations, appending>> /\ Known' = Known
      /\ \A s \in Sessions : Stored(s)' = Stored(s)
  BY <1>1 DEF sqliteVars, Known, Stored
<1>3. /\ \A u \in Threads : u # t => work'[u] = work[u]
      /\ work'[t].pc \in {"idle", "target", "issue", "append"}
      /\ work'[t].pc = "append" => work[t].pc = "sign" /\ work'[t] = [work[t] EXCEPT !.pc = "append"]
      /\ work'[t].pc = "issue" /\ work'[t].session \in Sessions =>
           work[t].pc = "target" /\ work'[t].session = work[t].session /\ ~work[t].tired
      /\ work'[t].pc = "target" => \E s \in Sessions :
           SessionAt[s] = StoreOf[t] /\ work'[t].session = s /\ work'[t].tired = Tired(s)
  BY <1>1, DeskAssumption DEF Submit, Issue, SubmitTarget, IssueSign, Turn, Idle, Work
<1>4. appending[t].pc = "idle" /\ SigningOk(t)
  BY <1>1 DEF FatigueInv, SigningOk
<1>5. SigningOk(t)'
  <2>1. CASE work'[t].pc = "append"
    <3>1. work'[t].session = work[t].session /\ work'[t].id = work[t].id /\ work[t].pc = "sign"
      BY <1>1, <1>3, <2>1 DEF Work, Idle
    <3> QED  BY <1>1, <1>2, <1>4, <2>1, <3>1 DEF SigningOk, InTransaction
  <2>2. CASE work'[t].pc # "append"
    BY <1>1, <1>2, <1>3, <1>4, <2>2 DEF SigningOk, InTransaction
  <2> QED  BY <2>1, <2>2
<1>6. \A u \in Threads : SigningOk(u)'
  BY <1>1, <1>2, <1>3, <1>5, SigningKept DEF FatigueInv
<1>7. ASSUME NEW s \in Sessions, t \in Pending(s)'
      PROVE  t \in Pending(s) \/ sessions[s].count < ReviewLimit
  <2>1. work'[t].pc # "idle" /\ work'[t].session = s /\ (work'[t].pc = "target" => ~work'[t].tired)
    BY <1>7 DEF Pending
  <2>2. CASE work'[t].pc = "target"
    <3>1. ~Tired(s)
      BY <1>3, <2>1, <2>2
    <3>2. sessions[s].count \in Nat /\ ReviewLimit \in Nat
      BY FiniteParts
    <3> QED  BY <3>1, <3>2 DEF Tired
  <2>3. CASE work'[t].pc = "issue"
    BY <1>3, <2>1, <2>3 DEF Pending
  <2>4. CASE work'[t].pc = "append"
    <3>1. work'[t].session = work[t].session /\ work[t].pc = "sign"
      BY <1>1, <1>3, <2>4 DEF Work, Idle
    <3> QED  BY <2>1, <3>1 DEF Pending
  <2> QED  BY <1>3, <2>1, <2>2, <2>3, <2>4
<1>8. \A s \in Sessions : CountOk(s)'
  <2>1. \A s \in Sessions : reviewsOf'[s] \subseteq drawn'
    BY <1>1 DEF FatigueInv, CountOk
  <2>2. work[t].pc # "store" /\ work'[t].pc # "store"
    BY <1>1, <1>3
  <2> QED  BY <1>1, <1>2, <1>3, <1>6, <1>7, <2>1, <2>2, TurnKeepsCount
<1> QED  BY <1>1, <1>2, <1>6, <1>8 DEF FatigueInv

\* The id of a review is drawn: it is new, and only this thread's.
LEMMA DrawKeepsFatigueInv ==
  ASSUME FatigueInv, DeskInv', NEW t \in Threads, NEW id \in Ids, IssueCheck(t, id)
  PROVE  FatigueInv'
<1> DEFINE w == work[t]
<1>1. /\ UNCHANGED <<sqliteVars, sessions>> /\ w.pc = "issue"
      /\ work \in [Threads -> Work]
  BY DEF IssueCheck, FatigueInv, DeskInv
<1>2. /\ UNCHANGED <<attestations, appending>> /\ Known' = Known
  BY <1>1 DEF sqliteVars, Known
<1>3. /\ appending[t].pc = "idle" /\ SigningOk(t)
      /\ reviewsOf \in [Sessions -> SUBSET Ids] /\ Known \subseteq drawn
      /\ \A s \in Sessions : reviewsOf[s] \subseteq drawn
  BY <1>1 DEF FatigueInv, SigningOk, CountOk
<1>4. \/ /\ work' = [work EXCEPT ![t] = Idle]
         /\ drawn' = drawn /\ reviewsOf' = reviewsOf
      \/ /\ work' = [work EXCEPT ![t] = [pc |-> "sign", session |-> w.session, att |-> w.att,
                                         twice |-> w.twice, id |-> id]]
         /\ id \notin drawn /\ drawn' = drawn \cup {id}
         /\ reviewsOf' = IF w.session = None THEN reviewsOf
                         ELSE [reviewsOf EXCEPT ![w.session] = @ \cup {id}]
  BY DEF IssueCheck, Turn
<1>5. CASE /\ work' = [work EXCEPT ![t] = Idle]
           /\ drawn' = drawn /\ reviewsOf' = reviewsOf
  <2>1. work'[t] = Idle /\ \A u \in Threads : u # t => work'[u] = work[u]
    BY <1>1, <1>5
  <2>2. SigningOk(t)'
    BY <1>2, <1>3, <2>1 DEF SigningOk, InTransaction, Idle
  <2>3. \A u \in Threads : SigningOk(u)'
    BY <1>2, <1>5, <2>1, <2>2, SigningKept DEF FatigueInv
  <2>4. \A s \in Sessions : reviewsOf'[s] \subseteq drawn' /\ Stored(s)' = Stored(s)
    BY <1>2, <1>3, <1>5 DEF Stored
  <2>5. \A s \in Sessions : t \notin Pending(s)'
    BY <2>1 DEF Pending, Idle
  <2>6. work'[t].pc # "store"
    BY <2>1 DEF Idle
  <2>7. \A s \in Sessions : CountOk(s)'
    BY <1>1, <1>2, <2>1, <2>3, <2>4, <2>5, <2>6, TurnKeepsCount
  <2> QED  BY <1>1, <1>2, <1>3, <1>5, <2>3, <2>7 DEF FatigueInv
<1>6. CASE /\ work' = [work EXCEPT ![t] = [pc |-> "sign", session |-> w.session, att |-> w.att,
                                           twice |-> w.twice, id |-> id]]
           /\ id \notin drawn /\ drawn' = drawn \cup {id}
           /\ reviewsOf' = IF w.session = None THEN reviewsOf
                           ELSE [reviewsOf EXCEPT ![w.session] = @ \cup {id}]
  <2>1. /\ work'[t].pc = "sign" /\ work'[t].session = w.session /\ work'[t].id = id
        /\ \A u \in Threads : u # t => work'[u] = work[u]
    BY <1>1, <1>6
  <2>2. w.session \in Sessions \cup {None} /\ None \notin Sessions
    BY <1>1, DeskAssumption DEF Work, Idle
  <2>3. \A s \in Sessions : reviewsOf'[s] = IF w.session = s THEN reviewsOf[s] \cup {id} ELSE reviewsOf[s]
    BY <1>3, <1>6, <2>2
  <2>4. reviewsOf' \in [Sessions -> SUBSET Ids]
    BY <1>3, <1>6, <2>2
  <2>5. SigningOk(t)'
    <3>1. \A s \in Sessions : w.session = s <=> id \in reviewsOf'[s]
      BY <1>3, <1>6, <2>3
    <3> QED  BY <1>1, <1>2, <1>3, <1>6, <2>1, <3>1 DEF SigningOk, InTransaction
  <2>6. \A s \in Sessions : \A i \in drawn : i \in reviewsOf'[s] <=> i \in reviewsOf[s]
    BY <1>6, <2>3
  <2>7. \A u \in Threads : SigningOk(u)'
    BY <1>2, <1>6, <2>1, <2>5, <2>6, SigningKept DEF FatigueInv
  <2>8. \A s \in Sessions : reviewsOf'[s] \subseteq drawn' /\ Stored(s)' = Stored(s)
    BY <1>2, <1>3, <1>6, <2>3 DEF Stored
  <2>9. \A s \in Sessions : t \in Pending(s)' => t \in Pending(s)
    BY <1>1, <2>1 DEF Pending
  <2>10. \A s \in Sessions : CountOk(s)'
    BY <1>1, <1>2, <2>1, <2>7, <2>8, <2>9, TurnKeepsCount
  <2> QED  BY <1>1, <1>2, <1>3, <1>6, <2>4, <2>7, <2>10 DEF FatigueInv
<1> QED  BY <1>4, <1>5, <1>6

\* The append takes the lock, or is refused.
LEMMA AppendKeepsFatigueInv ==
  ASSUME FatigueInv, DeskInv', NEW t \in Threads, IssueAppend(t)
  PROVE  FatigueInv'
<1>1. /\ UNCHANGED <<attestations, sessions, drawn, reviewsOf>> /\ work[t].pc = "append"
      /\ work' = [work EXCEPT ![t] = [work[t] EXCEPT !.pc = "store"]]
      /\ AppendCheck(t, work[t].id, work[t].att, work[t].twice)
      /\ work \in [Threads -> Work] /\ appending \in [Threads -> AppendState]
  BY DEF IssueAppend, Turn, AppendCheck, FatigueInv, DeskInv, SqliteInv, SqliteTypeOK
<1>2. Known' = Known /\ \A s \in Sessions : Stored(s)' = Stored(s)
  BY <1>1 DEF Known, Stored
<1>3. /\ work'[t].pc = "store" /\ work'[t].session = work[t].session /\ work'[t].id = work[t].id
      /\ \A u \in Threads : u # t => work'[u] = work[u]
  BY <1>1 DEF Work, Idle
<1>4. /\ appending'[t].pc \in {"insert", "raised"}
      /\ appending'[t].pc = "insert" => appending'[t].id = work[t].id
      /\ \A u \in Threads : u # t => appending'[u] = appending[u]
  BY <1>1 DEF AppendCheck, Leave
<1>5. SigningOk(t)'
  BY <1>1, <1>3, <1>4 DEF FatigueInv, SigningOk, InTransaction
<1>6. \A u \in Threads : SigningOk(u)'
  BY <1>1, <1>3, <1>4, <1>5, SigningKept DEF FatigueInv
<1>7. \A s \in Sessions : t \in Pending(s)' => t \in Pending(s)
  BY <1>1, <1>3 DEF Pending
<1>8. \A s \in Sessions : CountOk(s)'
  <2>1. \A s \in Sessions : reviewsOf'[s] \subseteq drawn'
    BY <1>1 DEF FatigueInv, CountOk
  <2>2. ~(work[t].pc = "store") /\ ~(appending'[t].pc = "returned")
    BY <1>1, <1>4
  <2> QED  BY <1>1, <1>2, <1>3, <1>4, <1>6, <1>7, <2>1, <2>2, TurnKeepsCount
<1> QED  BY <1>1, <1>2, <1>6, <1>8 DEF FatigueInv

\* Statements of a transaction, and its rollback.
LEMMA StatementKeepsFatigueInv ==
  ASSUME FatigueInv, DeskInv', NEW t \in Threads, IssueAppendStep(t), ~AppendCommit(t)
  PROVE  FatigueInv'
<1>1. /\ UNCHANGED <<attestations, sessions, drawn, reviewsOf, work>>
      /\ appending \in [Threads -> AppendState]
      /\ AppendInsert(t) \/ AppendEdges(t) \/ AppendLink(t) \/ AppendRaise(t)
  BY DEF IssueAppendStep, AppendStep, AppendInsert, AppendEdges, AppendLink, AppendRaise,
         FatigueInv, DeskInv, SqliteInv, SqliteTypeOK
<1>2. Known' = Known /\ \A s \in Sessions : Stored(s)' = Stored(s)
  BY <1>1 DEF Known, Stored
<1>3. /\ InTransaction(t)
      /\ appending'[t].pc \in {"edges", "link", "commit", "raised"}
      /\ appending'[t].pc # "raised" => appending'[t].id = appending[t].id
      /\ \A u \in Threads : u # t => appending'[u] = appending[u]
  <2>1. CASE AppendInsert(t)
    BY <1>1, <2>1 DEF AppendInsert, InTransaction, AppendState
  <2>2. CASE AppendEdges(t)
    BY <1>1, <2>2 DEF AppendEdges, InTransaction, AppendState
  <2>3. CASE AppendLink(t)
    BY <1>1, <2>3 DEF AppendLink, InTransaction, AppendState
  <2>4. CASE AppendRaise(t)
    BY <1>1, <2>4 DEF AppendRaise, Leave
  <2> QED  BY <1>1, <2>1, <2>2, <2>3, <2>4
<1>4. SigningOk(t) /\ appending[t].pc \in {"insert", "edges", "link", "commit"}
  BY <1>3 DEF FatigueInv, InTransaction
<1>5. SigningOk(t)'
  BY <1>1, <1>3, <1>4 DEF SigningOk, InTransaction
<1>6. \A u \in Threads : SigningOk(u)'
  BY <1>1, <1>3, <1>5, SigningKept DEF FatigueInv
<1>7. \A s \in Sessions : CountOk(s)'
  <2>1. \A s \in Sessions : reviewsOf'[s] \subseteq drawn'
    BY <1>1 DEF FatigueInv, CountOk
  <2>2. \A s \in Sessions : t \in Pending(s)' => t \in Pending(s)
    BY <1>1 DEF Pending
  <2> QED  BY <1>1, <1>2, <1>3, <1>4, <1>6, <2>1, <2>2, TurnKeepsCount
<1> QED  BY <1>1, <1>2, <1>6, <1>7 DEF FatigueInv

\* The commit of a session's review makes it due; that of anything else is no session's.
LEMMA CommitKeepsFatigueInv ==
  ASSUME FatigueInv, DeskInv', NEW t \in Threads, IssueAppendStep(t), AppendCommit(t)
  PROVE  FatigueInv'
<1>1. /\ UNCHANGED <<sessions, drawn, reviewsOf, work>>
      /\ appending' = [appending EXCEPT ![t] = [pc |-> "returned"]]
      /\ appending[t].pc = "commit"
      /\ appending \in [Threads -> AppendState] /\ SqliteInv /\ DagTypeOK
  BY DEF IssueAppendStep, AppendCommit, Leave, FatigueInv, DeskInv, SqliteInv, SqliteTypeOK, DagInv
<1>2. /\ appending'[t].pc = "returned"
      /\ \A u \in Threads : u # t => appending'[u] = appending[u]
  BY <1>1
<1>3. SigningOk(t) /\ InTransaction(t) /\ work[t].pc = "store" /\ appending[t].id = work[t].id
  BY <1>1 DEF FatigueInv, SigningOk, InTransaction
<1>4. PICK id : id = work[t].id
  OBVIOUS
<1>5. id \in Ids /\ id \notin Known /\ Known' = Known \cup {id} /\ id \in drawn
  <2>1. Add(appending[t].id, appending[t].att) /\ appending[t].id \in Ids
        /\ appending[t].att \in Attestation
    BY <1>1, CommitAdds
  <2>2. PICK a \in Attestation : Add(id, a) /\ id \in Ids
    BY <1>3, <1>4, <2>1
  <2>3. Known' = Known \cup {id} /\ id \notin Known
    BY <2>2, <1>1, AddKeepsKnown DEF Add, Accepts
  <2> QED  BY <2>2, <2>3, <1>3, <1>4 DEF SigningOk
<1>6. SigningOk(t)'
  BY <1>1, <1>2, <1>3 DEF SigningOk, InTransaction
<1>7. \A u \in Threads : SigningOk(u)'
  BY <1>1, <1>2, <1>6, SigningKept DEF FatigueInv
<1>8. ASSUME NEW s \in Sessions PROVE CountOk(s)'
  <2>1. CountOk(s) /\ Pending(s)' = Pending(s) /\ Mine(s)' = Mine(s)
    BY <1>1 DEF FatigueInv, Pending, Mine
  <2>2. CASE work[t].session # s
    <3>1. id \notin reviewsOf[s]
      BY <1>3, <1>4, <2>2 DEF SigningOk
    <3>2. Stored(s)' = Stored(s) /\ Due(s)' = Due(s)
      BY <1>1, <1>2, <1>5, <2>1, <2>2, <3>1 DEF Stored, Due
    <3> QED  BY <1>1, <2>1, <3>2, CountKept DEF CountOk
  <2>3. CASE work[t].session = s
    <3>1. id \in reviewsOf[s] /\ t \in Mine(s)
      BY <1>3, <1>4, <2>3 DEF SigningOk, Mine
    <3>2. Stored(s)' = Stored(s) \cup {id} /\ id \notin Stored(s)
      BY <1>1, <1>5, <3>1 DEF Stored
    <3>3. Due(s)' = Due(s) \cup {t} /\ t \notin Due(s)
      BY <1>1, <1>2, <1>3, <2>1, <2>3, <3>1 DEF Due
    <3>4. Cardinality(Stored(s)') = Cardinality(Stored(s)) + 1
          /\ Cardinality(Due(s)') = Cardinality(Due(s)) + 1
      BY <3>2, <3>3, FiniteParts, FS_AddElement
    <3> QED  BY <1>1, <2>1, <3>4, FiniteParts DEF CountOk
  <2> QED  BY <2>2, <2>3
<1> QED  BY <1>1, <1>5, <1>7, <1>8 DEF FatigueInv

\* record_review: what was due is counted, and the submission is over.
LEMMA ConcludeKeepsFatigueInv ==
  ASSUME FatigueInv, DeskInv', NEW t \in Threads, Conclude(t)
  PROVE  FatigueInv'
<1> DEFINE w == work[t]
<1>1. /\ w.pc = "store" /\ appending[t].pc \in {"returned", "raised"}
      /\ appending' = [appending EXCEPT ![t] = NoAppend]
      /\ work' = [work EXCEPT ![t] = Idle]
      /\ UNCHANGED <<attestations, drawn, reviewsOf>>
      /\ sessions' = IF w.session = None \/ appending[t].pc = "raised" THEN sessions
                     ELSE [sessions EXCEPT ![w.session].count = @ + 1]
      /\ work \in [Threads -> Work] /\ appending \in [Threads -> AppendState]
      /\ sessions \in [Sessions -> Session]
  BY DEF Conclude, AppendOver, Turn, FatigueInv, DeskInv, SqliteInv, SqliteTypeOK
<1>2. /\ work'[t] = Idle /\ appending'[t] = NoAppend
      /\ \A u \in Threads : u # t => work'[u] = work[u] /\ appending'[u] = appending[u]
  BY <1>1
<1>3. SigningOk(t) /\ Known' = Known /\ \A s \in Sessions : Stored(s)' = Stored(s)
  BY <1>1 DEF FatigueInv, Known, Stored
<1>4. w.session \in Sessions \cup {None} /\ None \notin Sessions
  BY <1>1, DeskAssumption DEF Work, Idle
<1>5. SigningOk(t)'
  BY <1>2 DEF SigningOk, InTransaction, Idle, NoAppend
<1>6. \A u \in Threads : SigningOk(u)'
  BY <1>1, <1>2, <1>5, SigningKept DEF FatigueInv
<1>7. sessions' \in [Sessions -> Session]
  BY <1>1, <1>4 DEF Session
<1>8. ASSUME NEW s \in Sessions PROVE CountOk(s)'
  <2>1. CountOk(s) /\ reviewsOf'[s] \subseteq drawn' /\ Mine(s)' = Mine(s)
    BY <1>1 DEF FatigueInv, CountOk, Mine
  <2>2. Pending(s)' = Pending(s) \ {t}
    BY <1>2 DEF Pending, Idle
  <2>3. Due(s)' = Due(s) \ {t}
    <3>1. work'[t].pc = "idle"
      BY <1>2 DEF Idle
    <3>2. \A u \in Mine(s) : u \in Due(s)' <=> u # t /\ u \in Due(s)
      BY <1>2, <2>1, <3>1 DEF Due, Mine
    <3> QED  BY <2>1, <3>2 DEF Due
  <2>4. CASE w.session = s /\ appending[t].pc = "returned"
    <3>1. t \in Pending(s) /\ t \in Due(s)
      BY <1>1, <1>3, <2>4 DEF Pending, Due, Mine, SigningOk
    <3>2. Cardinality(Pending(s)') = Cardinality(Pending(s)) - 1
          /\ Cardinality(Due(s)') = Cardinality(Due(s)) - 1
      BY <2>2, <2>3, <3>1, FiniteParts, FS_RemoveElement
    <3>3. sessions'[s].count = sessions[s].count + 1
      BY <1>1, <1>4, <2>4 DEF Session
    <3> QED  BY <1>3, <2>1, <3>2, <3>3, FiniteParts DEF CountOk
  <2>5. CASE ~(w.session = s /\ appending[t].pc = "returned")
    <3>1. t \notin Due(s)
      BY <2>5 DEF Due
    <3>2. sessions'[s].count = sessions[s].count
      BY <1>1, <1>4, <2>5 DEF Session
    <3> QED  BY <1>3, <2>1, <2>2, <2>3, <3>1, <3>2, CountKept
  <2> QED  BY <2>4, <2>5
<1> QED  BY <1>1, <1>3, <1>6, <1>7, <1>8 DEF FatigueInv

\* Time, re-authentication and revocation count nothing.
LEMMA SessionKeepsFatigueInv ==
  ASSUME FatigueInv, DeskInv', NEW x \in Sessions, RevokeSession(x) \/ Reauthenticate(x) \/ Age(x)
  PROVE  FatigueInv'
<1>1. /\ UNCHANGED <<attestations, appending, work, drawn, reviewsOf>>
      /\ sessions \in [Sessions -> Session]
  BY DEF RevokeSession, Reauthenticate, Age, FatigueInv, sqliteVars
<1>2. /\ sessions' \in [Sessions -> Session]
      /\ \A s \in Sessions : sessions'[s].count = sessions[s].count
  <2>1. CASE RevokeSession(x)
    BY <1>1, <2>1 DEF RevokeSession, Session
  <2>2. CASE Reauthenticate(x)
    BY <1>1, <2>2 DEF Reauthenticate, Session
  <2>3. CASE Age(x)
    BY <1>1, <2>3 DEF Age, Session
  <2> QED  BY <2>1, <2>2, <2>3
<1>3. Known' = Known /\ \A t \in Threads : SigningOk(t)'
  BY <1>1, SigningKept DEF FatigueInv, Known
<1>4. ASSUME NEW s \in Sessions PROVE CountOk(s)'
  <2>1. Stored(s)' = Stored(s) /\ Due(s)' = Due(s) /\ Pending(s)' = Pending(s)
    BY <1>1, <1>3 DEF Stored, Due, Mine, Pending
  <2> QED  BY <1>1, <1>2, <2>1, CountKept DEF FatigueInv, CountOk
<1> QED  BY <1>1, <1>2, <1>3, <1>4 DEF FatigueInv

\* A crash takes the submissions of its process with its sessions.
LEMMA CrashKeepsFatigueInv ==
  ASSUME FatigueInv, DeskInv', NEW x \in Stores, Crash(x)
  PROVE  FatigueInv'
<1>1. /\ UNCHANGED <<attestations, drawn>>
      /\ sessions' = [s \in Sessions |-> IF SessionAt[s] = x THEN NewSession ELSE sessions[s]]
      /\ reviewsOf' = [s \in Sessions |-> IF SessionAt[s] = x THEN {} ELSE reviewsOf[s]]
      /\ work' = [t \in Threads |-> IF StoreOf[t] = x THEN Idle ELSE work[t]]
      /\ appending' = [t \in Threads |-> IF StoreOf[t] = x THEN NoAppend ELSE appending[t]]
  BY DEF Crash, StoreCrash
<1>2. Known' = Known
  BY <1>1 DEF Known
<1>3. /\ sessions' \in [Sessions -> Session] /\ reviewsOf' \in [Sessions -> SUBSET Ids]
  BY <1>1 DEF FatigueInv, NewSession, Session
<1>4. ASSUME NEW t \in Threads PROVE SigningOk(t)'
  <2>1. CASE StoreOf[t] = x
    BY <1>1, <2>1 DEF SigningOk, InTransaction, Idle, NoAppend
  <2>2. CASE StoreOf[t] # x
    <3>1. work'[t] = work[t] /\ appending'[t] = appending[t] /\ SigningOk(t)
      BY <1>1, <2>2 DEF FatigueInv
    <3>2. ASSUME NEW s \in Sessions, work[t].pc \in {"sign", "append", "store"}
          PROVE  work[t].session = s <=> work[t].id \in reviewsOf'[s]
      <4>1. work[t].session = s => SessionAt[s] = StoreOf[t]
        BY <3>1, <3>2 DEF SigningOk
      <4>2. work[t].session = s <=> work[t].id \in reviewsOf[s]
        BY <3>1, <3>2 DEF SigningOk
      <4> QED  BY <1>1, <2>2, <4>1, <4>2
    <3> QED  BY <1>1, <3>1, <3>2 DEF SigningOk, InTransaction
  <2> QED  BY <2>1, <2>2
<1>5. ASSUME NEW s \in Sessions PROVE CountOk(s)'
  <2>1. CASE SessionAt[s] = x
    <3>1. /\ Pending(s)' = {} /\ Due(s)' = {} /\ Stored(s)' = {} /\ Mine(s)' = Mine(s)
          /\ sessions'[s].count = 0 /\ reviewsOf'[s] = {}
      <4>1. ASSUME NEW t \in Threads PROVE t \notin Pending(s)'
        <5>1. CASE StoreOf[t] = x
          BY <1>1, <5>1 DEF Pending, Idle
        <5>2. CASE StoreOf[t] # x
          BY <1>1, <2>1, <5>2 DEF Pending, FatigueInv, SigningOk
        <5> QED  BY <5>1, <5>2
      <4>2. Pending(s)' = {}
        BY <4>1 DEF Pending
      <4>3. Due(s)' = {}
        BY <1>1, <2>1 DEF Due, Mine, Idle
      <4> QED  BY <1>1, <2>1, <4>2, <4>3 DEF Stored, Mine, NewSession
    <3>2. Cardinality({}) = 0
      BY FS_EmptySet
    <3> QED  BY <3>1, <3>2, FiniteParts DEF CountOk
  <2>2. CASE SessionAt[s] # x
    <3>1. Pending(s)' \subseteq Pending(s)
      BY <1>1 DEF Pending, Idle
    <3>2. Due(s)' = Due(s)
      BY <1>1, <2>2 DEF Due, Mine
    <3>3. Stored(s)' = Stored(s) /\ sessions'[s].count = sessions[s].count
          /\ reviewsOf'[s] \subseteq drawn'
      BY <1>1, <1>2, <2>2 DEF Stored, FatigueInv, CountOk
    <3> QED  BY <3>1, <3>2, <3>3, CountKept
  <2> QED  BY <2>1, <2>2
<1> QED  BY <1>1, <1>2, <1>3, <1>4, <1>5 DEF FatigueInv

LEMMA FatigueInvStep == FatigueInv /\ [DeskNext]_deskVars => FatigueInv'
<1> SUFFICES ASSUME FatigueInv, [DeskNext]_deskVars PROVE FatigueInv'
  OBVIOUS
<1>1. DeskInv'
  BY DeskInvStep DEF FatigueInv
<1>2. ASSUME NEW t \in Threads, DeskStep(t) PROVE FatigueInv'
  BY <1>1, <1>2, CallKeepsFatigueInv, DrawKeepsFatigueInv, AppendKeepsFatigueInv,
     StatementKeepsFatigueInv, CommitKeepsFatigueInv, ConcludeKeepsFatigueInv DEF DeskStep
<1>3. CASE UNCHANGED deskVars
  BY <1>1, <1>3 DEF deskVars, sqliteVars, FatigueInv, SigningOk, InTransaction, CountOk, Known,
                    Stored, Due, Mine, Pending
<1> QED
  BY <1>1, <1>2, <1>3, SessionKeepsFatigueInv, CrashKeepsFatigueInv DEF DeskNext

LEMMA FatigueInvariant == DeskSpec => []FatigueInv
BY FatigueInvInit, FatigueInvStep, PTL DEF DeskSpec

\* CT-T5: for any limit, threads and sessions, a session has counted its stored reviews but
\* those about to be counted, and gets no more of them into the lineage than the limit and
\* one for each other thread of its process.
THEOREM FatigueIsBounded == DeskSpec => []FatigueBoundsReviews
<1>1. FatigueInv => FatigueBoundsReviews
  <2> SUFFICES ASSUME FatigueInv, NEW s \in Sessions
               PROVE  /\ Cardinality(Stored(s)) = sessions[s].count + Cardinality(Due(s))
                      /\ Cardinality(Stored(s)) <= ReviewLimit + Cardinality(Mine(s)) - 1
    BY DEF FatigueBoundsReviews, Stored, Due, Mine
  <2>1. CountOk(s) /\ Due(s) \subseteq Pending(s)
    BY DEF FatigueInv, Due, Mine, Pending
  <2>2. Cardinality(Due(s)) <= Cardinality(Pending(s))
    BY <2>1, FiniteParts, FS_Subset
  <2> QED  BY <2>1, <2>2, FiniteParts DEF CountOk
<1> QED  BY <1>1, FatigueInvariant, PTL
=============================================================================
