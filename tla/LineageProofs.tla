--------------------------- MODULE LineageProofs ----------------------------
(***************************************************************************)
(* Proofs about the lineage store and what runs over it.                   *)
(*                                                                         *)
(* Lineage: the hash chain is a topological order of the DAG, the store's  *)
(* four structures agree, nothing is taken back, and the store implements  *)
(* AttestationDag.                                                         *)
(*                                                                         *)
(* Issuance: every step of a service is a step of the store or invisible   *)
(* to it, no signed attestation is refused, and what is in the lineage met *)
(* its tier's ceremony.                                                    *)
(*                                                                         *)
(* Cascades: no cascade loses a derivative or over-reaches, whatever other *)
(* threads append and revoke; and the worker pool that runs them accounts  *)
(* for every job.                                                          *)
(***************************************************************************)
EXTENDS Issuance, CascadeWorker, DagAndIndexProofs

-----------------------------------------------------------------------------
(***************************************************************************)
(* Lineage                                                                 *)
(***************************************************************************)
\* What is known of an append under way, between its writes.
AppendOk(t) ==
  LET ap == appending[t]
  IN /\ ap.pc # "idle" <=> lineageLock = t
     /\ ap.pc # "idle" => /\ ap.id \in Known
                          /\ Linked(ap.id) = {}
                          /\ ap.todo \subseteq Upstream(ap.id)
     /\ ap.pc # "edges" => ap.todo = {}
     /\ ap.pc = "link" => /\ ap.prev = ChainHead
                          /\ attestations[ap.id].intent # None =>
                               ap.id \in byIntentRoot[attestations[ap.id].intent]

LineageInv ==
  /\ LineageTypeOK
  /\ DagInv
  /\ LineageOrdered
  /\ IndexesAgree
  /\ \A t \in Threads : AppendOk(t)

-----------------------------------------------------------------------------
\* The parents of a stored attestation are its references.
LEMMA ParentsAreUpstream ==
  ASSUME NEW i \in Known
  PROVE  ParentsOf(attestations[i]) = Upstream(i)
BY DEF Known, ParentsOf, Upstream

LEMMA LineageInvInit == LineageInit => LineageInv
<1> SUFFICES ASSUME LineageInit PROVE LineageInv
  OBVIOUS
<1> USE ThreadsAssumption DEF LineageInit, NoAppend
<1>1. DagInv /\ Known = {}
  BY DagInvInit DEF DagInit, Known
<1>2. LineageTypeOK
  BY <1>1 DEF LineageTypeOK, AppendState, DagInv
<1>3. LineageOrdered
  BY DEF LineageOrdered
<1>4. IndexesAgree
  BY <1>1 DEF IndexesAgree, ValidateChain
<1>5. \A t \in Threads : AppendOk(t)
  BY DEF AppendOk
<1> QED  BY <1>1, <1>2, <1>3, <1>4, <1>5 DEF LineageInv

\* Storing a new attestation: nobody else is appending, so all its references are linked.
LEMMA StoreKeepsLineageInv ==
  ASSUME LineageInv, NEW t \in Threads, NEW id \in Ids, NEW a \in Attestation,
         AppendStore(t, id, a)
  PROVE  LineageInv'
<1> USE ThreadsAssumption, IdsAssumption
<1>1. /\ Known' = Known \cup {id} /\ id \notin Known
      /\ \A i \in Known : attestations'[i] = attestations[i] /\ Upstream(i)' = Upstream(i)
      /\ Upstream(id)' \subseteq Known
      /\ attestations'[id] = a
      /\ Upstream(id)' = ParentsOf(a)
  <2>1. Add(id, a) /\ DagTypeOK
    BY DEF AppendStore, LineageInv, DagInv
  <2>2. attestations'[id] = a /\ id \notin Known
    BY <2>1 DEF Add, Accepts, DagTypeOK
  <2> QED  BY <2>1, <2>2, AddKeepsKnown DEF Upstream, ParentsOf
<1>2. DagInv'
  <2>1. DagNext
    BY DEF AppendStore, DagNext
  <2> QED  BY <2>1, DagInvStep DEF LineageInv
<1>3. UNCHANGED <<children, byIntentRoot, chain>>
  BY DEF AppendStore
<1>4. \A u \in Threads : appending[u].pc = "idle"
  BY DEF AppendStore, LineageInv, AppendOk
<1>5. /\ appending'[t] = [pc |-> "edges", id |-> id, todo |-> ParentsOf(a), prev |-> <<>>]
      /\ \A u \in Threads : u # t => appending'[u] = appending[u]
      /\ lineageLock' = t
  BY DEF AppendStore, LineageInv, LineageTypeOK
<1>6. \A c \in Known : Linked(c) # {}
  BY <1>4 DEF LineageInv, IndexesAgree
<1>7. \A n \in 1..Len(chain) : chain[n].id \in Known
  BY DEF LineageInv, IndexesAgree, ValidateChain
<1>8. \A c \in Ids : Linked(c)' = Linked(c)
  BY <1>3 DEF Linked
<1>9. LineageTypeOK'
  BY <1>2, <1>3 DEF AppendStore, LineageInv, LineageTypeOK, DagInv, AppendState, ParentsOf, Attestation
<1>10. LineageOrdered'
  <2>1. \A n \in 1..Len(chain) : Upstream(chain[n].id)' = Upstream(chain[n].id)
    BY <1>1, <1>3, <1>7 DEF Upstream
  <2>2. \A p \in Upstream(id)' : Linked(p)' # {}
    BY <1>1, <1>3, <1>6 DEF Linked
  <2>3. (\A n \in 1..Len(chain) : \A p \in Upstream(chain[n].id) :
           \E m \in 1..(n - 1) : chain[m].id = p)'
    BY <1>3, <2>1 DEF LineageInv, LineageOrdered
  <2>4. \A m, n \in 1..Len(chain)' : chain'[m].id = chain'[n].id => m = n
    BY <1>3 DEF LineageInv, LineageOrdered
  <2>5. (\A u \in Threads : appending[u].pc # "idle" =>
           \A p \in Upstream(appending[u].id) : Linked(p) # {})'
    BY <1>4, <1>5, <2>2 DEF Upstream
  <2> QED  BY <2>3, <2>4, <2>5 DEF LineageOrdered
<1>11. IndexesAgree'
  <2>1. \A i, c \in Ids : c \in children'[i] => i \in Upstream(c)'
    <3> SUFFICES ASSUME NEW i \in Ids, NEW c \in Ids, c \in children[i]
                 PROVE  i \in Upstream(c)'
      BY <1>3
    <3>1. i \in Upstream(c)
      BY DEF LineageInv, IndexesAgree
    <3>2. c \in Known
      BY <3>1 DEF Upstream, Known
    <3> QED  BY <1>1, <3>1, <3>2
  <2>2. \A c \in Known' : \A i \in Upstream(c)' :
          c \in children'[i] \/ \E u \in Threads : appending'[u].id = c /\ i \in appending'[u].todo
    <3> SUFFICES ASSUME NEW c \in Known', NEW i \in Upstream(c)'
                 PROVE  c \in children'[i] \/ \E u \in Threads :
                          appending'[u].id = c /\ i \in appending'[u].todo
      OBVIOUS
    <3>1. CASE c = id
      BY <3>1, <1>1, <1>5
    <3>2. CASE c \in Known
      <4>1. c \in children[i] \/ \E u \in Threads : appending[u].id = c /\ i \in appending[u].todo
        BY <3>2, <1>1 DEF LineageInv, IndexesAgree
      <4>2. \A u \in Threads : appending[u].todo = {}
        BY <1>4 DEF LineageInv, AppendOk
      <4> QED  BY <4>1, <4>2, <1>3
    <3> QED  BY <3>1, <3>2, <1>1
  <2>3. \A r, c \in Ids : c \in byIntentRoot'[r] => c \in Known' /\ attestations'[c].intent = r
    BY <1>1, <1>3 DEF LineageInv, IndexesAgree
  <2>4. \A c \in Known' :
          \/ Linked(c)' # {} /\ (attestations'[c].intent # None =>
                                   c \in byIntentRoot'[attestations'[c].intent])
          \/ \E u \in Threads : appending'[u].pc # "idle" /\ appending'[u].id = c
    <3> SUFFICES ASSUME NEW c \in Known'
                 PROVE  \/ Linked(c)' # {} /\ (attestations'[c].intent # None =>
                                                 c \in byIntentRoot'[attestations'[c].intent])
                        \/ \E u \in Threads : appending'[u].pc # "idle" /\ appending'[u].id = c
      OBVIOUS
    <3>1. CASE c = id
      BY <3>1, <1>5
    <3>2. CASE c \in Known
      <4>1. Linked(c) # {} /\ (attestations[c].intent # None =>
                                 c \in byIntentRoot[attestations[c].intent])
        BY <3>2, <1>4 DEF LineageInv, IndexesAgree
      <4>2. Linked(c)' = Linked(c)
        BY <1>8, <3>2 DEF Known
      <4> QED  BY <4>1, <4>2, <3>2, <1>1, <1>3
    <3> QED  BY <3>1, <3>2, <1>1
  <2>5. ValidateChain'
    BY <1>1, <1>3 DEF LineageInv, IndexesAgree, ValidateChain
  <2> QED  BY <2>1, <2>2, <2>3, <2>4, <2>5 DEF IndexesAgree
<1>12. \A u \in Threads : AppendOk(u)'
  <2> SUFFICES ASSUME NEW u \in Threads PROVE AppendOk(u)'
    OBVIOUS
  <2>1. CASE u # t
    BY <2>1, <1>4, <1>5 DEF AppendOk, LineageInv
  <2>2. CASE u = t
    <3>1. Linked(id)' = {}
      BY <1>1, <1>7, <1>8 DEF Linked
    <3> QED  BY <2>2, <3>1, <1>1, <1>5 DEF AppendOk
  <2> QED  BY <2>1, <2>2
<1> QED  BY <1>2, <1>9, <1>10, <1>11, <1>12 DEF LineageInv

\* The lock and the call in progress, for any step of append() but its first.
LEMMA OnlyOneAppends ==
  ASSUME LineageInv, NEW t \in Threads, appending[t].pc # "idle"
  PROVE  \A u \in Threads : u # t => appending[u].pc = "idle" /\ appending[u].todo = {}
BY DEF LineageInv, AppendOk

\* A step that neither stores nor links keeps the order of the chain.
LEMMA OrderKept ==
  ASSUME LineageOrdered, UNCHANGED <<attestations, chain>>,
         \A u \in Threads : /\ appending'[u].pc # "idle" => appending[u].pc # "idle"
                            /\ appending'[u].id = appending[u].id
  PROVE  LineageOrdered'
<1>1. (\A n \in 1..Len(chain) : \A p \in Upstream(chain[n].id) :
         \E m \in 1..(n - 1) : chain[m].id = p)'
  <2>1. \A n \in 1..Len(chain) : Upstream(chain[n].id)' = Upstream(chain[n].id)
    BY DEF Upstream
  <2> QED  BY <2>1 DEF LineageOrdered, Upstream
<1>2. (\A m, n \in 1..Len(chain) : chain[m].id = chain[n].id => m = n)'
  BY DEF LineageOrdered
<1>3. (\A u \in Threads : appending[u].pc # "idle" =>
         \A p \in Upstream(appending[u].id) : Linked(p) # {})'
  <2>1. \A u \in Threads : Upstream(appending[u].id)' = Upstream(appending[u].id)
    BY DEF Upstream
  <2>2. \A p : Linked(p)' = Linked(p)
    BY DEF Linked
  <2> QED  BY <2>1, <2>2 DEF LineageOrdered
<1> QED  BY <1>1, <1>2, <1>3 DEF LineageOrdered

\* Adding one edge: it is one of the new attestation's references.
LEMMA EdgeKeepsLineageInv ==
  ASSUME LineageInv, NEW t \in Threads, AppendEdge(t)
  PROVE  LineageInv'
<1> DEFINE id == appending[t].id
<1>1. UNCHANGED <<attestations, byIntentRoot, chain, lineageLock>>
  BY DEF AppendEdge
<1>2. PICK p \in appending[t].todo :
        /\ children' = [children EXCEPT ![p] = @ \cup {id}]
        /\ appending' = [appending EXCEPT ![t].todo = @ \ {p}]
  BY DEF AppendEdge
<1>3. /\ appending[t] \in AppendState /\ appending[t].pc = "edges" /\ lineageLock = t
      /\ id \in Known /\ Linked(id) = {} /\ appending[t].todo \subseteq Upstream(id)
  BY DEF AppendEdge, LineageInv, LineageTypeOK, AppendOk
<1>4. /\ appending'[t] = [appending[t] EXCEPT !.todo = @ \ {p}]
      /\ \A u \in Threads : u # t => appending'[u] = appending[u]
  BY <1>2 DEF LineageInv, LineageTypeOK
<1>5. \A u \in Threads : /\ appending'[u].pc = appending[u].pc
                         /\ appending'[u].id = appending[u].id
                         /\ appending'[u].prev = appending[u].prev
  BY <1>3, <1>4 DEF AppendState
<1>6. /\ Known' = Known /\ ChainHead' = ChainHead
      /\ \A i \in Ids : Upstream(i)' = Upstream(i) /\ Linked(i)' = Linked(i)
  BY <1>1 DEF Known, ChainHead, Upstream, Linked
<1>7. id \in Ids /\ p \in Ids
  BY <1>3 DEF Known, AppendState
<1>8. LineageTypeOK' /\ DagInv'
  <2>1. DagInv'
    BY <1>1, <1>6 DEF LineageInv, DagInv, DagTypeOK, NoDanglingReference, Known
  <2>2. appending' \in [Threads -> AppendState]
    BY <1>2, <1>3 DEF LineageInv, LineageTypeOK, AppendState
  <2> QED  BY <1>1, <1>2, <1>7, <2>1, <2>2 DEF LineageInv, LineageTypeOK, DagInv
<1>9. LineageOrdered'
  BY <1>1, <1>3, <1>5, OrderKept DEF LineageInv
<1>10. IndexesAgree'
  <2>1. \A i \in Ids : children'[i] = IF i = p THEN children[p] \cup {id} ELSE children[i]
    BY <1>2 DEF LineageInv, LineageTypeOK
  <2>2. \A i, c \in Ids : c \in children'[i] => i \in Upstream(c)'
    BY <2>1, <1>3, <1>6 DEF LineageInv, IndexesAgree
  <2>3. \A c \in Known' : \A i \in Upstream(c)' :
          c \in children'[i] \/ \E u \in Threads : appending'[u].id = c /\ i \in appending'[u].todo
    <3> SUFFICES ASSUME NEW c \in Known, NEW i \in Upstream(c), c \notin children'[i]
                 PROVE  \E u \in Threads : appending'[u].id = c /\ i \in appending'[u].todo
      BY <1>6 DEF Known
    <3>1. i \in Ids
      BY UpstreamType DEF Known, LineageInv, DagInv
    <3>2. PICK u \in Threads : appending[u].id = c /\ i \in appending[u].todo
      BY <2>1, <3>1 DEF LineageInv, IndexesAgree
    <3>3. u = t
      BY <3>2, <1>3, OnlyOneAppends
    <3>4. i # p
      BY <2>1, <3>1, <3>2, <3>3
    <3> QED  BY <3>2, <3>3, <3>4, <1>3, <1>4, <1>5 DEF AppendState
  <2>4. \A r, c \in Ids : c \in byIntentRoot'[r] => c \in Known' /\ attestations'[c].intent = r
    BY <1>1, <1>6 DEF LineageInv, IndexesAgree
  <2>5. \A c \in Known' :
          \/ Linked(c)' # {} /\ (attestations'[c].intent # None =>
                                   c \in byIntentRoot'[attestations'[c].intent])
          \/ \E u \in Threads : appending'[u].pc # "idle" /\ appending'[u].id = c
    BY <1>1, <1>5, <1>6 DEF LineageInv, IndexesAgree, Known
  <2>6. ValidateChain'
    BY <1>1, <1>6 DEF LineageInv, IndexesAgree, ValidateChain
  <2> QED  BY <2>2, <2>3, <2>4, <2>5, <2>6 DEF IndexesAgree
<1>11. \A u \in Threads : AppendOk(u)'
  <2> SUFFICES ASSUME NEW u \in Threads PROVE AppendOk(u)'
    OBVIOUS
  <2>1. AppendOk(u)
    BY DEF LineageInv
  <2>2. CASE u = t
    BY <2>1, <2>2, <1>1, <1>3, <1>4 DEF AppendOk, AppendState, Known, Linked, Upstream
  <2>3. CASE u # t
    BY <2>1, <2>3, <1>1, <1>4 DEF AppendOk, Known, Linked, Upstream, ChainHead
  <2> QED  BY <2>2, <2>3
<1> QED  BY <1>8, <1>9, <1>10, <1>11 DEF LineageInv

\* The newest hash covers ids.
LEMMA ChainHeadType == LineageTypeOK => ChainHead \in Seq(Ids)
<1> SUFFICES ASSUME LineageTypeOK PROVE ChainHead \in Seq(Ids)
  OBVIOUS
<1>1. CASE chain = <<>>
  BY <1>1 DEF ChainHead
<1>2. CASE chain # <<>>
  <2>1. chain \in Seq(Link) /\ Len(chain) \in 1..Len(chain)
    BY <1>2 DEF LineageTypeOK
  <2>2. chain[Len(chain)] \in Link
    BY <2>1
  <2> QED  BY <1>2, <2>2 DEF ChainHead, Link
<1> QED  BY <1>1, <1>2

\* Entering the new attestation under its intent root.
LEMMA RootKeepsLineageInv ==
  ASSUME LineageInv, NEW t \in Threads, AppendRoot(t)
  PROVE  LineageInv'
<1> DEFINE id == appending[t].id
           root == attestations[id].intent
<1> USE IdsAssumption
<1>1. UNCHANGED <<attestations, children, chain, lineageLock>>
  BY DEF AppendRoot
<1>2. /\ byIntentRoot' = [r \in Ids |-> byIntentRoot[r] \cup (IF r = root THEN {id} ELSE {})]
      /\ appending' = [appending EXCEPT ![t].pc = "link", ![t].prev = ChainHead]
  BY DEF AppendRoot
<1>3. /\ appending[t] \in AppendState /\ appending[t].pc = "edges" /\ lineageLock = t
      /\ id \in Known /\ Linked(id) = {} /\ appending[t].todo = {}
  BY DEF AppendRoot, LineageInv, LineageTypeOK, AppendOk
<1>4. /\ appending'[t] = [appending[t] EXCEPT !.pc = "link", !.prev = ChainHead]
      /\ \A u \in Threads : u # t => appending'[u] = appending[u]
  BY <1>2 DEF LineageInv, LineageTypeOK
<1>5. \A u \in Threads : /\ appending'[u].pc # "idle" <=> appending[u].pc # "idle"
                         /\ appending'[u].id = appending[u].id
                         /\ appending'[u].todo = appending[u].todo
  BY <1>3, <1>4 DEF AppendState
<1>6. /\ Known' = Known /\ ChainHead' = ChainHead
      /\ \A i \in Ids : Upstream(i)' = Upstream(i) /\ Linked(i)' = Linked(i)
  BY <1>1 DEF Known, ChainHead, Upstream, Linked
<1>7. id \in Ids /\ root \in Ids \cup {None} /\ ChainHead \in Seq(Ids)
  <2>1. id \in Ids /\ attestations[id] \in Attestation
    BY <1>3 DEF Known, LineageInv, LineageTypeOK, DagTypeOK
  <2> QED  BY <2>1, ChainHeadType DEF LineageInv, Attestation
<1>8. LineageTypeOK' /\ DagInv'
  <2>1. DagInv'
    BY <1>1, <1>6 DEF LineageInv, DagInv, DagTypeOK, NoDanglingReference, Known
  <2>2. appending' \in [Threads -> AppendState]
    BY <1>2, <1>3, <1>7 DEF LineageInv, LineageTypeOK, AppendState
  <2>3. byIntentRoot' \in [Ids -> SUBSET Ids]
    BY <1>2, <1>7 DEF LineageInv, LineageTypeOK
  <2> QED  BY <1>1, <2>1, <2>2, <2>3 DEF LineageInv, LineageTypeOK, DagInv
<1>9. LineageOrdered'
  BY <1>1, <1>5, OrderKept DEF LineageInv
<1>10. IndexesAgree'
  <2>1. \A r \in Ids : byIntentRoot'[r] = byIntentRoot[r] \cup (IF r = root THEN {id} ELSE {})
    BY <1>2
  <2>2. \A i, c \in Ids : c \in children'[i] => i \in Upstream(c)'
    BY <1>1, <1>6 DEF LineageInv, IndexesAgree
  <2>3. \A c \in Known' : \A i \in Upstream(c)' :
          c \in children'[i] \/ \E u \in Threads : appending'[u].id = c /\ i \in appending'[u].todo
    BY <1>1, <1>5, <1>6 DEF LineageInv, IndexesAgree, Known
  <2>4. \A r, c \in Ids : c \in byIntentRoot'[r] => c \in Known' /\ attestations'[c].intent = r
    BY <1>1, <1>3, <1>6, <2>1 DEF LineageInv, IndexesAgree
  <2>5. \A c \in Known' :
          \/ Linked(c)' # {} /\ (attestations'[c].intent # None =>
                                   c \in byIntentRoot'[attestations'[c].intent])
          \/ \E u \in Threads : appending'[u].pc # "idle" /\ appending'[u].id = c
    <3> SUFFICES ASSUME NEW c \in Known,
                        \A u \in Threads : ~(appending[u].pc # "idle" /\ appending[u].id = c)
                 PROVE  Linked(c)' # {} /\ (attestations'[c].intent # None =>
                                               c \in byIntentRoot'[attestations'[c].intent])
      BY <1>5, <1>6
    <3>1. Linked(c) # {} /\ (attestations[c].intent # None =>
                               c \in byIntentRoot[attestations[c].intent])
      BY DEF LineageInv, IndexesAgree
    <3>2. attestations[c].intent \in Ids \cup {None} /\ c \in Ids
      BY DEF Known, LineageInv, LineageTypeOK, DagTypeOK, Attestation
    <3> QED  BY <1>1, <1>6, <2>1, <3>1, <3>2
  <2>6. ValidateChain'
    BY <1>1, <1>6 DEF LineageInv, IndexesAgree, ValidateChain
  <2> QED  BY <2>2, <2>3, <2>4, <2>5, <2>6 DEF IndexesAgree
<1>11. \A u \in Threads : AppendOk(u)'
  <2> SUFFICES ASSUME NEW u \in Threads PROVE AppendOk(u)'
    OBVIOUS
  <2>1. AppendOk(u)
    BY DEF LineageInv
  <2>2. CASE u = t
    <3>1. root # None => id \in byIntentRoot'[root]
      BY <1>2, <1>7
    <3>2. /\ appending'[u].pc = "link" /\ appending'[u].id = id /\ appending'[u].todo = {}
          /\ appending'[u].prev = ChainHead
      BY <2>2, <1>3, <1>4 DEF AppendState
    <3> QED  BY <2>2, <3>1, <3>2, <1>1, <1>3, <1>6 DEF AppendOk, Known, Linked
  <2>3. CASE u # t
    <3>1. appending[u].pc = "idle" /\ appending[u].todo = {}
      BY <2>3, <1>3, OnlyOneAppends
    <3> QED  BY <2>1, <2>3, <3>1, <1>1, <1>4 DEF AppendOk
  <2> QED  BY <2>2, <2>3
<1> QED  BY <1>8, <1>9, <1>10, <1>11 DEF LineageInv

\* The link: it goes behind the links of all its references.
LEMMA LinkKeepsLineageInv ==
  ASSUME LineageInv, NEW t \in Threads, AppendLink(t)
  PROVE  LineageInv'
<1>0. PICK id \in Ids : id = appending[t].id
  BY DEF AppendLink, LineageInv, AppendOk, Known
<1> DEFINE new == [id |-> id, hash |-> Append(appending[t].prev, id)]
           L == Len(chain)
<1> USE ThreadsAssumption
<1>1. /\ UNCHANGED <<attestations, children, byIntentRoot>>
      /\ chain' = Append(chain, new)
      /\ lineageLock' = None
      /\ appending' = [appending EXCEPT ![t] = NoAppend]
  BY <1>0 DEF AppendLink
<1>2. /\ appending[t] \in AppendState /\ appending[t].pc = "link"
      /\ id \in Known /\ Linked(id) = {} /\ appending[t].todo = {}
      /\ appending[t].prev = ChainHead
      /\ attestations[id].intent # None => id \in byIntentRoot[attestations[id].intent]
  BY <1>0 DEF AppendLink, LineageInv, LineageTypeOK, AppendOk
<1>3. new \in Link
  BY <1>2 DEF AppendState, Link
<1>4. /\ L \in Nat /\ Len(chain') = L + 1
      /\ chain'[L + 1] = new
      /\ \A n \in 1..L : chain'[n] = chain[n]
  BY <1>1, <1>3 DEF LineageInv, LineageTypeOK
<1>5. \A u \in Threads : appending'[u] = NoAppend \/ (u # t /\ appending'[u] = appending[u])
  BY <1>1 DEF LineageInv, LineageTypeOK
<1>6. \A u \in Threads : appending'[u].pc = "idle" /\ appending'[u].todo = {}
  BY <1>2, <1>5, OnlyOneAppends DEF NoAppend
<1>7. Known' = Known /\ \A i : Upstream(i)' = Upstream(i)
  BY <1>1 DEF Known, Upstream
<1>8. \A i : Linked(i) \subseteq Linked(i)' /\ Linked(id)' # {}
  <2>1. \A i : Linked(i) \subseteq Linked(i)'
    BY <1>4 DEF Linked
  <2>2. L + 1 \in Linked(id)'
    BY <1>4 DEF Linked
  <2> QED  BY <2>1, <2>2
<1>9. LineageTypeOK' /\ DagInv'
  <2>1. DagInv'
    BY <1>1, <1>7 DEF LineageInv, DagInv, DagTypeOK, NoDanglingReference, Known
  <2>2. appending' \in [Threads -> AppendState]
    BY <1>1 DEF LineageInv, LineageTypeOK, AppendState, NoAppend
  <2>3. chain' \in Seq(Link)
    BY <1>1, <1>3 DEF LineageInv, LineageTypeOK
  <2> QED  BY <1>1, <2>1, <2>2, <2>3 DEF LineageInv, LineageTypeOK, DagInv
<1>10. LineageOrdered'
  <2>1. ASSUME NEW n \in 1..(L + 1), NEW x, x = chain'[n].id, NEW p \in Upstream(x)
        PROVE  \E m \in 1..(n - 1) : chain'[m].id = p
    <3>1. CASE n \in 1..L
      <4>1. x = chain[n].id
        BY <2>1, <3>1, <1>4
      <4>2. PICK m \in 1..(n - 1) : chain[m].id = p
        BY <2>1, <3>1, <4>1 DEF LineageInv, LineageOrdered
      <4> QED  BY <3>1, <4>2, <1>4
    <3>2. CASE n = L + 1
      <4>1. Linked(p) # {}
        BY <2>1, <3>2, <1>0, <1>2, <1>4 DEF LineageInv, LineageOrdered
      <4>2. PICK m \in 1..L : chain[m].id = p
        BY <4>1 DEF Linked
      <4> QED  BY <3>2, <4>2, <1>4
    <3> QED  BY <3>1, <3>2, <1>4
  <2>2. (\A n \in 1..Len(chain) : \A p \in Upstream(chain[n].id) :
           \E m \in 1..(n - 1) : chain[m].id = p)'
    <3> SUFFICES ASSUME NEW n \in 1..(L + 1), NEW p \in Upstream(chain[n].id)'
                 PROVE  \E m \in 1..(n - 1) : chain'[m].id = p
      BY <1>4
    <3>1. PICK x : x = chain'[n].id
      OBVIOUS
    <3>2. p \in Upstream(x)
      BY <3>1, <1>1 DEF Upstream
    <3> QED  BY <3>1, <3>2, <2>1
  <2>3. ASSUME NEW m \in 1..(L + 1), NEW n \in 1..(L + 1), chain'[m].id = chain'[n].id
        PROVE  m = n
    <3>1. \A k \in 1..L : chain[k].id # id
      BY <1>2 DEF Linked
    <3> QED  BY <2>3, <3>1, <1>4 DEF LineageInv, LineageOrdered
  <2>4. (\A m, n \in 1..Len(chain) : chain[m].id = chain[n].id => m = n)'
    BY <2>3, <1>4
  <2>5. (\A u \in Threads : appending[u].pc # "idle" =>
           \A p \in Upstream(appending[u].id) : Linked(p) # {})'
    BY <1>6
  <2> QED  BY <2>2, <2>4, <2>5 DEF LineageOrdered
<1>11. IndexesAgree'
  <2>1. \A i, c \in Ids : c \in children'[i] => i \in Upstream(c)'
    BY <1>1, <1>7 DEF LineageInv, IndexesAgree
  <2>2. \A c \in Known' : \A i \in Upstream(c)' :
          c \in children'[i] \/ \E u \in Threads : appending'[u].id = c /\ i \in appending'[u].todo
    <3> SUFFICES ASSUME NEW c \in Known, NEW i \in Upstream(c)
                 PROVE  c \in children[i]
      BY <1>1, <1>7
    <3>1. \A u \in Threads : appending[u].todo = {}
      BY <1>2, OnlyOneAppends
    <3> QED  BY <3>1 DEF LineageInv, IndexesAgree
  <2>3. \A r, c \in Ids : c \in byIntentRoot'[r] => c \in Known' /\ attestations'[c].intent = r
    BY <1>1, <1>7 DEF LineageInv, IndexesAgree
  <2>4. \A c \in Known' :
          \/ Linked(c)' # {} /\ (attestations'[c].intent # None =>
                                   c \in byIntentRoot'[attestations'[c].intent])
          \/ \E u \in Threads : appending'[u].pc # "idle" /\ appending'[u].id = c
    <3> SUFFICES ASSUME NEW c \in Known
                 PROVE  Linked(c)' # {} /\ (attestations[c].intent # None =>
                                               c \in byIntentRoot[attestations[c].intent])
      BY <1>1, <1>7
    <3>1. CASE c = id
      BY <3>1, <1>2, <1>8
    <3>2. CASE c # id
      <4>1. \A u \in Threads : ~(appending[u].pc # "idle" /\ appending[u].id = c)
        BY <3>2, <1>0, <1>2, OnlyOneAppends
      <4>2. Linked(c) # {} /\ (attestations[c].intent # None =>
                                 c \in byIntentRoot[attestations[c].intent])
        BY <4>1 DEF LineageInv, IndexesAgree
      <4> QED  BY <4>2, <1>8
    <3> QED  BY <3>1, <3>2
  <2>5. ValidateChain'
    <3>1. ASSUME NEW n \in 1..(L + 1)
          PROVE  /\ chain'[n].id \in Known
                 /\ chain'[n].hash =
                      Append(IF n = 1 THEN <<>> ELSE chain'[n - 1].hash, chain'[n].id)
      <4>1. CASE n \in 1..L
        <5>1. /\ chain[n].id \in Known
              /\ chain[n].hash = Append(IF n = 1 THEN <<>> ELSE chain[n - 1].hash, chain[n].id)
          BY <4>1 DEF LineageInv, IndexesAgree, ValidateChain
        <5>2. chain'[n] = chain[n] /\ (n # 1 => chain'[n - 1] = chain[n - 1])
          BY <4>1, <1>4
        <5> QED  BY <5>1, <5>2
      <4>2. CASE n = L + 1
        <5>1. ChainHead = IF n = 1 THEN <<>> ELSE chain[n - 1].hash
          BY <4>2, <1>4 DEF ChainHead, LineageInv, LineageTypeOK
        <5>2. n # 1 => chain'[n - 1] = chain[n - 1]
          BY <4>2, <1>4
        <5> QED  BY <4>2, <5>1, <5>2, <1>2, <1>4
      <4> QED  BY <3>1, <4>1, <4>2, <1>4
    <3> QED  BY <3>1, <1>4, <1>7 DEF ValidateChain
  <2> QED  BY <2>1, <2>2, <2>3, <2>4, <2>5 DEF IndexesAgree
<1>12. \A u \in Threads : AppendOk(u)'
  BY <1>1, <1>6 DEF AppendOk
<1> QED  BY <1>9, <1>10, <1>11, <1>12 DEF LineageInv

-----------------------------------------------------------------------------
\* Every step of every thread keeps the invariant.
LEMMA LineageInvStep == LineageInv /\ [LineageNext]_lineageVars => LineageInv'
<1> SUFFICES ASSUME LineageInv, [LineageNext]_lineageVars PROVE LineageInv'
  OBVIOUS
<1>1. ASSUME NEW t \in Threads, NEW id \in Ids, NEW a \in Attestation, AppendStore(t, id, a)
      PROVE  LineageInv'
  BY <1>1, StoreKeepsLineageInv
<1>2. ASSUME NEW t \in Threads, AppendStep(t) PROVE LineageInv'
  BY <1>2, EdgeKeepsLineageInv, RootKeepsLineageInv, LinkKeepsLineageInv DEF AppendStep
<1>3. CASE UNCHANGED lineageVars
  <2> USE <1>3 DEF lineageVars, LineageInv
  <2>1. DagInv' /\ LineageTypeOK'
    BY DEF LineageTypeOK, DagInv, DagTypeOK, NoDanglingReference, Known, Upstream
  <2>2. LineageOrdered'
    BY OrderKept
  <2>3. IndexesAgree'
    BY DEF IndexesAgree, ValidateChain, Known, Upstream, Linked
  <2>4. \A t \in Threads : AppendOk(t)'
    BY DEF AppendOk, Known, Upstream, Linked, ChainHead
  <2> QED  BY <2>1, <2>2, <2>3, <2>4
<1> QED  BY <1>1, <1>2, <1>3 DEF LineageNext

LEMMA LineageInvariant == LineageSpec => []LineageInv
BY LineageInvInit, LineageInvStep, PTL DEF LineageSpec

\* The store's variables keep their types (lineage.py:33-97).
THEOREM LineageTypeCorrect == LineageSpec => []LineageTypeOK
<1>1. LineageInv => LineageTypeOK
  BY DEF LineageInv
<1> QED  BY <1>1, LineageInvariant, PTL

\* CT-I9: the hash chain is a topological order of the DAG, whatever threads append.
THEOREM ChainIsTopologicalOrder == LineageSpec => []LineageOrdered
<1>1. LineageInv => LineageOrdered
  BY DEF LineageInv
<1> QED  BY <1>1, LineageInvariant, PTL

\* The store's four structures agree, the append under way aside.
THEOREM StructuresAgree == LineageSpec => []IndexesAgree
<1>1. LineageInv => IndexesAgree
  BY DEF LineageInv
<1> QED  BY <1>1, LineageInvariant, PTL

-----------------------------------------------------------------------------
\* Every step of the store adds an attestation, or leaves the dictionary alone.
LEMMA LineageStepIsDagStep == [LineageNext]_lineageVars => [DagNext]_attestations
BY DEF LineageNext, lineageVars, DagNext, AppendStore, AppendStep, AppendEdge, AppendRoot,
       AppendLink

\* The store implements AttestationDag.
THEOREM LineageImplementsDag == LineageSpec => DagSpec
<1>1. LineageInit => DagInit
  BY DEF LineageInit
<1> QED  BY <1>1, LineageStepIsDagStep, PTL DEF LineageSpec, DagSpec

\* CT-I9 for the store itself: provenance never changes.
THEOREM LineageProvenance == LineageSpec => ProvenanceForever
BY LineageImplementsDag, ProvenanceIsForever

\* CT-I9, CT-I11: no edge is taken back, and the hash chain only grows at its end.
THEOREM LineageIsAppendOnly == LineageSpec => AppendOnly
<1> DEFINE Grows == /\ \A i \in Ids : children[i] \subseteq children'[i] /\ byIntentRoot[i] \subseteq byIntentRoot'[i]
                    /\ Len(chain') >= Len(chain)
                    /\ \A n \in 1..Len(chain) : chain'[n] = chain[n]
<1>1. LineageInv /\ [LineageNext]_lineageVars => [Grows]_lineageVars
  <2> SUFFICES ASSUME LineageInv, LineageNext PROVE Grows
    OBVIOUS
  <2>1. Len(chain) \in Nat /\ chain \in Seq(Link)
    BY DEF LineageInv, LineageTypeOK
  <2>2. ASSUME NEW t \in Threads, NEW id \in Ids, NEW a \in Attestation, AppendStore(t, id, a)
        PROVE  Grows
    BY <2>1, <2>2 DEF AppendStore
  <2>3. ASSUME NEW t \in Threads, AppendEdge(t) PROVE Grows
    BY <2>1, <2>3 DEF AppendEdge, LineageInv, LineageTypeOK
  <2>4. ASSUME NEW t \in Threads, AppendRoot(t) PROVE Grows
    BY <2>1, <2>4 DEF AppendRoot
  <2>5. ASSUME NEW t \in Threads, AppendLink(t) PROVE Grows
    <3>1. [id |-> appending[t].id, hash |-> Append(appending[t].prev, appending[t].id)] \in Link
      BY <2>5 DEF AppendLink, LineageInv, AppendOk, LineageTypeOK, AppendState, Link, Known
    <3> QED  BY <2>1, <2>5, <3>1 DEF AppendLink
  <2> QED  BY <2>2, <2>3, <2>4, <2>5 DEF LineageNext, AppendStep
<1> QED  BY <1>1, LineageInvariant, PTL DEF LineageSpec, AppendOnly

-----------------------------------------------------------------------------
(***************************************************************************)
(* Issuance                                                                *)
(***************************************************************************)
\* A call that has passed its checks and not appended yet: the checks still hold.  Its
\* id belongs to it alone.
CallOk(t) ==
  /\ issuing[t].pc \in {"checked", "signed"} =>
       /\ issuing[t].id \notin Known
       /\ issuing[t].att.preds \subseteq Known
       /\ issuing[t].att.intent \in Known \cup {None}
  /\ \A u \in Threads : u # t /\ issuing[t].pc # "idle" /\ issuing[u].pc # "idle" =>
       issuing[u].id # issuing[t].id

IssuanceInv ==
  /\ IssuanceTypeOK
  /\ LineageInv
  /\ \A t \in Threads : CallOk(t)

-----------------------------------------------------------------------------
\* A checked request makes a well-formed attestation.
LEMMA AttestType ==
  ASSUME NEW s \in Services, NEW r \in Request, NEW now \in 0..MaxClock
  PROVE  Attest(s, r, now) \in Attestation
<1>1. /\ r.type \in Types /\ r.tier \in Tiers /\ r.person \in People \cup {None}
      /\ r.intent \in Ids \cup {None} /\ r.preds \in SUBSET Ids
  BY DEF Request, Types
<1>2. Kind[s] \in {"service", "personal"}
  BY CeremonyAssumption
<1>3. Attest(s, r, now).payload \in Payload
  BY <1>1, <1>2, PayloadAssumption DEF Attest, IssuedPayload
<1> QED  BY <1>1, <1>3 DEF Attest, Attestation

\* No step of the store forgets an attestation.
LEMMA KnownGrows ==
  ASSUME LineageInv, [LineageNext]_lineageVars
  PROVE  Known \subseteq Known'
<1>1. [DagNext]_attestations /\ DagInv
  BY LineageStepIsDagStep DEF LineageInv
<1>2. \A i \in Known : attestations'[i] = attestations[i]
  BY <1>1, ProvenanceStep
<1> QED  BY <1>2 DEF Known

LEMMA IssuanceInvInit == IssuanceInit => IssuanceInv
<1> SUFFICES ASSUME IssuanceInit PROVE IssuanceInv
  OBVIOUS
<1>1. LineageInv
  BY LineageInvInit DEF IssuanceInit
<1>2. IssuanceTypeOK
  BY <1>1, CeremonyAssumption DEF IssuanceInit, IssuanceTypeOK, IssueState, LineageInv
<1>3. \A t \in Threads : CallOk(t)
  BY DEF IssuanceInit, CallOk, NotIssuing
<1> QED  BY <1>1, <1>2, <1>3 DEF IssuanceInv

LEMMA CheckKeepsIssuanceInv ==
  ASSUME IssuanceInv, NEW t \in Threads, NEW s \in Services, NEW r \in Request, NEW id \in Ids,
         IssueCheck(t, s, r, id)
  PROVE  IssuanceInv'
<1> DEFINE call == [pc |-> "checked", service |-> s, id |-> id, att |-> Attest(s, r, 0)]
<1>1. /\ UNCHANGED lineageVars /\ UNCHANGED <<clock, serviceLock>>
      /\ issuing' = [issuing EXCEPT ![t] = call]
  BY DEF IssueCheck
<1>2. LineageInv' /\ LineageTypeOK'
  BY <1>1, LineageInvStep DEF IssuanceInv, LineageInv
<1>3. /\ issuing'[t] = call
      /\ \A u \in Threads : u # t => issuing'[u] = issuing[u]
  BY <1>1 DEF IssuanceInv, IssuanceTypeOK
<1>4. call \in IssueState
  BY AttestType, CeremonyAssumption DEF IssueState
<1>5. IssuanceTypeOK'
  BY <1>1, <1>2, <1>4 DEF IssuanceInv, IssuanceTypeOK
<1>6. Known' = Known
  BY <1>1 DEF lineageVars, Known
<1>7. /\ id \notin Known
      /\ \A u \in Threads : issuing[u].pc # "idle" => issuing[u].id # id
      /\ r.preds \subseteq Known
      /\ r.intent \in Known \cup {None}
  BY DEF IssueCheck, FreshId, IntentRootOk, Request
<1>8. \A u \in Threads : CallOk(u)'
  BY <1>3, <1>6, <1>7 DEF IssuanceInv, CallOk, Attest
<1> QED  BY <1>2, <1>5, <1>8 DEF IssuanceInv

LEMMA SignKeepsIssuanceInv ==
  ASSUME IssuanceInv, NEW t \in Threads, IssueSign(t)
  PROVE  IssuanceInv'
<1>1. UNCHANGED lineageVars /\ UNCHANGED <<clock, serviceLock>>
  BY DEF IssueSign
<1>2. LineageInv' /\ LineageTypeOK'
  BY <1>1, LineageInvStep DEF IssuanceInv, LineageInv
<1>3. PICK old \in IssueState : old = issuing[t] /\ old.pc = "checked"
  BY DEF IssueSign, IssuanceInv, IssuanceTypeOK
<1>4. /\ old.service \in Services /\ old.id \in Ids /\ old.att \in Attestation
      /\ old = [pc |-> "checked", service |-> old.service, id |-> old.id, att |-> old.att]
  BY <1>3 DEF IssueState, NotIssuing
<1>5. PICK new : /\ new = NotIssuing \/ new = [old EXCEPT !.pc = "signed",
                                                        !.att.payload.issuedAt = clock]
                 /\ issuing' = [issuing EXCEPT ![t] = new]
  BY <1>3 DEF IssueSign, IssuanceInv, IssuanceTypeOK
<1>6. new \in IssueState /\ (new # NotIssuing => /\ new.pc = "signed" /\ new.id = old.id
                                               /\ new.att.preds = old.att.preds
                                               /\ new.att.intent = old.att.intent)
  <2>1. CASE new = NotIssuing
    BY <2>1 DEF IssueState
  <2>2. CASE new = [old EXCEPT !.pc = "signed", !.att.payload.issuedAt = clock]
    <3>1. old.att.payload \in IssuedPayload /\ clock \in 0..MaxClock
      BY <1>4, PayloadAssumption DEF Attestation, IssuanceInv, IssuanceTypeOK
    <3>2. [old.att.payload EXCEPT !.issuedAt = clock] \in Payload
      BY <3>1, PayloadAssumption DEF IssuedPayload
    <3>3. [old.att EXCEPT !.payload.issuedAt = clock] \in Attestation
      BY <3>2, <1>4 DEF Attestation
    <3> QED  BY <2>2, <3>3, <1>4 DEF IssueState, Attestation
  <2> QED  BY <2>1, <2>2, <1>5
<1>7. issuing'[t] = new /\ \A u \in Threads : u # t => issuing'[u] = issuing[u]
  BY <1>5 DEF IssuanceInv, IssuanceTypeOK
<1>8. IssuanceTypeOK'
  BY <1>1, <1>2, <1>5, <1>6 DEF IssuanceInv, IssuanceTypeOK
<1>9. Known' = Known
  BY <1>1 DEF lineageVars, Known
<1>10. \A u \in Threads : CallOk(u)'
  <2> SUFFICES ASSUME NEW u \in Threads PROVE CallOk(u)'
    OBVIOUS
  <2>1. \A w \in Threads : issuing'[w].pc # "idle" =>
          issuing[w].pc # "idle" /\ issuing'[w].id = issuing[w].id
    BY <1>3, <1>6, <1>7 DEF NotIssuing
  <2>2. CallOk(u)
    BY DEF IssuanceInv
  <2>3. CASE u # t
    BY <2>1, <2>2, <2>3, <1>7, <1>9 DEF CallOk
  <2>4. CASE u = t /\ new = NotIssuing
    BY <2>4, <1>7 DEF CallOk, NotIssuing
  <2>5. CASE u = t /\ new # NotIssuing
    BY <2>1, <2>2, <2>5, <1>3, <1>6, <1>7, <1>9 DEF CallOk
  <2> QED  BY <2>3, <2>4, <2>5
<1> QED  BY <1>2, <1>8, <1>10 DEF IssuanceInv

\* The append: of the calls under way only this one has the id it stores.
LEMMA AppendKeepsIssuanceInv ==
  ASSUME IssuanceInv, NEW t \in Threads, IssueAppend(t)
  PROVE  IssuanceInv'
<1>1. PICK call \in IssueState : call = issuing[t] /\ call.pc = "signed"
  BY DEF IssueAppend, IssuanceInv, IssuanceTypeOK
<1>2. call.service \in Services /\ call.id \in Ids /\ call.att \in Attestation
  BY <1>1 DEF IssueState, NotIssuing
<1>3. /\ AppendStore(t, call.id, call.att)
      /\ serviceLock' = [serviceLock EXCEPT ![call.service] = t]
      /\ issuing' = [issuing EXCEPT ![t].pc = "appending"]
      /\ UNCHANGED clock
  BY <1>1 DEF IssueAppend
<1>4. LineageNext
  BY <1>2, <1>3 DEF LineageNext
<1>5. LineageInv' /\ LineageTypeOK'
  BY <1>4, LineageInvStep DEF IssuanceInv, LineageInv
<1>6. /\ issuing'[t] = [call EXCEPT !.pc = "appending"]
      /\ \A u \in Threads : u # t => issuing'[u] = issuing[u]
  BY <1>1, <1>3 DEF IssuanceInv, IssuanceTypeOK
<1>7. [call EXCEPT !.pc = "appending"] \in IssueState
  BY <1>1 DEF IssueState, NotIssuing
<1>8. IssuanceTypeOK'
  BY <1>1, <1>3, <1>5, <1>7 DEF IssuanceInv, IssuanceTypeOK
<1>9. Known' = Known \cup {call.id}
  BY <1>2, <1>3, AddKeepsKnown DEF AppendStore, IssuanceInv, LineageInv, DagInv
<1>10. /\ [call EXCEPT !.pc = "appending"].pc = "appending"
       /\ [call EXCEPT !.pc = "appending"].id = call.id
  BY <1>1 DEF IssueState, NotIssuing
<1>11. \A u \in Threads : CallOk(u)'
  <2> SUFFICES ASSUME NEW u \in Threads PROVE CallOk(u)'
    OBVIOUS
  <2>1. \A w \in Threads : issuing'[w].pc # "idle" =>
          issuing[w].pc # "idle" /\ issuing'[w].id = issuing[w].id
    BY <1>1, <1>6, <1>10
  <2>2. CallOk(u)
    BY DEF IssuanceInv
  <2>3. CASE u # t
    BY <2>1, <2>2, <2>3, <1>1, <1>6, <1>9 DEF CallOk
  <2>4. CASE u = t
    BY <2>1, <2>2, <2>4, <1>1, <1>6, <1>10 DEF CallOk
  <2> QED  BY <2>3, <2>4
<1> QED  BY <1>5, <1>8, <1>11 DEF IssuanceInv

\* The rest of append(), the return and the clock leave the calls' checks alone.
LEMMA OtherStepsKeepIssuanceInv ==
  ASSUME IssuanceInv, [LineageNext]_lineageVars,
         clock' \in 0..MaxClock, serviceLock' \in [Services -> Threads \cup {None}],
         issuing' \in [Threads -> IssueState],
         \A u \in Threads : issuing'[u] = issuing[u] \/ issuing'[u] = NotIssuing,
         Known' = Known
  PROVE  IssuanceInv'
<1>1. LineageInv' /\ LineageTypeOK'
  BY LineageInvStep DEF IssuanceInv, LineageInv
<1>2. IssuanceTypeOK'
  BY <1>1 DEF IssuanceTypeOK
<1>3. \A u \in Threads : CallOk(u)'
  BY DEF IssuanceInv, CallOk, NotIssuing
<1> QED  BY <1>1, <1>2, <1>3 DEF IssuanceInv

LEMMA IssuanceInvStep == IssuanceInv /\ [IssuanceNext]_issuanceVars => IssuanceInv'
<1> SUFFICES ASSUME IssuanceInv, [IssuanceNext]_issuanceVars PROVE IssuanceInv'
  OBVIOUS
<1>1. /\ clock \in 0..MaxClock /\ MaxClock \in Nat /\ IssuanceTypeOK
      /\ serviceLock \in [Services -> Threads \cup {None}] /\ issuing \in [Threads -> IssueState]
  BY CeremonyAssumption DEF IssuanceInv, IssuanceTypeOK
<1>2. ASSUME NEW t \in Threads, NEW s \in Services, NEW r \in Request, NEW id \in Ids,
             IssueCheck(t, s, r, id)
      PROVE  IssuanceInv'
  BY <1>2, CheckKeepsIssuanceInv
<1>3. ASSUME NEW t \in Threads, IssueSign(t) \/ IssueAppend(t) PROVE IssuanceInv'
  BY <1>3, SignKeepsIssuanceInv, AppendKeepsIssuanceInv
<1>4. ASSUME NEW t \in Threads, IssueAppendStep(t) PROVE IssuanceInv'
  <2>1. LineageNext /\ UNCHANGED <<clock, issuing, serviceLock>>
    BY <1>4 DEF IssueAppendStep, LineageNext
  <2>2. Known' = Known
    BY <1>4 DEF IssueAppendStep, AppendStep, AppendEdge, AppendRoot, AppendLink, Known
  <2>3. LineageTypeOK'
    BY <2>1, LineageInvStep DEF IssuanceInv, LineageInv
  <2> QED  BY <2>1, <2>2, <2>3, <1>1, OtherStepsKeepIssuanceInv
<1>5. ASSUME NEW t \in Threads, IssueReturn(t) PROVE IssuanceInv'
  <2>1. UNCHANGED lineageVars /\ UNCHANGED clock
    BY <1>5 DEF IssueReturn
  <2>2. LineageTypeOK' /\ Known' = Known
    BY <2>1, LineageInvStep DEF IssuanceInv, LineageInv, lineageVars, Known
  <2>3. /\ issuing' \in [Threads -> IssueState]
        /\ \A u \in Threads : issuing'[u] = issuing[u] \/ issuing'[u] = NotIssuing
        /\ serviceLock' \in [Services -> Threads \cup {None}]
    BY <1>1, <1>5 DEF IssueReturn, IssueState
  <2> QED  BY <2>1, <2>2, <2>3, <1>1, OtherStepsKeepIssuanceInv
<1>6. CASE Tick \/ UNCHANGED issuanceVars
  <2>1. UNCHANGED lineageVars /\ clock' \in 0..MaxClock /\ UNCHANGED <<issuing, serviceLock>>
    BY <1>1, <1>6 DEF Tick, issuanceVars
  <2>2. LineageTypeOK' /\ Known' = Known
    BY <2>1, LineageInvStep DEF IssuanceInv, LineageInv, lineageVars, Known
  <2> QED  BY <2>1, <2>2, <1>1, OtherStepsKeepIssuanceInv
<1> QED  BY <1>2, <1>3, <1>4, <1>5, <1>6 DEF IssuanceNext

LEMMA IssuanceInvariant == IssuanceSpec => []IssuanceInv
BY IssuanceInvInit, IssuanceInvStep, PTL DEF IssuanceSpec

-----------------------------------------------------------------------------
\* The service's variables keep their types.
THEOREM IssuanceTypeCorrect == IssuanceSpec => []IssuanceTypeOK
<1>1. IssuanceInv => IssuanceTypeOK
  BY DEF IssuanceInv
<1> QED  BY <1>1, IssuanceInvariant, PTL

\* The hash chain stays a topological order when services append.
THEOREM IssuedInOrder == IssuanceSpec => []LineageOrdered
<1>1. IssuanceInv => LineageOrdered
  BY DEF IssuanceInv, LineageInv
<1> QED  BY <1>1, IssuanceInvariant, PTL

\* No signature without a record: append() never refuses what issue() has signed.
THEOREM SignedIsNeverRefused == IssuanceSpec => []SignedNeverRefused
<1>1. IssuanceInv => SignedNeverRefused
  BY DEF IssuanceInv, CallOk, SignedNeverRefused, Accepts
<1> QED  BY <1>1, IssuanceInvariant, PTL

-----------------------------------------------------------------------------
\* What the ceremony asks of one attestation.
Met(a) ==
  LET tier == Ceremony[a.payload.tier]
      reviews == {p \in a.preds : TypeOf(p) = "review"}
  IN /\ a.payload.type # "intent_root" => a.intent \in Known /\ TypeOf(a.intent) = "intent_root"
     /\ a.payload.type = "approval" =>
          /\ tier.review /\ tier.minReviewers > 0 => reviews # {}
          /\ tier.distinct => \A p \in reviews : attestations[p].payload.person # a.payload.person
     /\ a.payload.type = "review" /\ tier.auth # "session" => a.payload.kind = "personal"

\* The ceremony is met from the moment the request has passed the checks: by what is in
\* the lineage and by what is on its way there.
CeremonyInv ==
  /\ IssuanceInv
  /\ \A i \in Known : Met(attestations[i])
  /\ \A t \in Threads : issuing[t].pc \in {"checked", "signed"} => Met(issuing[t].att)

\* A request that passes the checks meets the ceremony.
LEMMA CheckedIsMet ==
  ASSUME NEW s \in Services, NEW r \in Request, NEW now, IntentRootOk(r), CeremonyOk(s, r)
  PROVE  Met(Attest(s, r, now))
<1> DEFINE tier == Ceremony[r.tier]
<1>1. /\ r.tier \in Tiers /\ tier \in TierRequirements
      /\ r.copies \in Nat /\ r.preds \in SUBSET Ids
  <2>1. r.tier \in Tiers /\ r.copies \in Nat /\ r.preds \in SUBSET Ids
    BY DEF Request
  <2> QED  BY <2>1, CeremonyAssumption
<1>2. tier.minReviewers \in Nat /\ tier.auth \in {"session", "personal", "personal_fresh"}
  BY <1>1 DEF TierRequirements
<1>3. ASSUME r.type = "approval", tier.review, tier.minReviewers > 0
      PROVE  Reviews(r) # {}
  <2> SUFFICES ASSUME Reviews(r) = {} PROVE FALSE
    OBVIOUS
  <2>1. Cardinality(Reviews(r)) = 0
    BY FS_EmptySet
  <2>2. ReviewCount(r) = 0
    BY <1>1, <2>1 DEF ReviewCount
  <2>3. ReviewCount(r) >= tier.minReviewers
    BY <1>3 DEF CeremonyOk
  <2> QED  BY <1>2, <1>3, <2>2, <2>3
<1>4. /\ Attest(s, r, now).payload.type = r.type /\ Attest(s, r, now).payload.tier = r.tier
      /\ Attest(s, r, now).payload.person = r.person /\ Attest(s, r, now).payload.kind = Kind[s]
      /\ Attest(s, r, now).preds = r.preds /\ Attest(s, r, now).intent = r.intent
  BY DEF Attest
<1>5. r.type # "intent_root" => r.intent \in Known /\ TypeOf(r.intent) = "intent_root"
  BY DEF IntentRootOk
<1>6. r.type = "approval" /\ tier.distinct =>
        \A p \in Reviews(r) : attestations[p].payload.person # r.person
  BY DEF CeremonyOk
<1>7. r.type = "review" /\ tier.auth # "session" => Kind[s] = "personal"
  BY <1>2 DEF CeremonyOk
<1> QED  BY <1>3, <1>4, <1>5, <1>6, <1>7 DEF Met, Reviews

\* What an attestation was measured against does not change.
LEMMA MetKept ==
  ASSUME LineageInv, [LineageNext]_lineageVars, NEW a,
         a.preds \subseteq Known, Met(a)
  PROVE  Met(a)'
<1>1. [DagNext]_attestations /\ DagInv
  BY LineageStepIsDagStep DEF LineageInv
<1>2. \A i \in Known : attestations'[i] = attestations[i] /\ TypeOf(i)' = TypeOf(i)
  BY <1>1, ProvenanceStep DEF TypeOf
<1>3. Known \subseteq Known'
  BY KnownGrows
<1>4. {p \in a.preds : TypeOf(p)' = "review"} = {p \in a.preds : TypeOf(p) = "review"}
  BY <1>2
<1> QED  BY <1>2, <1>3, <1>4 DEF Met

\* What is stored stays as it was measured, through any step of the store.
LEMMA StoredStayMet ==
  ASSUME CeremonyInv, [LineageNext]_lineageVars, NEW i \in Known
  PROVE  Met(attestations[i])'
<1>1. /\ LineageInv /\ DagInv /\ [DagNext]_attestations
  BY LineageStepIsDagStep DEF CeremonyInv, IssuanceInv, LineageInv
<1>2. PICK a : a = attestations[i]
  OBVIOUS
<1>3. attestations'[i] = a
  BY <1>1, <1>2, ProvenanceStep
<1>4. a.preds \subseteq Known
  BY <1>1, <1>2 DEF DagInv, NoDanglingReference, Upstream, Known
<1>5. Met(a)
  BY <1>2 DEF CeremonyInv
<1>6. Met(a)'
  BY <1>1, <1>4, <1>5, MetKept
<1> QED  BY <1>3, <1>6 DEF Met

\* A call that a step leaves alone, or ends, still meets the ceremony.
LEMMA CallsStayMet ==
  ASSUME CeremonyInv, [LineageNext]_lineageVars, NEW u \in Threads,
         issuing'[u].pc \in {"checked", "signed"}, issuing'[u] = issuing[u]
  PROVE  Met(issuing[u].att)'
<1>1. LineageInv /\ issuing[u].att.preds \subseteq Known /\ Met(issuing[u].att)
  BY DEF CeremonyInv, IssuanceInv, CallOk
<1>2. PICK a : a = issuing[u].att
  OBVIOUS
<1>3. Met(a)'
  BY <1>1, <1>2, MetKept
<1> QED  BY <1>2, <1>3 DEF Met

LEMMA CeremonyInvStep == CeremonyInv /\ [IssuanceNext]_issuanceVars => CeremonyInv'
<1> SUFFICES ASSUME CeremonyInv, [IssuanceNext]_issuanceVars PROVE CeremonyInv'
  OBVIOUS
<1>1. IssuanceInv /\ IssuanceInv' /\ LineageInv /\ issuing \in [Threads -> IssueState]
  BY IssuanceInvStep DEF CeremonyInv, IssuanceInv, IssuanceTypeOK
<1>2. ASSUME UNCHANGED lineageVars,
             \A u \in Threads : issuing'[u].pc \in {"checked", "signed"} => Met(issuing[u].att)'
      PROVE  CeremonyInv'
  <2>1. Known' = Known
    BY <1>2 DEF lineageVars, Known
  <2> QED  BY <1>1, <1>2, <2>1, StoredStayMet DEF CeremonyInv
<1>3. ASSUME NEW t \in Threads, NEW s \in Services, NEW r \in Request, NEW id \in Ids,
             IssueCheck(t, s, r, id)
      PROVE  CeremonyInv'
  <2>1. UNCHANGED lineageVars
    BY <1>3 DEF IssueCheck
  <2>2. PICK a : a = Attest(s, r, 0)
    OBVIOUS
  <2>3. Met(a) /\ a.preds \subseteq Known
    BY <1>3, <2>2, CheckedIsMet DEF IssueCheck, Attest
  <2>4. Met(a)'
    BY <1>1, <2>1, <2>3, MetKept
  <2>5. issuing'[t].att = a /\ \A u \in Threads : u # t => issuing'[u] = issuing[u]
    BY <1>1, <1>3, <2>2 DEF IssueCheck
  <2>6. \A u \in Threads : issuing'[u].pc \in {"checked", "signed"} => Met(issuing[u].att)'
    <3>1. Met(issuing[t].att)'
      BY <2>4, <2>5 DEF Met
    <3> QED  BY <2>1, <2>5, <3>1, CallsStayMet
  <2> QED  BY <1>2, <2>1, <2>6
<1>4. ASSUME NEW t \in Threads, IssueSign(t) PROVE CeremonyInv'
  <2>1. UNCHANGED lineageVars
    BY <1>4 DEF IssueSign
  <2>2. PICK old \in IssueState : old = issuing[t] /\ old.pc = "checked"
    BY <1>1, <1>4 DEF IssueSign
  <2>3. /\ old.att \in Attestation
        /\ old = [pc |-> "checked", service |-> old.service, id |-> old.id, att |-> old.att]
    BY <2>2 DEF IssueState, NotIssuing
  <2>4. /\ old.att.payload \in IssuedPayload
        /\ old.att = [intent |-> old.att.intent, preds |-> old.att.preds, payload |-> old.att.payload]
    BY <2>3, PayloadAssumption DEF Attestation
  <2>5. PICK p : p = [old.att.payload EXCEPT !.issuedAt = clock]
    OBVIOUS
  <2>6. /\ p.type = old.att.payload.type /\ p.tier = old.att.payload.tier
        /\ p.person = old.att.payload.person /\ p.kind = old.att.payload.kind
    BY <2>4, <2>5 DEF IssuedPayload
  <2>7. PICK a : a = [intent |-> old.att.intent, preds |-> old.att.preds, payload |-> p]
    OBVIOUS
  <2>8. Met(a) /\ a.preds \subseteq Known
    <3>1. Met(old.att) /\ old.att.preds \subseteq Known
      BY <1>1, <2>2 DEF CeremonyInv, IssuanceInv, CallOk
    <3> QED  BY <2>6, <2>7, <3>1 DEF Met
  <2>9. Met(a)'
    BY <1>1, <2>1, <2>8, MetKept
  <2>10. CASE issuing' = [issuing EXCEPT ![t] = NotIssuing]
    <3>1. issuing'[t] = NotIssuing /\ \A u \in Threads : u # t => issuing'[u] = issuing[u]
      BY <1>1, <2>10
    <3>2. \A u \in Threads : issuing'[u].pc \in {"checked", "signed"} => Met(issuing[u].att)'
      BY <2>1, <3>1, CallsStayMet DEF NotIssuing
    <3> QED  BY <1>2, <2>1, <3>2
  <2>11. CASE issuing' = [issuing EXCEPT ![t].pc = "signed", ![t].att.payload.issuedAt = clock]
    <3>1. /\ issuing'[t] = [old EXCEPT !.pc = "signed", !.att.payload.issuedAt = clock]
          /\ \A u \in Threads : u # t => issuing'[u] = issuing[u]
      BY <1>1, <2>2, <2>11
    <3>2. [old.att EXCEPT !.payload.issuedAt = clock] = a
      BY <2>4, <2>5, <2>7
    <3>3. issuing'[t].att = a
      BY <2>3, <3>1, <3>2
    <3>4. \A u \in Threads : issuing'[u].pc \in {"checked", "signed"} => Met(issuing[u].att)'
      <4>1. Met(issuing[t].att)'
        BY <2>9, <3>3 DEF Met
      <4> QED  BY <2>1, <3>1, <4>1, CallsStayMet
    <3> QED  BY <1>2, <2>1, <3>4
  <2> QED  BY <1>4, <2>10, <2>11 DEF IssueSign
<1>5. ASSUME NEW t \in Threads, IssueAppend(t) PROVE CeremonyInv'
  <2>1. PICK call \in IssueState : call = issuing[t] /\ call.pc = "signed"
    BY <1>1, <1>5 DEF IssueAppend
  <2>2. call.id \in Ids /\ call.att \in Attestation
    BY <2>1 DEF IssueState, NotIssuing
  <2>3. AppendStore(t, call.id, call.att)
    BY <1>5, <2>1 DEF IssueAppend
  <2>4. LineageNext
    BY <2>2, <2>3 DEF LineageNext
  <2>5. /\ Known' = Known \cup {call.id} /\ attestations'[call.id] = call.att
    BY <1>1, <2>2, <2>3, AddKeepsKnown DEF AppendStore, LineageInv, DagInv, DagTypeOK, Add
  <2>6. Met(call.att)'
    BY <1>1, <2>1, <2>4, MetKept DEF CeremonyInv, IssuanceInv, CallOk
  <2>7. \A i \in Known' : Met(attestations[i])'
    <3>1. Met(attestations[call.id])'
      BY <2>5, <2>6 DEF Met
    <3> QED  BY <2>4, <2>5, <3>1, StoredStayMet
  <2>8. issuing'[t].pc = "appending" /\ \A u \in Threads : u # t => issuing'[u] = issuing[u]
    <3>1. issuing' = [issuing EXCEPT ![t].pc = "appending"]
      BY <1>5 DEF IssueAppend
    <3> QED  BY <1>1, <2>1, <3>1 DEF IssueState, NotIssuing
  <2>9. \A u \in Threads : issuing'[u].pc \in {"checked", "signed"} => Met(issuing[u].att)'
    BY <2>4, <2>8, CallsStayMet
  <2> QED  BY <1>1, <2>7, <2>9 DEF CeremonyInv
<1>6. ASSUME NEW t \in Threads, IssueAppendStep(t) PROVE CeremonyInv'
  <2>1. LineageNext /\ UNCHANGED issuing
    BY <1>6 DEF IssueAppendStep, LineageNext
  <2>2. Known' = Known
    BY <1>6 DEF IssueAppendStep, AppendStep, AppendEdge, AppendRoot, AppendLink, Known
  <2> QED  BY <1>1, <2>1, <2>2, StoredStayMet, CallsStayMet DEF CeremonyInv
<1>7. ASSUME NEW t \in Threads, IssueReturn(t) PROVE CeremonyInv'
  <2>1. UNCHANGED lineageVars
    BY <1>7 DEF IssueReturn
  <2>2. \A u \in Threads : issuing'[u] = issuing[u] \/ issuing'[u] = NotIssuing
    BY <1>1, <1>7 DEF IssueReturn
  <2> QED  BY <1>2, <2>1, <2>2, CallsStayMet DEF NotIssuing
<1>8. CASE Tick \/ UNCHANGED issuanceVars
  <2>1. UNCHANGED lineageVars /\ UNCHANGED issuing
    BY <1>8 DEF Tick, issuanceVars
  <2> QED  BY <1>2, <2>1, CallsStayMet
<1> QED  BY <1>3, <1>4, <1>5, <1>6, <1>7, <1>8 DEF IssuanceNext

\* CT-I2, CT-I8: every attestation in the lineage met its tier's ceremony, for any table
\* of tiers, any services and any number of calls between a check and its append
\* (service.py:64-77, 172-216).
THEOREM CeremonyIsMet == IssuanceSpec => []CeremonyMet
<1>1. IssuanceInit => CeremonyInv
  <2> SUFFICES ASSUME IssuanceInit PROVE CeremonyInv
    OBVIOUS
  <2>1. IssuanceInv
    BY IssuanceInvInit
  <2>2. Known = {} /\ \A t \in Threads : issuing[t].pc = "idle"
    BY DEF IssuanceInit, LineageInit, DagInit, Known, NotIssuing
  <2> QED  BY <2>1, <2>2 DEF CeremonyInv
<1>2. CeremonyInv => CeremonyMet
  BY DEF CeremonyInv, CeremonyMet, Met
<1> QED  BY <1>1, <1>2, CeremonyInvStep, PTL DEF IssuanceSpec

-----------------------------------------------------------------------------
(***************************************************************************)
(* Cascades                                                                *)
(***************************************************************************)
\* What is below the root of a call when it begins: all of it is linked, and whatever
\* lies between it and the root is promised as well.
PromiseOk(c) ==
  /\ c.root \in Ids /\ c.target \in Ids
  /\ \A d \in c.promised :
       /\ d # c.root /\ c.root \in Lineal(d) /\ Linked(d) # {}
       /\ \A p \in Upstream(d) : c.root \in Lineal(p) => p = c.root \/ p \in c.promised

\* The walk and the loop only come to what is derived from the root.
ReachOk(c) ==
  /\ \A x \in c.seen \cup c.frontier \cup c.todo \cup {c.target} : c.root \in Lineal(x)
  /\ c.root \notin c.todo

\* How far the call is: the root first; then the walk, which has its children's children
\* still to come; then the loop, whose list and whose revocations hold all it promised.
ProgressOk(c) ==
  /\ c.pc \in {"revoke", "insert"} /\ c.target = c.root =>
       c.seen = {} /\ c.frontier = {} /\ c.todo = {}
  /\ c.pc \in {"walk", "mark"} \/ c.target # c.root => c.root \in Revoked
  /\ c.pc = "walk" =>
       /\ c.root \in c.seen \cup c.frontier
       /\ \A x \in c.seen, d \in c.promised : x \in Upstream(d) => d \in c.seen \cup c.frontier
  /\ c.pc = "mark" => c.promised \subseteq Revoked \cup c.todo
  /\ c.pc \in {"revoke", "insert"} /\ c.target # c.root =>
       c.promised \subseteq Revoked \cup c.todo \cup {c.target}

\* The call of revoke() a cascade is inside, and what it is about to store.
InsideRevoke(t) ==
  /\ cascade[t].pc = "insert" <=> revoking[t].pc = "insert"
  /\ revoking[t].pc = "insert" =>
       /\ revoking[t].id = cascade[t].target
       /\ revoking[t].derivative = (cascade[t].target # cascade[t].root)

CascadeOk(t) ==
  /\ cascade[t].pc # "idle" =>
       PromiseOk(cascade[t]) /\ ReachOk(cascade[t]) /\ ProgressOk(cascade[t])
  /\ InsideRevoke(t)

CascadeInv ==
  /\ LineageInv
  /\ IndexInv
  /\ cascade \in [Revokers -> CascadeState]
  /\ cascades \in Nat
  /\ \A t \in Revokers : CascadeOk(t)
  /\ DerivativeHasRevokedOrigin

-----------------------------------------------------------------------------
\* What an ancestor is derived from, its descendant is derived from.
LEMMA LinealTransitive ==
  ASSUME DagTypeOK, NEW x \in Ids, NEW y \in Lineal(x)
  PROVE  Lineal(y) \subseteq Lineal(x)
<1>1. y \in Ids /\ Lineal(x) \in SUBSET Ids
  BY LinealSelf
<1> QED  BY <1>1, LinealClosed, LinealLeast

\* An id that is not in the lineage is derived from nothing.
LEMMA LinealUnknown ==
  ASSUME NEW x \in Ids \ Known
  PROVE  Lineal(x) = {x}
<1>1. Upstream(x) = {}
  BY DEF Known, Upstream
<1>2. Lineal(x) \subseteq {x}
  BY <1>1, LinealLeast
<1> QED  BY <1>2, LinealSelf

\* No step of the store takes provenance away, and what is stored keeps its own.
LEMMA LinealGrows ==
  ASSUME LineageInv, [LineageNext]_lineageVars
  PROVE  /\ \A x \in Ids : Lineal(x) \subseteq Lineal(x)'
         /\ \A x \in Known : Lineal(x)' = Lineal(x) /\ Upstream(x)' = Upstream(x)
<1>1. [DagNext]_attestations /\ DagInv
  BY LineageStepIsDagStep DEF LineageInv
<1>2. \A x \in Known : attestations'[x] = attestations[x] /\ Lineal(x)' = Lineal(x)
  BY <1>1, ProvenanceStep
<1>3. \A x \in Ids : x \in Lineal(x)'
  BY DEF Lineal, Closure
<1>4. \A x \in Ids : Lineal(x) \subseteq Lineal(x)'
  BY <1>2, <1>3, LinealUnknown
<1> QED  BY <1>2, <1>4 DEF Upstream

\* A linked attestation is stored, its references are linked before it, and its edges
\* are all there.
LEMMA LinkedIsComplete ==
  ASSUME LineageInv, NEW d \in Ids, Linked(d) # {}
  PROVE  d \in Known /\ \A p \in Upstream(d) : Linked(p) # {} /\ d \in children[p]
<1>1. PICK n \in 1..Len(chain) : chain[n].id = d
  BY DEF Linked
<1>2. d \in Known
  BY <1>1 DEF LineageInv, IndexesAgree, ValidateChain
<1>3. ASSUME NEW p \in Upstream(d) PROVE Linked(p) # {}
  <2>1. PICK m \in 1..(n - 1) : chain[m].id = p
    BY <1>1, <1>3 DEF LineageInv, LineageOrdered
  <2>2. Len(chain) \in Nat
    BY DEF LineageInv, LineageTypeOK
  <2> QED  BY <2>1, <2>2 DEF Linked
<1>4. ASSUME NEW p \in Upstream(d) PROVE d \in children[p]
  <2>1. ASSUME NEW u \in Threads, appending[u].id = d PROVE appending[u].todo = {}
    BY <2>1 DEF LineageInv, AppendOk
  <2> QED  BY <1>2, <1>4, <2>1 DEF LineageInv, IndexesAgree
<1> QED  BY <1>2, <1>3, <1>4

\* What is linked stays linked.
LEMMA LinkedGrows ==
  ASSUME LineageInv, [LineageNext]_lineageVars, NEW d, Linked(d) # {}
  PROVE  Linked(d)' # {}
<1>1. CASE UNCHANGED chain
  BY <1>1 DEF Linked
<1>2. ASSUME NEW t \in Threads, AppendLink(t) PROVE Linked(d)' # {}
  <2>1. PICK link : chain' = Append(chain, link)
    BY <1>2 DEF AppendLink
  <2>2. Len(chain) \in Nat /\ Len(chain') = Len(chain) + 1
        /\ \A n \in 1..Len(chain) : chain'[n] = chain[n]
    BY <2>1 DEF LineageInv, LineageTypeOK
  <2> QED  BY <2>2 DEF Linked
<1> QED
  BY <1>1, <1>2 DEF LineageNext, lineageVars, AppendStep, AppendStore, AppendEdge, AppendRoot

-----------------------------------------------------------------------------
\* What is promised stays well below the root, whatever the store does.
LEMMA PromiseKept ==
  ASSUME LineageInv, [LineageNext]_lineageVars, NEW c \in CascadeState, PromiseOk(c)
  PROVE  PromiseOk(c)'
<1>1. ASSUME NEW d \in c.promised
      PROVE  /\ d # c.root /\ c.root \in Lineal(d)' /\ Linked(d)' # {}
             /\ \A p \in Upstream(d)' : c.root \in Lineal(p)' => p = c.root \/ p \in c.promised
  <2>1. d \in Ids /\ Linked(d) # {} /\ c.root \in Lineal(d) /\ d # c.root
    BY DEF CascadeState, PromiseOk
  <2>2. d \in Known
    BY <2>1, LinkedIsComplete
  <2>3. Lineal(d)' = Lineal(d) /\ Upstream(d)' = Upstream(d)
    BY <2>2, LinealGrows
  <2>4. \A p \in Upstream(d) : Lineal(p)' = Lineal(p)
    BY <2>2, LinealGrows DEF LineageInv, DagInv, NoDanglingReference
  <2>5. Linked(d)' # {}
    BY <2>1, LinkedGrows
  <2> QED  BY <2>1, <2>3, <2>4, <2>5 DEF PromiseOk
<1> QED  BY <1>1 DEF PromiseOk

LEMMA ReachKept ==
  ASSUME LineageInv, [LineageNext]_lineageVars, NEW c \in CascadeState, c.target \in Ids,
         ReachOk(c)
  PROVE  ReachOk(c)'
<1>1. c.seen \cup c.frontier \cup c.todo \cup {c.target} \subseteq Ids
  BY DEF CascadeState
<1> QED  BY <1>1, LinealGrows DEF ReachOk

LEMMA ProgressKept ==
  ASSUME LineageInv, [LineageNext]_lineageVars, NEW c \in CascadeState, PromiseOk(c),
         ProgressOk(c), Revoked \subseteq Revoked'
  PROVE  ProgressOk(c)'
<1>1. ASSUME NEW d \in c.promised PROVE Upstream(d)' = Upstream(d)
  <2>1. d \in Known
    BY LinkedIsComplete DEF CascadeState, PromiseOk
  <2> QED  BY <2>1, LinealGrows
<1> QED  BY <1>1 DEF ProgressOk

\* A call that a step leaves alone.
LEMMA CascadeOkKept ==
  ASSUME LineageInv, [LineageNext]_lineageVars, Revoked \subseteq Revoked',
         NEW u \in Revokers, cascade[u] \in CascadeState, CascadeOk(u),
         cascade'[u] = cascade[u], revoking'[u] = revoking[u]
  PROVE  CascadeOk(u)'
<1>1. PICK c \in CascadeState : c = cascade[u]
  OBVIOUS
<1>2. InsideRevoke(u)'
  BY DEF CascadeOk, InsideRevoke
<1>3. ASSUME c.pc # "idle" PROVE PromiseOk(c)' /\ ReachOk(c)' /\ ProgressOk(c)'
  BY <1>1, <1>3, PromiseKept, ReachKept, ProgressKept DEF CascadeOk, PromiseOk
<1> QED  BY <1>1, <1>2, <1>3 DEF CascadeOk

\* No append makes a derivative lose its origin.
LEMMA OriginKept ==
  ASSUME LineageInv, [LineageNext]_lineageVars, UNCHANGED entries, DerivativeHasRevokedOrigin
  PROVE  DerivativeHasRevokedOrigin'
<1>1. Revoked' = Revoked
  BY DEF Revoked
<1>2. \A d \in Revoked : Lineal(d) \subseteq Lineal(d)'
  BY LinealGrows DEF Revoked
<1> QED  BY <1>1, <1>2 DEF DerivativeHasRevokedOrigin

\* When the walk has run out of vertices, it has seen everything promised: what it had
\* not seen would have a way back to the root that avoids every vertex seen.
LEMMA WalkIsComplete ==
  ASSUME LineageInv, NEW c \in CascadeState, PromiseOk(c), ProgressOk(c), c.pc = "walk",
         c.frontier = {}
  PROVE  c.promised \subseteq c.seen
<1> SUFFICES ASSUME NEW d \in c.promised, d \notin c.seen PROVE FALSE
  OBVIOUS
<1> DEFINE S == {z \in Ids : z \in c.promised \ c.seen \/ c.root \notin Lineal(z)}
<1>1. DagTypeOK /\ c.root \in Ids /\ d \in Ids /\ d \in S /\ c.root \in c.seen
  BY DEF LineageInv, DagInv, CascadeState, PromiseOk, ProgressOk
<1>2. ASSUME NEW z \in S, NEW w \in Upstream(z) PROVE w \in S
  <2>1. w \in Ids
    BY <1>1, UpstreamType
  <2>2. CASE c.root \notin Lineal(z)
    <3>1. w \in Lineal(z)
      BY <1>1, LinealSelf, LinealClosed
    <3>2. Lineal(w) \subseteq Lineal(z)
      BY <1>1, <3>1, LinealTransitive
    <3> QED  BY <2>1, <2>2, <3>2
  <2>3. CASE z \in c.promised \ c.seen /\ c.root \in Lineal(w)
    <3>1. w = c.root \/ w \in c.promised
      BY <2>3 DEF PromiseOk
    <3>2. w \notin c.seen
      BY <2>3 DEF ProgressOk
    <3> QED  BY <2>1, <3>1, <3>2, <1>1
  <2> QED  BY <2>1, <2>2, <2>3
<1>3. c.root \in S
  BY <1>1, <1>2, LinealLeast DEF PromiseOk
<1> QED  BY <1>1, <1>3, LinealSelf DEF PromiseOk

\* A step of a call that leaves the store alone: what has to be shown of the call's new
\* state, and the other calls follow.
LEMMA CallStep ==
  ASSUME CascadeInv, UNCHANGED lineageVars, IndexInv', Revoked \subseteq Revoked',
         cascades' \in Nat,
         NEW t \in Revokers, NEW n \in CascadeState, cascade' = [cascade EXCEPT ![t] = n],
         \A u \in Revokers : u # t => revoking'[u] = revoking[u],
         n.pc # "idle" => PromiseOk(n) /\ ReachOk(n) /\ ProgressOk(n)',
         InsideRevoke(t)', DerivativeHasRevokedOrigin'
  PROVE  CascadeInv'
<1>1. [LineageNext]_lineageVars /\ LineageInv /\ LineageInv'
  BY LineageInvStep DEF CascadeInv
<1>2. cascade' \in [Revokers -> CascadeState] /\ cascade'[t] = n
  BY DEF CascadeInv
<1>3. CascadeOk(t)'
  BY <1>1, <1>2, PromiseKept, ReachKept DEF CascadeOk, PromiseOk
<1>4. ASSUME NEW u \in Revokers, u # t PROVE CascadeOk(u)'
  <2>1. cascade'[u] = cascade[u] /\ revoking'[u] = revoking[u] /\ cascade[u] \in CascadeState
        /\ CascadeOk(u)
    BY <1>4 DEF CascadeInv
  <2> QED  BY <1>1, <2>1, CascadeOkKept
<1> QED  BY <1>1, <1>2, <1>3, <1>4 DEF CascadeInv

\* The call as a constant, with what is known of it.
LEMMA TheCall ==
  ASSUME CascadeInv, NEW t \in Revokers
  PROVE  \E c \in CascadeState :
           /\ c = cascade[t]
           /\ c = [pc |-> c.pc, root |-> c.root, target |-> c.target, frontier |-> c.frontier,
                   seen |-> c.seen, todo |-> c.todo, promised |-> c.promised]
           /\ c.pc # "idle" => PromiseOk(c) /\ ReachOk(c) /\ ProgressOk(c)
BY DEF CascadeInv, CascadeOk, CascadeState

LEMMA CascadeInvInit == CascadeInit => CascadeInv
<1> SUFFICES ASSUME CascadeInit PROVE CascadeInv
  OBVIOUS
<1>1. LineageInv /\ IndexInv /\ Revoked = {}
  BY LineageInvInit, IndexInvInit DEF CascadeInit, IndexInit, Revoked
<1>2. cascade \in [Revokers -> CascadeState] /\ cascades \in Nat
  BY DEF CascadeInit, CascadeState, NoCascade
<1>3. \A t \in Revokers : CascadeOk(t)
  BY DEF CascadeInit, IndexInit, CascadeOk, InsideRevoke, NoCascade, NotRevoking
<1> QED  BY <1>1, <1>2, <1>3 DEF CascadeInv, DerivativeHasRevokedOrigin

\* A call that begins promises the linked descendants: between one and the root, all is
\* linked too.
LEMMA StartKeepsCascadeInv ==
  ASSUME CascadeInv, NEW t \in Revokers, NEW id \in Ids, CascadeStart(t, id)
  PROVE  CascadeInv'
<1>1. PICK P \in SUBSET Ids : P = LinkedDescendants(id)
  BY DEF LinkedDescendants, DerivedFrom
<1> DEFINE n == [pc |-> "revoke", root |-> id, target |-> id, frontier |-> {}, seen |-> {},
                 todo |-> {}, promised |-> P]
<1>2. n \in CascadeState /\ cascade' = [cascade EXCEPT ![t] = n]
  <2>1. PICK b : b = [NoCascade EXCEPT !.pc = "revoke", !.root = id, !.target = id, !.promised = P]
    OBVIOUS
  <2>2. b = n
    <3>1. NoCascade = [pc |-> "idle", root |-> None, target |-> None, frontier |-> {},
                       seen |-> {}, todo |-> {}, promised |-> {}]
      BY DEF NoCascade
    <3>2. PICK b1 : b1 = [NoCascade EXCEPT !.pc = "revoke"]
      OBVIOUS
    <3>3. PICK b2 : b2 = [b1 EXCEPT !.root = id]
      OBVIOUS
    <3>4. PICK b3 : b3 = [b2 EXCEPT !.target = id]
      OBVIOUS
    <3>5. b1 = [pc |-> "revoke", root |-> None, target |-> None, frontier |-> {},
                seen |-> {}, todo |-> {}, promised |-> {}]
      BY <3>1, <3>2
    <3>6. b2 = [pc |-> "revoke", root |-> id, target |-> None, frontier |-> {},
                seen |-> {}, todo |-> {}, promised |-> {}]
      BY <3>3, <3>5
    <3>7. b3 = [pc |-> "revoke", root |-> id, target |-> id, frontier |-> {},
                seen |-> {}, todo |-> {}, promised |-> {}]
      BY <3>4, <3>6
    <3>8. b = [b3 EXCEPT !.promised = P]
      BY <2>1, <3>2, <3>3, <3>4
    <3> QED  BY <3>7, <3>8
  <2>3. n \in CascadeState
    BY <1>1 DEF CascadeState
  <2> QED  BY <1>1, <2>1, <2>2, <2>3 DEF CascadeStart
<1>3. UNCHANGED lineageVars /\ UNCHANGED indexVars /\ cascades' \in Nat
  BY DEF CascadeStart, CascadeInv
<1>4. IndexInv' /\ Revoked' = Revoked /\ DerivativeHasRevokedOrigin'
  <2>1. IndexInv'
    BY <1>3, IndexInvStep DEF CascadeInv
  <2>2. DerivativeHasRevokedOrigin'
    BY <1>3, OriginKept DEF CascadeInv, indexVars
  <2> QED  BY <1>3, <2>1, <2>2 DEF indexVars, Revoked
<1>5. DagTypeOK /\ LineageInv
  BY DEF CascadeInv, LineageInv, DagInv
<1>6. PromiseOk(n)
  <2>1. ASSUME NEW d \in P, NEW p \in Upstream(d), id \in Lineal(p) PROVE p = id \/ p \in P
    <3>1. d \in Ids /\ Linked(d) # {} /\ p \in Ids
      BY <1>1, <1>5, <2>1, UpstreamType DEF LinkedDescendants, DerivedFrom
    <3>2. Linked(p) # {}
      BY <1>5, <3>1, <2>1, LinkedIsComplete
    <3> QED  BY <1>1, <2>1, <3>1, <3>2 DEF LinkedDescendants, DerivedFrom
  <2>2. \A d \in P : d # id /\ id \in Lineal(d) /\ Linked(d) # {}
    BY <1>1 DEF LinkedDescendants, DerivedFrom
  <2> QED  BY <2>1, <2>2 DEF PromiseOk
<1>7. ReachOk(n) /\ ProgressOk(n)'
  BY LinealSelf DEF ReachOk, ProgressOk
<1>8. InsideRevoke(t)'
  BY <1>2, <1>3 DEF CascadeStart, CascadeInv, CascadeOk, InsideRevoke, indexVars
<1> QED  BY <1>2, <1>3, <1>4, <1>6, <1>7, <1>8, CallStep DEF indexVars

\* The first write of revoke() for the call's target, or nothing to do.
LEMMA RevokeKeepsCascadeInv ==
  ASSUME CascadeInv, NEW t \in Revokers, CascadeRevoke(t)
  PROVE  CascadeInv'
<1>1. PICK c \in CascadeState :
        /\ c = cascade[t]
        /\ c = [pc |-> c.pc, root |-> c.root, target |-> c.target, frontier |-> c.frontier,
                seen |-> c.seen, todo |-> c.todo, promised |-> c.promised]
        /\ c.pc # "idle" => PromiseOk(c) /\ ReachOk(c) /\ ProgressOk(c)
  BY TheCall
<1>2. c.pc = "revoke" /\ PromiseOk(c) /\ ReachOk(c) /\ ProgressOk(c)
  BY <1>1 DEF CascadeRevoke
<1>3. UNCHANGED lineageVars /\ cascades' \in Nat /\ UNCHANGED entries /\ Revoked' = Revoked
  BY DEF CascadeRevoke, CascadeInv, RevokeBump, indexVars, Revoked
<1>4. DerivativeHasRevokedOrigin'
  BY <1>3, OriginKept DEF CascadeInv
<1>5. LineageInv /\ [LineageNext]_lineageVars /\ IndexInv /\ c.root \in Ids /\ c.target \in Ids
  BY <1>2, <1>3 DEF CascadeInv, PromiseOk
<1>6. CASE c.target \in Revoked /\ cascade' = [cascade EXCEPT ![t] = AfterRevoke(t)]
           /\ UNCHANGED indexVars
  <2>1. PICK n : n = IF c.target = c.root THEN [c EXCEPT !.pc = "walk", !.frontier = {c.root}]
                                          ELSE [c EXCEPT !.pc = "mark"]
    OBVIOUS
  <2>2. n \in CascadeState /\ cascade' = [cascade EXCEPT ![t] = n] /\ n.pc \in {"walk", "mark"}
    BY <1>1, <1>5, <1>6, <2>1 DEF AfterRevoke, CascadeState
  <2>3. PromiseOk(n)
    BY <1>1, <1>2, <2>1 DEF PromiseOk
  <2>4. ReachOk(n)
    BY <1>1, <1>2, <1>5, <2>1, LinealSelf DEF ReachOk
  <2>5. ProgressOk(n)
    BY <1>1, <1>2, <1>6, <2>1 DEF ProgressOk
  <2>6. ProgressOk(n)'
    BY <1>3, <1>5, <2>2, <2>3, <2>5, ProgressKept
  <2>7. IndexInv'
    BY <1>5, <1>6, IndexInvStep
  <2>8. InsideRevoke(t)'
    BY <1>1, <1>2, <1>6, <2>2 DEF CascadeInv, CascadeOk, InsideRevoke, indexVars
  <2> QED  BY <1>3, <1>4, <1>6, <2>2, <2>3, <2>4, <2>6, <2>7, <2>8, CallStep DEF indexVars
<1>7. CASE RevokeBump(t, c.target, c.target # c.root) /\ cascade' = [cascade EXCEPT ![t].pc = "insert"]
  <2>1. PICK n : n = [c EXCEPT !.pc = "insert"]
    OBVIOUS
  <2>2. n \in CascadeState /\ cascade' = [cascade EXCEPT ![t] = n] /\ n.pc = "insert"
        /\ n.target = c.target /\ n.root = c.root
    BY <1>1, <1>7, <2>1 DEF CascadeState
  <2>3. PromiseOk(n)
    BY <1>1, <1>2, <2>1 DEF PromiseOk
  <2>4. ReachOk(n)
    BY <1>1, <1>2, <2>1 DEF ReachOk
  <2>5. ProgressOk(n)
    BY <1>1, <1>2, <2>1 DEF ProgressOk
  <2>6. ProgressOk(n)'
    BY <1>3, <1>5, <2>2, <2>3, <2>5, ProgressKept
  <2>7. IndexInv'
    BY <1>5, <1>7, BumpKeepsIndexInv
  <2>8. /\ revoking'[t] = [pc |-> "insert", id |-> c.target, derivative |-> (c.target # c.root)]
        /\ \A u \in Revokers : u # t => revoking'[u] = revoking[u]
    BY <1>5, <1>7 DEF RevokeBump, IndexInv, IndexTypeOK
  <2>9. cascade'[t] = n
    BY <2>2 DEF CascadeInv
  <2>10. InsideRevoke(t)'
    BY <2>2, <2>8, <2>9 DEF InsideRevoke
  <2> QED  BY <1>3, <1>4, <2>2, <2>3, <2>4, <2>6, <2>7, <2>8, <2>10, CallStep
<1> QED  BY <1>1, <1>6, <1>7 DEF CascadeRevoke

\* The second write: the revocation is in the index, and a derivative one has its origin
\* there -- the root, or what the root is itself a derivative of.
LEMMA InsertKeepsCascadeInv ==
  ASSUME CascadeInv, NEW t \in Revokers, CascadeInsert(t)
  PROVE  CascadeInv'
<1>1. PICK c \in CascadeState :
        /\ c = cascade[t]
        /\ c = [pc |-> c.pc, root |-> c.root, target |-> c.target, frontier |-> c.frontier,
                seen |-> c.seen, todo |-> c.todo, promised |-> c.promised]
        /\ c.pc # "idle" => PromiseOk(c) /\ ReachOk(c) /\ ProgressOk(c)
  BY TheCall
<1>2. c.pc = "insert" /\ PromiseOk(c) /\ ReachOk(c) /\ ProgressOk(c)
  BY <1>1 DEF CascadeInsert
<1>3. UNCHANGED lineageVars /\ cascades' \in Nat /\ RevokeInsert(t)
  BY DEF CascadeInsert, CascadeInv
<1>4. LineageInv /\ [LineageNext]_lineageVars /\ IndexInv /\ IndexInv'
      /\ c.root \in Ids /\ c.target \in Ids /\ DagTypeOK
  BY <1>2, <1>3, InsertKeepsIndexInv DEF CascadeInv, PromiseOk, LineageInv, DagInv
<1>5. revoking[t].id = c.target /\ revoking[t].derivative = (c.target # c.root)
  BY <1>1, <1>2 DEF CascadeInv, CascadeOk, InsideRevoke
<1>6. PICK v : v = version
  OBVIOUS
<1>7. /\ c.target \notin Revoked
      /\ Revoked' = Revoked \cup {c.target}
      /\ entries' = [entries EXCEPT ![c.target] = [version |-> v, derivative |-> (c.target # c.root)]]
  BY <1>3, <1>4, <1>5, <1>6, InsertAddsEntry
<1>8. /\ entries'[c.target].derivative = (c.target # c.root)
      /\ \A i \in Revoked : entries'[i] = entries[i]
  BY <1>4, <1>7 DEF IndexInv, IndexTypeOK, Revoked
<1>9. \A i \in Ids : Lineal(i)' = Lineal(i)
  BY <1>3 DEF lineageVars, Lineal, Closure, Upstream
<1>10. DerivativeHasRevokedOrigin'
  <2>1. ASSUME NEW d \in Revoked', entries'[d].derivative
        PROVE  \E a \in Lineal(d) \ {d} : a \in Revoked' /\ ~entries'[a].derivative
    <3>1. CASE d \in Revoked
      <4>1. PICK a \in Lineal(d) \ {d} : a \in Revoked /\ ~entries[a].derivative
        BY <2>1, <3>1, <1>8 DEF CascadeInv, DerivativeHasRevokedOrigin
      <4> QED  BY <4>1, <1>7, <1>8
    <3>2. CASE d = c.target
      <4>1. c.target # c.root /\ c.root \in Revoked /\ c.root \in Lineal(d)
        BY <2>1, <3>2, <1>2, <1>8 DEF ProgressOk, ReachOk
      <4>2. CASE ~entries[c.root].derivative
        BY <3>2, <4>1, <4>2, <1>7, <1>8
      <4>3. CASE entries[c.root].derivative
        <5>1. PICK a \in Lineal(c.root) : a \in Revoked /\ ~entries[a].derivative
          BY <4>1, <4>3 DEF CascadeInv, DerivativeHasRevokedOrigin
        <5>2. a \in Lineal(d) /\ a # d
          BY <3>2, <4>1, <5>1, <1>4, <1>7, LinealTransitive
        <5> QED  BY <5>1, <5>2, <1>7, <1>8
      <4> QED  BY <4>2, <4>3
    <3> QED  BY <2>1, <3>1, <3>2, <1>7
  <2> QED  BY <2>1, <1>9 DEF DerivativeHasRevokedOrigin, Revoked
<1>11. PICK n : n = IF c.target = c.root THEN [c EXCEPT !.pc = "walk", !.frontier = {c.root}]
                                         ELSE [c EXCEPT !.pc = "mark"]
  OBVIOUS
<1>12. n \in CascadeState /\ cascade' = [cascade EXCEPT ![t] = n] /\ n.pc \in {"walk", "mark"}
  BY <1>1, <1>4, <1>11 DEF CascadeInsert, AfterRevoke, CascadeState
<1>13. PromiseOk(n)
  BY <1>1, <1>2, <1>11 DEF PromiseOk
<1>14. ReachOk(n)
  BY <1>1, <1>2, <1>4, <1>11, LinealSelf DEF ReachOk
<1>15. ProgressOk(n)'
  BY <1>1, <1>2, <1>7, <1>11 DEF ProgressOk
<1>16. /\ revoking'[t] = NotRevoking
       /\ \A u \in Revokers : u # t => revoking'[u] = revoking[u]
  BY <1>3, <1>4 DEF RevokeInsert, IndexInv, IndexTypeOK
<1>17. cascade'[t] = n
  BY <1>12 DEF CascadeInv
<1>18. InsideRevoke(t)'
  BY <1>12, <1>16, <1>17 DEF InsideRevoke, NotRevoking
<1>19. Revoked \subseteq Revoked'
  BY <1>7
<1> QED  BY <1>3, <1>4, <1>10, <1>12, <1>13, <1>14, <1>15, <1>16, <1>18, <1>19, CallStep

\* A step that touches neither the store nor the index.
LEMMA QuietStep ==
  ASSUME CascadeInv, UNCHANGED <<lineageVars, indexVars>>, cascades' \in Nat,
         NEW t \in Revokers, NEW n \in CascadeState, cascade' = [cascade EXCEPT ![t] = n],
         cascade[t].pc # "insert", n.pc # "insert",
         n.pc # "idle" => PromiseOk(n) /\ ReachOk(n) /\ ProgressOk(n)
  PROVE  CascadeInv'
<1>1. /\ UNCHANGED lineageVars /\ LineageInv /\ [LineageNext]_lineageVars
      /\ UNCHANGED <<entries, revoking>> /\ Revoked' = Revoked
  BY DEF CascadeInv, indexVars, Revoked
<1>2. IndexInv'
  BY IndexInvStep DEF CascadeInv
<1>3. DerivativeHasRevokedOrigin'
  BY <1>1, OriginKept DEF CascadeInv
<1>4. n.pc # "idle" => ProgressOk(n)'
  BY <1>1, ProgressKept
<1>5. InsideRevoke(t)'
  BY <1>1 DEF CascadeInv, CascadeOk, InsideRevoke
<1> QED  BY <1>1, <1>2, <1>3, <1>4, <1>5, CallStep

\* A vertex of the walk, or its end.
LEMMA WalkKeepsCascadeInv ==
  ASSUME CascadeInv, NEW t \in Revokers, CascadeWalk(t)
  PROVE  CascadeInv'
<1>1. PICK c \in CascadeState :
        /\ c = cascade[t]
        /\ c = [pc |-> c.pc, root |-> c.root, target |-> c.target, frontier |-> c.frontier,
                seen |-> c.seen, todo |-> c.todo, promised |-> c.promised]
        /\ c.pc # "idle" => PromiseOk(c) /\ ReachOk(c) /\ ProgressOk(c)
  BY TheCall
<1>2. /\ c.pc = "walk" /\ PromiseOk(c) /\ ReachOk(c) /\ ProgressOk(c)
      /\ UNCHANGED <<lineageVars, indexVars>> /\ cascades' \in Nat
      /\ LineageInv /\ DagTypeOK /\ c.root \in Ids
  BY <1>1 DEF CascadeWalk, CascadeInv, LineageInv, DagInv, PromiseOk
<1>3. CASE c.frontier = {}
           /\ cascade' = [cascade EXCEPT ![t].pc = "mark", ![t].todo = c.seen \ {c.root}]
  <2>1. PICK n : n = [c EXCEPT !.pc = "mark", !.todo = c.seen \ {c.root}]
    OBVIOUS
  <2>2. n = [pc |-> "mark", root |-> c.root, target |-> c.target, frontier |-> c.frontier,
             seen |-> c.seen, todo |-> c.seen \ {c.root}, promised |-> c.promised]
    BY <1>1, <2>1
  <2>3. n \in CascadeState
    BY <2>2 DEF CascadeState
  <2>4. cascade' = [cascade EXCEPT ![t] = n]
    BY <1>1, <1>3, <2>1
  <2>5. PromiseOk(n)
    BY <1>2, <2>2 DEF PromiseOk
  <2>6. ReachOk(n)
    BY <1>2, <2>2 DEF ReachOk
  <2>7. ProgressOk(n)
    <3>1. c.promised \subseteq c.seen
      BY <1>2, <1>3, WalkIsComplete
    <3>2. c.promised \subseteq n.todo
      BY <1>2, <2>2, <3>1 DEF PromiseOk
    <3> QED  BY <1>2, <2>2, <3>2 DEF ProgressOk
  <2> QED  BY <1>1, <1>2, <2>2, <2>3, <2>5, <2>6, <2>7, <2>4, QuietStep
<1>4. ASSUME NEW x \in c.frontier,
             cascade' = [cascade EXCEPT
               ![t].seen = @ \cup {x},
               ![t].frontier = (@ \ {x}) \cup (IF x \in c.seen THEN {} ELSE children[x])]
      PROVE  CascadeInv'
  <2>1. PICK F : F = (c.frontier \ {x}) \cup (IF x \in c.seen THEN {} ELSE children[x])
    OBVIOUS
  <2>2. x \in Ids /\ c.root \in Lineal(x) /\ children[x] \subseteq Ids
    BY <1>2 DEF CascadeState, ReachOk, LineageInv, LineageTypeOK
  <2>3. PICK n : n = [c EXCEPT !.seen = c.seen \cup {x}, !.frontier = F]
    OBVIOUS
  <2>4. n = [pc |-> "walk", root |-> c.root, target |-> c.target, frontier |-> F,
             seen |-> c.seen \cup {x}, todo |-> c.todo, promised |-> c.promised]
    BY <1>1, <1>2, <2>3
  <2>5. F \subseteq Ids /\ c.frontier \subseteq F \cup {x}
    BY <2>1, <2>2 DEF CascadeState
  <2>6. n \in CascadeState
    BY <2>2, <2>4, <2>5 DEF CascadeState
  <2>7. cascade' = [cascade EXCEPT ![t] = n]
    BY <1>1, <1>4, <2>1, <2>3
  <2>8. PromiseOk(n)
    BY <1>2, <2>4 DEF PromiseOk
  <2>9. ReachOk(n)
    <3>1. ASSUME NEW y \in children[x] PROVE c.root \in Lineal(y)
      <4>1. y \in Ids /\ x \in Upstream(y)
        BY <1>2, <2>2, <3>1 DEF LineageInv, IndexesAgree
      <4>2. x \in Lineal(y)
        BY <1>2, <4>1, LinealSelf, LinealClosed
      <4> QED  BY <1>2, <2>2, <4>1, <4>2, LinealTransitive
    <3>2. \A y \in F : c.root \in Lineal(y)
      BY <1>2, <2>1, <3>1 DEF ReachOk
    <3> QED  BY <1>2, <2>2, <2>4, <3>2 DEF ReachOk
  <2>10. ProgressOk(n)
    <3>1. ASSUME NEW y \in c.seen \cup {x}, NEW d \in c.promised, y \in Upstream(d)
          PROVE  d \in c.seen \cup {x} \cup F
      <4>1. CASE y \in c.seen
        BY <1>2, <2>5, <3>1, <4>1 DEF ProgressOk
      <4>2. CASE y = x /\ x \notin c.seen
        <5>1. d \in children[x]
          BY <1>2, <3>1, <4>2, LinkedIsComplete DEF PromiseOk, CascadeState
        <5> QED  BY <2>1, <4>2, <5>1
      <4> QED  BY <3>1, <4>1, <4>2
    <3> QED  BY <1>2, <2>4, <2>5, <3>1 DEF ProgressOk
  <2> QED  BY <1>1, <1>2, <2>4, <2>6, <2>7, <2>8, <2>9, <2>10, QuietStep
<1> QED  BY <1>1, <1>3, <1>4 DEF CascadeWalk

\* One round of the loop: what is revoked already is skipped.
LEMMA MarkKeepsCascadeInv ==
  ASSUME CascadeInv, NEW t \in Revokers, CascadeMark(t)
  PROVE  CascadeInv'
<1>1. PICK c \in CascadeState :
        /\ c = cascade[t]
        /\ c = [pc |-> c.pc, root |-> c.root, target |-> c.target, frontier |-> c.frontier,
                seen |-> c.seen, todo |-> c.todo, promised |-> c.promised]
        /\ c.pc # "idle" => PromiseOk(c) /\ ReachOk(c) /\ ProgressOk(c)
  BY TheCall
<1>2. /\ c.pc = "mark" /\ PromiseOk(c) /\ ReachOk(c) /\ ProgressOk(c)
      /\ UNCHANGED <<lineageVars, indexVars>> /\ cascades' \in Nat
  BY <1>1 DEF CascadeMark, CascadeInv
<1>3. PICK d \in c.todo : cascade' = [cascade EXCEPT
         ![t].todo = @ \ {d},
         ![t].target = d,
         ![t].pc = IF d \in Revoked THEN "mark" ELSE "revoke"]
  BY <1>1 DEF CascadeMark
<1>4. PICK pc : pc = IF d \in Revoked THEN "mark" ELSE "revoke"
  OBVIOUS
<1>5. PICK n : n = [c EXCEPT !.todo = c.todo \ {d}, !.target = d, !.pc = pc]
  OBVIOUS
<1>6. n = [pc |-> pc, root |-> c.root, target |-> d, frontier |-> c.frontier,
           seen |-> c.seen, todo |-> c.todo \ {d}, promised |-> c.promised]
  BY <1>1, <1>5
<1>7. cascade' = [cascade EXCEPT ![t] = n]
  BY <1>1, <1>3, <1>4, <1>5
<1>8. d \in Ids /\ n \in CascadeState
  BY <1>4, <1>6 DEF CascadeState
<1>9. PromiseOk(n)
  BY <1>2, <1>6, <1>8 DEF PromiseOk
<1>10. ReachOk(n)
  BY <1>2, <1>6 DEF ReachOk
<1>11. ProgressOk(n)
  <2>1. d # c.root
    BY <1>2 DEF ReachOk
  <2> QED  BY <1>2, <1>4, <1>6, <2>1 DEF ProgressOk
<1> QED  BY <1>1, <1>2, <1>4, <1>6, <1>7, <1>8, <1>9, <1>10, <1>11, QuietStep

-----------------------------------------------------------------------------
\* A call that is not inside revoke() ends, as it should or not.
CascadeLeave(t) ==
  /\ cascade[t].pc # "insert"
  /\ cascade' = [cascade EXCEPT ![t] = NoCascade]
  /\ UNCHANGED <<lineageVars, indexVars, cascades>>

\* Everything that happens to the calls, whoever makes them.
CascadeMove ==
  \/ \E t \in Revokers :
       CascadeStep(t) \/ CascadeLeave(t) \/ \E id \in Ids : CascadeStart(t, id)
  \/ LineageNext /\ UNCHANGED <<indexVars, cascade, cascades>>

\* The store's threads run on meanwhile.
LEMMA StoreKeepsCascadeInv ==
  ASSUME CascadeInv, [LineageNext]_lineageVars, UNCHANGED <<indexVars, cascade, cascades>>
  PROVE  CascadeInv'
<1>1. LineageInv /\ LineageInv' /\ IndexInv'
  BY LineageInvStep, IndexInvStep DEF CascadeInv
<1>2. Revoked' = Revoked /\ UNCHANGED <<entries, revoking>>
  BY DEF indexVars, Revoked
<1>3. DerivativeHasRevokedOrigin'
  BY <1>1, <1>2, OriginKept DEF CascadeInv
<1>4. ASSUME NEW u \in Revokers PROVE CascadeOk(u)'
  <2>1. cascade[u] \in CascadeState /\ CascadeOk(u)
    BY DEF CascadeInv
  <2> QED  BY <1>1, <1>2, <2>1, CascadeOkKept
<1> QED  BY <1>1, <1>3, <1>4 DEF CascadeInv

LEMMA LeaveKeepsCascadeInv ==
  ASSUME CascadeInv, NEW t \in Revokers, CascadeLeave(t)
  PROVE  CascadeInv'
<1>1. NoCascade \in CascadeState /\ NoCascade.pc = "idle"
  BY DEF NoCascade, CascadeState
<1>2. UNCHANGED <<lineageVars, indexVars>> /\ cascades' \in Nat
  BY DEF CascadeLeave, CascadeInv
<1> QED  BY <1>1, <1>2, QuietStep DEF CascadeLeave

\* Every step keeps the invariant.
LEMMA CascadeInvStep == CascadeInv /\ [CascadeMove]_cascadeVars => CascadeInv'
<1> SUFFICES ASSUME CascadeInv, [CascadeMove]_cascadeVars PROVE CascadeInv'
  OBVIOUS
<1>1. ASSUME NEW t \in Revokers, CascadeStep(t) PROVE CascadeInv'
  BY <1>1, RevokeKeepsCascadeInv, InsertKeepsCascadeInv, WalkKeepsCascadeInv,
     MarkKeepsCascadeInv DEF CascadeStep
<1>2. ASSUME NEW t \in Revokers, CascadeLeave(t) PROVE CascadeInv'
  BY <1>2, LeaveKeepsCascadeInv
<1>3. ASSUME NEW t \in Revokers, NEW id \in Ids, CascadeStart(t, id) PROVE CascadeInv'
  BY <1>3, StartKeepsCascadeInv
<1>4. CASE LineageNext /\ UNCHANGED <<indexVars, cascade, cascades>>
  BY <1>4, StoreKeepsCascadeInv
<1>5. CASE UNCHANGED cascadeVars
  BY <1>5, StoreKeepsCascadeInv DEF cascadeVars
<1> QED  BY <1>1, <1>2, <1>3, <1>4, <1>5 DEF CascadeMove

LEMMA CascadeNextIsMove == [CascadeNext]_cascadeVars => [CascadeMove]_cascadeVars
BY DEF CascadeNext, CascadeMove, CascadeReturn, CascadeDone, CascadeLeave

LEMMA CascadeInvariant == CascadeSpec => []CascadeInv
BY CascadeInvInit, CascadeInvStep, CascadeNextIsMove, PTL DEF CascadeSpec

\* What the invariant says of the two properties.
LEMMA CascadeInvMeans == CascadeInv => CascadeComplete /\ DerivativeHasRevokedOrigin
BY DEF CascadeInv, CascadeOk, CascadeComplete, ProgressOk

\* CT-I5: no cascade loses a derivative, for any lineage and any number of threads that
\* append, revoke and cascade at the same time (revocation.py:88-113).
THEOREM CascadesAreComplete == CascadeSpec => []CascadeComplete
BY CascadeInvariant, CascadeInvMeans, PTL

\* No cascade over-reaches: a derivative revocation has its origin in the index, and
\* that origin is something the derivative is derived from (revocation.py:108).
THEOREM CascadesHaveOrigins == CascadeSpec => []DerivativeHasRevokedOrigin
BY CascadeInvariant, CascadeInvMeans, PTL

\* Every step of a cascade is a step of the index and of the store, or invisible to them.
LEMMA MoveIsStep ==
  CascadeInv /\ [CascadeMove]_cascadeVars =>
    [LineageNext]_lineageVars /\ [IndexNext]_indexVars
<1> SUFFICES ASSUME CascadeInv, [CascadeMove]_cascadeVars
             PROVE  [LineageNext]_lineageVars /\ [IndexNext]_indexVars
  OBVIOUS
<1>1. ASSUME NEW t \in Revokers, CascadeRevoke(t)
      PROVE  UNCHANGED lineageVars /\ [IndexNext]_indexVars
  <2>1. cascade[t].target \in Ids
    BY <1>1 DEF CascadeRevoke, CascadeInv, CascadeOk, PromiseOk
  <2> QED  BY <1>1, <2>1 DEF CascadeRevoke, IndexNext
<1>2. ASSUME NEW t \in Revokers, CascadeInsert(t)
      PROVE  UNCHANGED lineageVars /\ IndexNext
  BY <1>2 DEF CascadeInsert, IndexNext
<1>3. ASSUME NEW t \in Revokers, CascadeWalk(t) \/ CascadeMark(t) \/ CascadeLeave(t)
      PROVE  UNCHANGED <<lineageVars, indexVars>>
  BY <1>3 DEF CascadeWalk, CascadeMark, CascadeLeave
<1>4. ASSUME NEW t \in Revokers, NEW id \in Ids, CascadeStart(t, id)
      PROVE  UNCHANGED <<lineageVars, indexVars>>
  BY <1>4 DEF CascadeStart
<1>5. CASE UNCHANGED cascadeVars
  BY <1>5 DEF cascadeVars
<1> QED  BY <1>1, <1>2, <1>3, <1>4, <1>5 DEF CascadeMove, CascadeStep

\* Cascades use the index only through revoke(): what it promises holds under them.
THEOREM CascadeKeepsIndexPromise ==
  CascadeSpec => RevokeIsAtomic /\ []VersionCountsEntries
<1>1. CascadeInit => IndexInit
  BY DEF CascadeInit
<1>2. CascadeSpec => IndexSpec
  BY <1>1, CascadeInvariant, CascadeNextIsMove, MoveIsStep, PTL DEF CascadeSpec, IndexSpec
<1> QED  BY <1>2, IndexImplementsLog, VersionsCountEntries

\* ... and they never touch the lineage: provenance is for ever under them too.
THEOREM CascadeKeepsProvenance == CascadeSpec => ProvenanceForever
<1>1. CascadeInit => LineageInit
  BY DEF CascadeInit
<1>2. CascadeSpec => LineageSpec
  BY <1>1, CascadeInvariant, CascadeNextIsMove, MoveIsStep, PTL DEF CascadeSpec, LineageSpec
<1> QED  BY <1>2, LineageProvenance

-----------------------------------------------------------------------------
\* What the metrics count: jobs in the queue, with a worker, with a worker's cascade,
\* and queued by a submit() that has not counted them.
Waiting(q) == {n \in 1..Len(q) : q[n] # Sentinel}
Held == {t \in Revokers : worker[t].pc \in {"begin", "work"}}
InFlight == {t \in Revokers : worker[t].pc \in {"work", "finish"}}
Uncounted == {t \in Submitters : submitting[t] # None}

WorkerInv ==
  /\ CascadeInv
  /\ queue \in Seq(Job)
  /\ worker \in [Revokers -> WorkerState]
  /\ submitting \in [Submitters -> Ids \cup {None}]
  /\ metrics \in Metrics
  /\ submits \in Nat
  /\ \A t \in Revokers : worker[t].pc = "begin" => worker[t].job \in Ids
  /\ MetricsAccountForJobs

\* The property in the names above.
LEMMA MetricsMean ==
  MetricsAccountForJobs <=>
    /\ metrics.queued + Cardinality(Uncounted) =
         Cardinality(Waiting(queue)) + Cardinality(Held) + metrics.completed + metrics.failed
    /\ metrics.queued + Cardinality(Uncounted) + metrics.rejected = submits
    /\ metrics.inFlight = Cardinality(InFlight)
BY DEF MetricsAccountForJobs, Waiting, Held, InFlight, Uncounted

\* And of the state after a step.
LEMMA MetricsMeanNext ==
  MetricsAccountForJobs' <=>
    /\ metrics'.queued + Cardinality(Uncounted') =
         Cardinality(Waiting(queue)') + Cardinality(Held') + metrics'.completed + metrics'.failed
    /\ metrics'.queued + Cardinality(Uncounted') + metrics'.rejected = submits'
    /\ metrics'.inFlight = Cardinality(InFlight')
BY DEF MetricsAccountForJobs, Waiting, Held, InFlight, Uncounted

LEMMA CountsFinite ==
  ASSUME queue \in Seq(Job)
  PROVE  /\ IsFiniteSet(Waiting(queue)) /\ Cardinality(Waiting(queue)) \in Nat
         /\ IsFiniteSet(Held) /\ Cardinality(Held) \in Nat
         /\ IsFiniteSet(InFlight) /\ Cardinality(InFlight) \in Nat
         /\ IsFiniteSet(Uncounted) /\ Cardinality(Uncounted) \in Nat
<1>1. IsFiniteSet(1..Len(queue))
  BY FS_Interval
<1>2. /\ Waiting(queue) \in SUBSET (1..Len(queue)) /\ Held \in SUBSET Revokers
      /\ InFlight \in SUBSET Revokers /\ Uncounted \in SUBSET Submitters
  BY DEF Waiting, Held, InFlight, Uncounted
<1>3. /\ IsFiniteSet(Waiting(queue)) /\ IsFiniteSet(Held) /\ IsFiniteSet(InFlight)
      /\ IsFiniteSet(Uncounted)
  BY <1>1, <1>2, FS_Subset, WorkerAssumption
<1> QED  BY <1>3, FS_CardinalityType

\* A job at the end of the queue is one more that waits; a sentinel is none.
LEMMA WaitingAppend ==
  ASSUME NEW q \in Seq(Job), NEW job \in Job
  PROVE  Cardinality(Waiting(Append(q, job))) =
           Cardinality(Waiting(q)) + (IF job = Sentinel THEN 0 ELSE 1)
<1> DEFINE L == Len(q)
           r == Append(q, job)
<1>1. /\ L \in Nat /\ Len(r) = L + 1 /\ r[L + 1] = job
      /\ \A n \in 1..L : r[n] = q[n]
  OBVIOUS
<1>2. Waiting(r) = Waiting(q) \cup (IF job = Sentinel THEN {} ELSE {L + 1})
  BY <1>1 DEF Waiting
<1>3. IsFiniteSet(Waiting(q)) /\ Cardinality(Waiting(q)) \in Nat /\ L + 1 \notin Waiting(q)
  <2>1. IsFiniteSet(1..L) /\ Waiting(q) \in SUBSET (1..L)
    BY <1>1, FS_Interval DEF Waiting
  <2> QED  BY <1>1, <2>1, FS_Subset, FS_CardinalityType
<1>4. Cardinality(Waiting(q) \cup {L + 1}) = Cardinality(Waiting(q)) + 1
  BY <1>3, FS_AddElement
<1>5. CASE job = Sentinel
  <2>1. Waiting(r) = Waiting(q)
    BY <1>2, <1>5
  <2>2. Cardinality(Waiting(r)) = Cardinality(Waiting(q))
    BY <2>1
  <2> QED  BY <1>3, <1>5, <2>2
<1>6. CASE job # Sentinel
  <2>1. Waiting(r) = Waiting(q) \cup {L + 1}
    BY <1>2, <1>6
  <2>2. Cardinality(Waiting(r)) = Cardinality(Waiting(q)) + 1
    BY <1>4, <2>1
  <2> QED  BY <1>6, <2>2
<1> QED  BY <1>5, <1>6

\* Taking the head off the queue leaves the others waiting.
LEMMA WaitingTail ==
  ASSUME NEW q \in Seq(Job), q # <<>>
  PROVE  Cardinality(Waiting(q)) =
           Cardinality(Waiting(Tail(q))) + (IF Head(q) = Sentinel THEN 0 ELSE 1)
<1> DEFINE L == Len(q)
           r == Tail(q)
           shift == [n \in Waiting(r) |-> n + 1]
<1>1. /\ L \in Nat \ {0} /\ Len(r) = L - 1 /\ Head(q) = q[1]
      /\ \A n \in 1..(L - 1) : r[n] = q[n + 1]
  OBVIOUS
<1>2. /\ IsFiniteSet(Waiting(r)) /\ Cardinality(Waiting(r)) \in Nat
      /\ Waiting(r) \in SUBSET (1..(L - 1))
  <2>1. IsFiniteSet(1..(L - 1)) /\ Waiting(r) \in SUBSET (1..(L - 1))
    BY <1>1, FS_Interval DEF Waiting
  <2> QED  BY <2>1, FS_Subset, FS_CardinalityType
<1>3. Waiting(q) \ {1} = {n + 1 : n \in Waiting(r)}
  <2>1. ASSUME NEW m \in Waiting(q), m # 1 PROVE \E n \in Waiting(r) : m = n + 1
    <3>1. m \in 2..L /\ q[m] # Sentinel
      BY <1>1, <2>1 DEF Waiting
    <3>2. m - 1 \in 1..(L - 1) /\ m = (m - 1) + 1
      BY <1>1, <3>1
    <3>3. r[m - 1] = q[m]
      BY <1>1, <3>2
    <3> QED  BY <1>1, <3>1, <3>2, <3>3 DEF Waiting
  <2>2. ASSUME NEW n \in Waiting(r) PROVE n + 1 \in Waiting(q) /\ n + 1 # 1
    BY <1>1, <1>2 DEF Waiting
  <2> QED  BY <2>1, <2>2
<1>4. shift \in Bijection(Waiting(r), Waiting(q) \ {1})
  <2>1. shift \in [Waiting(r) -> Waiting(q) \ {1}]
    BY <1>3
  <2>2. \A a, b \in Waiting(r) : shift[a] = shift[b] => a = b
    BY <1>1, <1>2
  <2>3. \A m \in Waiting(q) \ {1} : \E n \in Waiting(r) : shift[n] = m
    BY <1>3
  <2> QED  BY <2>1, <2>2, <2>3 DEF Bijection, Injection, Surjection, IsInjective
<1>5. /\ IsFiniteSet(Waiting(q) \ {1})
      /\ Cardinality(Waiting(q) \ {1}) = Cardinality(Waiting(r))
  BY <1>2, <1>4, FS_Bijection DEF ExistsBijection
<1>6. CASE Head(q) = Sentinel
  <2>1. Waiting(q) \ {1} = Waiting(q)
    BY <1>1, <1>6 DEF Waiting
  <2>2. Cardinality(Waiting(q)) = Cardinality(Waiting(r))
    BY <1>5, <2>1
  <2> QED  BY <1>2, <1>6, <2>2
<1>7. CASE Head(q) # Sentinel
  <2>1. Waiting(q) = (Waiting(q) \ {1}) \cup {1}
    BY <1>1, <1>7 DEF Waiting
  <2>2. Cardinality((Waiting(q) \ {1}) \cup {1}) = Cardinality(Waiting(q) \ {1}) + 1
    BY <1>5, FS_AddElement
  <2> QED  BY <1>2, <1>5, <1>7, <2>1, <2>2
<1> QED  BY <1>6, <1>7

-----------------------------------------------------------------------------
\* What the invariant says of the counts.
LEMMA Balance ==
  ASSUME WorkerInv
  PROVE  /\ metrics.queued \in Nat /\ metrics.completed \in Nat /\ metrics.failed \in Nat
         /\ Cardinality(Waiting(queue)) \in Nat /\ Cardinality(Held) \in Nat
         /\ Cardinality(Uncounted) \in Nat
         /\ metrics.queued + Cardinality(Uncounted) =
              Cardinality(Waiting(queue)) + Cardinality(Held) + metrics.completed + metrics.failed
         /\ metrics.inFlight = Cardinality(InFlight)
<1>1. queue \in Seq(Job) /\ metrics \in Metrics /\ MetricsAccountForJobs
  BY DEF WorkerInv
<1>2. metrics.queued \in Nat /\ metrics.completed \in Nat /\ metrics.failed \in Nat
  BY <1>1 DEF Metrics
<1> QED  BY <1>1, <1>2, MetricsMean, CountsFinite

LEMMA SubmitBalance ==
  ASSUME WorkerInv
  PROVE  /\ metrics.queued \in Nat /\ metrics.rejected \in Nat /\ submits \in Nat
         /\ Cardinality(Uncounted) \in Nat
         /\ metrics.queued + Cardinality(Uncounted) + metrics.rejected = submits
<1>1. metrics \in Metrics /\ submits \in Nat /\ queue \in Seq(Job) /\ MetricsAccountForJobs
  BY DEF WorkerInv
<1>2. metrics.queued \in Nat /\ metrics.rejected \in Nat
  BY <1>1 DEF Metrics
<1> QED  BY <1>1, <1>2, MetricsMean, CountsFinite

\* A step in which nobody submits, counts or rejects.
LEMMA SubmitsUnchanged ==
  ASSUME WorkerInv, submits' = submits, Uncounted' = Uncounted,
         metrics'.queued = metrics.queued, metrics'.rejected = metrics.rejected
  PROVE  /\ submits' \in Nat
         /\ metrics'.queued + Cardinality(Uncounted') + metrics'.rejected = submits'
BY SubmitBalance

LEMMA WorkerInvInit == WorkerInit => WorkerInv
<1> SUFFICES ASSUME WorkerInit PROVE WorkerInv
  OBVIOUS
<1>1. CascadeInv
  BY CascadeInvInit DEF WorkerInit
<1>2. /\ queue \in Seq(Job) /\ worker \in [Revokers -> WorkerState]
      /\ submitting \in [Submitters -> Ids \cup {None}] /\ metrics \in Metrics
      /\ submits = 0 /\ submits \in Nat
  BY DEF WorkerInit, WorkerState, Metrics
<1>3. Waiting(queue) = {} /\ Held = {} /\ InFlight = {} /\ Uncounted = {}
  BY DEF WorkerInit, Waiting, Held, InFlight, Uncounted
<1>4. /\ Cardinality(Waiting(queue)) = 0 /\ Cardinality(Held) = 0
      /\ Cardinality(InFlight) = 0 /\ Cardinality(Uncounted) = 0
  BY <1>3, FS_EmptySet
<1>5. /\ metrics.queued = 0 /\ metrics.completed = 0 /\ metrics.failed = 0
      /\ metrics.rejected = 0 /\ metrics.inFlight = 0
  BY DEF WorkerInit
<1>6. MetricsAccountForJobs
  BY <1>2, <1>4, <1>5, MetricsMean
<1> QED  BY <1>1, <1>2, <1>6 DEF WorkerInv, WorkerInit

\* A step that leaves the queue, the workers, the submitters and the metrics alone.
LEMMA QueueUnchanged ==
  ASSUME WorkerInv, CascadeInv', UNCHANGED <<queue, worker, submitting, metrics, submits>>
  PROVE  WorkerInv'
BY DEF WorkerInv, MetricsAccountForJobs

\* submit(): the job is in the queue and not counted yet, or rejected.
LEMMA SubmitKeepsWorkerInv ==
  ASSUME WorkerInv, NEW t \in Submitters, NEW id \in Ids, Submit(t, id)
  PROVE  WorkerInv'
<1>1. /\ CascadeInv' /\ UNCHANGED worker
      /\ submits \in Nat /\ submits' = submits + 1 /\ submits' \in Nat
  BY CascadeInvStep DEF Submit, WorkerInv
<1>2. CASE /\ queue' = Append(queue, id) /\ submitting' = [submitting EXCEPT ![t] = id]
           /\ UNCHANGED metrics
  <2>1. /\ queue' \in Seq(Job) /\ submitting' \in [Submitters -> Ids \cup {None}]
        /\ metrics' \in Metrics
    BY <1>2 DEF WorkerInv, Job
  <2>2. Cardinality(Waiting(queue)') = Cardinality(Waiting(queue)) + 1
    <3>1. id \in Job /\ id # Sentinel
      BY WorkerAssumption DEF Job
    <3>2. Waiting(queue)' = Waiting(Append(queue, id))
      BY <1>2 DEF Waiting
    <3> QED  BY <3>1, <3>2, WaitingAppend DEF WorkerInv
  <2>3. t \notin Uncounted /\ Uncounted' = Uncounted \cup {t}
    BY <1>2, IdsAssumption DEF Submit, WorkerInv, Uncounted
  <2>4. Cardinality(Uncounted') = Cardinality(Uncounted) + 1
    BY <2>3, CountsFinite, FS_AddElement DEF WorkerInv
  <2>5. Held' = Held /\ InFlight' = InFlight
    BY <1>1 DEF Held, InFlight
  <2>6. metrics'.queued + Cardinality(Uncounted') =
          Cardinality(Waiting(queue)') + Cardinality(Held') + metrics'.completed + metrics'.failed
    <3>1. metrics' = metrics /\ Cardinality(Held') = Cardinality(Held)
      BY <1>2, <2>5
    <3> QED  BY <2>2, <2>4, <3>1, Balance
  <2>7. metrics'.inFlight = Cardinality(InFlight')
    BY <1>2, <2>5, Balance
  <2>8. metrics'.queued + Cardinality(Uncounted') + metrics'.rejected = submits'
    <3>1. metrics' = metrics
      BY <1>2
    <3>2. /\ metrics'.queued = metrics.queued /\ metrics'.rejected = metrics.rejected
          /\ submits' = submits + 1
      BY <1>1, <3>1
    <3> QED  BY <2>4, <3>2, SubmitBalance
  <2>9. MetricsAccountForJobs'
    BY <2>6, <2>7, <2>8, MetricsMeanNext
  <2> QED  BY <1>1, <2>1, <2>9 DEF WorkerInv
<1>3. CASE metrics' = [metrics EXCEPT !.rejected = @ + 1] /\ UNCHANGED <<queue, submitting>>
  <2>1. /\ metrics' \in Metrics /\ metrics'.queued = metrics.queued
        /\ metrics'.completed = metrics.completed /\ metrics'.failed = metrics.failed
        /\ metrics'.inFlight = metrics.inFlight /\ metrics'.rejected = metrics.rejected + 1
    BY <1>3 DEF WorkerInv, Metrics
  <2>2. /\ Waiting(queue)' = Waiting(queue) /\ Held' = Held
        /\ InFlight' = InFlight /\ Uncounted' = Uncounted
    BY <1>1, <1>3 DEF Waiting, Held, InFlight, Uncounted
  <2>3. metrics'.queued + Cardinality(Uncounted') =
          Cardinality(Waiting(queue)') + Cardinality(Held') + metrics'.completed + metrics'.failed
    BY <2>1, <2>2, Balance
  <2>4. metrics'.queued + Cardinality(Uncounted') + metrics'.rejected = submits'
    BY <1>1, <2>1, <2>2, SubmitBalance
  <2>5. metrics'.inFlight = Cardinality(InFlight')
    BY <2>1, <2>2, Balance
  <2>6. MetricsAccountForJobs'
    BY <2>3, <2>4, <2>5, MetricsMeanNext
  <2> QED  BY <1>1, <1>3, <2>1, <2>6 DEF WorkerInv
<1> QED  BY <1>2, <1>3 DEF Submit

\* submit() counts the job it queued.
LEMMA CountKeepsWorkerInv ==
  ASSUME WorkerInv, NEW t \in Submitters, SubmitCount(t)
  PROVE  WorkerInv'
<1>1. CascadeInv' /\ UNCHANGED <<worker, queue, submits>> /\ submits' \in Nat
  BY CascadeInvStep DEF SubmitCount, WorkerInv
<1>2. /\ metrics' \in Metrics /\ metrics'.queued = metrics.queued + 1
      /\ metrics'.completed = metrics.completed /\ metrics'.failed = metrics.failed
      /\ metrics'.inFlight = metrics.inFlight /\ metrics'.rejected = metrics.rejected
  BY DEF SubmitCount, WorkerInv, Metrics
<1>3. submitting' \in [Submitters -> Ids \cup {None}]
  BY DEF SubmitCount, WorkerInv
<1>4. t \in Uncounted /\ Uncounted' = Uncounted \ {t}
  BY DEF SubmitCount, WorkerInv, Uncounted
<1>5. Cardinality(Uncounted') = Cardinality(Uncounted) - 1
  BY <1>4, CountsFinite, FS_RemoveElement DEF WorkerInv
<1>6. /\ Cardinality(Waiting(queue)') = Cardinality(Waiting(queue))
      /\ Cardinality(Held') = Cardinality(Held) /\ Cardinality(InFlight') = Cardinality(InFlight)
  BY <1>1 DEF Waiting, Held, InFlight
<1>7. metrics'.queued + Cardinality(Uncounted') =
        Cardinality(Waiting(queue)') + Cardinality(Held') + metrics'.completed + metrics'.failed
  BY <1>2, <1>5, <1>6, Balance
<1>8. metrics'.inFlight = Cardinality(InFlight')
  BY <1>2, <1>6, Balance
<1>9. metrics'.queued + Cardinality(Uncounted') + metrics'.rejected = submits'
  BY <1>1, <1>2, <1>5, SubmitBalance
<1>10. MetricsAccountForJobs'
  BY <1>7, <1>8, <1>9, MetricsMeanNext
<1> QED  BY <1>1, <1>2, <1>3, <1>10 DEF WorkerInv

\* A worker that moves on is counted where it comes to and no longer where it was.
LEMMA WorkerMoves ==
  ASSUME WorkerInv, NEW t \in Revokers, NEW w \in WorkerState,
         worker' = [worker EXCEPT ![t] = w]
  PROVE  /\ worker' \in [Revokers -> WorkerState] /\ worker'[t] = w
         /\ \A u \in Revokers : u # t => worker'[u] = worker[u]
         /\ (t \in Held <=> w.pc \in {"begin", "work"}) => Held' = Held
         /\ t \notin Held /\ w.pc \in {"begin", "work"} =>
              Cardinality(Held') = Cardinality(Held) + 1
         /\ t \in Held /\ w.pc \notin {"begin", "work"} =>
              Cardinality(Held') = Cardinality(Held) - 1
         /\ (t \in InFlight <=> w.pc \in {"work", "finish"}) => InFlight' = InFlight
         /\ t \notin InFlight /\ w.pc \in {"work", "finish"} =>
              Cardinality(InFlight') = Cardinality(InFlight) + 1
         /\ t \in InFlight /\ w.pc \notin {"work", "finish"} =>
              Cardinality(InFlight') = Cardinality(InFlight) - 1
<1>1. /\ worker' \in [Revokers -> WorkerState] /\ worker'[t] = w
      /\ \A u \in Revokers : u # t => worker'[u] = worker[u]
  BY DEF WorkerInv
<1>2. /\ w.pc \in {"begin", "work"} => Held' = Held \cup {t}
      /\ w.pc \notin {"begin", "work"} => Held' = Held \ {t}
      /\ w.pc \in {"work", "finish"} => InFlight' = InFlight \cup {t}
      /\ w.pc \notin {"work", "finish"} => InFlight' = InFlight \ {t}
  BY <1>1 DEF Held, InFlight
<1>3. ASSUME NEW S, IsFiniteSet(S)
      PROVE  /\ t \notin S => Cardinality(S \cup {t}) = Cardinality(S) + 1
             /\ t \in S => Cardinality(S \ {t}) = Cardinality(S) - 1
  BY <1>3, FS_AddElement, FS_RemoveElement
<1>4. IsFiniteSet(Held) /\ IsFiniteSet(InFlight)
  BY CountsFinite DEF WorkerInv
<1>5. (t \in Held => Held \cup {t} = Held) /\ (t \notin Held => Held \ {t} = Held)
  OBVIOUS
<1>6. (t \in InFlight => InFlight \cup {t} = InFlight) /\ (t \notin InFlight => InFlight \ {t} = InFlight)
  OBVIOUS
<1> QED  BY <1>1, <1>2, <1>3, <1>4, <1>5, <1>6

\* Looking at the event.
LEMMA CheckKeepsWorkerInv ==
  ASSUME WorkerInv, NEW t \in Revokers, WorkerCheck(t)
  PROVE  WorkerInv'
<1>1. CascadeInv' /\ UNCHANGED <<queue, submitting, metrics, submits>>
  BY CascadeInvStep DEF WorkerCheck, WorkerInv
<1>2. PICK w : /\ w \in WorkerState /\ w.pc \in {"get", "stopped"}
               /\ worker' = [worker EXCEPT ![t] = w]
  <2>1. PICK pc \in {"get", "stopped"} : worker' = [worker EXCEPT ![t].pc = pc]
    BY DEF WorkerCheck
  <2>2. PICK w : w = [worker[t] EXCEPT !.pc = pc]
    OBVIOUS
  <2> QED  BY <2>1, <2>2 DEF WorkerInv, WorkerState
<1>3. t \notin Held /\ t \notin InFlight
  BY DEF WorkerCheck, Held, InFlight
<1>4. /\ Held' = Held /\ InFlight' = InFlight
      /\ worker' \in [Revokers -> WorkerState] /\ worker'[t] = w
      /\ \A u \in Revokers : u # t => worker'[u] = worker[u]
  BY <1>2, <1>3, WorkerMoves
<1>5. Waiting(queue)' = Waiting(queue) /\ Uncounted' = Uncounted
  BY <1>1 DEF Waiting, Uncounted
<1>6. MetricsAccountForJobs'
  <2>1. metrics'.queued + Cardinality(Uncounted') =
          Cardinality(Waiting(queue)') + Cardinality(Held') + metrics'.completed + metrics'.failed
    BY <1>1, <1>4, <1>5, Balance
  <2>2. metrics'.inFlight = Cardinality(InFlight')
    BY <1>1, <1>4, Balance
  <2> QED  BY <1>1, <1>5, <2>1, <2>2, SubmitsUnchanged, MetricsMeanNext
<1> QED  BY <1>1, <1>2, <1>4, <1>6 DEF WorkerInv

\* Taking a job, a sentinel, or nothing from the queue.
LEMMA GetKeepsWorkerInv ==
  ASSUME WorkerInv, NEW t \in Revokers, WorkerGet(t)
  PROVE  WorkerInv'
<1>1. CascadeInv' /\ UNCHANGED <<submitting, metrics, submits>> /\ Uncounted' = Uncounted
  BY CascadeInvStep DEF WorkerGet, WorkerInv, Uncounted
<1>2. t \notin Held /\ t \notin InFlight /\ worker[t] \in WorkerState /\ queue \in Seq(Job)
  BY DEF WorkerGet, Held, InFlight, WorkerInv
<1>3. CASE queue # <<>> /\ queue' = Tail(queue)
           /\ worker' = [worker EXCEPT ![t] =
                IF Head(queue) = Sentinel THEN [pc |-> "stopped", job |-> None]
                ELSE [pc |-> "begin", job |-> Head(queue)]]
  <2>1. PICK job \in Job : job = Head(queue)
    BY <1>2, <1>3
  <2>2. queue' \in Seq(Job)
    BY <1>2, <1>3
  <2>3. Waiting(queue)' = Waiting(Tail(queue))
    BY <1>3 DEF Waiting
  <2>4. Cardinality(Waiting(queue)) =
          Cardinality(Waiting(Tail(queue))) + (IF job = Sentinel THEN 0 ELSE 1)
    BY <1>2, <1>3, <2>1, WaitingTail
  <2>5. Cardinality(Waiting(Tail(queue))) \in Nat
    <3>1. IsFiniteSet(1..Len(Tail(queue))) /\ Waiting(Tail(queue)) \in SUBSET (1..Len(Tail(queue)))
      BY <1>2, <1>3, FS_Interval DEF Waiting
    <3> QED  BY <3>1, FS_Subset, FS_CardinalityType
  <2>6. CASE job = Sentinel
    <3>1. PICK w \in WorkerState : w = [pc |-> "stopped", job |-> None]
      BY DEF WorkerState
    <3>2. worker' = [worker EXCEPT ![t] = w]
      BY <1>3, <2>1, <2>6, <3>1
    <3>3. /\ Held' = Held /\ InFlight' = InFlight
          /\ worker' \in [Revokers -> WorkerState] /\ worker'[t] = w
          /\ \A u \in Revokers : u # t => worker'[u] = worker[u]
      BY <1>2, <3>1, <3>2, WorkerMoves
    <3>4. Cardinality(Waiting(queue)') = Cardinality(Waiting(queue))
      BY <2>3, <2>4, <2>5, <2>6
    <3>5. metrics'.queued + Cardinality(Uncounted') =
            Cardinality(Waiting(queue)') + Cardinality(Held') + metrics'.completed + metrics'.failed
      BY <1>1, <3>3, <3>4, Balance
    <3>6. MetricsAccountForJobs'
      BY <1>1, <3>3, <3>5, Balance, SubmitsUnchanged, MetricsMeanNext
    <3> QED  BY <1>1, <2>2, <3>1, <3>3, <3>6 DEF WorkerInv
  <2>7. CASE job # Sentinel
    <3>1. job \in Ids
      BY <2>7 DEF Job
    <3>2. PICK w \in WorkerState : w = [pc |-> "begin", job |-> job]
      BY <3>1 DEF WorkerState
    <3>3. worker' = [worker EXCEPT ![t] = w]
      BY <1>3, <2>1, <2>7, <3>2
    <3>4. /\ Cardinality(Held') = Cardinality(Held) + 1 /\ InFlight' = InFlight
          /\ worker' \in [Revokers -> WorkerState] /\ worker'[t] = w
          /\ \A u \in Revokers : u # t => worker'[u] = worker[u]
      BY <1>2, <3>2, <3>3, WorkerMoves
    <3>5. Cardinality(Waiting(queue)) = Cardinality(Waiting(queue)') + 1
      BY <2>3, <2>4, <2>7
    <3>6. Cardinality(Waiting(queue)') \in Nat
      BY <2>3, <2>5
    <3>7. metrics'.queued + Cardinality(Uncounted') =
            Cardinality(Waiting(queue)') + Cardinality(Held') + metrics'.completed + metrics'.failed
      BY <1>1, <3>4, <3>5, <3>6, Balance
    <3>8. MetricsAccountForJobs'
      BY <1>1, <3>4, <3>7, Balance, SubmitsUnchanged, MetricsMeanNext
    <3> QED  BY <1>1, <2>2, <3>1, <3>2, <3>4, <3>8 DEF WorkerInv
  <2> QED  BY <2>6, <2>7
<1>4. CASE worker' = [worker EXCEPT ![t].pc = "check"] /\ UNCHANGED queue
  <2>1. PICK w : w = [worker[t] EXCEPT !.pc = "check"]
    OBVIOUS
  <2>2. w \in WorkerState /\ w.pc = "check" /\ worker' = [worker EXCEPT ![t] = w]
    BY <1>2, <1>4, <2>1 DEF WorkerState
  <2>3. /\ Held' = Held /\ InFlight' = InFlight
        /\ worker' \in [Revokers -> WorkerState] /\ worker'[t] = w
        /\ \A u \in Revokers : u # t => worker'[u] = worker[u]
    BY <1>2, <2>2, WorkerMoves
  <2>4. Waiting(queue)' = Waiting(queue)
    BY <1>4 DEF Waiting
  <2>5. metrics'.queued + Cardinality(Uncounted') =
          Cardinality(Waiting(queue)') + Cardinality(Held') + metrics'.completed + metrics'.failed
    BY <1>1, <2>3, <2>4, Balance
  <2>6. MetricsAccountForJobs'
    BY <1>1, <2>3, <2>5, Balance, SubmitsUnchanged, MetricsMeanNext
  <2> QED  BY <1>1, <1>2, <1>4, <2>2, <2>3, <2>6 DEF WorkerInv
<1> QED  BY <1>3, <1>4 DEF WorkerGet

\* The job is in flight.
LEMMA BeginKeepsWorkerInv ==
  ASSUME WorkerInv, NEW t \in Revokers, WorkerBegin(t)
  PROVE  WorkerInv'
<1>1. worker[t].pc = "begin" /\ worker[t] \in WorkerState /\ worker[t].job \in Ids
      /\ CascadeStart(t, worker[t].job)
  BY DEF WorkerBegin, WorkerInv
<1>2. CascadeInv'
  BY <1>1, CascadeInvStep DEF CascadeMove, WorkerInv
<1>3. /\ UNCHANGED <<queue, submitting, submits>>
      /\ Waiting(queue)' = Waiting(queue) /\ Uncounted' = Uncounted
  BY DEF WorkerBegin, Waiting, Uncounted
<1>4. PICK w : w = [worker[t] EXCEPT !.pc = "work"]
  OBVIOUS
<1>5. w \in WorkerState /\ w.pc = "work" /\ worker' = [worker EXCEPT ![t] = w]
  BY <1>1, <1>4 DEF WorkerState, WorkerBegin
<1>6. t \in Held /\ t \notin InFlight
  BY <1>1 DEF Held, InFlight
<1>7. /\ Held' = Held /\ Cardinality(InFlight') = Cardinality(InFlight) + 1
      /\ worker' \in [Revokers -> WorkerState] /\ worker'[t] = w
      /\ \A u \in Revokers : u # t => worker'[u] = worker[u]
  BY <1>5, <1>6, WorkerMoves
<1>8. /\ metrics' \in Metrics /\ metrics'.queued = metrics.queued
      /\ metrics'.completed = metrics.completed /\ metrics'.failed = metrics.failed
      /\ metrics'.inFlight = metrics.inFlight + 1 /\ metrics'.rejected = metrics.rejected
  BY DEF WorkerBegin, WorkerInv, Metrics
<1>9. metrics'.queued + Cardinality(Uncounted') =
        Cardinality(Waiting(queue)') + Cardinality(Held') + metrics'.completed + metrics'.failed
  BY <1>3, <1>7, <1>8, Balance
<1>10. metrics'.inFlight = Cardinality(InFlight')
  BY <1>7, <1>8, Balance
<1>11. MetricsAccountForJobs'
  BY <1>3, <1>8, <1>9, <1>10, SubmitsUnchanged, MetricsMeanNext
<1> QED  BY <1>2, <1>3, <1>5, <1>7, <1>8, <1>11 DEF WorkerInv

\* The call has returned or raised: the job is completed or failed.
LEMMA EndKeepsWorkerInv ==
  ASSUME WorkerInv, NEW t \in Revokers, WorkerComplete(t) \/ WorkerFail(t)
  PROVE  WorkerInv'
<1>1. worker[t].pc = "work" /\ worker[t] \in WorkerState /\ CascadeLeave(t)
  BY DEF WorkerComplete, WorkerFail, WorkerInv, CascadeDone, CascadeLeave
<1>2. CascadeInv'
  BY <1>1, CascadeInvStep DEF CascadeMove, WorkerInv
<1>3. /\ UNCHANGED <<queue, submitting, submits>>
      /\ Waiting(queue)' = Waiting(queue) /\ Uncounted' = Uncounted
  BY DEF WorkerComplete, WorkerFail, Waiting, Uncounted
<1>4. PICK w : w = [worker[t] EXCEPT !.pc = "finish"]
  OBVIOUS
<1>5. w \in WorkerState /\ w.pc = "finish" /\ worker' = [worker EXCEPT ![t] = w]
  BY <1>1, <1>4 DEF WorkerState, WorkerComplete, WorkerFail
<1>6. t \in Held /\ t \in InFlight
  BY <1>1 DEF Held, InFlight
<1>7. /\ Cardinality(Held') = Cardinality(Held) - 1 /\ InFlight' = InFlight
      /\ worker' \in [Revokers -> WorkerState] /\ worker'[t] = w
      /\ \A u \in Revokers : u # t => worker'[u] = worker[u]
  BY <1>5, <1>6, WorkerMoves
<1>8. /\ metrics' \in Metrics /\ metrics'.queued = metrics.queued
      /\ metrics'.inFlight = metrics.inFlight /\ metrics'.rejected = metrics.rejected
      /\ metrics'.completed + metrics'.failed = metrics.completed + metrics.failed + 1
      /\ metrics'.completed \in Nat /\ metrics'.failed \in Nat
  <2>1. metrics \in Metrics
    BY DEF WorkerInv
  <2>2. CASE metrics' = [metrics EXCEPT !.completed = @ + 1]
    BY <2>1, <2>2 DEF Metrics
  <2>3. CASE metrics' = [metrics EXCEPT !.failed = @ + 1]
    BY <2>1, <2>3 DEF Metrics
  <2> QED  BY <2>2, <2>3 DEF WorkerComplete, WorkerFail
<1>9. metrics'.queued + Cardinality(Uncounted') =
        Cardinality(Waiting(queue)') + Cardinality(Held') + metrics'.completed + metrics'.failed
  BY <1>3, <1>7, <1>8, Balance
<1>10. metrics'.inFlight = Cardinality(InFlight')
  BY <1>7, <1>8, Balance
<1>11. MetricsAccountForJobs'
  BY <1>3, <1>8, <1>9, <1>10, SubmitsUnchanged, MetricsMeanNext
<1> QED  BY <1>2, <1>3, <1>5, <1>7, <1>8, <1>11 DEF WorkerInv

\* Back to the loop.
LEMMA FinishKeepsWorkerInv ==
  ASSUME WorkerInv, NEW t \in Revokers, WorkerFinish(t)
  PROVE  WorkerInv'
<1>1. CascadeInv' /\ worker[t].pc = "finish"
  BY CascadeInvStep DEF WorkerFinish, WorkerInv
<1>2. /\ UNCHANGED <<queue, submitting, submits>>
      /\ Waiting(queue)' = Waiting(queue) /\ Uncounted' = Uncounted
  BY DEF WorkerFinish, Waiting, Uncounted
<1>3. PICK w \in WorkerState : w = [pc |-> "check", job |-> None]
  BY DEF WorkerState
<1>4. worker' = [worker EXCEPT ![t] = w] /\ w.pc = "check"
  BY <1>3 DEF WorkerFinish
<1>5. t \notin Held /\ t \in InFlight
  BY <1>1 DEF Held, InFlight
<1>6. /\ Held' = Held /\ Cardinality(InFlight') = Cardinality(InFlight) - 1
      /\ worker' \in [Revokers -> WorkerState] /\ worker'[t] = w
      /\ \A u \in Revokers : u # t => worker'[u] = worker[u]
  BY <1>4, <1>5, WorkerMoves
<1>7. metrics.inFlight - 1 \in Nat
  <2>1. IsFiniteSet(InFlight) /\ Cardinality(InFlight) \in Nat
    BY CountsFinite DEF WorkerInv
  <2>2. Cardinality(InFlight) # 0
    BY <1>5, <2>1, FS_EmptySet
  <2> QED  BY <2>1, <2>2, Balance
<1>8. /\ metrics' \in Metrics /\ metrics'.queued = metrics.queued
      /\ metrics'.completed = metrics.completed /\ metrics'.failed = metrics.failed
      /\ metrics'.inFlight = metrics.inFlight - 1 /\ metrics'.rejected = metrics.rejected
  BY <1>7 DEF WorkerFinish, WorkerInv, Metrics
<1>9. metrics'.queued + Cardinality(Uncounted') =
        Cardinality(Waiting(queue)') + Cardinality(Held') + metrics'.completed + metrics'.failed
  BY <1>2, <1>6, <1>8, Balance
<1>10. metrics'.inFlight = Cardinality(InFlight')
  BY <1>6, <1>8, Balance
<1>11. MetricsAccountForJobs'
  BY <1>2, <1>8, <1>9, <1>10, SubmitsUnchanged, MetricsMeanNext
<1> QED  BY <1>1, <1>2, <1>4, <1>6, <1>8, <1>11 DEF WorkerInv

\* A sentinel is no job.
LEMMA WakeKeepsWorkerInv ==
  ASSUME WorkerInv, ShutdownWake
  PROVE  WorkerInv'
<1>1. CascadeInv' /\ UNCHANGED <<worker, submitting, metrics, submits>> /\ queue \in Seq(Job)
  BY CascadeInvStep DEF ShutdownWake, WorkerInv
<1>2. queue' = queue \/ queue' = Append(queue, Sentinel)
  BY DEF ShutdownWake
<1>3. Sentinel \in Job
  BY DEF Job
<1>4. queue' \in Seq(Job)
  BY <1>1, <1>2, <1>3
<1>5. Cardinality(Waiting(queue)') = Cardinality(Waiting(queue))
  <2>1. CASE queue' = queue
    BY <2>1 DEF Waiting
  <2>2. CASE queue' = Append(queue, Sentinel)
    <3>1. Waiting(queue)' = Waiting(Append(queue, Sentinel))
      BY <2>2 DEF Waiting
    <3>2. Cardinality(Waiting(Append(queue, Sentinel))) = Cardinality(Waiting(queue)) + 0
      BY <1>1, <1>3, WaitingAppend
    <3> QED  BY <3>1, <3>2, Balance
  <2> QED  BY <1>2, <2>1, <2>2
<1>6. Held' = Held /\ InFlight' = InFlight /\ Uncounted' = Uncounted
  BY <1>1 DEF Held, InFlight, Uncounted
<1>7. metrics'.queued + Cardinality(Uncounted') =
        Cardinality(Waiting(queue)') + Cardinality(Held') + metrics'.completed + metrics'.failed
  BY <1>1, <1>5, <1>6, Balance
<1>8. MetricsAccountForJobs'
  BY <1>1, <1>6, <1>7, Balance, SubmitsUnchanged, MetricsMeanNext
<1> QED  BY <1>1, <1>4, <1>8 DEF WorkerInv

LEMMA WorkerInvStep == WorkerInv /\ [WorkerNext]_workerVars => WorkerInv'
<1> SUFFICES ASSUME WorkerInv, [WorkerNext]_workerVars PROVE WorkerInv'
  OBVIOUS
<1>1. ASSUME NEW t \in Submitters, SubmitCount(t) PROVE WorkerInv'
  BY <1>1, CountKeepsWorkerInv
<1>2. ASSUME NEW t \in Submitters, NEW id \in Ids, Submit(t, id) PROVE WorkerInv'
  BY <1>2, SubmitKeepsWorkerInv
<1>3. ASSUME NEW t \in Revokers, WorkerCheck(t) \/ WorkerGet(t) \/ WorkerBegin(t)
      PROVE  WorkerInv'
  BY <1>3, CheckKeepsWorkerInv, GetKeepsWorkerInv, BeginKeepsWorkerInv
<1>4. ASSUME NEW t \in Revokers, WorkerComplete(t) \/ WorkerFail(t) \/ WorkerFinish(t)
      PROVE  WorkerInv'
  BY <1>4, EndKeepsWorkerInv, FinishKeepsWorkerInv
<1>5. ASSUME NEW t \in Revokers, WorkerCascade(t) PROVE WorkerInv'
  <2>1. CascadeInv'
    BY <1>5, CascadeInvStep DEF WorkerCascade, CascadeMove, WorkerInv
  <2> QED  BY <1>5, <2>1, QueueUnchanged DEF WorkerCascade, queueVars
<1>6. CASE ShutdownSet
  <2>1. CascadeInv'
    BY <1>6, CascadeInvStep DEF ShutdownSet, WorkerInv
  <2> QED  BY <1>6, <2>1, QueueUnchanged DEF ShutdownSet
<1>7. CASE ShutdownWake
  BY <1>7, WakeKeepsWorkerInv
<1>8. CASE WriterStep
  <2>1. CascadeInv'
    BY <1>8, CascadeInvStep DEF WriterStep, CascadeMove, WorkerInv
  <2> QED  BY <1>8, <2>1, QueueUnchanged DEF WriterStep, queueVars
<1>9. CASE UNCHANGED workerVars
  <2>1. CascadeInv'
    BY <1>9, CascadeInvStep DEF workerVars, WorkerInv
  <2> QED  BY <1>9, <2>1, QueueUnchanged DEF workerVars, queueVars
<1> QED
  BY <1>1, <1>2, <1>3, <1>4, <1>5, <1>6, <1>7, <1>8, <1>9 DEF WorkerNext, WorkerStep

\* The metrics lose no job, for any number of workers, submitters and jobs, through
\* rejections, failures and shutdown (async_cascade.py:121-227).
THEOREM MetricsLoseNoJob == WorkerSpec => []MetricsAccountForJobs
<1>1. WorkerInv => MetricsAccountForJobs
  BY DEF WorkerInv
<1> QED  BY <1>1, WorkerInvInit, WorkerInvStep, PTL DEF WorkerSpec

\* CT-I5 for the worker pool: its cascades are complete and have their origins, those
\* that a failing store cuts short aside, whose marks are still right.
THEOREM WorkersCascadeCompletely ==
  WorkerSpec => []CascadeComplete /\ []DerivativeHasRevokedOrigin
<1>1. WorkerInv => CascadeComplete /\ DerivativeHasRevokedOrigin
  BY CascadeInvMeans DEF WorkerInv
<1> QED  BY <1>1, WorkerInvInit, WorkerInvStep, PTL DEF WorkerSpec
=============================================================================
