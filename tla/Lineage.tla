------------------------------ MODULE Lineage ------------------------------
(***************************************************************************)
(* The append-only DAG of attestations (cogtrust/lineage.py).              *)
(*                                                                         *)
(* LineageStore.append runs under the store's lock but writes its four     *)
(* structures one after the other, and every query reads them without the  *)
(* lock; so an append is a sequence of steps of its thread:                *)
(*   AppendStore  take the lock, check, _attestations[id] = att            *)
(*   AppendEdge   _children[parent].append(id), one parent at a time       *)
(*   AppendRoot   _by_intent_root[root].append(id), read the chain's head  *)
(*   AppendLink   _chain.append((id, hash)), release the lock              *)
(* A link's hash covers the previous hash and the attestation; SHA-256 is  *)
(* taken to be injective, so a hash is the sequence of ids it covers.      *)
(***************************************************************************)
EXTENDS AttestationDag, Sequences

CONSTANT Threads  \* the threads that append

ASSUME ThreadsAssumption == None \notin Threads

VARIABLES
  children,      \* _children: id -> ids of the attestations that name it as a parent
  byIntentRoot,  \* _by_intent_root: intent root -> ids issued under it
  chain,         \* _chain: the hash chain
  lineageLock,   \* the thread inside `with self._lock`, or None
  appending      \* per thread, the append in progress

lineageVars ==
  <<attestations, children, byIntentRoot, chain, lineageLock, appending>>

Link == [id: Ids, hash: Seq(Ids)]
AppendState ==
  [pc: {"idle", "edges", "link"}, id: Ids \cup {None}, todo: SUBSET Ids, prev: Seq(Ids)]

NoAppend == [pc |-> "idle", id |-> None, todo |-> {}, prev |-> <<>>]

\* The hash of the newest link; GENESIS_HASH covers nothing.
ChainHead == IF chain = <<>> THEN <<>> ELSE chain[Len(chain)].hash

LineageInit ==
  /\ DagInit
  /\ children = [i \in Ids |-> {}]
  /\ byIntentRoot = [i \in Ids |-> {}]
  /\ chain = <<>>
  /\ lineageLock = None
  /\ appending = [t \in Threads |-> NoAppend]

\* Mutant: append does not take the lock.
AppendStoreUnlocked(t, id, a) ==
  /\ appending[t].pc = "idle"
  /\ Add(id, a)
  /\ appending' = [appending EXCEPT
                     ![t] = [pc |-> "edges", id |-> id, todo |-> ParentsOf(a), prev |-> <<>>]]
  /\ UNCHANGED <<children, byIntentRoot, chain, lineageLock>>

AppendStore(t, id, a) ==
  /\ appending[t].pc = "idle"
  /\ lineageLock = None
  /\ Add(id, a)
  /\ lineageLock' = t
  /\ appending' = [appending EXCEPT
                     ![t] = [pc |-> "edges", id |-> id, todo |-> ParentsOf(a), prev |-> <<>>]]
  /\ UNCHANGED <<children, byIntentRoot, chain>>

AppendEdge(t) ==
  /\ appending[t].pc = "edges"
  /\ \E p \in appending[t].todo :
       /\ children' = [children EXCEPT ![p] = @ \cup {appending[t].id}]
       /\ appending' = [appending EXCEPT ![t].todo = @ \ {p}]
  /\ UNCHANGED <<attestations, byIntentRoot, chain, lineageLock>>

AppendRoot(t) ==
  LET id == appending[t].id
      root == attestations[id].intent
  IN /\ appending[t].pc = "edges"
     /\ appending[t].todo = {}
     /\ byIntentRoot' = [r \in Ids |-> byIntentRoot[r] \cup (IF r = root THEN {id} ELSE {})]
     /\ appending' = [appending EXCEPT ![t].pc = "link", ![t].prev = ChainHead]
     /\ UNCHANGED <<attestations, children, chain, lineageLock>>

AppendLink(t) ==
  LET id == appending[t].id
  IN /\ appending[t].pc = "link"
     /\ chain' = Append(chain, [id |-> id, hash |-> Append(appending[t].prev, id)])
     /\ lineageLock' = None
     /\ appending' = [appending EXCEPT ![t] = NoAppend]
     /\ UNCHANGED <<attestations, children, byIntentRoot>>

\* validate_chain: every link is of a stored attestation and hashes its predecessor.
ValidateChain ==
  \A n \in 1..Len(chain) :
    /\ chain[n].id \in Known
    /\ chain[n].hash = Append(IF n = 1 THEN <<>> ELSE chain[n - 1].hash, chain[n].id)

\* The rest of an append once its attestation is stored.
AppendStep(t) == AppendEdge(t) \/ AppendRoot(t) \/ AppendLink(t)

LineageNext ==
  \E t \in Threads :
    \/ \E id \in Ids, a \in Attestation : AppendStore(t, id, a)
    \/ AppendStep(t)

LineageSpec == LineageInit /\ [][LineageNext]_lineageVars

-----------------------------------------------------------------------------
LineageTypeOK ==
  /\ DagTypeOK
  /\ children \in [Ids -> SUBSET Ids]
  /\ byIntentRoot \in [Ids -> SUBSET Ids]
  /\ chain \in Seq(Link)
  /\ lineageLock \in Threads \cup {None}
  /\ appending \in [Threads -> AppendState]

\* Positions of the hash chain that hold `id`.
Linked(id) == {n \in 1..Len(chain) : chain[n].id = id}

\* CT-I9, the lineage is a DAG: the hash chain is a topological order of it. Every
\* reference of a linked attestation is to one linked before it, no attestation is
\* linked twice, and a link whose append is under way has all its references linked.
LineageOrdered ==
  /\ \A n \in 1..Len(chain) : \A p \in Upstream(chain[n].id) :
       \E m \in 1..(n - 1) : chain[m].id = p
  /\ \A m, n \in 1..Len(chain) : chain[m].id = chain[n].id => m = n
  /\ \A t \in Threads : appending[t].pc # "idle" =>
       \A p \in Upstream(appending[t].id) : Linked(p) # {}

\* The four structures of append() agree (lineage.py:54-99) even though lockless
\* readers may look between their writes: only the edges, the intent-root entry and
\* the link of the append under way may be missing, and validate_chain never
\* fails on a store that only append() has written.
IndexesAgree ==
  /\ \A i, c \in Ids : c \in children[i] => i \in Upstream(c)
  /\ \A c \in Known : \A i \in Upstream(c) :
       c \in children[i] \/ \E t \in Threads : appending[t].id = c /\ i \in appending[t].todo
  /\ \A r, c \in Ids : c \in byIntentRoot[r] => c \in Known /\ attestations[c].intent = r
  /\ \A c \in Known :
       \/ Linked(c) # {} /\ (attestations[c].intent # None =>
                               c \in byIntentRoot[attestations[c].intent])
       \/ \E t \in Threads : appending[t].pc # "idle" /\ appending[t].id = c
  /\ ValidateChain

\* CT-I9 and CT-I11, append-only: no edge is ever taken back, and the hash chain only
\* grows at its end.
AppendOnly ==
  [][/\ \A i \in Ids : children[i] \subseteq children'[i] /\ byIntentRoot[i] \subseteq byIntentRoot'[i]
     /\ Len(chain') >= Len(chain)
     /\ \A n \in 1..Len(chain) : chain'[n] = chain[n]]_lineageVars
=============================================================================
