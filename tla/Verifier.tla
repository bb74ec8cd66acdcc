------------------------------ MODULE Verifier -----------------------------
(***************************************************************************)
(* Verifier.verify (cogtrust/verification.py) racing appends and           *)
(* revocations.                                                            *)
(*                                                                         *)
(* verify() reads the index version, looks (id, version) up in its cache   *)
(* and, on a miss, walks the chain with no lock at all, reading the        *)
(* lineage, the revocation index and the clock at every vertex, then       *)
(* stores the answer under the version it read at the start.               *)
(*                                                                         *)
(* Of the lineage it reads only the dictionary (AttestationDag), of the    *)
(* index only its entries and version; revoke() is called here for any id  *)
(* in any order, which includes every order a cascade calls it in.         *)
(***************************************************************************)
EXTENDS AttestationDag, RevocationIndex

CONSTANTS
  Verifiers,  \* the threads that verify
  MaxClock,   \* bound on the wall clock
  MaxVerifies \* bound on the calls of verify()

ASSUME VerifierAssumption ==
  /\ MaxClock \in Nat /\ MaxVerifies \in Nat
  /\ Payload \subseteq [notBefore: Nat \cup {None}, expires: Nat \cup {None}, sigOk: BOOLEAN]

VARIABLES
  clock,     \* wall clock
  cache,     \* _cache: records of id, version and the trust state stored for them
  verify,    \* per verifier, the call of verify() in progress
  verifies   \* calls of verify() so far

storeVars == <<attestations, indexVars>>
verifierVars == <<storeVars, clock, cache, verify, verifies>>

TrustState == {"valid", "expired", "not_yet_valid", "revoked", "derivative_revoked",
               "signature_invalid", "missing_predecessor", "unknown"}

CacheEntry == [id: Ids, version: Nat, state: TrustState]

\* todo: the vertices _compute_status has still to look at.
VerifyState ==
  [pc: {"idle", "lookup", "walk", "store"}, target: Ids \cup {None}, version: Nat,
   todo: SUBSET Ids, state: TrustState]

NoVerify == [pc |-> "idle", target |-> None, version |-> 0, todo |-> {}, state |-> "unknown"]

VerifierInit ==
  /\ DagInit
  /\ IndexInit
  /\ clock = 0
  /\ cache = {}
  /\ verify = [t \in Verifiers |-> NoVerify]
  /\ verifies = 0

\* `current_version = self._revocation.version()`
VerifyStart(t, id) ==
  /\ verify[t].pc = "idle"
  /\ verifies < MaxVerifies
  /\ verify' = [verify EXCEPT ![t] =
                  [NoVerify EXCEPT !.pc = "lookup", !.target = id, !.version = version]]
  /\ verifies' = verifies + 1
  /\ UNCHANGED <<storeVars, clock, cache>>

Cached(id, v) == {c \in cache : c.id = id /\ c.version = v}

\* A hit returns the cached state, a miss starts _compute_status.
VerifyLookup(t) ==
  LET v == verify[t]
  IN /\ v.pc = "lookup"
     /\ verify' = [verify EXCEPT ![t] =
                     IF Cached(v.target, v.version) # {} THEN NoVerify
                     ELSE [v EXCEPT !.pc = "walk", !.todo = {v.target}]]
     /\ UNCHANGED <<storeVars, clock, cache, verifies>>

\* What _compute_status says of one vertex, its references aside.
VertexState(x) ==
  LET p == attestations[x].payload
  IN IF attestations[x] = None THEN "unknown"
     ELSE IF x \in Revoked
          THEN (IF entries[x].derivative THEN "derivative_revoked" ELSE "revoked")
     ELSE IF p.notBefore # None /\ clock < p.notBefore THEN "not_yet_valid"
     ELSE IF p.expires # None /\ clock > p.expires THEN "expired"
     ELSE IF ~p.sigOk THEN "signature_invalid"
     ELSE IF attestations[x].intent \notin Known \cup {None} THEN "missing_predecessor"
     ELSE "valid"

\* Above the vertex that failed, revoked and derivative_revoked read derivative_revoked.
Inherited(s) == IF s \in {"revoked", "derivative_revoked"} THEN "derivative_revoked" ELSE s

\* A valid vertex is followed by its intent root and its predecessors.
WalkOn(x) == ParentsOf(attestations[x])

\* One vertex of the walk.  The recursion's order only decides which of several bad
\* ancestors is named, so any vertex may be next.
VerifyVertex(t) ==
  /\ verify[t].pc = "walk"
  /\ \E x \in verify[t].todo :
       LET s == VertexState(x)
           rest == IF s = "valid" THEN (verify[t].todo \ {x}) \cup WalkOn(x) ELSE {}
       IN verify' = [verify EXCEPT
            ![t].todo = rest,
            ![t].pc = IF rest = {} THEN "store" ELSE "walk",
            ![t].state = IF x = verify[t].target THEN s ELSE Inherited(s)]
  /\ UNCHANGED <<storeVars, clock, cache, verifies>>

\* Mutant: the answer is stored under the version of the end of the walk.
VerifyStoreLate(t) ==
  LET v == verify[t]
  IN /\ v.pc = "store"
     /\ cache' = (cache \ Cached(v.target, version))
                   \cup {[id |-> v.target, version |-> version, state |-> v.state]}
     /\ verify' = [verify EXCEPT ![t] = NoVerify]
     /\ UNCHANGED <<storeVars, clock, verifies>>

\* `self._cache[cache_key] = result`, return it.
VerifyStore(t) ==
  LET v == verify[t]
  IN /\ v.pc = "store"
     /\ cache' = (cache \ Cached(v.target, v.version))
                   \cup {[id |-> v.target, version |-> v.version, state |-> v.state]}
     /\ verify' = [verify EXCEPT ![t] = NoVerify]
     /\ UNCHANGED <<storeVars, clock, verifies>>

InvalidateCache ==
  /\ cache' = {}
  /\ UNCHANGED <<storeVars, clock, verify, verifies>>

Tick ==
  /\ clock < MaxClock
  /\ clock' = clock + 1
  /\ UNCHANGED <<storeVars, cache, verify, verifies>>

StoreStep ==
  /\ \/ DagNext /\ UNCHANGED indexVars
     \/ IndexNext /\ UNCHANGED attestations
  /\ UNCHANGED <<clock, cache, verify, verifies>>

VerifierNext ==
  \/ StoreStep
  \/ \E t \in Verifiers :
       \/ \E id \in Ids : VerifyStart(t, id)
       \/ VerifyLookup(t) \/ VerifyVertex(t) \/ VerifyStore(t)
  \/ InvalidateCache
  \/ Tick

VerifierSpec == VerifierInit /\ [][VerifierNext]_verifierVars

-----------------------------------------------------------------------------
VerifierTypeOK ==
  /\ DagTypeOK
  /\ IndexTypeOK
  /\ clock \in 0..MaxClock
  /\ cache \subseteq CacheEntry
  /\ verify \in [Verifiers -> VerifyState]
  /\ verifies \in 0..MaxVerifies

\* How stale a cached "valid" can be (verification.py:65-89, revocation.py:46-58): by at
\* most the one revocation that was being stored when its version was read.  An
\* attestation cached as valid under version v had neither itself nor anything it is
\* derived from revoked under a version before v.
CacheLagsOneRevocation ==
  \A c \in cache : c.state = "valid" =>
    \A a \in Lineal(c.id) \cap Revoked : entries[a].version >= c.version

\* No holes: a chain that append() has accepted can be walked to its end.  Whatever is
\* appended meanwhile, the walk only ever steps on stored attestations, the one asked
\* for aside, and never answers missing_predecessor.
WalkNeverMissesPredecessor ==
  \A t \in Verifiers :
    /\ verify[t].todo \subseteq Known \cup {verify[t].target}
    /\ verify[t].state # "missing_predecessor"

=============================================================================
