------------------------------- MODULE Vault --------------------------------
(***************************************************************************)
(* CapabilityVault (infrastructure/vault/capabilities.py).  Each process   *)
(* has a vault of its own over the shared trust store; the vault keeps a   *)
(* registry of intent roots in memory, which a new process starts without. *)
(***************************************************************************)
EXTENDS TrustStore

CONSTANT Processes

VARIABLES
  registry,  \* per process, the intent roots its vault has in memory, with their rows
  issued     \* the root ids drawn so far: a uuid4 never comes twice

vaultVars == <<storeVars, registry, issued>>

\* An in-memory registry: root id -> row.
Registry == UNION {[rs -> RootRow] : rs \in SUBSET Roots}
EmptyRegistry == [r \in {} |-> None]

VaultInit ==
  /\ TrustStoreInit
  /\ registry = [p \in Processes |-> EmptyRegistry]
  /\ issued = {}

Remember(p, r, row) ==
  registry' = [registry EXCEPT ![p] =
    [q \in DOMAIN registry[p] \cup {r} |-> IF q = r THEN row ELSE registry[p][q]]]

\* register_intent_root: into the registry first, then into the store.
RegisterRoot(p, r, scope) ==
  LET row == [scope |-> scope, issued |-> clock]
  IN /\ Remember(p, r, row)
     /\ StoreIntentRoot(r, row)
     /\ UNCHANGED issued

\* The store raises: the root stays in this process's registry only, its id is lost.
RegisterRootFails(p, r, scope) ==
  /\ Remember(p, r, [scope |-> scope, issued |-> clock])
  /\ UNCHANGED <<storeVars, issued>>

\* Mutant: the scope is compared with the wrong side.
MayMintWider(p, r, scope) ==
  /\ r \in DOMAIN registry[p]
  /\ <<registry[p][r].scope, scope>> \in Within

\* mint_capability asks the registry only, never the store, and not for the root's age.
MayMint(p, r, scope) ==
  /\ r \in DOMAIN registry[p]
  /\ <<scope, registry[p][r].scope>> \in Within

Mint(p, k, row) ==
  /\ MayMint(p, row.root, row.scope)
  /\ tokens[k] = None
  /\ StoreCapabilityToken(k, row)
  /\ UNCHANGED <<registry, issued>>

\* verify_token, in a process whose registry has nothing to offer yet: stored and not
\* revoked, its root loads, not expired, inside the root.
VerifiesAfterRestart(k) ==
  /\ TokenLoads(k)
  /\ RootLoads(tokens[k].root)
  /\ <<tokens[k].scope, intentRoots[tokens[k].root].scope>> \in Within

RevokeToken(k) == RevokeCapabilityToken(k) /\ UNCHANGED <<registry, issued>>

VaultTypeOK ==
  /\ TrustStoreTypeOK
  /\ registry \in [Processes -> Registry]
  /\ issued \subseteq Roots
=============================================================================
