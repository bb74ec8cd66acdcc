----------------------------- MODULE TrustStore -----------------------------
(***************************************************************************)
(* The governance tables of infrastructure/trust_store/store.py: intent    *)
(* roots, capability tokens, Sentinel decisions, audit traces, provenance. *)
(*                                                                         *)
(* One SQLite file per workspace, shared by every process; each method is  *)
(* one committed transaction.  It may raise instead (a locked database),   *)
(* and then it has changed nothing.                                        *)
(***************************************************************************)
EXTENDS Integers, FiniteSets

CONSTANTS
  Roots,      \* intent root ids, drawn once each
  Tokens,     \* capability token ids, drawn once each
  Scopes,     \* the paths a root, token or action may name
  Workspace,  \* the workspace root, one of Scopes
  Within,     \* path_subscope: pairs <<path, ancestor or itself>>
  TextPrefix, \* rego's startswith: pairs <<path, string prefix of it>>
  Types,      \* the action types that occur
  RootTtl,    \* life of an intent root (3600 s in the code)
  TokenTtl,   \* life of a token (600 s in the code)
  MaxClock,   \* bound on the wall clock
  None        \* the absent value

ASSUME TrustStoreAssumption ==
  /\ Workspace \in Scopes
  /\ Within \subseteq TextPrefix /\ TextPrefix \subseteq Scopes \X Scopes
  /\ \A s, t, u \in Scopes : <<s, t>> \in Within /\ <<t, u>> \in Within => <<s, u>> \in Within
  /\ TokenTtl \in Nat /\ RootTtl \in Nat /\ MaxClock \in Nat
  /\ TokenTtl <= RootTtl
  /\ None \notin Roots \cup Tokens

VARIABLES
  clock,       \* wall clock
  intentRoots, \* per root id its row, or None
  tokens,      \* per token id its row, or None
  revoked,     \* the tokens whose row says revoked = 1
  decisions,   \* sentinel_decisions
  traces,      \* audit_traces
  provenance   \* provenance_attestations

storeVars == <<clock, intentRoots, tokens, revoked, decisions, traces, provenance>>

Tiers == 0..3

RootRow == [scope: Scopes, issued: 0..MaxClock]
TokenRow == [root: Roots, scope: Scopes, types: SUBSET Types, ceiling: Tiers,
             issued: 0..MaxClock]
\* An ActionProposal: what is to be done, where, at which risk tier, for which root.
Action == [root: Roots, type: Types, scope: Scopes, tier: Tiers]
\* A stored decision: on which action and token, and what it says.
Decision == [action: Action, token: Tokens \cup {None}, permitted: BOOLEAN]
\* A trace carries its root and, where the surface has one, the decision it reports.
Trace == [kind: {"mint", "evaluation", "patch", "replay", "run", "dispatch", "prompt"},
          root: Roots \cup {None}, decision: Decision \cup {None}]

ASSUME RowsAssumption == None \notin RootRow \cup TokenRow \cup Action \cup Decision

TrustStoreInit ==
  /\ clock = 0
  /\ intentRoots = [r \in Roots |-> None]
  /\ tokens = [k \in Tokens |-> None]
  /\ revoked = {}
  /\ decisions = {} /\ traces = {} /\ provenance = {}

\* Storing a root again (Sentinel does) writes the same payload.
StoreIntentRoot(r, row) ==
  /\ intentRoots' = [intentRoots EXCEPT ![r] = row]
  /\ UNCHANGED <<clock, tokens, revoked, decisions, traces, provenance>>

StoreCapabilityToken(k, row) ==
  /\ tokens' = [tokens EXCEPT ![k] = row]
  /\ UNCHANGED <<clock, intentRoots, revoked, decisions, traces, provenance>>

\* Mutant: an unknown token counts as revoked.
RevokeCapabilityTokenBlind(k) ==
  /\ revoked' = revoked \cup {k}
  /\ UNCHANGED <<clock, intentRoots, tokens, decisions, traces, provenance>>

RevokeCapabilityToken(k) ==
  /\ revoked' = IF tokens[k] = None THEN revoked ELSE revoked \cup {k}
  /\ UNCHANGED <<clock, intentRoots, tokens, decisions, traces, provenance>>

StoreDecision(d) ==
  /\ decisions' = decisions \cup {d}
  /\ UNCHANGED <<clock, intentRoots, tokens, revoked, traces, provenance>>

StoreAuditTrace(t) ==
  /\ traces' = traces \cup {t}
  /\ UNCHANGED <<clock, intentRoots, tokens, revoked, decisions, provenance>>

StoreProvenance(r) ==
  /\ provenance' = provenance \cup {r}
  /\ UNCHANGED <<clock, intentRoots, tokens, revoked, decisions, traces>>

\* A row becomes an IntentRoot or a CapabilityToken only while it has not expired: the
\* constructors refuse an expires_at that is not in the future.
RootLoads(r) == intentRoots[r] # None /\ clock < intentRoots[r].issued + RootTtl
TokenLoads(k) ==
  /\ tokens[k] # None /\ k \notin revoked
  /\ clock < tokens[k].issued + TokenTtl

TrustStoreTypeOK ==
  /\ clock \in 0..MaxClock
  /\ intentRoots \in [Roots -> RootRow \cup {None}]
  /\ tokens \in [Tokens -> TokenRow \cup {None}]
  /\ revoked \subseteq {k \in Tokens : tokens[k] # None}
  /\ decisions \subseteq Decision
  /\ traces \subseteq Trace
  /\ provenance \subseteq Roots
=============================================================================
