------------------------------ MODULE Sentinel ------------------------------
(***************************************************************************)
(* SentinelService (infrastructure/policy_engine/sentinel_service.py): the *)
(* Rego bundle through the opa binary where it answers, the deterministic  *)
(* PolicyEngine (engine.py) where it does not.  A process has one of each. *)
(***************************************************************************)
EXTENDS Vault

CONSTANT MaxDispatches \* PolicyContext.max_dispatches_per_turn (12)

ASSUME SentinelAssumption == MaxDispatches \in Nat

VARIABLES
  known,      \* PolicyEngine.intent_roots: per process, roots with their rows
  dispatches, \* PolicyEngine.turn_dispatches, counted up to MaxDispatches + 1
  turnPermits \* history, not in the code: permits PolicyEngine gave since begin_turn

sentinelVars == <<known, dispatches, turnPermits>>

SentinelInit ==
  /\ known = [p \in Processes |-> EmptyRegistry]
  /\ dispatches = [p \in Processes |-> 0]
  /\ turnPermits = [p \in Processes |-> 0]

\* _assign_risk_tier; the tier an action names for itself counts for no known type.
AssignedTier == [read |-> 0, write |-> 1, commit |-> 2, command |-> 2, memory |-> 2, spawn |-> 3]

\* _evaluate_policy refuses commands and the types it does not know.  A memory write asks
\* for the quarantine tier here.
PolicyAllows(type) == type \in {"read", "write", "commit", "memory"}

\* Layer 2, _validate_capability.
CapabilityOk(p, a, k) ==
  k # None =>
    /\ tokens[k].root = a.root
    /\ a.type \in tokens[k].types
    /\ AssignedTier[a.type] <= tokens[k].ceiling
    /\ <<a.scope, tokens[k].scope>> \in Within

\* Layer 3, _validate_intent, of an action proposed now.
IntentOk(p, a) ==
  /\ a.root \in DOMAIN known[p]
  /\ clock <= known[p][a.root].issued + RootTtl
  /\ <<a.scope, known[p][a.root].scope>> \in Within
  /\ <<a.scope, Workspace>> \in Within

\* Layers 2 to 5; shell metacharacters and traversal never get past ActionProposal.
LayersPass(p, a, k) == CapabilityOk(p, a, k) /\ IntentOk(p, a) /\ PolicyAllows(a.type)

\* Mutant: the dispatch is not counted.
CountDispatchForgotten(p) == dispatches[p]

\* Layer 6, _resource_check: counts what reaches it, refused or not.
CountDispatch(p) ==
  IF dispatches[p] > MaxDispatches THEN dispatches[p] ELSE dispatches[p] + 1

\* PolicyEngine.evaluate.
PythonDecides(p, a, k, permitted) ==
  LET counted == CountDispatch(p)
      passes == LayersPass(p, a, k)
  IN /\ permitted = (passes /\ counted <= MaxDispatches)
     /\ dispatches' = [dispatches EXCEPT ![p] = IF passes THEN counted ELSE @]
     /\ turnPermits' = [turnPermits EXCEPT ![p] = IF permitted THEN @ + 1 ELSE @]

\* The rego rules (sentinel.rego, capability.rego, filesystem.rego): a file action wants
\* exactly the tier of its type and a path that starts with the workspace's; every action
\* a token with a path that it starts with.  A command and a memory write need input
\* fields the adapter never sends; the intent root's scope is not looked at.
OpaDecides(a, k, permitted) ==
  /\ permitted =
       /\ k # None
       /\ \/ a.type \in {"read", "write", "commit"} /\ a.tier = AssignedTier[a.type]
             /\ <<a.scope, Workspace>> \in TextPrefix
          \/ a.type = "spawn"
       /\ tokens[k].root = a.root
       /\ <<a.scope, tokens[k].scope>> \in TextPrefix
       /\ a.tier <= tokens[k].ceiling
  /\ UNCHANGED <<dispatches, turnPermits>>

\* SentinelService.evaluate up to store_decision: the decision and who took it.  An opa
\* that is missing, fails or answers nothing leaves it to the engine.
Decide(p, a, k, by, permitted) ==
  /\ a.root \in DOMAIN known[p]
  /\ \/ by = "opa" /\ OpaDecides(a, k, permitted)
     \/ by = "python" /\ PythonDecides(p, a, k, permitted)
  /\ UNCHANGED known

\* begin_turn, which only the orchestrator calls.
BeginTurn(p) ==
  /\ dispatches' = [dispatches EXCEPT ![p] = 0]
  /\ turnPermits' = [turnPermits EXCEPT ![p] = 0]
  /\ UNCHANGED known

Admit(p, r, row) ==
  /\ known' = [known EXCEPT ![p] =
       [q \in DOMAIN known[p] \cup {r} |-> IF q = r THEN row ELSE known[p][q]]]
  /\ UNCHANGED <<dispatches, turnPermits>>

SentinelTypeOK ==
  /\ known \in [Processes -> Registry]
  /\ dispatches \in [Processes -> 0..MaxDispatches + 1]
  /\ turnPermits \in [Processes -> Nat]
=============================================================================
