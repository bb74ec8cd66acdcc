----------------------------- MODULE Governance -----------------------------
(***************************************************************************)
(* What drives vault, Sentinel and trust store: the CLI commands mint,     *)
(* evaluate, patch and replay (hermes_prime/cli.py), the executor          *)
(* (autonomous/executor.py), the orchestrator behind --prompt              *)
(* (core/hermes_agent/orchestrator.py), the governed tool dispatcher       *)
(* (agent/governed_dispatch.py) and the hooks around upstream commands     *)
(* (orch/governance_hooks.py, orch/governed_agent.py).                     *)
(*                                                                         *)
(* A process is single-threaded and makes one call at a time, step by      *)
(* step; processes meet in the trust store.  A CLI command has a process   *)
(* to itself.  A process may die at any step and loses its memory.         *)
(***************************************************************************)
EXTENDS Sentinel

CONSTANTS
  MintRequests, \* [scope, types, ceiling] `hermes mint` is asked for
  Proposals,   \* [type, scope, tier] that `hermes evaluate` and the model's answers name;
               \* an answer may name no tier, or an unknown one
  ToolTypes,   \* action types of the dispatched tools; of prompts, but for "spawn"
  MaxCalls,    \* bound on the calls made, over all processes
  MaxAttempts  \* attempts at inference (3 in the code)

ASSUME GovernanceAssumption ==
  /\ MintRequests \subseteq [scope: Scopes, types: SUBSET Types, ceiling: Tiers]
  /\ Proposals \subseteq [type: Types, scope: Scopes, tier: Tiers \cup {None}]
  /\ ToolTypes \cup {"write", "commit", "spawn"} \subseteq Types
  /\ MaxCalls \in Nat /\ MaxAttempts \in Nat \ {0}

VARIABLES
  call,    \* per process, the call in progress
  calls,   \* calls begun so far
  effects  \* what has been done: commits to the workspace, tools run, with their warrant

governanceVars == <<vaultVars, sentinelVars, call, calls, effects>>

Commands == {"mint", "evaluate", "patch", "replay"}
Kinds == Commands \cup {"run", "dispatch", "prompt", "hook"}
Steps == {"register", "admit", "infer", "mint", "evaluate", "stage", "commit", "publish", "attest",
          "act", "trace", "outcome"}

\* A command that is over keeps its process until it exits; other calls return to a
\* process that may make another one.
NoCall == [kind |-> "none"]
Over == [kind |-> "over"]
\* scope, types and ceiling are what the call asks for, decision the one its trace shows.
CallInProgress ==
  [kind: Kinds, pc: Steps, root: Roots \cup {None}, token: Tokens \cup {None}, scope: Scopes,
   action: Action \cup {None}, types: SUBSET Types, ceiling: Tiers, attempts: 0..MaxAttempts,
   decision: Decision \cup {None}]
Call == {NoCall, Over} \cup CallInProgress
Effect == [kind: {"patch", "dispatch"}, action: Action, token: Tokens]

GovernanceInit ==
  /\ VaultInit /\ SentinelInit
  /\ call = [p \in Processes |-> NoCall]
  /\ calls = 0 /\ effects = {}

Idle(p) == call[p] = NoCall

\* A new process: nothing in memory.
NewProcess(p) == Idle(p) /\ registry[p] = EmptyRegistry /\ known[p] = EmptyRegistry

Begin(p, c) ==
  /\ Idle(p) /\ calls < MaxCalls
  /\ c.kind \in Commands => NewProcess(p)
  /\ call' = [call EXCEPT ![p] = c]
  /\ calls' = calls + 1
  /\ UNCHANGED <<storeVars, registry, effects>>

\* A call that draws a root id; which of the unused ones makes no difference.
BeginWithRoot(p, c(_)) ==
  /\ Roots # issued
  /\ LET r == CHOOSE r \in Roots \ issued : TRUE
     IN issued' = issued \cup {r} /\ Begin(p, c(r))

\* The fields of a call that has only a root and a scope yet.
Blank(kind, pc, r, scope) ==
  [kind |-> kind, pc |-> pc, root |-> r, token |-> None, scope |-> scope,
   action |-> None, types |-> {}, ceiling |-> 0, attempts |-> 0, decision |-> None]

Do(r, type, scope, tier) == [root |-> r, type |-> type, scope |-> scope, tier |-> tier]

\* hermes mint: token and root get the same scope.
MintCommand(p, m) ==
  LET Asked(r) == [Blank("mint", "register", r, m.scope) EXCEPT
                     !.types = m.types, !.ceiling = m.ceiling]
  IN BeginWithRoot(p, Asked) /\ UNCHANGED sentinelVars

\* hermes run, --autonomous: execute(task, scope).
RunCommand(p, scope) ==
  LET Asked(r) == Blank("run", "register", r, scope)
  IN BeginWithRoot(p, Asked) /\ UNCHANGED sentinelVars

\* GovernedToolDispatcher.dispatch: the tool's action type on the whole workspace, at T1.
DispatchTool(p, type) ==
  LET Asked(r) == [Blank("dispatch", "register", r, Workspace) EXCEPT
                     !.types = {type}, !.ceiling = 1, !.action = Do(r, type, Workspace, 1)]
  IN BeginWithRoot(p, Asked) /\ UNCHANGED sentinelVars

\* HermesPrimeOrchestrator.run: begin_turn, the miners' read-only scans, a fresh root;
\* what the prompt asks for becomes an action without a token.
PromptCommand(p, type) ==
  LET Asked(r) == [Blank("prompt", "register", r, Workspace) EXCEPT
                     !.action = Do(r, type, Workspace, IF type = "read" THEN 0 ELSE 1)]
  IN BeginWithRoot(p, Asked) /\ BeginTurn(p)

\* A wrapped upstream command, and a tool call of the governed agent, draw a root id and
\* go straight to mint_capability, without registering it.
HookCall(p) ==
  LET Asked(r) == [Blank("hook", "mint", r, Workspace) EXCEPT !.types = {"spawn"}, !.ceiling = 2]
  IN BeginWithRoot(p, Asked) /\ UNCHANGED sentinelVars

GovernedAgentCall(p, type) ==
  LET Asked(r) == [Blank("hook", "mint", r, Workspace) EXCEPT
                     !.types = {type}, !.ceiling = 2, !.action = Do(r, type, Workspace, 2)]
  IN BeginWithRoot(p, Asked) /\ UNCHANGED sentinelVars

\* hermes evaluate and hermes patch load root and token from the store; both must load
\* and belong together.  parser.error otherwise: nothing has changed.
EvaluateCommand(p, k, a) ==
  /\ a.tier # None
  /\ TokenLoads(k) /\ RootLoads(tokens[k].root)
  /\ Begin(p, [Blank("evaluate", "admit", tokens[k].root, a.scope) EXCEPT
       !.token = k, !.action = Do(tokens[k].root, a.type, a.scope, a.tier)])
  /\ UNCHANGED <<issued, sentinelVars>>

PatchCommand(p, k, target, commit) ==
  /\ TokenLoads(k) /\ RootLoads(tokens[k].root)
  /\ <<target, Workspace>> \in Within
  /\ Begin(p, [Blank("patch", "admit", tokens[k].root, target) EXCEPT
       !.token = k, !.action = Do(tokens[k].root, "write", target, 1),
       !.types = IF commit THEN {"write", "commit"} ELSE {"write"}])
  /\ UNCHANGED <<issued, sentinelVars>>

\* hermes replay: prints stored traces and adds one of its own.
ReplayCommand(p) ==
  Begin(p, Blank("replay", "trace", None, Workspace)) /\ UNCHANGED <<issued, sentinelVars>>

-----------------------------------------------------------------------------
Goto(p, c) == call' = [call EXCEPT ![p] = c]
Return(p) == Goto(p, IF call[p].kind \in Commands THEN Over ELSE NoCall)
\* An exception: execute() catches everything and records a failed outcome, any other
\* call ends with it.
Raise(p) == IF call[p].kind = "run" THEN Goto(p, [call[p] EXCEPT !.pc = "outcome"]) ELSE Return(p)

At(p, kinds, pc) == call[p].kind \in kinds /\ call[p].pc = pc

\* vault.register_intent_root; the store may raise.
Register(p) ==
  LET c == call[p]
  IN /\ At(p, Kinds, "register")
     /\ \/ RegisterRoot(p, c.root, c.scope) /\ Goto(p, [c EXCEPT !.pc = "admit"])
        \/ RegisterRootFails(p, c.root, c.scope) /\ Raise(p)
     /\ UNCHANGED <<sentinelVars, calls, effects>>

\* sentinel.register_intent_root: the engine first, then the store once more, which the
\* orchestrator leaves out.
AdmitRoot(p) ==
  LET c == call[p]
  IN /\ At(p, Kinds, "admit")
     /\ Admit(p, c.root, intentRoots[c.root])
     /\ \/ Goto(p, [c EXCEPT !.pc = CASE c.kind \in {"mint", "dispatch"} -> "mint"
                                     [] c.kind = "run" -> "infer"
                                     [] OTHER -> "evaluate"])
        \/ c.kind # "prompt" /\ Raise(p)
     /\ UNCHANGED <<vaultVars, calls, effects>>

\* The model cannot be reached: tenacity tries again, then raises its RetryError.
InferFails(p) ==
  LET c == call[p]
  IN /\ At(p, {"run"}, "infer")
     /\ IF c.attempts + 1 < MaxAttempts
          THEN Goto(p, [c EXCEPT !.attempts = @ + 1]) ELSE Raise(p)
     /\ UNCHANGED <<vaultVars, sentinelVars, calls, effects>>

\* ProposalParser.parse: a tier it cannot read is T1; all else it cannot read raises.
Parsed(r, a) == Do(r, a.type, a.scope, IF a.tier \in Tiers THEN a.tier ELSE 1)

\* The model answers; what it proposes, if it parses, becomes action and token alike.
Infer(p, a) ==
  LET c == call[p]
      action == Parsed(c.root, a)
  IN /\ At(p, {"run"}, "infer")
     /\ \/ Goto(p, [c EXCEPT !.pc = "mint", !.action = action, !.types = {action.type},
                              !.scope = action.scope, !.ceiling = action.tier])
        \/ Raise(p)
     /\ UNCHANGED <<vaultVars, sentinelVars, calls, effects>>

TokenAskedFor(c) ==
  [root |-> c.root, scope |-> c.scope, types |-> c.types, ceiling |-> c.ceiling,
   issued |-> clock]

MintToken(p) ==
  LET c == call[p]
      k == CHOOSE k \in Tokens : tokens[k] = None
  IN /\ At(p, Kinds, "mint")
     /\ \E free \in Tokens : tokens[free] = None
     /\ Mint(p, k, TokenAskedFor(c))
     /\ Goto(p, [c EXCEPT !.token = k, !.pc = IF c.kind = "mint" THEN "trace" ELSE "evaluate"])
     /\ UNCHANGED <<sentinelVars, calls, effects>>

\* The root is not in the registry (always so for a hook), its scope is exceeded, or the
\* store raises.
MintFails(p) ==
  /\ At(p, Kinds, "mint")
  /\ Raise(p)
  /\ UNCHANGED <<vaultVars, sentinelVars, calls, effects>>

\* Sentinel decides on an action and stores the decision, on which the call goes on with
\* c; or the store raises, after the engine has counted the dispatch.
Evaluate(p, action, c(_)) ==
  \E by \in {"opa", "python"}, permitted \in BOOLEAN :
    LET d == [action |-> action, token |-> call[p].token, permitted |-> permitted]
    IN /\ Decide(p, action, call[p].token, by, permitted)
       /\ \/ StoreDecision(d) /\ c(d)
          \/ UNCHANGED storeVars /\ Raise(p)
       /\ UNCHANGED <<registry, issued, calls, effects>>

\* patch goes on whatever this first decision says; the dispatcher returns a refusal.
EvaluateAction(p) ==
  LET c == call[p]
      Decided(d) ==
        IF c.kind = "dispatch" /\ ~d.permitted THEN Return(p)
        ELSE Goto(p, [c EXCEPT !.decision = d, !.pc = CASE c.kind = "patch" -> "stage"
                                                         [] c.kind = "dispatch" -> "act"
                                                         [] OTHER -> "trace"])
  IN At(p, Kinds \ {"prompt"}, "evaluate") /\ Evaluate(p, c.action, Decided)

\* The orchestrator asks the engine itself, without a token, and stores no decision.
EvaluatePrompt(p) ==
  LET c == call[p]
  IN /\ At(p, {"prompt"}, "evaluate")
     /\ \E permitted \in BOOLEAN :
          /\ PythonDecides(p, c.action, None, permitted)
          /\ Goto(p, [c EXCEPT !.pc = "trace", !.decision =
               [action |-> c.action, token |-> None, permitted |-> permitted]])
     /\ UNCHANGED <<vaultVars, known, calls, effects>>

\* ForgeSession.write_text authorizes the write once more; a refusal is a PermissionError.
Stage(p) ==
  LET c == call[p]
      next == IF "commit" \in c.types THEN "commit" ELSE "trace"
      Staged(d) == IF d.permitted THEN Goto(p, [c EXCEPT !.pc = next]) ELSE Raise(p)
  IN At(p, {"patch"}, "stage") /\ Evaluate(p, c.action, Staged)

CommitOf(r) == Do(r, "commit", Workspace, 2)

\* Mutant: commit() ignores the decision.
CommitUnchecked(p) ==
  LET c == call[p]
      Committed(d) == Goto(p, [c EXCEPT !.pc = "publish"])
  IN At(p, {"patch"}, "commit") /\ Evaluate(p, CommitOf(c.root), Committed)

\* Mutant: provenance is written before the files are copied.
CommitAttestsFirst(p) ==
  LET c == call[p]
      Committed(d) == IF d.permitted THEN Goto(p, [c EXCEPT !.pc = "attest"]) ELSE Raise(p)
  IN At(p, {"patch"}, "commit") /\ Evaluate(p, CommitOf(c.root), Committed)

\* ForgeSession.commit asks for a commit of the whole workspace, with the same token.
Commit(p) ==
  LET c == call[p]
      Committed(d) == IF d.permitted THEN Goto(p, [c EXCEPT !.pc = "publish"]) ELSE Raise(p)
  IN At(p, {"patch"}, "commit") /\ Evaluate(p, CommitOf(c.root), Committed)

\* The staged file is copied into the workspace, or the dispatched tool is run.
Act(p) ==
  LET c == call[p]
  IN /\ At(p, {"patch"}, "publish") \/ At(p, {"dispatch"}, "act")
     /\ effects' = effects \cup {[kind |-> c.kind, action |-> c.action, token |-> c.token]}
     /\ Goto(p, [c EXCEPT !.pc = IF c.kind = "patch" THEN "attest" ELSE "trace"])
     /\ UNCHANGED <<vaultVars, sentinelVars, calls>>

AttestProvenance(p) ==
  LET c == call[p]
  IN /\ At(p, {"patch"}, "attest")
     /\ \/ StoreProvenance(c.root) /\ Goto(p, [c EXCEPT !.pc = "trace"])
        \/ UNCHANGED storeVars /\ Raise(p)
     /\ UNCHANGED <<registry, issued, sentinelVars, calls, effects>>

\* The audit trace of a call; the store may raise.
StoreTrace(p, kind, c) ==
  /\ \/ /\ StoreAuditTrace([kind |-> kind, root |-> call[p].root, decision |-> call[p].decision])
        /\ c
     \/ UNCHANGED storeVars /\ Raise(p)
  /\ UNCHANGED <<registry, issued, sentinelVars, calls, effects>>

TraceCall(p) ==
  LET c == call[p]
  IN /\ At(p, Kinds \ {"prompt"}, "trace")
     /\ StoreTrace(p, IF c.kind = "evaluate" THEN "evaluation" ELSE c.kind,
          IF c.kind = "run" THEN Goto(p, [c EXCEPT !.pc = "outcome"]) ELSE Return(p))

\* The end of the orchestrator's run().
TracePrompt(p) == At(p, {"prompt"}, "trace") /\ StoreTrace(p, "prompt", Return(p))

\* execute() records its outcome and returns a result, whatever happened before.
RecordOutcome(p) ==
  /\ At(p, {"run"}, "outcome")
  /\ Return(p)
  /\ UNCHANGED <<vaultVars, sentinelVars, calls, effects>>

\* The process exits, or is killed at any step.
Exit(p) ==
  /\ ~NewProcess(p)
  /\ Goto(p, NoCall)
  /\ registry' = [registry EXCEPT ![p] = EmptyRegistry]
  /\ known' = [known EXCEPT ![p] = EmptyRegistry]
  /\ dispatches' = [dispatches EXCEPT ![p] = 0]
  /\ turnPermits' = [turnPermits EXCEPT ![p] = 0]
  /\ UNCHANGED <<storeVars, issued, calls, effects>>

\* vault.revoke_token, for which the CLI has no command.
Revoke(k) ==
  /\ RevokeToken(k) /\ revoked' # revoked
  /\ UNCHANGED <<sentinelVars, call, calls, effects>>

\* A call is short beside the 600 s that a token lives: time passes between calls.
Tick ==
  /\ clock < MaxClock
  /\ \A p \in Processes : call[p].kind \notin Kinds
  /\ clock' = clock + 1
  /\ UNCHANGED <<intentRoots, tokens, revoked, decisions, traces, provenance, registry, issued,
                 sentinelVars, call, calls, effects>>

Step(p) ==
  \/ Register(p) \/ AdmitRoot(p) \/ InferFails(p)
  \/ \E a \in Proposals : Infer(p, a)
  \/ MintToken(p) \/ MintFails(p) \/ EvaluateAction(p) \/ EvaluatePrompt(p) \/ Stage(p) \/ Commit(p) \/ Act(p)
  \/ AttestProvenance(p) \/ TraceCall(p) \/ TracePrompt(p) \/ RecordOutcome(p)

NewCall(p) ==
  \/ \E m \in MintRequests : MintCommand(p, m)
  \/ \E scope \in Scopes : RunCommand(p, scope)
  \/ \E type \in ToolTypes : DispatchTool(p, type)
  \/ \E type \in ToolTypes \ {"spawn"} : PromptCommand(p, type)
  \/ HookCall(p) \/ ReplayCommand(p)
  \/ \E type \in ToolTypes : GovernedAgentCall(p, type)
  \/ \E k \in Tokens :
       \/ \E a \in Proposals : EvaluateCommand(p, k, a)
       \/ \E target \in Scopes \ {Workspace}, commit \in BOOLEAN : PatchCommand(p, k, target, commit)

GovernanceNext ==
  \/ \E p \in Processes : Step(p) \/ NewCall(p) \/ Exit(p)
  \/ \E k \in Tokens : Revoke(k)
  \/ Tick

GovernanceSpec == GovernanceInit /\ [][GovernanceNext]_governanceVars

-----------------------------------------------------------------------------
GovernanceTypeOK ==
  /\ VaultTypeOK /\ SentinelTypeOK
  /\ call \in [Processes -> Call]
  /\ calls \in 0..MaxCalls
  /\ effects \subseteq Effect

Permitted(a, k) == \E d \in decisions : d.permitted /\ d.action = a /\ d.token = k

Authorised(e) ==
  LET token == tokens[e.token]
  IN /\ token # None /\ token.root = e.action.root
     /\ intentRoots[token.root] # None
     /\ <<token.scope, intentRoots[token.root].scope>> \in Within
     /\ <<e.action.scope, token.scope>> \in TextPrefix
     /\ Permitted(e.action, e.token)
     /\ e.kind = "patch" =>
          /\ Permitted(CommitOf(token.root), e.token)
          /\ <<Workspace, token.scope>> \in TextPrefix
          /\ token.ceiling >= 2

\* What was done was decided before, durably, under a warrant that leads back to the
\* intent: every commit and every tool run has a stored permitted decision on its own
\* action, a stored token that names the action's root and starts its path, and a stored
\* root that contains the token.  A commit has one more permission, for the workspace as a
\* whole, so its token covers the workspace, not just the file (cli.py:858-922,
\* forge.py:222-230, governed_dispatch.py:25-84).
EffectsAuthorised == \A e \in effects : Authorised(e)

\* What the tables say of each other, after any crash and any failed write: a trace that
\* reports a Sentinel decision finds it stored, unless the orchestrator wrote it; a
\* provenance record belongs to a commit that was made.
AuditSupported ==
  /\ \A t \in traces : t.kind # "prompt" /\ t.decision # None => t.decision \in decisions
  /\ \A r \in provenance : \E e \in effects : e.kind = "patch" /\ e.action.root = r

\* A token that has been minted verifies in any process, one started after a crash
\* included, until it expires or is revoked: its root was stored before it, contains its
\* scope and outlives it (capabilities.py:45-179).
MintedTokensVerify ==
  \A k \in Tokens :
    tokens[k] # None /\ k \notin revoked /\ clock < tokens[k].issued + TokenTtl
      => VerifiesAfterRestart(k)

\* Within one turn the engine permits at most max_dispatches_per_turn actions, whichever
\* calls they came from and whatever opa permitted besides (engine.py:252-266).
QuotaBoundsPermits == \A p \in Processes : turnPermits[p] <= MaxDispatches
=============================================================================
