# HERMES-PRIME in TLA+

A verification project for HERMES-PRIME: TLA+ models of the parts of the
program in which the order of steps decides whether it is right, TLC
configurations that check them on small instances, and TLAPS proofs of the
properties that matter most, for every value of the constants.

Source paths below are relative to the repository.

## 1. The system

HERMES-PRIME is a Python monorepo (about 33 500 lines of Python, 9 700 of them
tests) around one idea: an autonomous agent may only act on what can be traced
to a human intent. Four subsystems carry logic of their own.

**Cognitive trust** (`cognitive-trust/skeleton/cogtrust/`). Every artifact gets
a signed *attestation*; attestations refer to the attestations they are derived
from and form a DAG that ends in intent roots.

| component | state | operations | hard part |
|---|---|---|---|
| lineage store, `lineage.py` | `_attestations`, `_children`, `_by_intent_root`, `_chain`, a lock | `append`; the queries `get`, `all_descendants`, `chain_back_to_intent`, `validate_chain` | four writes under the lock, all queries without it |
| attestation service, `service.py`, `tiers.py` | a lock; the tier table | `issue`: validate, sign, append | validates without a lock and appends much later; several services share one store |
| revocation index, `revocation.py` | `_entries`, `_version`, a lock | `revoke`; `is_revoked`, `entry`, `version` | two writes under the lock, reads without it |
| revocation cascade, `revocation.py` | none of its own | `revoke_with_cascade`: revoke, walk, revoke the descendants | no lock around the whole: races appends and other cascades |
| cascade worker, `workers/async_cascade.py` | bounded queue, shutdown event, workers, metrics | `submit`, `shutdown`, the worker loop | full queue, shutdown, failing job, timeouts of `get` |
| verifier, `verification.py` | a cache keyed by (id, index version) | `verify`, `invalidate_cache` | a long walk with no lock; the answer is stored under a version read at the start |
| SQLite store, `stores/sqlite_lineage.py` | four append-only tables | as the lineage store | transactions, rollback, readers on the same connection |
| reviewer sessions and submitter, `reviewer_ui/` | session state, times of reviews | `submit` | checks before a remote signing call |
| signers, `signing.py`, `signers/kms.py` | keys | `sign` | remote calls that fail |

**Infrastructure** (`infrastructure/`), and what drives it: the executor
(`hermes_prime/autonomous/`), the orchestrator (`core/hermes_agent/`), the command line.

| component | state | operations | hard part |
|---|---|---|---|
| sandboxed forge, `sandbox_forge/` | an overlay over the workspace, tombstones, a hashed journal | `write`, `delete`, `commit`, `rollback` | one overlay for all sessions, commits that are not atomic |
| capability vault, `vault/` | a registry of intent roots in memory | `register_intent_root`, `mint_capability`, `verify_token`, `revoke_token` | what a restart forgets |
| trust store, `trust_store/` | SQLite: roots, tokens, decisions, traces, provenance | one transaction each | shared by processes; any write may raise |
| policy engine, `policy_engine/` | known roots, counters of the turn | `evaluate`, `begin_turn`, `register_intent_root` | Rego or Python decides; budgets only some callers reset |
| executor, orchestrator, commands, hooks | the call in progress | `run`, `execute`, `mint`, `evaluate`, `patch`, `replay`, `--prompt`, tool dispatch | many steps over the shared tables; exceptions and crashes between them |

**HERMES prime** (`hermes_prime/`).

| component | state | operations | hard part |
|---|---|---|---|
| agent mesh, dispatcher, watchdog, `orch/` | a tree of agents, SQLite rows | `spawn`, `kill`, `remove_agent`, restart | kill against completion; a runner that calls back |
| memory, `memory/` | claims in SQLite, a lineage graph in each process | `write`, `review`, `promote`, `arbitrate`, `revoke`, decay, collection | whole claims are read, changed and stored back by several paths |
| learning, `learning/` | outcomes in SQLite, patterns in a JSON file | record, reflect, consolidate, feed back, forget | each process overwrites the file with what it remembers |
| brain, `brain/` | nodes and edges in SQLite, one commit a statement | journal, linker, maintenance | merges and sweeps over lists the others' statements made stale |

**Refrlow** (`claude-code-refrlow/skeleton/refrlow/`): a subagent dispatcher with per-turn
budgets and a chain-depth limit in front of four miners that walk the workspace
under a deadline, while it changes.

How they interact: services *call* `append`; the cascade reads the lineage's
edges and *calls* `revoke`; worker threads *call* the cascade; verifiers share
the dictionary of the lineage and the entries and version of the index with all
of them and synchronise with nobody. A review is *issued* like any other attestation and
then counted on its session. The executor registers a root with vault and engine, asks the
model, mints a capability, asks the policy engine, commits through the forge, and
records an outcome; processes meet in the trust store's tables only. Outcomes become patterns, and
patterns become memory claims, whose parents are outcomes.

What makes each component correct:

- lineage: append-only, a DAG, its four structures consistent at every moment a
  lockless reader may look, and a hash chain that orders the DAG (CT-I9, CT-I11);
- service: nothing is signed that the lineage then refuses; every attestation on
  record met the ceremony of its tier (CT-I2, CT-I8);
- index: a revocation is atomic to its readers, numbered without gaps, never
  undone;
- cascade: no descendant is lost, nothing else is marked (CT-I5);
- worker: no job is lost or counted twice, accepted jobs are served, shutdown ends;
- verifier: a cached answer is not older than the index allows (CT-I13), and the
  walk never meets a hole;
- forge: a commit publishes what the session staged, and only that;
- SQLite lineage: what is committed is what the store in memory would hold, and one hash chain,
  whoever raises or dies;
- reviewer sessions: fatigue bounds the reviews that reach the lineage (CT-T5);
- vault: a token that was minted verifies in any process until it expires or is revoked;
- governance: whatever was done has a decision, a token and a root stored that warrant it; the
  budget of a turn is never exceeded;
- mesh: a kill reaches every descendant, a killed agent never runs again, depth
  counts the spawn chain, a restart finds the tree as it was;
- memory: contradictions are mutual, and a claim's lineage is on record;
- learning: every pattern and what is drawn from it rest on recorded outcomes;
- brain: maintenance leaves no dangling edge it does not name in its log, and never changes what an edge means;
- refrlow: "ok" means complete, chains of dispatches are bounded, each dispatch is answered.

The doctrine numbers (CT-I...) are those of
`cognitive-trust/doctrine/INVARIANTS.md`.

## 2. Plan

Cognitive trust comes first: every other part trusts its answers, and its
correctness rests on interleavings no test exercises.

1. *Done.* Cognitive trust: `Attestations`, `AttestationDag`, `Lineage`, `Issuance`,
   `RevocationIndex` (abstract: `RevocationLog`), `Cascade`, `Verifier`,
   `CascadeWorker`. `AgentMesh` (mesh, dispatcher, watchdog) and `Forge`.
2. *Done.* Reviews: `SqliteLineage` (refining `AttestationDag`) and `ReviewDesk` over it.
3. *Done.* Infrastructure: `TrustStore`, `Vault`, `Sentinel`, composed with their drivers
   in `Governance`. Memory: `KnowledgeGraph`, `Memory`, and `Learning` over it.
4. *Done.* `NeuralGraph` and `Brain`; `RefrlowMiners` and `Refrlow`.
5. *Done.* Proofs of every safety property and action property the runs check; the liveness
   properties stay with TLC.

## 3. Modules

```
 Attestations            an attestation, its parents
   AttestationDag        the dictionary a reader sees: atomic, append-only, a DAG
     Lineage             LineageStore: append() as four writes under a lock
       Issuance          AttestationService.issue over it
       Cascade           revoke_with_cascade over Lineage and RevocationIndex
         CascadeWorker   AsyncRevocationCascade over it
     Verifier            Verifier.verify over AttestationDag and RevocationIndex
   RevocationIndex       revoke() as two writes; implements RevocationLog
 RevocationLog           an atomic append-only log of revocations

     SqliteLineage       SqliteLineageStore: append() as a transaction of statements
       ReviewDesk        ReviewerSession and submit() over issue() and that store

 AgentMesh               AgentMesh, Dispatcher and RecursionWatchdog over one table

 Forge                   SandboxedForge, ForgeSession and ForgeJournal

 TrustStore              the governance tables, one transaction a method
   Vault                 CapabilityVault: a registry per process over the tables
     Sentinel            SentinelService: Rego rules or PolicyEngine, and its counters
       Governance        commands, executor, orchestrator, dispatcher, hooks

 KnowledgeGraph          the lineage graph of claims, as a value
   Memory                store, governor, decay and consolidation over one table of claims
     Learning            outcomes, patterns, reflection and feedback over it

 NeuralGraph             the brain's nodes and edges
   Brain                 journal, linker and maintenance over them

 RefrlowMiners           the four miners' loops, file by file
   Refrlow               the dispatcher in front of them
```

The theorems are in eight modules: `DagAndIndexProofs` (what readers of the lineage rely on),
`LineageProofs` (the lineage, and the services, cascades and workers over it),
`VerifierAndReviewProofs`, `GovernanceProofs`, `ForgeProofs`, `BrainProofs`, `LearningProofs` (with
the memory fabric) and `AgentsProofs` (the mesh and refrlow). `Optional` declares the None those two
share. `MCIssuance`, `MCCascade`, `MCVerifier`, `MCCascadeWorker`, `MCForge`, `MCReviewDesk`,
`MCGovernance`, `MCLearning`, `MCBrain` and `MCRefrlow` give the constants their values.
An operator whose comment starts with "Mutant:" is a plausible bug; it is used by
no specification, only put in the place of the operator it distorts to see
that the properties notice.

**Attestations.** An attestation is its intent root, its set of predecessors and
a payload, which each client instantiates with what it looks at. Ids are unique
tokens.

**AttestationDag.** `attestations` is `_attestations`; `Add` is the check and the
store of `append()`. `Lineal` is the set `chain_back_to_intent` walks. It is
both the abstract specification of `Lineage` and what `Verifier` reads.

**Lineage.** One action per visible write of `append()`: `AppendStore` (take the
lock, check, write the dictionary), `AppendEdge` (one parent each),
`AppendRoot`, `AppendLink` (write the link, release). A link's hash covers the
previous hash and the attestation; SHA-256 being injective for our purposes, a
hash *is* the sequence of ids it covers, and `ValidateChain` recomputes it. The
lists of children are sets: nothing reads their order.

**Issuance.** `IssueCheck` stands for everything up to the drawing of the id (the
reads of the lineage may be taken together because the lineage only grows and
every check is a lookup of one immutable attestation); `IssueSign` reads the clock
again and signs, or raises; `IssueAppend` takes the service's lock and enters
`append()`; `IssueReturn` releases it. `Request` enumerates what
`__post_init__` lets through: `copies` records that `predecessor_refs` is a list
and may name an id twice. `Ceremony` is the requirements table. The artifact class
is abstracted to the tier the registry maps it to.

**RevocationIndex.** `RevokeBump` and `RevokeInsert` are the two writes, in the
order of the code. A repeated revocation changes nothing and is not an action
here; the cascade has it as a branch.

**Cascade.** `CascadeStart`, `CascadeRevoke`/`CascadeInsert` (a call of `revoke`),
`CascadeWalk` (one vertex of `all_descendants`), `CascadeMark` (one turn of the
loop, with its lockless `is_revoked`), `CascadeReturn`. The field `promised` is a
history variable: the complete descendants at the start of the call.

**Verifier.** `VerifyStart` reads the version, `VerifyLookup` the cache,
`VerifyVertex` one vertex of `_compute_status`, `VerifyStore` writes the cache. The
reads at one vertex (dictionary, index, clock) are taken together: attestations
and entries never change once stored, so only the moment of the reads matters,
and it may be any. The recursion is a set of vertices to look at: the
order decides only which of several bad ancestors is named. The writers are the
abstract lineage (which `Lineage` implements, theorem `LineageImplementsDag`) and
the two-write index.

**CascadeWorker.** The queue is a sequence; `Submit` is `put_nowait`,
`SubmitCount` the counter after it; the worker loop is `WorkerCheck`, `WorkerGet`
and the job (`WorkerBegin`, the cascade's own steps, `WorkerComplete` or `WorkerFail`,
`WorkerFinish`); `ShutdownSet` and `ShutdownWake` are the two halves of `shutdown()`.
`get(timeout=0.5)` on an empty queue is the disjunct that goes back to the check.

**AgentMesh.** `nodes` and `childrenOf` are the dictionaries, `table` the SQLite rows.
One thread owns a mesh with a database (sqlite3 refuses others), so operations do not
overlap, but `spawn()` calls the agent's runner, which may spawn, kill and remove before
it returns: `runners` is that call stack, and between its calls `op` is idle. An
operation with several commits is several steps (`SpawnRegister`, `SpawnAttest`,
`SpawnStart`; `RunnerReturns`, `SpawnFinish`; `Kill`, `KillOne`...; `RemoveAgent`, `RemoveOne`...),
and `Crash` may fall between any two: it reloads the rows as `_load_from_db` does.
A row stores an empty result as NULL, hence `Row`. `RunnerLost` is a runner whose agent was
removed meanwhile, or that raised something that is no `Exception`. A status change by a
caller other than the dispatcher and the watchdog does not occur in the code.

**Forge.** `workspace` and `overlay` are the files under the two roots, by name; a name
that ends in ".deleted" is a tombstone for `commit()` and `list_changes()`, whoever wrote
it, so `Marker` makes the tombstone of a file a path that a session may also write. Calls do
not overlap, but all sessions share the overlay and `commit()` is
many steps: `CommitStart` (list, authorize), one `CommitCopy` a file, `CommitTombstones`
(list the tombstones), one `CommitDelete` each, `CommitEnd` (journal). `WriteFails`,
`DeleteFails`, `RollbackFails` and `CommitFails` are an OSError half way, `Crash` the end of
the process: the workspace stays and the next forge has a new temporary overlay. The
authorizer is a fixed policy, asked what the code asks it: a commit shows it the files to
copy, not the tombstones. What the code does and the properties pin down: a tombstone wins
over a later write of the same file, and a commit leaves the overlay in place.

**SqliteLineage.** A store is one connection, shared by the threads of a process. `append()` is
`AppendCheck` (the lock, the SELECTs), `AppendInsert` (BEGIN and the first INSERT, which takes
SQLite's write lock), `AppendEdges`, `AppendLink`, `AppendCommit`; `AppendRaise` is any statement
that fails, and rolls back; `StoreCrash` loses the open transaction. `attestations` and
`chain` are the committed rows, `open` those a transaction has inserted: `Seen` is what a reader
on the same connection gets, committed or not. `InTransaction` says which. The abstract
specification is again `AttestationDag`.

**ReviewDesk.** `Submit` and `SubmitTarget` are the checks of `submit()`, `IssueCheck`,
`IssueSign` and `IssueAppend` those of `issue()`, `Conclude` the counting on the session. Between the
check of the fatigue and the count lie a remote signing call and a transaction, with no lock:
what `FatigueBoundsReviews` is about. Sessions age, are revoked and re-authenticated
meanwhile (`Age`, `RevokeSession`, `Reauthenticate`); a crash gives new session objects.
A session's latency may refuse at any count, its clock is fresh, stale or expired.

**TrustStore, Vault, Sentinel.** The tables keep what the program reads back: a root its scope and
time, a token its root, scope, types, ceiling and time, a decision its action and token. Every method is one
transaction or raises and changes nothing. `Within` is `path_subscope`, `TextPrefix` what the
Rego bundle compares instead: strings. The vault writes its registry before the table, so a
failing store leaves a root that one process knows and no other. `verify_token` after a restart
is `VerifiesAfterRestart`. The engine's layers are `CapabilityOk`, `IntentOk` and `PolicyAllows`; its dispatch
counter grows for each action that comes that far and is reset by `begin_turn` only.

**Governance.** Per process one call, step by step: `Register`, `AdmitRoot` (the engine's own registry),
`Infer` or `InferFails` (up to three attempts, then an exception), `MintToken` or `MintFails`, `EvaluateAction`,
`Stage` and `Commit` (a second decision, on the workspace), `Act`, `AttestProvenance`,
`TraceCall`, `RecordOutcome`; each kind of call has its own path through these. Any store call may raise where
the code lets it, `Exit` is the end of a process at any step, `Revoke` another process's revocation, `Tick` the clock (only
between calls: ttls are minutes, calls seconds). `effects` is what was really done, a history
variable. The executor executes once in a process, so its reflection every tenth time never comes
due here; `Learning` models it for processes that live longer.

**KnowledgeGraph, Memory.** A claim has a trust state, tier, confidence, parent, contradictions
and an age. A call is a sequence of backend calls, each one step: `WriteCheck`, `WriteStore`, then
`ReviewDetect`, `ReviewGet`, `ReviewPut` for each contradiction; `UpdateGet` and `PromotePut` or `RevokePut`;
`ArbitrateGet`/`ArbitratePut`; `DecayList` and one `DecayClaim` each; `GcDelete`. Other processes' steps may fall between
any two, so a stored copy may be stale. `conflicted` records the facts for which that has
happened, or whose call broke off: `ContradictionsMutual` is about the others. It is a promise no doc makes for overlapping calls, and the
code does not keep it there. Modelled as the code has it: `arbitrate` and `revoke` do not ask
for allowed transitions, decay leaves the tier, and a decay cycle can store back a claim
collected meanwhile.

**Learning.** `registry` is the JSON file, `patterns` what a process has read of it and overwrites it with.
`Execute` and `RecordOutcome` store an outcome and, every `Interval` times, begin a reflection:
`ReflectRead`, one `Extract` a kind of pattern with a `Save` after it, `ConsolidateLearnings` (a memory
write a pattern, through `Memory`'s own actions), then `Feedback`, which counts applications. The
constant `Starts` holds the tables a behaviour may begin with. A lost update of the file, a
torn file and an exception in any store are there; the saves of one feedback are one step.

**NeuralGraph, Brain.** Every statement commits by itself, so `write` is a node, its asked-for edges
(`WriteRefs`) and its links (`LinkNode`, `LinkCheck`, `LinkJoin`); a solution is `SolveRead`, `SolveAnswer`,
`SolveAttach`, `SolveCount`; maintenance is `Prune`, the double loop of merges (`MergeLoop`, `MergePair`,
`MergeRead`, `MergeMove`), `Orphans`, `Sweep`. Prune, merge and sweep catch what a statement
raises, log it and go on (`PruneRaises`, `MergeRaises`, `SweepRaises`): a node stays, a pair stays half
moved, a dangling edge stays behind a finished sweep. So `DeadEdgesPruned` says of a sweep nobody disturbed that each
edge with a missing end is one its log names; everywhere else an exception ends the command, as a kill does (`Stop`). Texts are sets of topics. As in the code, the
inner loop of a merge goes on with a node it has just removed, so a text can be merged into a
deleted node and its edges dangle until the sweep.

**RefrlowMiners, Refrlow.** A miner's task lists files, then visits them one at a time; a visit
finds hits, respects the limit, skips what cannot be read, and some loops break at
the deadline. Each miner has its own `Visit...` and its own final status. The dispatcher's
`Dispatch` is its policy in order (budget of the turn, chain depth, scope, class, task; results capped),
`Complete` its validation and accounting. `Edit` changes a file during a search. What `rg` matches is external: a pattern that does not compile is an
error report where Python compiles it, and no result where `rg` was asked, whose return code nobody reads (`Begun`). The tree is
read down to a depth (`Shallow`) and fails when a directory vanishes under it (`DirectoryGone`): only a
`PermissionError` is caught there.

## 4. Runs

All runs but `agent_mesh` and `forge` set `CHECK_DEADLOCK FALSE`: ids, calls and clock
ticks are bounded, so every behaviour of the small instance ends; nothing in the code blocks for ever.

| run | instance | shows |
|---|---|---|
| `issuance` | 3 ids, 2 threads, a service with the service key and one with a personal key, 2 people, tier 4, 1 clock tick | `SignedNeverRefused`, `CeremonyMet`, `LineageOrdered`, `IndexesAgree` with two appends racing for the lock |
| `cascade` | 3 ids, 1 writer, 2 revokers, 2 cascades | `CascadeComplete`, `DerivativeHasRevokedOrigin`, `VersionCountsEntries`, `RevokeIsAtomic` (refinement of `RevocationLog`), `ProvenanceForever` |
| `verifier` | 2 ids, 2 verifiers, 1 revoker, 2 calls of `verify`, 1 clock tick | `CacheLagsOneRevocation`, `WalkNeverMissesPredecessor` |
| `cascade_worker` | 2 ids, a queue of 1, 1 worker, 1 submitter, 3 submits, 1 failure | `MetricsAccountForJobs`, and under fairness `AcceptedIsRevoked`, `ShutdownStopsWorkers` |
| `agent_mesh` | 3 agents, depth limits 1 and 2, the watchdog without a limit of its own, crashes anywhere | `TableMirrorsMesh`, `ListsMatchParents`, `DepthCountsSpawns`, `RunningWasAttested`, `KillMissesNobody`, `StatusOnlyAdvances` |
| `forge` | 2 sessions, 2 files and one path that is a tombstone's name, 2 journal entries a session, failures and crashes anywhere | `OnlyPermittedChanges`, `StagedIsJournaled`, `CommitPublishes` |
| `review_desk` | 2 processes, 3 threads (two of them share a store and a session), an intent root, a generation and 3 reviews, a limit of 1 review, tiers 4 and 5, failures and crashes anywhere | `ChainLinksCommitted`, `FatigueBoundsReviews`, `CommitsOneAccepted` |
| `governance` | 2 processes, 2 roots, 2 tokens, 2 calls, 3 proposals, 3 paths of which one is the string prefix of its sibling, 2 clock ticks, 1 permitted dispatch a turn, failures and crashes anywhere | `EffectsAuthorised`, `AuditSupported`, `MintedTokensVerify`, `QuotaBoundsPermits`, `GovernanceTypeOK` |
| `learning` | 2 processes, 2 calls, 4 claims of which 2 exist already, 3 outcomes, 3 patterns, clock at day 0 or 4 | `ContradictionsMutual`, `LineageRecorded`, `PatternsRestOnOutcomes` |
| `brain` | 2 processes, 4 commands, 3 nodes, one asked-for edge a write, killed anywhere | `DeadEdgesPruned`, `SolvesJoinsProblemAndSolution`, `CountedSolutionsRecorded` |
| `refrlow` | every task of every miner over 2 files, 3 requests, 2 turns, chain depth 2, one edit | `OkMeansComplete`, `ChainBounded`, and under fairness `EveryDispatchReported` |
| `two_person_review` | 4 ids, 1 thread, tier 5 | counterexample to `ReviewedByDistinctPeople` |

Bounds and why they are enough. Three ids make a chain, a diamond without its
tip, and an attestation with an intent root and a predecessor, so a walk has an
inner vertex; a fourth lets one approval carry an intent root and two reviews.
Two threads are enough for every race over one lock, and two
revokers for a cascade that finds its descendant revoked since it asked. One
clock tick stands for "longer than the age limit" or "past the expiry"; the
default tables only compare times with limits. A queue of one is full after one
submit. One worker is the default of the code (`num_workers = 1`). `MaxClock`,
`MaxCascades`, `MaxVerifies`, `MaxSubmits` and `MaxFailures` are the bounds on
counters. Three agents make a chain of depth 2, so one limit denies a spawn that the other
allows and a kill or removal has an inner node; `MaxAgents` bounds registrations, and
nothing bounds crashes. In the forge one file is created, one deleted and one written under
the name of a tombstone; `MaxEntries` bounds the journal, and an operation that fails or a
commit that stops costs no entry, so failures are unbounded.

On the review desk two threads that pass the check of one session together, and a third that
writes through another connection, make every race over the count and over SQLite's write lock; a limit of 1
is exceeded at once. In governance a token's life is shorter than its root's and both end within
`MaxClock`; two calls are one that does and one that must not, or two at once; the paths are the workspace, `a` and
`ab`, which the Rego rules take for a path under `a`. In learning two outcomes are enough for a reflection and
for a pattern of a kind, and a reflection comes with every execution; `MaxPerIntent` and
`MaxTotal` are reached. Three nodes are enough for a merge with an edge to a third; four commands for two writes,
a merge and a disturbance, and a failure that is logged counts as a command, so that a
run has some of each. `MaxFacts`, `MaxPatterns`, `MaxCalls`, `MaxCommands`, `MaxNodes`, `MaxRefs`,
`MaxRequests`, `MaxTurns`, `MaxEdits`, `MaxHits` are bounds of the instances;
`MaxAttempts`, `MaxDispatches`, `MaxTokensPerTurn`, `MaxChainDepth`, `MinOutcomes`, `MinKind` and `Interval` stand for the code's own numbers.

Symmetry is used where only safety is checked and never with the liveness properties.

Fairness (`FairWorkerSpec`). Worker threads run: their step is strongly fair,
because a worker may wait for the index's lock, which others take again and again
but hold for two assignments only. A `submit()` and a `shutdown()` once begun go
on (weak fairness of `SubmitCount`, `ShutdownWake`). Nothing obliges anyone to
submit, to shut down, to append or to fail.

`RefrlowSpec` has weak fairness of the steps of a dispatch under way: `dispatch()` is a call in the main
agent's own thread, each file is visited once, so once made it goes on.

### What the counterexample says, and two known differences

`two_person_review`. `pki/TRUST_TIERS.md`, section 2, wants a tier-5 review by "2
people, distinct". `service.py:185-197` counts list entries: a review named
twice in `predecessor_refs`, or two reviews by one person, are enough. The set
`reviewer_ids` is collected, but only compared with the approver.

Two more sentences of the docs do not hold as they stand; the models have the behaviour, and
the runs check how far it can go.

`verification.py:7-8` says revocation invalidates caches
automatically. `revoke()` publishes the version first and the entry second. A
verifier that reads the version between the two finds the attestation not
revoked, and stores "valid" under the *new* version, where it stays until the next
revocation. `CacheLagsOneRevocation` is what holds and is
proved: an answer cached under version v may miss revocations numbered v or later,
never an earlier one.

The build sequence (`hermes/decisions/0009-sentinel-first-build-sequence.md`,
line 35) makes "no mutation escapes rollback" the gate of the forge. `commit()` copies into the
workspace file by file (`forge.py:232-243`); when one copy raises, the copies before it stay and
that one may be torn, nothing is journaled, and `rollback()` only empties the overlay. What
does hold, and is proved: even then only permitted files have changed
(`OnlyPermittedChanges`), and a commit that ends has published all of the overlay
(`CommitPublishes`).

Smaller ones that the models show and no run singles out: refrlow's `PROTOCOLS.md:89` has ok "only when the task completed in full",
but five tasks break at their deadline and report ok (`OkMeansComplete` excepts them); its line 240 bounds chains
per conversation, the code per turn, and a chain through a denied parent starts again
(`ChainBounded` is what is left); `0009-sentinel-core-design.md:252` has an expired token denied at layer 2, but the
engine never looks at a token's expiry.

## 5. Proofs

Assumptions: the constants' named ASSUMEs only, each evaluated by TLC in the runs that extend its
module. Most say what a constant is (`IdsAssumption`: ids are finite and None is none of them;
`CeremonyAssumption`, `PayloadAssumption`, `DeskAssumption`, `MinersAssumption`, `RowsAssumption` and the like: None is no
row, files and threads are finitely many). Those that say more about the program:

- `ForgeAssumption`: different files have different tombstones;
- `DeskAssumption`: a positive limit, and nobody but `submit()` asks for reviews;
- `TrustStoreAssumption`: `Within` is transitive and implies `TextPrefix`, as for paths; a token's life is not longer than its
  root's (600 and 3600 seconds in the code);
- `GovernanceAssumption`: requests and proposals name scopes, types and tiers there are, and
  an inference is tried at least once;
- `MemoryAssumption`: callers of `promote()` name trust states there are; `NoClaimAssumption`: None is no claim;
- `LearningAssumption`: outcomes are finitely many and their ids no fact's;
- `StartsAssumption`: the claims on record at the start are as the fabric leaves them between calls,
  contradictions mutual and parents on record;
- `RefrlowAssumption`: a valid request for a signature or purpose summary names one path, as the miner's
  parameter does.

The one theorem with a hypothesis of its own is `ChainsAreBounded`: `MaxChainDepth > 0`, because the dispatcher does not
hold a request without a parent against the limit.

Every strengthened invariant was checked by TLC on the instance of its run before it was proved:
`CascadeInv` on 554 366 states, `WorkerInv` on 197 165, `BrainInv` on 3 920 663, `ChainInv` and
`RefrlowInv` on 784 899, `LearningInv` on 820 397.

- *Provenance* (`DagAndIndexProofs`). `Lineal` is a least closed set, so the
  argument is by the two closure lemmas: the old closure is still closed after an
  append, and nothing smaller is. The invariant behind it is `NoDanglingReference`:
  without it a later append could supply a vertex an earlier one already names.
- *Lineage* (`LineageProofs`). `LineageInv` adds to the stated invariants who holds the
  lock (only the thread whose append is under way, so `prev`, read in one step, is
  still the chain's head in the next), that stored references are stored, and
  which edges are still to be written. `ChainIsTopologicalOrder`, `StructuresAgree`,
  `LineageIsAppendOnly` follow from it; `LineageImplementsDag` maps `AppendStore` to
  `Add` and the other steps to stutters, which carries `ProvenanceForever` over.
- *Issuance* (`LineageProofs`). What a call has checked stays true because
  `Known` only grows, and its id stays free because ids are drawn once:
  the invariant says both of every call that has drawn an id. `LineageInv` is
  part of it, so the lineage theorems hold for the lineage as services write it. For the ceremony,
  `CeremonyInv` says of whatever is checked, signed or stored that it met the requirements of its tier
  (`Met`): what it was checked against is in the lineage and does not change.
- *Revocation index* (`DagAndIndexProofs`). The version is the number of entries
  plus one while the lock is held. Without the lock's owner in the
  invariant the second write could not be numbered. With it, `RevokeInsert` is the
  log's atomic step and `RevokeBump` a stutter.
- *Verifier* (`VerifierAndReviewProofs`). The cache theorem needs an invariant about walks
  under way: of every vertex not revoked when the walk passed it, later
  revocations have numbers no smaller than the version read at the start; and the
  vertices still to visit cover, by closure, all ancestors not yet seen. The index
  invariant supplies that new entries are numbered at least as high as any version
  read before.
- *Mesh* (`AgentsProofs`). `MeshInv` adds to the stated invariants what the operation
  in progress relies on (`OpOk`: an agent being spawned is pending and nobody's runner; what a
  removal has left is closed under children, so the agent deleted next has none), that a
  runner's agent is running or killed and has one runner (`RunnersOk`), and that parents were
  registered before (`ParentsDrawn`: a new agent has no children). `Subgraph` and
  `Offspring` are least closed sets, one by the lists and one by the parent links, so
  that kill reaches every descendant follows from `ListsMatchParents` without induction.
- *Forge* (`ForgeProofs`). `ForgeInv` adds that every staged name and every list of files to
  copy was permitted (`StagedIsPermitted`), without which a commit could publish what nobody allowed, and
  how far a commit has come (`CommitSoFar`: files no longer on its list are copied, tombstones no
  longer on it applied). Nothing touches the overlay during a commit, so at `CommitEnd`
  this is `CommitPublishes`. All four properties of the run are proved for any
  sessions, paths, policy and journals.

- *Review desk* (`VerifierAndReviewProofs`). `SqliteInv` says of every thread how far its append
  has come and of every store what its open transaction holds (`TxOk`, `StoreOk`): only the thread inside the
  store's lock has rows there, only the store with SQLite's write lock has any, and the link it has read is
  still the newest when it commits. From that `ChainLinksCommitted` and `CommitsOneAccepted` follow, and
  `DeskImplementsDag`: `AppendCommit` is the abstract `Add`, all other steps, failures and crashes stutter,
  which carries `ProvenanceForever` over to what SQLite has committed. For the fatigue,
  `FatigueInv` counts: a session's stored reviews are those it has counted and those about to
  be counted (`CountOk`), and its count and the submissions past the check (`Pending`) stay below the limit plus the threads
  of its process: a thread passes the check only below the limit, and is itself one of the threads. Cardinalities
  come from the library's theorems, hence finitely many threads.
- *Cascades* (`LineageProofs`). Whatever lies between the root of a call and one of its promised
  descendants is promised too (`PromiseOk`), and the walk has the children of all it has seen still before it
  or behind it (`ProgressOk`). So when the walk ends, what it has seen holds all that was promised;
  no step of another thread can take any of it away, because edges and revocations only grow. `ReachOk` is the
  converse: the loop comes only to what is derived from the root.
- *Worker pool* (`LineageProofs`). `MetricsAccountForJobs` equates counters with numbers of jobs in the queue, in the
  hands of workers and of submitters, and the jobs queued, uncounted and rejected with the calls of `submit()`. The proof gives each step the change of each of the sets; with finitely
  many threads the library's cardinality theorems do the sums. `CascadeInv` is part of `WorkerInv`, so a cascade that a worker
  runs is complete as well (`WorkersCascadeCompletely`).
- *Governance* (`GovernanceProofs`). `GovernanceInv` says of a call how it stands to its root (`RootOk`: drawn and not yet known to anybody, or in
  its process's registry and as the table has it), to its token and action (`WarrantOk`), and to what
  was decided for it (`RecordOk`). `DecisionsSound` is what both deciders have in common: a permitted
  action's token is stored, is of its root, and covers its scope as text, which is all
  the Rego rules ask. `RootsApart` is needed because a root is drawn before it is stored: two calls must not
  register the same one. Rows are never changed, so what a decision rested on stays.
- *Brain* (`BrainProofs`). A merge joins nodes read long before, and an id outlives its node, so the invariant gives every id ever
  drawn, deleted ones included, one type for good (`BrainInv == \E ty : ...`): an edge then means the same wherever a
  merge moves it. `PlanOk` says what a command has still to do, `CountOk` how far the count of answers may run behind,
  `SweepOk` that whoever sweeps undisturbed has every dangling edge still before it, or has logged that its DELETE
  raised.
- *Refrlow* (`AgentsProofs`). Each miner's loop is described by what the report would be if the loop ended now
  (`SearchInv`): accurate for every file visited and not edited since, as long as the two totals the miner compares agree. What a search returns
  is a sum over files, so the first part of the module is about such sums. `ChainInv`: the depth stored for an executed request is that of
  its parent plus one; that a chain is then no longer than the limit is an induction along the chain.

- *Memory* (`LearningProofs`). Claims are read whole and stored whole, so the invariant says what a copy in the hands
  of a call is worth: it is what is stored, unless its fact is conflicted (`Fresh`), and it carries the lineage every graph
  that has an edge for it gives (`ClaimOk`). `conflicted` grows with every store under a call that relies on the same
  fact, which is what keeps `Fresh` true of the calls of others (`Undisturbed`). `ContradictionsMutual` allows for
  all that calls under way have read; the invariant behind it (`Explained`) is narrower: the call is one that
  has put one side on record and has the other still to come, and when it breaks off, both become conflicted. `GraphOk`: a
  graph is a forest, and an edge is only ever added out of the fact id drawn last, which nothing points to, so nobody else's
  ancestors change (`NewTipKeepsAncestors`, by least closed sets).
- *Learning* (`LearningProofs`). `RegOk` is what every registry satisfies, in a file or a process; outcomes on record are never
  changed, so evidence stays evidence, and dropping patterns leaves what holds of each two. A consolidation hangs
  claims below a first source: there is one, since a pattern has at least `MinKind` of them. `AloneOk`: a lesson
  leaves the memory alone until it consolidates, so the call that then begins interrupts none.

Inductions over data are least-element arguments: the library states induction with an operator parameter, which
no installed prover instantiates, so the proofs take the set of counterexamples, and its least element (`LeastNatural`, from the
well-foundedness of the naturals).

Only model-checked: the three liveness properties (liveness and ENABLED are out of the prover's reach).

## 6. Not modelled

Of the modelled components: signatures and hashes as algorithms (a signature is a property of an
attestation, a hash what it covers), logging, latency samples and the
completion callback, `reason` strings, timestamps nobody compares, and whatever only reads: the brain's search,
paths and export, recall and lineage queries, the review presenter. Not reached by any caller in the program,
and left out for that: `CapabilityScoper`, the access tracker, `validate_for_action`, the trust store's own
claim table, the `.db` variant of the pattern registry, `clear()` of the brain.
`max_concurrent_per_class` of refrlow is read nowhere, and nothing there starts a thread, so dispatches are one at a time.

Whole components:

- KMS signers: remote calls. Issuance models that signing takes time and may raise.
- External memory backends, context compiler: adapters to services and the assembly of a text.
- LLM clients and rate limiter: HTTP calls; the limiter is a library semaphore and a token
  bucket whose every wait is an absolute delay. `Infer` models what an answer may be.
- `src/miners/`: functions from a file to a report, without state or callers.
- The REPL, its subagent manager and kanban board: the governed dispatcher it makes is modelled, and it never calls it.
- Sessions, cron jobs, profiles, vault client: whole-file JSON reads and writes by one user, HTTP to a secrets server.
- Command line beyond the governed and brain commands, text interface, doctor, gateway, setup scripts, HTTP adapters, generated graphs:
  parsing, printing and probing.

`PROJECT.json` lists every component with its status and every hazard with the properties that cover
it or the reason none does: an attestation may expire between its freshness check and its
signature (`service.py:84`), and a cached "valid" outlives an expiry (`verification.py:72`); both
are so by construction of the code, bounded by nothing a property could state.
Three of the memory fabric are in `Memory` as the code has them, and no property denies them: an
overlapping review loses contradictions (`governor.py:109`), arbitration and revocation set a trust state without
asking whether the transition is allowed (`governor.py:183`), and decay leaves a demoted claim its tier
(`decay.py:194`).
