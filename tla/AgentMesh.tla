----------------------------- MODULE AgentMesh -----------------------------
(***************************************************************************)
(* The agent mesh with its dispatcher and watchdog (hermes_prime/orch):    *)
(* a forest of agents kept in memory and mirrored, row by row, in SQLite.  *)
(*                                                                         *)
(* A mesh with a database belongs to one thread (sqlite3 refuses others),  *)
(* so operations do not overlap; but spawn() calls the agent's runner      *)
(* before it returns, and a runner may call back into the dispatcher:      *)
(* spawn, kill and remove happen inside an unfinished spawn.  runners is   *)
(* that call stack, op the operation in progress, one step per commit.     *)
(* Crash may fall between any two of them.                                 *)
(*                                                                         *)
(* A mesh without a database is the same, and a crash empties it.          *)
(*                                                                         *)
(* Left out: tokens, scopes, task texts and times, which no decision here  *)
(* reads, and the status idle, which nothing assigns.  Bounds: MaxAgents   *)
(* registrations.                                                          *)
(***************************************************************************)
EXTENDS Optional, Integers, FiniteSets, SequencesExt

CONSTANTS
    MaxAgents,      \* bound: how many agents are ever registered
    Limits,         \* the depth limits a mesh may be given
    WatchdogLimit   \* RecursionWatchdog._max_depth, or None

ASSUME MeshAssumption ==
    /\ MaxAgents \in Nat
    /\ Limits \subseteq Nat
    /\ Limits # {}
    /\ None \notin Nat
    /\ WatchdogLimit \in Nat \cup {None}

VARIABLES
    nodes,       \* _nodes
    childrenOf,  \* _children_of
    maxDepth,    \* _max_depth
    table,       \* the rows of agent_mesh
    registered,  \* ids drawn so far: new_urn_uuid never repeats one
    runners,     \* the agents whose runner has not returned, innermost last
    op           \* the operation in progress

meshVars == <<nodes, childrenOf, maxDepth, table, registered, runners, op>>

Agents == 1 .. MaxAgents
Known == DOMAIN nodes
Active == {"pending", "running"}
Statuses == Active \cup {"completed", "failed", "killed"}
Results == {"none", "empty", "value", "error"}

Node == [parent : Agents \cup {None}, depth : Nat, status : Statuses,
         attested : BOOLEAN, result : Results]

Op == [kind : {"idle", "attest", "start", "finish", "kill", "prune", "remove"},
       agents : SUBSET Agents,             \* those it still has to deal with
       root : Agents \cup {None},          \* whose chain kill terminates
       status : Statuses]                  \* that a finished spawn will assign

Idle == [kind |-> "idle", agents |-> {}, root |-> None, status |-> "pending"]

(* json.dumps(node.result) if node.result else None: {} is stored as NULL *)
Row(node) ==
    IF node.result = "empty" THEN [node EXCEPT !.result = "none"] ELSE node

Put(f, a, x) == [b \in DOMAIN f \cup {a} |-> IF b = a THEN x ELSE f[b]]
Without(f, a) == [b \in DOMAIN f \ {a} |-> f[b]]

(* Assign a node and upsert its row. *)
Save(a, node) ==
    /\ nodes' = Put(nodes, a, node)
    /\ table' = Put(table, a, Row(node))

(* The children _load_from_db rebuilds from the rows. *)
ChildrenIn(rows) ==
    [p \in Agents |-> {a \in DOMAIN rows : rows[a].parent = p}]

(* subgraph(a): the least set of nodes with a in it that the children lists *)
(* do not lead out of.                                                     *)
Subgraph(a) ==
    {b \in Known : \A S \in SUBSET Known :
        a \in S /\ (\A c \in S : childrenOf[c] \cap Known \subseteq S) => b \in S}

Limit == IF WatchdogLimit # None THEN WatchdogLimit ELSE maxDepth

(* The depth of a new child of p; an unknown parent counts as none. *)
DepthUnder(p) == IF p \in Known THEN nodes[p].depth + 1 ELSE 0

MeshInit ==
    /\ nodes = <<>>
    /\ childrenOf = ChildrenIn(<<>>)
    /\ maxDepth \in Limits
    /\ table = <<>>
    /\ registered = 0
    /\ runners = <<>>
    /\ op = Idle

-----------------------------------------------------------------------------
(* register_agent: the node, the parent's list, the row *)
Register(p) ==
    LET a == registered + 1 IN
    /\ a \in Agents
    /\ DepthUnder(p) <= maxDepth
    /\ registered' = a
    /\ Save(a, [parent |-> p, depth |-> DepthUnder(p), status |-> "pending",
                attested |-> FALSE, result |-> "none"])
    /\ childrenOf' = IF p \in Known
                     THEN [childrenOf EXCEPT ![p] = @ \cup {a}]
                     ELSE childrenOf

(* A caller registers an agent without the dispatcher. *)
RegisterAgent(p) ==
    /\ op = Idle
    /\ p \in 1 .. registered \cup {None}
    /\ Register(p)
    /\ UNCHANGED <<maxDepth, runners, op>>

(* Mutant: the runner is started before the attestation is attached.       *)
SpawnRegisterUnattested(p) ==
    /\ op = Idle
    /\ p \in 1 .. registered \cup {None}
    /\ p \in Known => DepthUnder(p) <= Limit
    /\ Register(p)
    /\ op' = [Idle EXCEPT !.kind = "start", !.agents = {registered'}]
    /\ UNCHANGED <<maxDepth, runners>>

(* Dispatcher.spawn: the watchdog's check, then the registration *)
SpawnRegister(p) ==
    /\ op = Idle
    /\ p \in 1 .. registered \cup {None}
    /\ p \in Known => DepthUnder(p) <= Limit
    /\ Register(p)
    /\ op' = [Idle EXCEPT !.kind = "attest", !.agents = {registered'}]
    /\ UNCHANGED <<maxDepth, runners>>

(* Mutant: attach_attestation does not save the node.                      *)
SpawnAttestUnsaved(a) ==
    /\ op.kind = "attest" /\ a \in op.agents
    /\ nodes' = Put(nodes, a, [nodes[a] EXCEPT !.attested = TRUE])
    /\ op' = [op EXCEPT !.kind = "start"]
    /\ UNCHANGED <<childrenOf, maxDepth, table, registered, runners>>

SpawnAttest(a) ==
    /\ op.kind = "attest" /\ a \in op.agents
    /\ Save(a, [nodes[a] EXCEPT !.attested = TRUE])
    /\ op' = [op EXCEPT !.kind = "start"]
    /\ UNCHANGED <<childrenOf, maxDepth, registered, runners>>

(* transition(RUNNING); then the runner is called, if there is one *)
SpawnStart(a) ==
    /\ op.kind = "start" /\ a \in op.agents
    /\ Save(a, [nodes[a] EXCEPT !.status = "running"])
    /\ \/ runners' = Append(runners, a)
       \/ UNCHANGED runners
    /\ op' = Idle
    /\ UNCHANGED <<childrenOf, maxDepth, registered>>

(* The innermost runner returns a result, or raises (so does a result that *)
(* cannot be written as JSON, when it is stored); store_result comes first. *)
RunnerReturns(result) ==
    LET a == Last(runners) IN
    /\ op = Idle /\ runners # <<>>
    /\ a \in Known
    /\ result \in Results \ {"none"}
    /\ Save(a, [nodes[a] EXCEPT !.result = result])
    /\ op' = [Idle EXCEPT !.kind = "finish", !.agents = {a},
                 !.status = IF result = "error" THEN "failed" ELSE "completed"]
    /\ UNCHANGED <<childrenOf, maxDepth, registered, runners>>

(* The runner ends without a trace: its agent was removed while it ran, so *)
(* both attempts to store a result raise, or what it raised is no Exception *)
(* (KeyboardInterrupt), which spawn() does not catch.                      *)
RunnerLost ==
    /\ op = Idle /\ runners # <<>>
    /\ runners' = Front(runners)
    /\ UNCHANGED <<nodes, childrenOf, maxDepth, table, registered, op>>

(* transition(COMPLETED or FAILED), whatever the status has become *)
SpawnFinish(a) ==
    /\ op.kind = "finish" /\ a \in op.agents
    /\ Save(a, [nodes[a] EXCEPT !.status = op.status])
    /\ runners' = Front(runners)
    /\ op' = Idle
    /\ UNCHANGED <<childrenOf, maxDepth, registered>>

-----------------------------------------------------------------------------
(* Mutant: kill terminates the children, not all descendants.              *)
KillShallow(a) ==
    /\ op = Idle
    /\ a \in Known
    /\ op' = [Idle EXCEPT !.kind = "kill", !.agents = {a} \cup childrenOf[a], !.root = a]
    /\ UNCHANGED <<nodes, childrenOf, maxDepth, table, registered, runners>>

(* Dispatcher.kill and terminate_chain *)
Kill(a) ==
    /\ op = Idle
    /\ a \in Known
    /\ op' = [Idle EXCEPT !.kind = "kill", !.agents = Subgraph(a), !.root = a]
    /\ UNCHANGED <<nodes, childrenOf, maxDepth, table, registered, runners>>

(* prune_overdepth, with a limit of the caller or the mesh's own *)
Prune(limit) ==
    /\ op = Idle
    /\ op' = [Idle EXCEPT !.kind = "prune",
                          !.agents = {a \in Known : nodes[a].depth > limit}]
    /\ UNCHANGED <<nodes, childrenOf, maxDepth, table, registered, runners>>

(* Mutant: the status is not looked at.                                    *)
KillOneAnyStatus(a) ==
    /\ op.kind \in {"kill", "prune"} /\ a \in op.agents
    /\ op' = [op EXCEPT !.agents = @ \ {a}]
    /\ Save(a, [nodes[a] EXCEPT !.status = "killed"])
    /\ UNCHANGED <<childrenOf, maxDepth, registered, runners>>

(* One round of either loop.  Any order: a list of children is a set. *)
KillOne(a) ==
    /\ op.kind \in {"kill", "prune"} /\ a \in op.agents
    /\ op' = [op EXCEPT !.agents = @ \ {a}]
    /\ IF nodes[a].status \in Active
       THEN Save(a, [nodes[a] EXCEPT !.status = "killed"])
       ELSE UNCHANGED <<nodes, table>>
    /\ UNCHANGED <<childrenOf, maxDepth, registered, runners>>

(* remove: recursive, children before their parent *)
RemoveAgent(a) ==
    /\ op = Idle
    /\ a \in Known
    /\ op' = [Idle EXCEPT !.kind = "remove", !.agents = Subgraph(a)]
    /\ UNCHANGED <<nodes, childrenOf, maxDepth, table, registered, runners>>

(* Mutant: the parent may be deleted before its children.                  *)
RemoveOneAnyOrder(a) ==
    /\ op.kind = "remove" /\ a \in op.agents
    /\ op' = [op EXCEPT !.agents = @ \ {a}]
    /\ nodes' = Without(nodes, a)
    /\ table' = Without(table, a)
    /\ childrenOf' = [p \in Agents |-> IF p = a THEN {} ELSE childrenOf[p] \ {a}]
    /\ UNCHANGED <<maxDepth, registered, runners>>

RemoveOne(a) ==
    /\ op.kind = "remove" /\ a \in op.agents
    /\ childrenOf[a] \cap op.agents = {}
    /\ op' = [op EXCEPT !.agents = @ \ {a}]
    /\ nodes' = Without(nodes, a)
    /\ table' = Without(table, a)
    /\ childrenOf' = [p \in Agents |-> IF p = a THEN {} ELSE childrenOf[p] \ {a}]
    /\ UNCHANGED <<maxDepth, registered, runners>>

(* Either loop comes to its end. *)
LoopEnds ==
    /\ op.kind \in {"kill", "prune", "remove"} /\ op.agents = {}
    /\ op' = Idle
    /\ UNCHANGED <<nodes, childrenOf, maxDepth, table, registered, runners>>

(* the setter of max_depth *)
SetMaxDepth(limit) ==
    /\ op = Idle
    /\ limit # maxDepth
    /\ maxDepth' = limit
    /\ UNCHANGED <<nodes, childrenOf, table, registered, runners, op>>

(* Mutant: loading the rows does not rebuild the children lists.           *)
CrashChildless(limit) ==
    /\ nodes' = table
    /\ childrenOf' = ChildrenIn(<<>>)
    /\ maxDepth' = limit
    /\ runners' = <<>>
    /\ op' = Idle
    /\ UNCHANGED <<table, registered>>

(* The process dies, at any point, and a mesh is opened on the same file.  *)
Crash(limit) ==
    /\ nodes' = table
    /\ childrenOf' = ChildrenIn(table)
    /\ maxDepth' = limit
    /\ runners' = <<>>
    /\ op' = Idle
    /\ UNCHANGED <<table, registered>>

MeshNext ==
    \/ \E p \in Agents \cup {None} : RegisterAgent(p) \/ SpawnRegister(p)
    \/ \E a \in Agents :
          \/ SpawnAttest(a) \/ SpawnStart(a) \/ SpawnFinish(a)
          \/ Kill(a) \/ KillOne(a) \/ RemoveAgent(a) \/ RemoveOne(a)
    \/ \E result \in Results : RunnerReturns(result)
    \/ RunnerLost
    \/ LoopEnds
    \/ \E limit \in Limits : Prune(limit) \/ SetMaxDepth(limit) \/ Crash(limit)

MeshSpec == MeshInit /\ [][MeshNext]_meshVars

-----------------------------------------------------------------------------
(* Types, and: a registered id is never drawn again, nothing else is known. *)
MeshTypeOK ==
    /\ registered \in 0 .. MaxAgents
    /\ Known \subseteq 1 .. registered
    /\ nodes \in [Known -> Node]
    /\ childrenOf \in [Agents -> SUBSET (1 .. registered)]
    /\ maxDepth \in Limits
    /\ runners \in Seq(1 .. registered)
    /\ op \in Op
    /\ op.agents \subseteq Known

(* What a restart would load is what the mesh holds, but for empty results: *)
(* no operation of mesh.py leaves a change unsaved between two commits.    *)
TableMirrorsMesh == table = [a \in Known |-> Row(nodes[a])]

(* The children lists subgraph() and remove() follow agree with the parent *)
(* links, through registrations, removals and restarts.                    *)
ListsMatchParents ==
    \A p \in Known : childrenOf[p] = {a \in Known : nodes[a].parent = p}

(* An agent's depth counts the spawns above it, and an agent whose parent  *)
(* is gone was registered without one: removal never orphans an agent, not *)
(* even when the process dies in the middle (remove deletes children first). *)
DepthCountsSpawns ==
    \A a \in Known : nodes[a].depth = DepthUnder(nodes[a].parent)

(* No agent has been running without its spawn attestation on record.      *)
RunningWasAttested ==
    \A a \in Known : nodes[a].status \in {"running", "completed", "failed"}
                        => nodes[a].attested

(* The descendants of a by parent links, which is what kill promises.      *)
Offspring(a) ==
    {b \in Known : \A S \in SUBSET Known :
        a \in S /\ (\A c \in Known : nodes[c].parent \in S => c \in S) => b \in S}

(* kill() misses no descendant: any that is still active is one its loop   *)
(* has yet to come to.                                                     *)
KillMissesNobody ==
    op.kind = "kill" =>
      \A b \in Offspring(op.root) : nodes[b].status \in Active => b \in op.agents

(* An agent that completed or failed keeps that status, and a killed one   *)
(* never runs again; it may still be overwritten by its own runner's end   *)
(* (dispatcher.py:105), but by nothing else.                               *)
StatusOnlyAdvances ==
    [][\A a \in Known \cap Known' :
         nodes'[a].status # nodes[a].status =>
           /\ nodes[a].status \notin {"completed", "failed"}
           /\ nodes'[a].status # "pending"
           /\ nodes[a].status = "killed" => op.kind = "finish" /\ a = Last(runners)
      ]_meshVars
=============================================================================
