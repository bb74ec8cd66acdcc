---------------------------- MODULE AgentsProofs ----------------------------
(***************************************************************************)
(* Proofs about the two parts that run agents.  The agent mesh             *)
(* (AgentMesh), for any number of agents and any limits; and the Refrlow   *)
(* dispatcher and its miners (Refrlow): however dispatches interleave with *)
(* edits of the files, a report said to be complete is, and no chain of    *)
(* requests grows longer than the limit.                                   *)
(***************************************************************************)
EXTENDS AgentMesh, Refrlow, FiniteSetTheorems, WellFoundedInduction, TLAPS

-----------------------------------------------------------------------------
(***************************************************************************)
(* The agent mesh                                                          *)
(***************************************************************************)
\* What the operation in progress relies on: the agent being spawned is still
\* pending and no runner's, it is attested before it starts, and what remove
\* has left to delete is closed under children.
OpOk ==
  /\ \A a \in op.agents : op.kind \in {"attest", "start"} =>
       /\ op.agents = {a}
       /\ nodes[a].status = "pending"
       /\ \A i \in DOMAIN runners : runners[i] # a
  /\ \A a \in op.agents : op.kind \in {"start", "finish"} => nodes[a].attested
  /\ op.kind = "finish" =>
       /\ runners # <<>>
       /\ op.agents = {Last(runners)}
       /\ op.status \in {"completed", "failed"}
  /\ op.kind = "remove" => \A a \in op.agents : childrenOf[a] \subseteq op.agents

\* An agent has at most one runner, and has been started and not finished while
\* it has one.
RunnersOk ==
  /\ \A i, j \in DOMAIN runners : i # j => runners[i] # runners[j]
  /\ \A i \in DOMAIN runners : runners[i] \in Known =>
       /\ nodes[runners[i]].status \in {"running", "killed"}
       /\ nodes[runners[i]].attested

\* A parent was registered before: no new agent has children yet.
ParentsDrawn ==
  /\ \A a \in Known : nodes[a].parent \in 1 .. registered \cup {None}
  /\ \A p \in Agents : p > registered => childrenOf[p] = {}

MeshInv ==
  /\ MeshTypeOK /\ ParentsDrawn /\ TableMirrorsMesh /\ ListsMatchParents /\ DepthCountsSpawns
  /\ RunningWasAttested /\ KillMissesNobody /\ OpOk /\ RunnersOk

-----------------------------------------------------------------------------
LEMMA NoneIsNoAgent == None \notin Agents /\ \A i \in Nat : i # None
  BY MeshAssumption DEF Agents

LEMMA PopRunner ==
  ASSUME NEW S, NEW s \in Seq(S), s # <<>>
  PROVE  /\ Front(s) \in Seq(S)
         /\ DOMAIN Front(s) \subseteq DOMAIN s
         /\ \A i \in DOMAIN Front(s) : Front(s)[i] = s[i] /\ i # Len(s)
         /\ Len(s) \in DOMAIN s /\ Last(s) = s[Len(s)] /\ Last(s) \in S
  BY DEF Front, Last

\* Replacing what is known of an agent, its parent and depth kept, keeps the table and the forest.
LEMMA UpdateKeeps ==
  ASSUME MeshInv, NEW a \in Known, NEW node \in Node,
         node.parent = nodes[a].parent, node.depth = nodes[a].depth,
         Save(a, node), UNCHANGED <<childrenOf, registered>>
  PROVE  /\ Known' = Known
         /\ nodes' \in [Known -> Node]
         /\ nodes'[a] = node
         /\ \A b \in Known : b # a => nodes'[b] = nodes[b]
         /\ TableMirrorsMesh' /\ ListsMatchParents' /\ DepthCountsSpawns' /\ ParentsDrawn'
         /\ \A r : Offspring(r)' = Offspring(r)
<1>1. /\ Known' = Known /\ nodes' \in [Known -> Node] /\ nodes'[a] = node
      /\ \A b \in Known : b # a => nodes'[b] = nodes[b]
  BY DEF Save, Put, Known, MeshInv, MeshTypeOK
<1>2. TableMirrorsMesh'
  BY <1>1 DEF Save, Put, Known, MeshInv, TableMirrorsMesh
<1>3. \A b \in Known : nodes'[b].parent = nodes[b].parent /\ nodes'[b].depth = nodes[b].depth
  BY <1>1
<1>4. ListsMatchParents' /\ DepthCountsSpawns' /\ ParentsDrawn'
  BY <1>1, <1>3 DEF MeshInv, ListsMatchParents, DepthCountsSpawns, DepthUnder, ParentsDrawn
<1>5. \A r : Offspring(r)' = Offspring(r)
  BY <1>1, <1>3 DEF Offspring
<1> QED  BY <1>1, <1>2, <1>4, <1>5

\* The least set that the children lists do not lead out of holds every descendant.
LEMMA SubgraphHoldsOffspring ==
  ASSUME MeshInv, NEW a \in Known
  PROVE  /\ Subgraph(a) \subseteq Known
         /\ Offspring(a) \subseteq Subgraph(a)
         /\ \A b \in Subgraph(a) : childrenOf[b] \subseteq Subgraph(a)
<1>1. \A p \in Known : childrenOf[p] = {c \in Known : nodes[c].parent = p}
  BY DEF MeshInv, ListsMatchParents
<1>2. Offspring(a) \subseteq Subgraph(a)
  BY <1>1 DEF Offspring, Subgraph
<1>3. \A b \in Subgraph(a) : childrenOf[b] \subseteq Subgraph(a)
  BY <1>1 DEF Subgraph
<1> QED  BY <1>2, <1>3 DEF Subgraph

-----------------------------------------------------------------------------
LEMMA MeshInvInit == MeshInit => MeshInv
<1> SUFFICES ASSUME MeshInit PROVE MeshInv
  OBVIOUS
<1>1. Known = {} /\ DOMAIN table = {} /\ registered = 0 /\ runners = <<>> /\ op = Idle
  BY DEF MeshInit, Known
<1>2. MeshTypeOK
  <2>1. childrenOf \in [Agents -> SUBSET (1 .. registered)]
    BY <1>1 DEF MeshInit, ChildrenIn
  <2>2. Idle \in Op
    BY DEF Idle, Op, Statuses, Active
  <2>3. nodes \in [Known -> Node]
    BY <1>1 DEF MeshInit, Known
  <2> QED  BY <1>1, <2>1, <2>2, <2>3, MeshAssumption DEF MeshInit, MeshTypeOK, Idle
<1>3. TableMirrorsMesh
  BY <1>1 DEF MeshInit, TableMirrorsMesh
<1>4. ListsMatchParents /\ DepthCountsSpawns /\ RunningWasAttested /\ ParentsDrawn
  BY <1>1 DEF MeshInit, ChildrenIn, ListsMatchParents, DepthCountsSpawns, RunningWasAttested, ParentsDrawn
<1>5. KillMissesNobody /\ OpOk /\ RunnersOk
  BY <1>1 DEF KillMissesNobody, OpOk, RunnersOk, Idle
<1> QED  BY <1>2, <1>3, <1>4, <1>5 DEF MeshInv

\* Registering: the new agent has no children yet and is nobody's runner.
LEMMA RegisterKeepsForest ==
  ASSUME MeshInv, op = Idle, NEW p \in 1 .. registered \cup {None}, Register(p),
         UNCHANGED <<maxDepth, runners>>,
         op' \in Op, op'.agents \subseteq {registered'}, op'.kind \in {"idle", "attest"}
  PROVE  MeshInv'
<1> DEFINE a == registered + 1
           node == [parent |-> p, depth |-> DepthUnder(p), status |-> "pending",
                    attested |-> FALSE, result |-> "none"]
<1>1. /\ a \in Agents /\ registered' = a /\ Save(a, node)
      /\ childrenOf' = IF p \in Known
                       THEN [childrenOf EXCEPT ![p] = @ \cup {a}] ELSE childrenOf
      /\ registered \in 0 .. MaxAgents /\ Known \subseteq 1 .. registered
  BY DEF Register, MeshInv, MeshTypeOK
<1>2. a \notin Known /\ p # a /\ 1 .. registered \subseteq 1 .. a /\ 1 .. registered \subseteq Agents
  BY <1>1, MeshAssumption, NoneIsNoAgent DEF Agents
<1>3. node \in Node
  <2>1. p \in Known => nodes[p].depth \in Nat
    <3>1. nodes \in [Known -> Node]
      BY DEF MeshInv, MeshTypeOK
    <3> QED BY <3>1 DEF Node
  <2>2. DepthUnder(p) \in Nat
    BY <2>1 DEF DepthUnder
  <2> QED BY <2>2, <1>2 DEF Node, Statuses, Active, Results
<1>4. /\ Known' = Known \cup {a} /\ nodes' \in [Known' -> Node] /\ nodes'[a] = node
      /\ \A b \in Known : nodes'[b] = nodes[b]
  BY <1>1, <1>2, <1>3 DEF Save, Put, Known, MeshInv, MeshTypeOK
<1>n. /\ node.parent = p /\ node.depth = DepthUnder(p) /\ node.status = "pending"
      /\ a = registered + 1 /\ a \in 1 .. a /\ Known' \subseteq 1 .. a
  <2>1. node.parent = p /\ node.depth = DepthUnder(p) /\ node.status = "pending"
    OBVIOUS
  <2>2. registered \in Nat /\ a = registered + 1
    BY <1>1, MeshAssumption
  <2>3. a \in 1 .. a /\ 1 .. registered \subseteq 1 .. a
    BY <2>2
  <2> HIDE DEF a, node
  <2>4. Known' \subseteq 1 .. a
    BY <1>1, <1>4, <2>3
  <2> QED  BY <2>1, <2>2, <2>3, <2>4
<1> HIDE DEF node, a
<1>5. MeshTypeOK'
  <2>1. Known' \subseteq 1 .. registered'
    BY <1>1, <1>n
  <2>2. childrenOf' \in [Agents -> SUBSET (1 .. registered')]
    <3>1. childrenOf \in [Agents -> SUBSET (1 .. a)]
      BY <1>2 DEF MeshInv, MeshTypeOK
    <3>2. a \in 1 .. a /\ registered' = a
      BY <1>1, <1>n
    <3>3. \A q \in Agents : childrenOf[q] \cup {a} \in SUBSET (1 .. a)
      BY <3>1, <3>2
    <3>4. \A q : [childrenOf EXCEPT ![q] = @ \cup {a}] \in [Agents -> SUBSET (1 .. a)]
      BY <3>1, <3>3
    <3> QED  BY <1>1, <3>1, <3>2, <3>4
  <2>3. runners' \in Seq(1 .. registered')
    <3>1. runners \in Seq(1 .. registered)
      BY DEF MeshInv, MeshTypeOK
    <3>2. \A S, T : S \subseteq T => Seq(S) \subseteq Seq(T)
      OBVIOUS
    <3> QED  BY <1>1, <1>2, <3>1, <3>2
  <2> QED  BY <1>1, <1>4, <2>1, <2>2, <2>3 DEF MeshInv, MeshTypeOK, Agents
<1>6. TableMirrorsMesh'
  BY <1>1, <1>2, <1>4 DEF Save, Put, Known, MeshInv, TableMirrorsMesh
<1>7. \A q \in Known : childrenOf[q] = {b \in Known : nodes[b].parent = q}
  BY DEF MeshInv, ListsMatchParents
<1>8. \A b \in Known : nodes[b].parent # a
  BY <1>1, <1>2, <1>n, NoneIsNoAgent DEF MeshInv, ParentsDrawn
<1>9. ListsMatchParents'
  <2>1. childrenOf[a] = {}
    BY <1>1, <1>2, <1>n DEF MeshInv, ParentsDrawn
  <2>2. \A q \in Known : childrenOf'[q] = IF q = p THEN childrenOf[q] \cup {a} ELSE childrenOf[q]
    BY <1>1, <1>2 DEF MeshInv, MeshTypeOK
  <2>3. childrenOf'[a] = {}
    BY <1>1, <1>2, <2>1 DEF MeshInv, MeshTypeOK
  <2>4. nodes'[a].parent = p
    BY <1>4, <1>n
  <2>5. ASSUME NEW q \in Known'
        PROVE  childrenOf'[q] = {b \in Known' : nodes'[b].parent = q}
    <3>1. CASE q = a
      BY <3>1, <1>2, <1>4, <1>8, <2>3, <2>4
    <3>2. CASE q \in Known
      <4>1. childrenOf[q] = {b \in Known : nodes[b].parent = q}
        BY <3>2, <1>7
      <4>2. \A b \in Known : nodes'[b].parent = nodes[b].parent
        BY <1>4
      <4>3. {b \in Known : nodes[b].parent = q} = {b \in Known : nodes'[b].parent = q}
        BY <4>2
      <4>4. childrenOf'[q] = childrenOf[q] \cup (IF q = p THEN {a} ELSE {})
        <5>1. CASE q = p
          BY <5>1, <3>2, <2>2
        <5>2. CASE q # p
          BY <5>2, <3>2, <2>2
        <5> QED  BY <5>1, <5>2
      <4>5. childrenOf'[q] = {b \in Known : nodes'[b].parent = q} \cup (IF q = p THEN {a} ELSE {})
        BY <4>1, <4>3, <4>4
      <4> QED  BY <4>5, <1>2, <1>4, <2>4
    <3> QED  BY <3>1, <3>2, <1>4
  <2> QED  BY <2>5 DEF ListsMatchParents
<1>10. DepthCountsSpawns'
  <2>1. nodes'[a].parent = p /\ nodes'[a].depth = DepthUnder(p)
    BY <1>4, <1>n
  <2>2. ASSUME NEW b \in Known'
        PROVE  nodes'[b].depth = IF nodes'[b].parent \in Known'
                                 THEN nodes'[nodes'[b].parent].depth + 1 ELSE 0
    <3>1. CASE b = a
      BY <3>1, <2>1, <1>2, <1>4 DEF DepthUnder
    <3>2. CASE b \in Known
      <4>1. nodes[b].depth = DepthUnder(nodes[b].parent) /\ nodes'[b] = nodes[b] /\ nodes[b].parent # a
        BY <3>2, <1>4, <1>8 DEF MeshInv, DepthCountsSpawns
      <4> QED  BY <4>1, <1>4 DEF DepthUnder
    <3> QED  BY <3>1, <3>2, <1>4
  <2> QED  BY <2>2 DEF DepthCountsSpawns, DepthUnder
<1>11. ParentsDrawn' /\ RunningWasAttested'
  <2>1. \A b \in Known' : nodes'[b].parent \in 1 .. registered' \cup {None}
    BY <1>1, <1>2, <1>4, <1>n DEF MeshInv, ParentsDrawn
  <2>2. \A q \in Agents : q > a => childrenOf'[q] = childrenOf[q] /\ q > registered
    BY <1>1, <1>2, <1>n, MeshAssumption DEF MeshInv, MeshTypeOK, Agents
  <2>3. \A q \in Agents : q > registered' => childrenOf'[q] = {}
    BY <1>1, <2>2 DEF MeshInv, ParentsDrawn
  <2> QED  BY <1>4, <1>n, <2>1, <2>3 DEF MeshInv, ParentsDrawn, RunningWasAttested
<1>12. KillMissesNobody'
  BY DEF KillMissesNobody
<1>13. \A i \in DOMAIN runners : runners[i] # a
  BY <1>1, <1>n DEF MeshInv, MeshTypeOK
<1>14. OpOk'
  BY <1>1, <1>4, <1>n, <1>13 DEF OpOk
<1>15. RunnersOk'
  BY <1>4, <1>13 DEF MeshInv, RunnersOk
<1> QED  BY <1>5, <1>6, <1>9, <1>10, <1>11, <1>12, <1>14, <1>15 DEF MeshInv

LEMMA RegisterKeepsInv ==
  ASSUME MeshInv, NEW p \in Agents \cup {None}, RegisterAgent(p) \/ SpawnRegister(p)
  PROVE  MeshInv'
<1>1. /\ op = Idle /\ Register(p) /\ UNCHANGED <<maxDepth, runners>>
      /\ p \in 1 .. registered \cup {None}
      /\ \/ op' = op
         \/ op' = [Idle EXCEPT !.kind = "attest", !.agents = {registered'}]
  BY DEF RegisterAgent, SpawnRegister
<1>2. registered' \in Agents /\ Idle \in Op
  BY <1>1 DEF Register, MeshInv, MeshTypeOK
<1>3. op' \in Op /\ op'.agents \subseteq {registered'} /\ op'.kind \in {"idle", "attest"}
  <2>1. CASE op' = op
    BY <2>1, <1>1 DEF Idle, MeshInv, MeshTypeOK
  <2>2. CASE op' = [Idle EXCEPT !.kind = "attest", !.agents = {registered'}]
    BY <2>2, <1>2 DEF Idle, Op
  <2> QED  BY <1>1, <2>1, <2>2
<1> QED  BY <1>1, <1>3, RegisterKeepsForest

LEMMA UnchangedNodesKeepForest ==
  ASSUME MeshInv, UNCHANGED <<nodes, childrenOf, table, registered>>,
         maxDepth' \in Limits, op' \in Op, op'.agents \subseteq Known,
         KillMissesNobody', OpOk', RunnersOk', runners' \in Seq(1 .. registered)
  PROVE  MeshInv'
<1>1. Known' = Known
  BY DEF Known
<1>2. MeshTypeOK'
  BY <1>1 DEF MeshInv, MeshTypeOK
<1>3. TableMirrorsMesh' /\ ListsMatchParents' /\ ParentsDrawn' /\ RunningWasAttested'
  BY <1>1 DEF MeshInv, TableMirrorsMesh, ListsMatchParents, ParentsDrawn, RunningWasAttested
<1>4. DepthCountsSpawns'
  BY <1>1 DEF MeshInv, DepthCountsSpawns, DepthUnder
<1> QED  BY <1>2, <1>3, <1>4 DEF MeshInv

\* The operations that only begin or end, the setter, and a runner that ends without a trace.
LEMMA QuietStepsKeepInv ==
  ASSUME MeshInv,
         \/ \E a \in Agents : Kill(a) \/ RemoveAgent(a)
         \/ RunnerLost \/ LoopEnds
         \/ \E limit \in Limits : Prune(limit) \/ SetMaxDepth(limit)
  PROVE  MeshInv'
<1>1. /\ maxDepth \in Limits /\ op \in Op /\ Idle \in Op /\ runners \in Seq(1 .. registered)
      /\ Known \subseteq Agents /\ op.agents \subseteq Known
  BY MeshAssumption DEF MeshInv, MeshTypeOK, Agents, Op, Idle, Statuses, Active
<1>2. UNCHANGED <<nodes, childrenOf, table, registered>> /\ Known' = Known
  BY DEF Kill, RemoveAgent, RunnerLost, LoopEnds, Prune, SetMaxDepth, Known
<1>3. RunnersOk' /\ runners' \in Seq(1 .. registered)
  <2>1. CASE RunnerLost
    BY <2>1, <1>1, <1>2, PopRunner DEF RunnerLost, MeshInv, RunnersOk
  <2>2. CASE UNCHANGED runners
    BY <2>2, <1>1, <1>2 DEF MeshInv, RunnersOk
  <2> QED  BY <2>1, <2>2 DEF Kill, RemoveAgent, LoopEnds, Prune, SetMaxDepth
<1>4. CASE op' = Idle /\ UNCHANGED maxDepth
  <2>1. KillMissesNobody' /\ OpOk' /\ Idle.agents = {}
    BY <1>4 DEF KillMissesNobody, OpOk, Idle
  <2> QED  BY <1>1, <1>2, <1>3, <1>4, <2>1, UnchangedNodesKeepForest
<1>5. ASSUME NEW limit \in Limits, SetMaxDepth(limit) PROVE MeshInv'
  <2>1. op' = Idle /\ maxDepth' \in Limits
    BY <1>5 DEF SetMaxDepth
  <2>2. KillMissesNobody' /\ OpOk' /\ Idle.agents = {}
    BY <2>1 DEF KillMissesNobody, OpOk, Idle
  <2> QED  BY <1>1, <1>2, <1>3, <2>1, <2>2, UnchangedNodesKeepForest
<1>6. ASSUME NEW limit \in Limits, Prune(limit) PROVE MeshInv'
  <2> DEFINE doomed == {a \in Known : nodes[a].depth > limit}
  <2>1. op' = [Idle EXCEPT !.kind = "prune", !.agents = doomed] /\ UNCHANGED maxDepth
    BY <1>6 DEF Prune
  <2>2. doomed \subseteq Known
    OBVIOUS
  <2> HIDE DEF doomed
  <2>3. op' \in Op /\ op'.agents \subseteq Known /\ op'.kind = "prune"
    BY <1>1, <2>1, <2>2 DEF Idle, Op
  <2>4. KillMissesNobody' /\ OpOk'
    BY <2>3 DEF KillMissesNobody, OpOk
  <2> QED  BY <1>1, <1>2, <1>3, <2>1, <2>3, <2>4, UnchangedNodesKeepForest
<1>7. ASSUME NEW a \in Agents, Kill(a) PROVE MeshInv'
  <2>1. /\ a \in Known /\ UNCHANGED maxDepth
        /\ op' = [Idle EXCEPT !.kind = "kill", !.agents = Subgraph(a), !.root = a]
    BY <1>7 DEF Kill
  <2>2. Subgraph(a) \subseteq Known /\ Offspring(a) \subseteq Subgraph(a)
    BY <2>1, SubgraphHoldsOffspring
  <2>3. op' \in Op /\ op'.agents = Subgraph(a) /\ op'.kind = "kill" /\ op'.root = a
    BY <1>1, <2>1, <2>2 DEF Idle, Op
  <2>4. Offspring(a)' = Offspring(a)
    BY <1>2 DEF Offspring
  <2>5. KillMissesNobody' /\ OpOk'
    BY <2>2, <2>3, <2>4 DEF KillMissesNobody, OpOk
  <2> QED  BY <1>1, <1>2, <1>3, <2>1, <2>2, <2>3, <2>5, UnchangedNodesKeepForest
<1>8. ASSUME NEW a \in Agents, RemoveAgent(a) PROVE MeshInv'
  <2>1. /\ a \in Known /\ UNCHANGED <<maxDepth, childrenOf>>
        /\ op' = [Idle EXCEPT !.kind = "remove", !.agents = Subgraph(a)]
    BY <1>8 DEF RemoveAgent
  <2>2. /\ Subgraph(a) \subseteq Known
        /\ \A b \in Subgraph(a) : childrenOf[b] \subseteq Subgraph(a)
    BY <2>1, SubgraphHoldsOffspring
  <2>3. op' \in Op /\ op'.agents = Subgraph(a) /\ op'.kind = "remove"
    BY <1>1, <2>1, <2>2 DEF Idle, Op
  <2>4. KillMissesNobody' /\ OpOk'
    BY <2>1, <2>2, <2>3 DEF KillMissesNobody, OpOk
  <2> QED  BY <1>1, <1>2, <1>3, <2>1, <2>2, <2>3, <2>4, UnchangedNodesKeepForest
<1> QED  BY <1>4, <1>5, <1>6, <1>7, <1>8 DEF RunnerLost, LoopEnds

\* Replacing what is known of one agent, in the middle of an operation.
LEMMA UpdateKeepsInv ==
  ASSUME MeshInv, NEW a \in Known, NEW node \in Node,
         node.parent = nodes[a].parent, node.depth = nodes[a].depth,
         Save(a, node), UNCHANGED <<childrenOf, registered, maxDepth>>,
         node.status \in {"running", "completed", "failed"} => node.attested,
         op' \in Op, op'.agents \subseteq Known, runners' \in Seq(1 .. registered),
         KillMissesNobody', OpOk', RunnersOk'
  PROVE  MeshInv'
<1>1. /\ Known' = Known /\ nodes' \in [Known -> Node] /\ nodes'[a] = node
      /\ \A b \in Known : b # a => nodes'[b] = nodes[b]
      /\ TableMirrorsMesh' /\ ListsMatchParents' /\ DepthCountsSpawns' /\ ParentsDrawn'
  BY UpdateKeeps
<1>2. MeshTypeOK'
  BY <1>1 DEF MeshInv, MeshTypeOK
<1>3. RunningWasAttested'
  BY <1>1 DEF MeshInv, RunningWasAttested
<1> QED  BY <1>1, <1>2, <1>3 DEF MeshInv

LEMMA SpawnAttestKeepsInv ==
  ASSUME MeshInv, NEW a \in Agents, SpawnAttest(a)
  PROVE  MeshInv'
<1> DEFINE node == [nodes[a] EXCEPT !.attested = TRUE]
<1>1. /\ a \in Known /\ nodes[a] \in Node /\ op \in Op /\ op.agents \subseteq Known
      /\ runners \in Seq(1 .. registered) /\ a \in op.agents /\ op.kind = "attest"
  BY DEF SpawnAttest, MeshInv, MeshTypeOK
<1>2. node \in Node /\ node.parent = nodes[a].parent /\ node.depth = nodes[a].depth
      /\ node.status = nodes[a].status /\ node.attested
  BY <1>1 DEF Node
<1>3. /\ Save(a, node) /\ UNCHANGED <<childrenOf, registered, maxDepth, runners>>
      /\ op' = [op EXCEPT !.kind = "start"]
  BY DEF SpawnAttest
<1> HIDE DEF node
<1>4. /\ Known' = Known /\ nodes'[a] = node
      /\ \A b \in Known : b # a => nodes'[b] = nodes[b]
  BY <1>1, <1>2, <1>3, UpdateKeeps
<1>5. op' \in Op /\ op'.agents = op.agents /\ op'.kind = "start"
  BY <1>1, <1>3 DEF Op
<1>6. op.agents = {a}
  BY <1>1 DEF MeshInv, OpOk
<1>7. node.status = "pending" /\ \A i \in DOMAIN runners : runners[i] # a
  BY <1>1, <1>2 DEF MeshInv, OpOk
<1>8. OpOk'
  BY <1>2, <1>3, <1>4, <1>5, <1>6, <1>7 DEF OpOk
<1>9. RunnersOk'
  BY <1>3, <1>4, <1>7 DEF MeshInv, RunnersOk
<1>10. KillMissesNobody'
  BY <1>5 DEF KillMissesNobody
<1> QED  BY <1>1, <1>2, <1>3, <1>5, <1>7, <1>8, <1>9, <1>10, UpdateKeepsInv

LEMMA SpawnStartKeepsInv ==
  ASSUME MeshInv, NEW a \in Agents, SpawnStart(a)
  PROVE  MeshInv'
<1> DEFINE node == [nodes[a] EXCEPT !.status = "running"]
<1>1. /\ a \in Known /\ nodes[a] \in Node /\ op \in Op /\ op.agents \subseteq Known
      /\ runners \in Seq(1 .. registered) /\ a \in op.agents /\ op.kind = "start"
      /\ a \in 1 .. registered
  BY DEF SpawnStart, MeshInv, MeshTypeOK
<1>2. node \in Node /\ node.parent = nodes[a].parent /\ node.depth = nodes[a].depth
      /\ node.status = "running" /\ node.attested = nodes[a].attested
  BY <1>1 DEF Node, Statuses, Active
<1>3. /\ Save(a, node) /\ UNCHANGED <<childrenOf, registered, maxDepth>>
      /\ op' = Idle
      /\ runners' = Append(runners, a) \/ runners' = runners
  BY DEF SpawnStart
<1> HIDE DEF node
<1>4. /\ Known' = Known /\ nodes'[a] = node
      /\ \A b \in Known : b # a => nodes'[b] = nodes[b]
  BY <1>1, <1>2, <1>3, UpdateKeeps
<1>5. Idle \in Op /\ Idle.agents = {} /\ Idle.kind = "idle"
  BY DEF Op, Idle, Statuses, Active
<1>6. node.attested /\ \A i \in DOMAIN runners : runners[i] # a
  BY <1>1, <1>2 DEF MeshInv, OpOk
<1>7. OpOk' /\ KillMissesNobody'
  BY <1>3, <1>5 DEF OpOk, KillMissesNobody
<1>8. RunnersOk' /\ runners' \in Seq(1 .. registered)
  <2>1. RunnersOk
    BY DEF MeshInv
  <2>2. CASE runners' = runners
    BY <2>1, <2>2, <1>1, <1>2, <1>4, <1>6 DEF RunnersOk
  <2>3. CASE runners' = Append(runners, a)
    <3>1. /\ runners' \in Seq(1 .. registered)
          /\ DOMAIN runners' = DOMAIN runners \cup {Len(runners) + 1}
          /\ runners'[Len(runners) + 1] = a
          /\ \A i \in DOMAIN runners : runners'[i] = runners[i]
      BY <2>3, <1>1
    <3>2. \A i, j \in DOMAIN runners' : i # j => runners'[i] # runners'[j]
      BY <2>1, <3>1, <1>6 DEF RunnersOk
    <3>3. ASSUME NEW i \in DOMAIN runners', runners'[i] \in Known
          PROVE  nodes'[runners'[i]].status \in {"running", "killed"} /\ nodes'[runners'[i]].attested
      <4>1. CASE i = Len(runners) + 1
        BY <4>1, <3>1, <1>2, <1>4, <1>6
      <4>2. CASE i \in DOMAIN runners
        <5>1. runners'[i] = runners[i] /\ runners[i] # a /\ nodes'[runners[i]] = nodes[runners[i]]
          BY <4>2, <3>1, <3>3, <1>4, <1>6
        <5> QED  BY <5>1, <4>2, <3>3, <2>1 DEF RunnersOk
      <4> QED  BY <4>1, <4>2, <3>1, <3>3
    <3> QED  BY <3>1, <3>2, <3>3, <1>4 DEF RunnersOk
  <2> QED  BY <2>2, <2>3, <1>1, <1>3
<1> QED  BY <1>1, <1>2, <1>3, <1>5, <1>6, <1>7, <1>8, UpdateKeepsInv

LEMMA RunnerReturnsKeepsInv ==
  ASSUME MeshInv, NEW result \in Results, RunnerReturns(result)
  PROVE  MeshInv'
<1> DEFINE a == Last(runners)
           node == [nodes[a] EXCEPT !.result = result]
           end == IF result = "error" THEN "failed" ELSE "completed"
<1>1. /\ a \in Known /\ nodes[a] \in Node /\ runners # <<>> /\ a \in Agents
      /\ runners \in Seq(1 .. registered)
  BY MeshAssumption DEF RunnerReturns, MeshInv, MeshTypeOK, Agents
<1>2. node \in Node /\ node.parent = nodes[a].parent /\ node.depth = nodes[a].depth
      /\ node.status = nodes[a].status /\ node.attested = nodes[a].attested
  BY <1>1 DEF Node
<1>3. /\ Save(a, node) /\ UNCHANGED <<childrenOf, registered, maxDepth, runners>>
      /\ op' = [Idle EXCEPT !.kind = "finish", !.agents = {a}, !.status = end]
  BY DEF RunnerReturns
<1>4. end \in {"failed", "completed"}
  OBVIOUS
<1>5. Len(runners) \in DOMAIN runners /\ runners[Len(runners)] = a
  BY <1>1, PopRunner
<1> HIDE DEF node, end
<1>6. nodes[a].attested
  BY <1>1, <1>5 DEF MeshInv, RunnersOk
<1>7. op' \in Op /\ op'.kind = "finish" /\ op'.agents = {a} /\ op'.status = end
  BY <1>1, <1>3, <1>4 DEF Op, Idle, Statuses, Active
<1>8. /\ Known' = Known /\ nodes'[a] = node
      /\ \A b \in Known : b # a => nodes'[b] = nodes[b]
  BY <1>1, <1>2, <1>3, UpdateKeeps
<1>9. OpOk'
  <2>1. Last(runners)' = Last(runners)
    BY <1>3
  <2> QED  BY <2>1, <1>1, <1>2, <1>3, <1>4, <1>6, <1>7, <1>8 DEF OpOk
<1>10. RunnersOk' /\ KillMissesNobody'
  BY <1>2, <1>3, <1>7, <1>8 DEF MeshInv, RunnersOk, KillMissesNobody
<1> QED  BY <1>1, <1>2, <1>3, <1>6, <1>7, <1>9, <1>10, UpdateKeepsInv

LEMMA SpawnFinishKeepsInv ==
  ASSUME MeshInv, NEW a \in Agents, SpawnFinish(a)
  PROVE  MeshInv'
<1> DEFINE node == [nodes[a] EXCEPT !.status = op.status]
<1>1. /\ a \in Known /\ nodes[a] \in Node /\ op.status \in Statuses
      /\ runners \in Seq(1 .. registered)
  BY DEF SpawnFinish, MeshInv, MeshTypeOK, Op
<1>2. node \in Node /\ node.parent = nodes[a].parent /\ node.depth = nodes[a].depth
      /\ node.attested = nodes[a].attested
  BY <1>1 DEF Node
<1>3. /\ Save(a, node) /\ UNCHANGED <<childrenOf, registered, maxDepth>>
      /\ op' = Idle /\ runners' = Front(runners)
  BY DEF SpawnFinish
<1>4. runners # <<>> /\ a = Last(runners) /\ node.attested
  BY <1>2 DEF SpawnFinish, MeshInv, OpOk
<1> HIDE DEF node
<1>5. Idle \in Op /\ Idle.agents = {} /\ Idle.kind = "idle"
  BY DEF Op, Idle, Statuses, Active
<1>6. OpOk' /\ KillMissesNobody'
  BY <1>3, <1>5 DEF OpOk, KillMissesNobody
<1>7. /\ Known' = Known /\ nodes'[a] = node
      /\ \A b \in Known : b # a => nodes'[b] = nodes[b]
  BY <1>1, <1>2, <1>3, UpdateKeeps
<1>8. /\ Front(runners) \in Seq(1 .. registered)
      /\ DOMAIN Front(runners) \subseteq DOMAIN runners
      /\ \A i \in DOMAIN Front(runners) : Front(runners)[i] = runners[i] /\ i # Len(runners)
      /\ Len(runners) \in DOMAIN runners /\ a = runners[Len(runners)]
  BY <1>1, <1>4, PopRunner
<1>9. \A i \in DOMAIN runners' : runners'[i] = runners[i] /\ i \in DOMAIN runners /\ runners[i] # a
  BY <1>3, <1>8 DEF MeshInv, RunnersOk
<1>10. RunnersOk'
  BY <1>7, <1>9 DEF MeshInv, RunnersOk
<1> QED  BY <1>1, <1>2, <1>3, <1>4, <1>5, <1>6, <1>8, <1>10, UpdateKeepsInv

LEMMA KillOneKeepsInv ==
  ASSUME MeshInv, NEW a \in Agents, KillOne(a)
  PROVE  MeshInv'
<1>1. /\ a \in Known /\ nodes[a] \in Node /\ op \in Op /\ op.agents \subseteq Known
      /\ op.kind \in {"kill", "prune"} /\ runners \in Seq(1 .. registered)
      /\ UNCHANGED <<childrenOf, registered, maxDepth, runners>>
      /\ op' = [op EXCEPT !.agents = @ \ {a}]
  BY DEF KillOne, MeshInv, MeshTypeOK
<1>2. /\ op' \in Op /\ op'.agents = op.agents \ {a} /\ op'.kind = op.kind /\ op'.root = op.root
      /\ op'.agents \subseteq Known
  BY <1>1 DEF Op
<1>3. OpOk'
  BY <1>1, <1>2 DEF OpOk
<1>4. CASE nodes[a].status \in Active
  <2> DEFINE node == [nodes[a] EXCEPT !.status = "killed"]
  <2>1. node \in Node /\ node.parent = nodes[a].parent /\ node.depth = nodes[a].depth
        /\ node.status = "killed" /\ node.attested = nodes[a].attested
    BY <1>1 DEF Node, Statuses
  <2>2. Save(a, node)
    BY <1>4 DEF KillOne
  <2> HIDE DEF node
  <2>3. /\ Known' = Known /\ nodes'[a] = node
        /\ \A b \in Known : b # a => nodes'[b] = nodes[b]
        /\ \A r : Offspring(r)' = Offspring(r)
    BY <1>1, <2>1, <2>2, UpdateKeeps
  <2>4. RunnersOk'
    BY <1>1, <2>1, <2>3 DEF MeshInv, RunnersOk
  <2>5. KillMissesNobody'
    BY <1>2, <2>1, <2>3 DEF MeshInv, KillMissesNobody, Offspring, Active
  <2> QED  BY <1>1, <1>2, <1>3, <2>1, <2>2, <2>4, <2>5, UpdateKeepsInv
<1>5. CASE nodes[a].status \notin Active
  <2>1. UNCHANGED <<nodes, table>> /\ Known' = Known
    BY <1>5 DEF KillOne, Known
  <2>2. RunnersOk'
    BY <1>1, <2>1 DEF MeshInv, RunnersOk
  <2>3. KillMissesNobody'
    BY <1>2, <1>5, <2>1 DEF MeshInv, KillMissesNobody, Offspring
  <2>4. maxDepth' \in Limits /\ runners' \in Seq(1 .. registered)
    BY <1>1 DEF MeshInv, MeshTypeOK
  <2> QED  BY <1>1, <1>2, <1>3, <2>1, <2>2, <2>3, <2>4, UnchangedNodesKeepForest
<1> QED  BY <1>4, <1>5

\* remove() takes away an agent whose children are gone.
LEMMA RemoveOneKeepsInv ==
  ASSUME MeshInv, NEW a \in Agents, RemoveOne(a)
  PROVE  MeshInv'
<1>1. /\ a \in Known /\ Known \subseteq 1 .. registered /\ nodes \in [Known -> Node]
      /\ childrenOf \in [Agents -> SUBSET (1 .. registered)] /\ Known \subseteq Agents
      /\ op \in Op /\ op.kind = "remove" /\ a \in op.agents /\ op.agents \subseteq Known
      /\ op' = [op EXCEPT !.agents = @ \ {a}]
      /\ UNCHANGED <<maxDepth, registered, runners>>
  BY MeshAssumption DEF RemoveOne, MeshInv, MeshTypeOK, Agents
<1>2. op' \in Op /\ op'.agents = op.agents \ {a} /\ op'.kind = "remove"
  BY <1>1 DEF Op
<1>3. childrenOf[a] = {}
  BY <1>1 DEF RemoveOne, MeshInv, OpOk
<1>4. /\ Known' = Known \ {a} /\ nodes' \in [Known' -> Node]
      /\ \A b \in Known' : nodes'[b] = nodes[b]
  BY <1>1 DEF RemoveOne, Without, Known
<1>5. /\ childrenOf' \in [Agents -> SUBSET (1 .. registered)]
      /\ \A q \in Agents : q # a => childrenOf'[q] = childrenOf[q] \ {a}
      /\ childrenOf'[a] = {}
  BY <1>1 DEF RemoveOne
<1>6. MeshTypeOK'
  BY <1>1, <1>2, <1>4, <1>5 DEF MeshInv, MeshTypeOK
<1>7. TableMirrorsMesh'
  <2>1. table = [b \in Known |-> Row(nodes[b])] /\ table' = Without(table, a)
    BY DEF RemoveOne, MeshInv, TableMirrorsMesh
  <2>2. table' = [b \in Known' |-> Row(nodes[b])]
    BY <2>1, <1>4 DEF Without
  <2> QED  BY <2>2, <1>4 DEF TableMirrorsMesh, Row
<1>8. \A q \in Known : childrenOf[q] = {b \in Known : nodes[b].parent = q}
  BY DEF MeshInv, ListsMatchParents
<1>9. ListsMatchParents'
  <2>1. ASSUME NEW q \in Known'
        PROVE  childrenOf'[q] = {b \in Known' : nodes'[b].parent = q}
    BY <1>1, <1>4, <1>5, <1>8
  <2> QED  BY <2>1 DEF ListsMatchParents
<1>10. \A b \in Known' : nodes[b].parent # a
  BY <1>1, <1>3, <1>4, <1>8
<1>11. DepthCountsSpawns'
  BY <1>4, <1>10 DEF MeshInv, DepthCountsSpawns, DepthUnder
<1>12. ParentsDrawn' /\ RunningWasAttested'
  BY <1>1, <1>3, <1>4, <1>5 DEF MeshInv, ParentsDrawn, RunningWasAttested
<1>13. OpOk' /\ KillMissesNobody'
  BY <1>1, <1>2, <1>4, <1>5, <1>10, <1>8 DEF MeshInv, OpOk, KillMissesNobody
<1>14. RunnersOk'
  BY <1>1, <1>4 DEF MeshInv, RunnersOk
<1> QED  BY <1>6, <1>7, <1>9, <1>11, <1>12, <1>13, <1>14 DEF MeshInv

\* What a restart loads is what was in memory, but for empty results.
LEMMA CrashKeepsInv ==
  ASSUME MeshInv, NEW limit \in Limits, Crash(limit)
  PROVE  MeshInv'
<1>1. /\ nodes' = table /\ table' = table /\ registered' = registered /\ maxDepth' \in Limits
      /\ childrenOf' = ChildrenIn(table) /\ runners' = <<>> /\ op' = Idle
  BY DEF Crash
<1>2. table = [b \in Known |-> Row(nodes[b])] /\ nodes \in [Known -> Node]
      /\ Known \subseteq 1 .. registered /\ registered \in 0 .. MaxAgents
  BY DEF MeshInv, TableMirrorsMesh, MeshTypeOK
<1>3. \A n \in Node : /\ Row(n) \in Node /\ Row(Row(n)) = Row(n)
                      /\ Row(n).parent = n.parent /\ Row(n).depth = n.depth
                      /\ Row(n).status = n.status /\ Row(n).attested = n.attested
  BY DEF Row, Node, Results
<1>4. /\ Known' = Known /\ nodes' \in [Known -> Node]
      /\ \A b \in Known : /\ nodes'[b] = Row(nodes[b]) /\ nodes[b] \in Node
                          /\ nodes'[b].parent = nodes[b].parent
                          /\ nodes'[b].depth = nodes[b].depth
                          /\ nodes'[b].status = nodes[b].status
                          /\ nodes'[b].attested = nodes[b].attested
  BY <1>1, <1>2, <1>3 DEF Known
<1>5. \A p \in Agents : childrenOf'[p] = {b \in Known : nodes[b].parent = p}
  BY <1>1, <1>4 DEF ChildrenIn, Known
<1>6. MeshTypeOK'
  <2>1. childrenOf' \in [Agents -> SUBSET (1 .. registered)]
    BY <1>1, <1>2, <1>5 DEF ChildrenIn
  <2>2. op' \in Op /\ op'.agents = {} /\ runners' \in Seq(1 .. registered)
    BY <1>1 DEF Op, Idle, Statuses, Active
  <2> QED  BY <1>1, <1>2, <1>4, <2>1, <2>2 DEF MeshTypeOK
<1>7. TableMirrorsMesh'
  <2>1. \A b \in Known : Row(nodes'[b]) = Row(nodes[b])
    BY <1>3, <1>4
  <2>2. [b \in Known' |-> Row(nodes'[b])] = [b \in Known |-> Row(nodes[b])]
    BY <1>4, <2>1
  <2> QED  BY <1>1, <1>2, <2>2 DEF TableMirrorsMesh, Row
<1>8. ListsMatchParents'
  <2>1. Known \subseteq Agents
    BY <1>2, MeshAssumption DEF Agents
  <2>2. ASSUME NEW p \in Known'
        PROVE  childrenOf'[p] = {b \in Known' : nodes'[b].parent = p}
    <3>1. childrenOf'[p] = {b \in Known : nodes[b].parent = p}
      BY <1>4, <1>5, <2>1
    <3> QED  BY <3>1, <1>4
  <2> QED  BY <2>2 DEF ListsMatchParents
<1>9. DepthCountsSpawns'
  BY <1>4 DEF MeshInv, DepthCountsSpawns, DepthUnder
<1>10. RunningWasAttested'
  BY <1>4 DEF MeshInv, RunningWasAttested
<1>11. ParentsDrawn'
  BY <1>1, <1>2, <1>4, <1>5, NoneIsNoAgent DEF MeshInv, ParentsDrawn, Agents
<1>12. KillMissesNobody' /\ OpOk' /\ RunnersOk'
  BY <1>1 DEF KillMissesNobody, OpOk, RunnersOk, Idle
<1> QED  BY <1>6, <1>7, <1>8, <1>9, <1>10, <1>11, <1>12 DEF MeshInv

LEMMA MeshInvStep == MeshInv /\ [MeshNext]_meshVars => MeshInv'
<1> SUFFICES ASSUME MeshInv, [MeshNext]_meshVars PROVE MeshInv'
  OBVIOUS
<1>1. ASSUME NEW p \in Agents \cup {None}, RegisterAgent(p) \/ SpawnRegister(p) PROVE MeshInv'
  BY <1>1, RegisterKeepsInv
<1>2. ASSUME NEW a \in Agents, SpawnAttest(a) \/ SpawnStart(a) \/ SpawnFinish(a) PROVE MeshInv'
  BY <1>2, SpawnAttestKeepsInv, SpawnStartKeepsInv, SpawnFinishKeepsInv
<1>3. ASSUME NEW a \in Agents, KillOne(a) \/ RemoveOne(a) PROVE MeshInv'
  BY <1>3, KillOneKeepsInv, RemoveOneKeepsInv
<1>4. ASSUME NEW a \in Agents, Kill(a) \/ RemoveAgent(a) PROVE MeshInv'
  BY <1>4, QuietStepsKeepInv
<1>5. ASSUME NEW result \in Results, RunnerReturns(result) PROVE MeshInv'
  BY <1>5, RunnerReturnsKeepsInv
<1>6. CASE RunnerLost \/ LoopEnds
  BY <1>6, QuietStepsKeepInv
<1>7. ASSUME NEW limit \in Limits, Prune(limit) \/ SetMaxDepth(limit) PROVE MeshInv'
  BY <1>7, QuietStepsKeepInv
<1>8. ASSUME NEW limit \in Limits, Crash(limit) PROVE MeshInv'
  BY <1>8, CrashKeepsInv
<1>9. CASE UNCHANGED meshVars
  <2>1. UNCHANGED <<nodes, childrenOf, maxDepth, table, registered, runners, op>>
    BY <1>9 DEF meshVars
  <2>2. Known' = Known
    BY <2>1 DEF Known
  <2>3. MeshTypeOK' /\ ParentsDrawn' /\ TableMirrorsMesh' /\ ListsMatchParents'
    BY <2>1, <2>2 DEF MeshInv, MeshTypeOK, ParentsDrawn, TableMirrorsMesh, ListsMatchParents
  <2>4. DepthCountsSpawns' /\ RunningWasAttested' /\ OpOk' /\ RunnersOk'
    BY <2>1, <2>2 DEF MeshInv, DepthCountsSpawns, DepthUnder, RunningWasAttested, OpOk, RunnersOk, Last
  <2>5. KillMissesNobody'
    BY <2>1, <2>2 DEF MeshInv, KillMissesNobody, Offspring
  <2> QED  BY <2>3, <2>4, <2>5 DEF MeshInv
<1> QED  BY <1>1, <1>2, <1>3, <1>4, <1>5, <1>6, <1>7, <1>8, <1>9 DEF MeshNext

-----------------------------------------------------------------------------
\* The mesh keeps its types and never draws a registered id again.
THEOREM MeshTypeCorrect == MeshSpec => []MeshTypeOK
<1>1. MeshInv => MeshTypeOK
  BY DEF MeshInv
<1> QED  BY <1>1, MeshInvInit, MeshInvStep, PTL DEF MeshSpec

\* At every moment a restart would load what the mesh holds, but for empty results.
THEOREM RestartLosesNothing == MeshSpec => []TableMirrorsMesh
<1>1. MeshInv => TableMirrorsMesh
  BY DEF MeshInv
<1> QED  BY <1>1, MeshInvInit, MeshInvStep, PTL DEF MeshSpec

\* The children lists agree with the parent links, also after a restart in the
\* middle of a removal.
THEOREM ListsAgree == MeshSpec => []ListsMatchParents
<1>1. MeshInv => ListsMatchParents
  BY DEF MeshInv
<1> QED  BY <1>1, MeshInvInit, MeshInvStep, PTL DEF MeshSpec

\* Depth counts the spawns above an agent: neither removal nor a crash orphans one.
THEOREM DepthIsHonest == MeshSpec => []DepthCountsSpawns
<1>1. MeshInv => DepthCountsSpawns
  BY DEF MeshInv
<1> QED  BY <1>1, MeshInvInit, MeshInvStep, PTL DEF MeshSpec

\* Whatever ran has its spawn attestation on record.
THEOREM RunnersWereAttested == MeshSpec => []RunningWasAttested
<1>1. MeshInv => RunningWasAttested
  BY DEF MeshInv
<1> QED  BY <1>1, MeshInvInit, MeshInvStep, PTL DEF MeshSpec

\* kill() reaches every descendant, for any tree.
THEOREM KillIsComplete == MeshSpec => []KillMissesNobody
<1>1. MeshInv => KillMissesNobody
  BY DEF MeshInv
<1> QED  BY <1>1, MeshInvInit, MeshInvStep, PTL DEF MeshSpec

\* What one step may do to the status of an agent.
LEMMA StatusStep ==
  ASSUME MeshInv, [MeshNext]_meshVars, NEW a \in Known \cap Known',
         nodes'[a].status # nodes[a].status
  PROVE  /\ nodes[a].status \notin {"completed", "failed"}
         /\ nodes'[a].status # "pending"
         /\ nodes[a].status = "killed" => op.kind = "finish" /\ a = Last(runners)
<1>1. nodes \in [Known -> Node] /\ a \in Known /\ Known \subseteq 1 .. registered
  BY DEF MeshInv, MeshTypeOK
<1>2. ASSUME NEW b, NEW node, Save(b, node)
      PROVE  nodes'[a] = IF a = b THEN node ELSE nodes[a]
  BY <1>1, <1>2 DEF Save, Put, Known
<1>3. ASSUME NEW p, RegisterAgent(p) \/ SpawnRegister(p) PROVE FALSE
  <2>1. PICK node : Save(registered + 1, node)
    BY <1>3 DEF RegisterAgent, SpawnRegister, Register
  <2>2. a # registered + 1
    BY <1>1 DEF MeshInv, MeshTypeOK
  <2> QED  BY <1>2, <2>1, <2>2
<1>4. ASSUME NEW b \in Agents, SpawnAttest(b) PROVE FALSE
  <2>1. Save(b, [nodes[b] EXCEPT !.attested = TRUE])
    BY <1>4 DEF SpawnAttest
  <2>2. [nodes[a] EXCEPT !.attested = TRUE].status = nodes[a].status
    BY <1>1 DEF Node
  <2>3. CASE a = b
    <3>1. nodes'[a] = [nodes[a] EXCEPT !.attested = TRUE]
      BY <1>2, <2>1, <2>3
    <3> QED  BY <2>2, <3>1
  <2>4. CASE a # b
    BY <1>2, <2>1, <2>4
  <2> QED  BY <2>3, <2>4
<1>5. ASSUME NEW result \in Results, RunnerReturns(result) PROVE FALSE
  <2>1. Save(Last(runners), [nodes[Last(runners)] EXCEPT !.result = result])
    BY <1>5 DEF RunnerReturns
  <2>2. [nodes[a] EXCEPT !.result = result].status = nodes[a].status
    BY <1>1 DEF Node
  <2>3. CASE a = Last(runners)
    <3>1. nodes'[a] = [nodes[a] EXCEPT !.result = result]
      BY <1>2, <2>1, <2>3
    <3> QED  BY <2>2, <3>1
  <2>4. CASE a # Last(runners)
    BY <1>2, <2>1, <2>4
  <2> QED  BY <2>3, <2>4
<1>6. ASSUME NEW b \in Agents, SpawnStart(b) PROVE nodes[a].status = "pending" /\ nodes'[a].status = "running"
  <2>1. Save(b, [nodes[b] EXCEPT !.status = "running"]) /\ op.kind = "start" /\ b \in op.agents
    BY <1>6 DEF SpawnStart
  <2>2. [nodes[a] EXCEPT !.status = "running"].status = "running"
    BY <1>1 DEF Node
  <2>3. nodes[b].status = "pending"
    BY <2>1 DEF MeshInv, OpOk
  <2>4. a = b
    BY <1>2, <2>1
  <2>5. nodes'[a] = [nodes[a] EXCEPT !.status = "running"]
    BY <1>2, <2>1, <2>4
  <2> QED  BY <2>2, <2>3, <2>4, <2>5
<1>7. ASSUME NEW b \in Agents, SpawnFinish(b)
      PROVE  /\ op.kind = "finish" /\ a = Last(runners)
             /\ nodes[a].status \in {"running", "killed"}
             /\ nodes'[a].status \in {"completed", "failed"}
  <2>1. Save(b, [nodes[b] EXCEPT !.status = op.status]) /\ op.kind = "finish" /\ b \in op.agents
    BY <1>7 DEF SpawnFinish
  <2>2. [nodes[a] EXCEPT !.status = op.status].status = op.status
    BY <1>1 DEF Node
  <2>3. runners # <<>> /\ b = Last(runners) /\ op.status \in {"completed", "failed"}
    BY <2>1 DEF MeshInv, OpOk
  <2>4. a = b
    BY <1>2, <2>1
  <2>5. Len(runners) \in DOMAIN runners /\ runners[Len(runners)] = a
    BY <2>3, <2>4, PopRunner DEF MeshInv, MeshTypeOK
  <2>6. nodes[a].status \in {"running", "killed"}
    BY <1>1, <2>5 DEF MeshInv, RunnersOk
  <2> QED  BY <1>2, <2>1, <2>2, <2>3, <2>4, <2>6
<1>8. ASSUME NEW b \in Agents, KillOne(b) PROVE nodes[a].status \in Active /\ nodes'[a].status = "killed"
  <2>1. CASE nodes[b].status \in Active
    <3>1. Save(b, [nodes[b] EXCEPT !.status = "killed"])
      BY <1>8, <2>1 DEF KillOne
    <3>2. [nodes[a] EXCEPT !.status = "killed"].status = "killed"
      BY <1>1 DEF Node
    <3> QED  BY <1>2, <2>1, <3>1, <3>2
  <2>2. CASE nodes[b].status \notin Active
    BY <1>8, <2>2 DEF KillOne
  <2> QED  BY <2>1, <2>2
<1>9. ASSUME NEW b \in Agents, RemoveOne(b) PROVE FALSE
  BY <1>9, <1>1 DEF RemoveOne, Without, Known
<1>10. ASSUME NEW limit \in Limits, Crash(limit) PROVE FALSE
  <2>1. nodes' = [b \in Known |-> Row(nodes[b])]
    BY <1>10 DEF Crash, MeshInv, TableMirrorsMesh
  <2>2. Row(nodes[a]).status = nodes[a].status
    BY <1>1 DEF Row, Node
  <2> QED  BY <1>1, <2>1, <2>2
<1>11. nodes' # nodes
  OBVIOUS
<1> QED
  BY <1>3, <1>4, <1>5, <1>6, <1>7, <1>8, <1>9, <1>10, <1>11
  DEF MeshNext, meshVars, Active, Kill, RemoveAgent, RunnerLost, LoopEnds, Prune, SetMaxDepth

\* Completed and failed are final; a killed agent is overwritten by nothing but
\* the end of its own runner.
THEOREM StatusAdvances == MeshSpec => StatusOnlyAdvances
<1>1. MeshInv /\ [MeshNext]_meshVars =>
        [\A a \in Known \cap Known' :
           nodes'[a].status # nodes[a].status =>
             /\ nodes[a].status \notin {"completed", "failed"}
             /\ nodes'[a].status # "pending"
             /\ nodes[a].status = "killed" => op.kind = "finish" /\ a = Last(runners)]_meshVars
  BY StatusStep
<1> QED  BY <1>1, MeshInvInit, MeshInvStep, PTL DEF MeshSpec, StatusOnlyAdvances

-----------------------------------------------------------------------------
(***************************************************************************)
(* Refrlow.  The searches add up what they may still return, so the first  *)
(* part is induction: over the naturals, over the subsets of a finite set, *)
(* and what both give about the sums.                                      *)
(***************************************************************************)
\* Every set of naturals that is not empty has a least element.  About nothing but the
\* order of the naturals: it stands for the library's induction theorems, which take an
\* operator as a parameter.
LEMMA LeastNatural ==
  ASSUME NEW T \in SUBSET Nat, T # {}
  PROVE  \E n \in T : \A m \in T : n <= m
<1> DEFINE R == OpToRel(<, Nat)
<1>1. IsWellFoundedOn(R, Nat)
  BY NatLessThanWellFounded
<1> HIDE DEF R
<1>2. PICK n \in T : \A m \in T : ~(<<m, n>> \in R)
  BY <1>1, WFMin
<1>3. \A m \in T : ~(m < n)
  <2> TAKE m \in T
  <2>1. <<m, n>> \in Nat \X Nat
    OBVIOUS
  <2>2. <<m, n>> \in R <=> m < n
    BY <2>1 DEF R, OpToRel
  <2> QED BY <1>2, <2>2
<1> QED BY <1>3

\* A set of naturals with zero and with the successor of each of its members has them all.
LEMMA NaturalsByInduction ==
  ASSUME NEW T \in SUBSET Nat, 0 \in T, \A n \in T : n + 1 \in T
  PROVE  T = Nat
<1> SUFFICES ASSUME Nat \ T # {} PROVE FALSE
  OBVIOUS
<1>1. PICK n \in Nat \ T : \A m \in Nat \ T : n <= m
  BY LeastNatural
<1>2. n # 0 /\ n - 1 \in Nat /\ ~(n <= n - 1)
  BY <1>1
<1>3. n - 1 \in T
  BY <1>1, <1>2
<1>4. n = (n - 1) + 1
  BY <1>1
<1> QED BY <1>1, <1>3, <1>4

Chosen(s) == CHOOSE x \in s : TRUE

\* A set of subsets of a finite set that has the empty one, and any from which the
\* element a fold takes first leaves a member of it, has them all.
LEMMA SubsetsByInduction ==
  ASSUME NEW S, IsFiniteSet(S), NEW T \in SUBSET SUBSET S, {} \in T,
         \A s \in SUBSET S : s # {} /\ s \ {Chosen(s)} \in T => s \in T
  PROVE  T = SUBSET S
<1> DEFINE N == {n \in Nat : \A s \in SUBSET S : Cardinality(s) = n => s \in T}
<1>0. \A s \in SUBSET S : IsFiniteSet(s) /\ Cardinality(s) \in Nat
  BY FS_Subset, FS_CardinalityType
<1>1. 0 \in N
  BY <1>0, FS_EmptySet
<1>2. ASSUME NEW n \in N PROVE n + 1 \in N
  <2> SUFFICES ASSUME NEW s \in SUBSET S, Cardinality(s) = n + 1 PROVE s \in T
    OBVIOUS
  <2>1. s # {}
    BY FS_EmptySet
  <2>2. Chosen(s) \in s
    BY <2>1 DEF Chosen
  <2>3. Cardinality(s \ {Chosen(s)}) = Cardinality(s) - 1
    BY <1>0, <2>2, FS_RemoveElement
  <2>4. Cardinality(s \ {Chosen(s)}) = n
    BY <2>3
  <2>5. s \ {Chosen(s)} \in T
    BY <2>4
  <2> QED BY <2>1, <2>5
<1> HIDE DEF N
<1>3. N \in SUBSET Nat
  BY DEF N
<1>4. N = Nat
  BY <1>1, <1>2, <1>3, NaturalsByInduction
<1>5. ASSUME NEW s \in SUBSET S PROVE s \in T
  <2>1. Cardinality(s) \in N
    BY <1>0, <1>4
  <2> QED BY <2>1 DEF N
<1> QED BY <1>5

-----------------------------------------------------------------------------
SumStep(g, iter, s) == IF s = {} THEN 0 ELSE g[Chosen(s)] + iter[s \ {Chosen(s)}]
SumIter(g, S) == CHOOSE iter : iter = [s \in SUBSET S |-> SumStep(g, iter, s)]
SumOf(g, S) == MapThenSumSet(LAMBDA f : g[f], S)

\* The fold of the community modules takes its set apart one chosen element after the
\* other.
LEMMA SumIsIter ==
  ASSUME NEW S, NEW g PROVE SumOf(g, S) = SumIter(g, S)[S]
BY DEF SumOf, MapThenSumSet, MapThenFoldSet, SumIter, SumStep, Chosen

\* The recursive function behind it is defined on every subset of a finite set.
LEMMA SumIterDefined ==
  ASSUME NEW S, IsFiniteSet(S), NEW g
  PROVE  SumIter(g, S) = [s \in SUBSET S |-> SumStep(g, SumIter(g, S), s)]
<1> DEFINE Small(n) == {s \in SUBSET S : Cardinality(s) <= n}
           IsIter(h, n) == h = [s \in Small(n) |-> SumStep(g, h, s)]
           N == {n \in Nat : \E h : IsIter(h, n)}
<1>0. \A s \in SUBSET S : IsFiniteSet(s) /\ Cardinality(s) \in Nat /\ Cardinality(s) <= Cardinality(S)
  BY FS_Subset, FS_CardinalityType
<1>1. \A s \in SUBSET S : s # {} =>
        /\ s \ {Chosen(s)} \in SUBSET S
        /\ Cardinality(s \ {Chosen(s)}) = Cardinality(s) - 1
  <2> TAKE s \in SUBSET S
  <2> HAVE s # {}
  <2>1. Chosen(s) \in s
    BY DEF Chosen
  <2> QED BY <1>0, <2>1, FS_RemoveElement
<1>2. Cardinality({}) = 0 /\ \A s \in SUBSET S : Cardinality(s) = 0 => s = {}
  BY <1>0, FS_EmptySet
<1>3. 0 \in N
  <2>1. \A s \in Small(0) : s = {}
    BY <1>0, <1>2
  <2>2. IsIter([s \in Small(0) |-> 0], 0)
    BY <2>1 DEF SumStep
  <2> QED BY <2>2
<1>4. ASSUME NEW n \in N PROVE n + 1 \in N
  <2>1. PICK h : IsIter(h, n)
    OBVIOUS
  <2> DEFINE k == [s \in Small(n + 1) |-> IF Cardinality(s) <= n THEN h[s] ELSE SumStep(g, h, s)]
  <2>2. ASSUME NEW s \in Small(n + 1) PROVE k[s] = SumStep(g, k, s)
    <3>1. k[s] = SumStep(g, h, s)
      <4>1. k[s] = IF Cardinality(s) <= n THEN h[s] ELSE SumStep(g, h, s)
        OBVIOUS
      <4>2. Cardinality(s) <= n => h[s] = SumStep(g, h, s)
        <5> HAVE Cardinality(s) <= n
        <5>1. s \in Small(n)
          OBVIOUS
        <5> HIDE DEF Small
        <5> QED BY <2>1, <5>1
      <4> QED BY <4>1, <4>2
    <3>2. s = {} => SumStep(g, h, s) = SumStep(g, k, s)
      BY DEF SumStep
    <3>3. ASSUME s # {} PROVE SumStep(g, h, s) = SumStep(g, k, s)
      <4>1. Cardinality(s \ {Chosen(s)}) = Cardinality(s) - 1 /\ Cardinality(s) \in Nat
        BY <1>0, <1>1, <3>3
      <4>2. s \ {Chosen(s)} \in Small(n + 1) /\ Cardinality(s \ {Chosen(s)}) <= n
        BY <4>1, <1>1, <3>3
      <4>3. k[s \ {Chosen(s)}] = h[s \ {Chosen(s)}]
        BY <4>2
      <4> QED BY <4>3 DEF SumStep
    <3> QED BY <3>1, <3>2, <3>3
  <2>3. IsIter(k, n + 1)
    BY <2>2
  <2> HIDE DEF IsIter
  <2>4. \E f : IsIter(f, n + 1)
    BY <2>3
  <2> QED BY <2>4
<1> HIDE DEF N
<1>5. N = Nat
  <2>1. N \in SUBSET Nat
    BY DEF N
  <2> QED BY <1>3, <1>4, <2>1, NaturalsByInduction
<1>6. PICK h : IsIter(h, Cardinality(S))
  BY <1>0, <1>5 DEF N
<1>7. Small(Cardinality(S)) = SUBSET S
  BY <1>0
<1>8. h = [s \in SUBSET S |-> SumStep(g, h, s)]
  BY <1>6, <1>7
<1> QED BY <1>8 DEF SumIter
\* One element more, and none.
LEMMA SumSteps ==
  ASSUME NEW S, IsFiniteSet(S), NEW g
  PROVE  /\ SumIter(g, S)[{}] = 0
         /\ \A s \in SUBSET S : s # {} =>
              /\ Chosen(s) \in s
              /\ SumIter(g, S)[s] = g[Chosen(s)] + SumIter(g, S)[s \ {Chosen(s)}]
<1>1. SumIter(g, S) = [s \in SUBSET S |-> SumStep(g, SumIter(g, S), s)]
  BY SumIterDefined
<1>2. \A s \in SUBSET S : SumIter(g, S)[s] = SumStep(g, SumIter(g, S), s)
  BY <1>1
<1>3. {} \in SUBSET S
  OBVIOUS
<1> QED BY <1>2, <1>3 DEF SumStep, Chosen

\* Functions that agree on a set have the same sum over it.
LEMMA SumsAgree ==
  ASSUME NEW S, IsFiniteSet(S), NEW g, NEW h
  PROVE  \A s \in SUBSET S : (\A x \in s : g[x] = h[x]) => SumIter(g, S)[s] = SumIter(h, S)[s]
<1> DEFINE T == {s \in SUBSET S : (\A x \in s : g[x] = h[x]) => SumIter(g, S)[s] = SumIter(h, S)[s]}
<1>1. {} \in T
  BY SumSteps
<1>2. ASSUME NEW s \in SUBSET S, s # {}, s \ {Chosen(s)} \in T PROVE s \in T
  BY <1>2, SumSteps
<1> HIDE DEF T
<1>3. T \in SUBSET SUBSET S
  BY DEF T
<1>4. T = SUBSET S
  BY <1>1, <1>2, <1>3, SubsetsByInduction
<1> QED BY <1>4 DEF T

LEMMA SumsAreNatural ==
  ASSUME NEW S, IsFiniteSet(S), NEW g \in [S -> Nat]
  PROVE  /\ \A s \in SUBSET S : SumIter(g, S)[s] \in Nat
         /\ SumOf(g, S) \in Nat
<1> DEFINE T == {s \in SUBSET S : SumIter(g, S)[s] \in Nat}
<1>1. {} \in T
  BY SumSteps
<1>2. ASSUME NEW s \in SUBSET S, s # {}, s \ {Chosen(s)} \in T PROVE s \in T
  <2>1. Chosen(s) \in S /\ SumIter(g, S)[s] = g[Chosen(s)] + SumIter(g, S)[s \ {Chosen(s)}]
    BY <1>2, SumSteps
  <2>2. g[Chosen(s)] \in Nat
    BY <2>1
  <2> QED BY <1>2, <2>1, <2>2
<1> HIDE DEF T
<1>3. T \in SUBSET SUBSET S
  BY DEF T
<1>4. T = SUBSET S
  BY <1>1, <1>2, <1>3, SubsetsByInduction
<1>5. \A s \in SUBSET S : SumIter(g, S)[s] \in Nat
  BY <1>4 DEF T
<1> QED BY <1>5, SumIsIter

\* The sum of zeros.
LEMMA SumOfZeros ==
  ASSUME NEW S, IsFiniteSet(S), NEW g, \A x \in S : g[x] = 0
  PROVE  SumOf(g, S) = 0
<1> DEFINE T == {s \in SUBSET S : SumIter(g, S)[s] = 0}
<1>1. {} \in T
  BY SumSteps
<1>2. ASSUME NEW s \in SUBSET S, s # {}, s \ {Chosen(s)} \in T PROVE s \in T
  <2>1. Chosen(s) \in S /\ SumIter(g, S)[s] = g[Chosen(s)] + SumIter(g, S)[s \ {Chosen(s)}]
    BY <1>2, SumSteps
  <2>2. g[Chosen(s)] = 0
    BY <2>1
  <2> QED BY <1>2, <2>1, <2>2
<1> HIDE DEF T
<1>3. T \in SUBSET SUBSET S
  BY DEF T
<1>4. T = SUBSET S
  BY <1>1, <1>2, <1>3, SubsetsByInduction
<1> QED BY <1>4, SumIsIter DEF T

\* Where a zero becomes n, the sum grows by n.
LEMMA SumGrows ==
  ASSUME NEW S, IsFiniteSet(S), NEW g \in [S -> Nat], NEW f \in S, g[f] = 0, NEW n \in Nat
  PROVE  SumOf([g EXCEPT ![f] = n], S) = SumOf(g, S) + n
<1> DEFINE h == [g EXCEPT ![f] = n]
           T == {s \in SUBSET S : f \in s => SumIter(h, S)[s] = SumIter(g, S)[s] + n}
<1>0. h \in [S -> Nat] /\ h[f] = n /\ \A x \in S \ {f} : h[x] = g[x]
  OBVIOUS
<1> HIDE DEF h
<1>1. {} \in T
  OBVIOUS
<1>2. ASSUME NEW s \in SUBSET S, s # {}, s \ {Chosen(s)} \in T PROVE s \in T
  <2> SUFFICES ASSUME f \in s PROVE SumIter(h, S)[s] = SumIter(g, S)[s] + n
    OBVIOUS
  <2> DEFINE x == Chosen(s)
             rest == s \ {x}
  <2>1. /\ x \in s
        /\ SumIter(g, S)[s] = g[x] + SumIter(g, S)[rest]
        /\ SumIter(h, S)[s] = h[x] + SumIter(h, S)[rest]
    BY <1>2, SumSteps
  <2>2. SumIter(g, S)[rest] \in Nat /\ SumIter(h, S)[rest] \in Nat
    BY <1>0, SumsAreNatural
  <2>3. g[x] \in Nat /\ h[x] \in Nat
    BY <1>0, <2>1
  <2>4. CASE x = f
    <3>1. \A y \in rest : g[y] = h[y]
      BY <1>0, <2>4
    <3>2. SumIter(g, S)[rest] = SumIter(h, S)[rest]
      BY <3>1, SumsAgree
    <3> QED BY <1>0, <2>1, <2>2, <2>4, <3>2
  <2>5. CASE x # f
    <3>1. SumIter(h, S)[rest] = SumIter(g, S)[rest] + n
      BY <1>2, <2>5
    <3>2. h[x] = g[x]
      BY <1>0, <2>1, <2>5
    <3> HIDE DEF x, rest
    <3> QED BY <2>1, <2>2, <2>3, <3>1, <3>2
  <2> QED BY <2>4, <2>5
<1> HIDE DEF T
<1>3. T \in SUBSET SUBSET S
  BY DEF T
<1>4. T = SUBSET S
  BY <1>1, <1>2, <1>3, SubsetsByInduction
<1>5. SumIter(h, S)[S] = SumIter(g, S)[S] + n
  BY <1>4 DEF T
<1> QED BY <1>5, SumIsIter DEF h

-----------------------------------------------------------------------------
\* What the depths say of the requests executed in this turn: each is as deep as the limit
\* allows, and one deeper than the request it names, whether that was executed, denied or
\* of another turn.  A request not yet issued has no depth, nor is it anybody's parent.
ChainInv ==
  /\ parentOf \in Seq(0..MaxRequests)
  /\ Len(parentOf) <= MaxRequests
  /\ chainDepths \in [RequestIds -> Nat]
  /\ executed \subseteq 1..Len(parentOf)
  /\ \A e \in executed :
       /\ chainDepths[e] \in 1..MaxChainDepth
       /\ parentOf[e] # 0 =>
            parentOf[e] \in 1..Len(parentOf) /\ chainDepths[e] = chainDepths[parentOf[e]] + 1

LEMMA BoundsAreNaturals == MaxRequests \in Nat /\ MaxChainDepth \in Nat
BY RefrlowAssumption

\* The requests issued are numbered from 1 on.
LEMMA IssuedCount ==
  ASSUME parentOf \in Seq(0..MaxRequests)
  PROVE  Issued = 1..Len(parentOf) /\ Cardinality(Issued) = Len(parentOf) /\ Len(parentOf) \in Nat
<1>1. Len(parentOf) \in Nat /\ Issued = 1..Len(parentOf)
  BY DEF Issued
<1>2. Cardinality(1..Len(parentOf)) = Len(parentOf)
  BY <1>1, FS_Interval
<1> QED BY <1>1, <1>2

\* A step of the dispatcher keeps the depths and the parents in agreement.
LEMMA ChainStep ==
  ASSUME ChainInv, [RefrlowNext]_refrlowVars, MaxChainDepth > 0
  PROVE  ChainInv'
<1> USE BoundsAreNaturals
<1>1. CASE BeginTurn
  BY <1>1 DEF ChainInv, BeginTurn, NoDepths, RequestIds
<1>2. CASE Dispatch
  <2>1. PICK r \in Requests, parent \in Issued \cup {0} :
          LET id == Cardinality(Issued) + 1
              tooDeep == parent # 0 /\ NewDepth(parent) > MaxChainDepth
          IN /\ Cardinality(Issued) < MaxRequests
             /\ parentOf' = Append(parentOf, parent)
             /\ chainDepths' = IF OverBudget(r) \/ tooDeep THEN chainDepths
                               ELSE [chainDepths EXCEPT ![id] = NewDepth(parent)]
             /\ \/ UNCHANGED executed
                \/ ~OverBudget(r) /\ ~tooDeep /\ executed' = executed \cup {id}
    BY <1>2 DEF Dispatch
  <2> DEFINE id == Len(parentOf) + 1
  <2>2. /\ Issued = 1..Len(parentOf) /\ Cardinality(Issued) = Len(parentOf)
        /\ Len(parentOf) \in Nat
    BY IssuedCount DEF ChainInv
  <2>3. id \in RequestIds /\ id <= MaxRequests /\ parent \in 0..Len(parentOf) /\ parent # id
    BY <2>1, <2>2 DEF RequestIds
  <2>4. /\ parentOf' \in Seq(0..MaxRequests)
        /\ Len(parentOf') = id
        /\ parentOf'[id] = parent
        /\ \A e \in 1..Len(parentOf) : parentOf'[e] = parentOf[e]
    <3>1. parent \in 0..MaxRequests
      BY <2>2, <2>3
    <3> QED BY <2>1, <2>2, <3>1 DEF ChainInv
  <2>5. NewDepth(parent) \in Nat /\ NewDepth(parent) >= 1
    <3>1. parent # 0 => parent \in RequestIds
      BY <2>2, <2>3 DEF ChainInv, RequestIds
    <3>2. parent # 0 => chainDepths[parent] \in Nat
      BY <3>1 DEF ChainInv
    <3> QED BY <3>2 DEF NewDepth
  <2>6. /\ chainDepths' \in [RequestIds -> Nat]
        /\ \A x \in 1..Len(parentOf) : chainDepths'[x] = chainDepths[x]
    BY <2>1, <2>2, <2>3, <2>5 DEF ChainInv, RequestIds
  <2>7. executed' \subseteq 1..Len(parentOf')
    <3>1. executed' \subseteq executed \cup {id}
      BY <2>1, <2>2
    <3>2. executed \subseteq 1..Len(parentOf)
      BY DEF ChainInv
    <3> QED BY <2>2, <2>4, <3>1, <3>2
  <2>8. ASSUME NEW e \in executed'
        PROVE  /\ chainDepths'[e] \in 1..MaxChainDepth
               /\ parentOf'[e] # 0 => /\ parentOf'[e] \in 1..Len(parentOf')
                                      /\ chainDepths'[e] = chainDepths'[parentOf'[e]] + 1
    <3>1. CASE e \in executed
      <4>1. e \in 1..Len(parentOf)
        BY <3>1 DEF ChainInv
      <4>2. chainDepths'[e] = chainDepths[e] /\ parentOf'[e] = parentOf[e]
        BY <4>1, <2>4, <2>6
      <4>3. /\ chainDepths[e] \in 1..MaxChainDepth
            /\ parentOf[e] # 0 =>
                 parentOf[e] \in 1..Len(parentOf) /\ chainDepths[e] = chainDepths[parentOf[e]] + 1
        BY <3>1 DEF ChainInv
      <4>4. \A x \in 1..Len(parentOf) : x \in 1..Len(parentOf')
        BY <2>2, <2>4
      <4> QED BY <4>2, <4>3, <4>4, <2>6
    <3>2. CASE e \notin executed
      <4>1. e = id /\ chainDepths'[id] = NewDepth(parent)
        <5>1. e = id /\ chainDepths' = [chainDepths EXCEPT ![id] = NewDepth(parent)]
          BY <2>1, <2>2, <3>2
        <5> QED BY <5>1, <2>3 DEF ChainInv
      <4>2. ~(parent # 0 /\ NewDepth(parent) > MaxChainDepth)
        BY <2>1, <3>2
      <4>3. parent = 0 => NewDepth(parent) = 1
        BY DEF NewDepth
      <4>4. chainDepths'[e] \in 1..MaxChainDepth
        BY <4>1, <4>2, <4>3, <2>5
      <4>5. ASSUME parent # 0
            PROVE  parent \in 1..Len(parentOf') /\ NewDepth(parent) = chainDepths'[parent] + 1
        BY <4>5, <2>2, <2>3, <2>4, <2>6 DEF NewDepth
      <4> QED BY <4>1, <4>4, <4>5, <2>4
    <3> QED BY <3>1, <3>2
  <2> QED BY <2>3, <2>4, <2>6, <2>7, <2>8 DEF ChainInv
<1>3. CASE Edit \/ Step
  BY <1>3 DEF ChainInv, Edit, Step, VisitFile, DirectoryGone, FinishEmpty, Deadline, Complete,
              policyVars
<1>4. CASE UNCHANGED refrlowVars
  BY <1>4 DEF ChainInv, refrlowVars
<1> QED BY <1>1, <1>2, <1>3, <1>4 DEF RefrlowNext

\* Along a chain of requests that follow from one another, every link is deeper than the
\* one before.
LEMMA ChainsDeepen ==
  ASSUME ChainInv, NEW chain \in [0..MaxChainDepth -> executed],
         \A n \in 1..MaxChainDepth : parentOf[chain[n]] = chain[n - 1]
  PROVE  \A n \in 0..MaxChainDepth : chainDepths[chain[n]] > n
<1> USE BoundsAreNaturals
<1> DEFINE T == {n \in Nat : n <= MaxChainDepth => chainDepths[chain[n]] > n}
<1>1. 0 \in T
  <2>1. chain[0] \in executed
    OBVIOUS
  <2>2. chainDepths[chain[0]] \in 1..MaxChainDepth
    BY <2>1 DEF ChainInv
  <2> QED BY <2>2
<1>2. ASSUME NEW n \in T PROVE n + 1 \in T
  <2> SUFFICES ASSUME n + 1 <= MaxChainDepth PROVE chainDepths[chain[n + 1]] > n + 1
    OBVIOUS
  <2>1. n \in 0..MaxChainDepth /\ n + 1 \in 1..MaxChainDepth /\ (n + 1) - 1 = n
    OBVIOUS
  <2>2. chain[n] \in executed /\ chain[n + 1] \in executed /\ parentOf[chain[n + 1]] = chain[n]
    BY <2>1
  <2>3. chain[n] # 0
    BY <2>2 DEF ChainInv
  <2>4. chainDepths[chain[n + 1]] = chainDepths[chain[n]] + 1
    BY <2>2, <2>3 DEF ChainInv
  <2>5. chainDepths[chain[n]] > n
    BY <2>1
  <2>6. chainDepths[chain[n]] \in 1..MaxChainDepth
    BY <2>2 DEF ChainInv
  <2> QED BY <2>4, <2>5, <2>6
<1> HIDE DEF T
<1>3. T = Nat
  <2>1. T \in SUBSET Nat
    BY DEF T
  <2> QED BY <1>1, <1>2, <2>1, NaturalsByInduction
<1> QED BY <1>3 DEF T

\* In every state no chain of executed requests is longer than max_chain_depth, which has to
\* be positive: a request that names no parent is not held against it.
\* About dispatcher.py:140-152.
THEOREM ChainsAreBounded ==
  ASSUME MaxChainDepth > 0
  PROVE  RefrlowSpec => []ChainBounded
<1> USE BoundsAreNaturals
<1>1. RefrlowInit => ChainInv
  BY DEF RefrlowInit, ChainInv, NoDepths, RequestIds
<1>2. ChainInv /\ [RefrlowNext]_refrlowVars => ChainInv'
  BY ChainStep
<1>3. ChainInv => ChainBounded
  <2> SUFFICES ASSUME ChainInv, NEW chain \in [0..MaxChainDepth -> executed],
                      \A n \in 1..MaxChainDepth : parentOf[chain[n]] = chain[n - 1]
               PROVE  FALSE
    BY DEF ChainBounded
  <2>1. MaxChainDepth \in 0..MaxChainDepth
    OBVIOUS
  <2>2. chainDepths[chain[MaxChainDepth]] > MaxChainDepth
    BY <2>1, ChainsDeepen
  <2>3. chainDepths[chain[MaxChainDepth]] \in 1..MaxChainDepth
    BY <2>1 DEF ChainInv
  <2> QED BY <2>2, <2>3
<1> QED BY <1>1, <1>2, <1>3, PTL DEF RefrlowSpec

-----------------------------------------------------------------------------
\* The tasks that return hits while there is room, those that return all of them, and the
\* summaries of one file; find_definition is left.
CappedTasks ==
  {"find_by_glob", "find_recent", "find_large", "search_text", "ripgrep", "find_references",
   "find_callers_of"}
ListingTasks == {"enumerate_tree", "count_matches", "extract_signatures", "module_overview"}
FileSummaries == {"signature_summary", "purpose_summary"}

\* The files visited and not edited since are returned with what is due of them.
Accurate(s, ed, ws) ==
  \A f \in (s.listed \ s.todo) \ ed : s.found[f] = Due(s.task, f, ws)

\* A capped search has returned everything as long as the totals agree, and they do while
\* there is room.
Capped(s, ed, ws) ==
  /\ Returned(s) <= s.limit
  /\ Returned(s) < s.limit => s.total = Returned(s)
  /\ s.total = Returned(s) => Accurate(s, ed, ws)
  /\ Returned(s) <= s.total

InProgress(s, ed, ws) ==
  /\ s.todo \subseteq s.listed
  /\ \A f \in s.todo : s.found[f] = 0
  /\ s.task \in CappedTasks => Capped(s, ed, ws)
  /\ s.task \in ListingTasks => Accurate(s, ed, ws)
  /\ s.task \in FileSummaries => s.todo = s.listed /\ \E f \in Files : s.listed = {f}

Completed(s, ed, ws) ==
  s.late \/ s.task = "find_definition" \/
    \A f \in s.listed \ ed : s.found[f] = Due(s.task, f, ws)

SearchInv(s, ed, ws) ==
  /\ s \in Search
  /\ s.status = None => InProgress(s, ed, ws)
  /\ s.status = "ok" => Completed(s, ed, ws)

Workspaces == [Files -> FileState \cup {None}]

\* A report is only there between two dispatches, when nobody edits.
RefrlowInv ==
  /\ workspace \in Workspaces
  /\ run # None => /\ run = [id |-> run.id, search |-> run.search]
                   /\ SearchInv(run.search, edited, workspace)
                   /\ report = None
  /\ report # None /\ report.status = "ok" => Completed(report.search, edited, workspace)

\* What is returned is the sum of what was found.
LEMMA ReturnedIsSum == \A s : Returned(s) = SumOf(s.found, Files)
BY DEF Returned, SumOf

LEMMA ReturnedIsNatural == \A s \in Search : Returned(s) \in Nat
BY ReturnedIsSum, SumsAreNatural, MinersAssumption DEF Search

\* The search when file f is out of its list and its visit has not begun.
Visiting(s, f, ed, ws) ==
  LET accurate == \A x \in (s.listed \ s.todo) \ (ed \cup {f}) : s.found[x] = Due(s.task, x, ws)
  IN /\ s \in Search /\ s.status = None
     /\ f \in s.listed /\ f \notin s.todo /\ s.todo \subseteq s.listed
     /\ s.found[f] = 0 /\ \A x \in s.todo : s.found[x] = 0
     /\ s.task \in CappedTasks =>
          /\ Returned(s) <= s.limit
          /\ Returned(s) < s.limit => s.total = Returned(s)
          /\ s.total = Returned(s) => accurate
          /\ Returned(s) <= s.total
     /\ s.task \in ListingTasks => accurate
     /\ s.task \in FileSummaries => s.listed = {f}

\* Search t is s with `kept` of n hits in f.
Took(s, t, f, n, kept) ==
  /\ t.found = [s.found EXCEPT ![f] = kept]
  /\ Returned(t) = Returned(s) + kept
  /\ Returned(t) <= s.limit
  /\ kept < n => Returned(t) = s.limit

\* What Takes does to a search: the hits there is room for are returned, and if that is not
\* all of them the limit is reached.
LEMMA TakesSome ==
  ASSUME NEW s \in Search, NEW f \in Files, s.found[f] = 0, NEW n \in Nat, NEW secret \in BOOLEAN,
         Returned(s) <= s.limit
  PROVE  LET t == Takes(s, f, n, secret)
         IN /\ t \in Search
            /\ \E kept \in 0..n : Took(s, t, f, n, kept)
            /\ t.total = s.total + n
            /\ t.task = s.task /\ t.limit = s.limit /\ t.listed = s.listed /\ t.todo = s.todo
            /\ t.status = s.status
<1> DEFINE t == Takes(s, f, n, secret)
           room == s.limit - Returned(s)
           kept == IF n < room THEN n ELSE room
<1>1. /\ s.limit \in Nat /\ s.total \in Nat /\ s.found \in [Files -> Nat] /\ s.leaks \in BOOLEAN
      /\ Returned(s) \in Nat
  BY ReturnedIsNatural DEF Search
<1>2. kept \in 0..n /\ Returned(s) + kept <= s.limit /\ (kept < n => Returned(s) + kept = s.limit)
  <2>1. room \in Nat /\ Returned(s) + room = s.limit
    BY <1>1
  <2> HIDE DEF room
  <2> QED BY <1>1, <2>1
<1>3. t = [s EXCEPT !.total = s.total + n, !.found = [s.found EXCEPT ![f] = kept],
                    !.leaks = s.leaks \/ (secret /\ kept > 0)]
  BY DEF Takes, Search
<1> HIDE DEF kept
<1> DEFINE found == [s.found EXCEPT ![f] = kept]
           leaks == s.leaks \/ (secret /\ kept > 0)
<1>4. found \in [Files -> Nat]
  BY <1>1, <1>2
<1>5. leaks \in BOOLEAN
  OBVIOUS
<1>6. SumOf(found, Files) = SumOf(s.found, Files) + kept
  BY <1>1, <1>2, SumGrows, MinersAssumption
<1> HIDE DEF found, leaks
<1>7. t = [s EXCEPT !.total = s.total + n, !.found = found, !.leaks = leaks]
  BY <1>3 DEF found, leaks
<1> HIDE DEF t
<1>8. t \in Search
  <2>1. t = [task |-> s.task, limit |-> s.limit, listed |-> s.listed, todo |-> s.todo,
             found |-> found, total |-> s.total + n, leaks |-> leaks, late |-> s.late,
             status |-> s.status]
    BY <1>7 DEF Search
  <2> QED BY <1>1, <1>4, <1>5, <2>1 DEF Search
<1>9. /\ t.found = found /\ t.total = s.total + n
      /\ t.task = s.task /\ t.limit = s.limit /\ t.listed = s.listed /\ t.todo = s.todo
      /\ t.status = s.status
  BY <1>7 DEF Search
<1>10. Returned(t) = Returned(s) + kept
  BY <1>6, <1>9, ReturnedIsSum
<1>11. found = [s.found EXCEPT ![f] = kept]
  BY DEF found
<1>12. Took(s, t, f, n, kept)
  BY <1>2, <1>9, <1>10, <1>11 DEF Took
<1>13. \E k \in 0..n : Took(s, t, f, n, k)
  BY <1>2, <1>12
<1> QED BY <1>8, <1>9, <1>13 DEF t

\* A visit that takes what is due of the file.
LEMMA VisitTakes ==
  ASSUME NEW s, NEW f \in Files, NEW ed, NEW ws, Visiting(s, f, ed, ws), s.task \in CappedTasks,
         NEW n \in Nat, n = Due(s.task, f, ws), NEW secret \in BOOLEAN
  PROVE  LET t == Takes(s, f, n, secret)
         IN t \in Search /\ t.status = None /\ InProgress(t, ed, ws)
<1> DEFINE t == Takes(s, f, n, secret)
<1>1. /\ s \in Search /\ s.status = None /\ s.found[f] = 0 /\ Returned(s) <= s.limit
      /\ s.total \in Nat /\ s.limit \in Nat /\ Returned(s) \in Nat /\ s.found \in [Files -> Nat]
      /\ s.listed \subseteq Files
  BY ReturnedIsNatural DEF Visiting, Search
<1>2a. PICK kept \in 0..n : Took(s, t, f, n, kept)
  BY <1>1, TakesSome
<1>2. /\ t.found = [s.found EXCEPT ![f] = kept]
      /\ Returned(t) = Returned(s) + kept
      /\ Returned(t) <= s.limit
      /\ kept < n => Returned(t) = s.limit
  BY <1>2a DEF Took
<1>3. /\ t \in Search /\ t.total = s.total + n
      /\ t.task = s.task /\ t.limit = s.limit /\ t.listed = s.listed /\ t.todo = s.todo
      /\ t.status = s.status
  BY <1>1, TakesSome
<1> HIDE DEF t
<1>4. t.found[f] = kept /\ \A x \in Files \ {f} : t.found[x] = s.found[x]
  BY <1>1, <1>2
<1>5. /\ Returned(s) <= s.total
      /\ Returned(s) < s.limit => s.total = Returned(s)
      /\ s.total = Returned(s) =>
           \A x \in (s.listed \ s.todo) \ (ed \cup {f}) : s.found[x] = Due(s.task, x, ws)
  BY DEF Visiting
<1>6. Returned(t) <= t.total
  BY <1>1, <1>2, <1>3, <1>5
<1>7. t.total = Returned(t) => s.total = Returned(s) /\ kept = n
  BY <1>1, <1>2, <1>3, <1>5
<1>8. Returned(t) < t.limit => t.total = Returned(t)
  <2> HAVE Returned(t) < t.limit
  <2>1. kept = n /\ Returned(s) < s.limit
    BY <1>1, <1>2, <1>3
  <2> QED BY <1>1, <1>2, <1>3, <1>5, <2>1
<1>9. t.total = Returned(t) => Accurate(t, ed, ws)
  <2> SUFFICES ASSUME t.total = Returned(t), NEW x \in (s.listed \ s.todo) \ ed
               PROVE  t.found[x] = Due(s.task, x, ws)
    BY <1>3 DEF Accurate
  <2>1. CASE x = f
    BY <2>1, <1>4, <1>7
  <2>2. CASE x # f
    BY <2>2, <1>1, <1>4, <1>5, <1>7
  <2> QED BY <2>1, <2>2
<1>10. Capped(t, ed, ws)
  BY <1>2, <1>3, <1>6, <1>8, <1>9 DEF Capped
<1>11. t.todo \subseteq t.listed /\ \A x \in t.todo : t.found[x] = 0
  BY <1>1, <1>3, <1>4 DEF Visiting
<1>12. t.task \notin ListingTasks /\ t.task \notin FileSummaries
  BY <1>3 DEF CappedTasks, ListingTasks, FileSummaries
<1> QED BY <1>1, <1>3, <1>10, <1>11, <1>12 DEF InProgress, t

\* What Lists does to a search.
LEMMA ListsAll ==
  ASSUME NEW s \in Search, NEW f \in Files, NEW n \in Nat
  PROVE  LET t == Lists(s, f, n)
         IN /\ t \in Search
            /\ t.found = [s.found EXCEPT ![f] = n]
            /\ t.task = s.task /\ t.limit = s.limit /\ t.listed = s.listed /\ t.todo = s.todo
            /\ t.status = s.status /\ t.late = s.late /\ t.leaks = s.leaks
<1> DEFINE t == Lists(s, f, n)
           found == [s.found EXCEPT ![f] = n]
<1>1. s.total \in Nat /\ found \in [Files -> Nat]
  BY DEF Search
<1>2. t = [s EXCEPT !.total = s.total + n, !.found = found]
  BY DEF Lists, Search
<1>3. found = [s.found EXCEPT ![f] = n]
  OBVIOUS
<1> HIDE DEF found, t
<1>4. t \in Search
  <2>1. t = [task |-> s.task, limit |-> s.limit, listed |-> s.listed, todo |-> s.todo,
             found |-> found, total |-> s.total + n, leaks |-> s.leaks, late |-> s.late,
             status |-> s.status]
    BY <1>2 DEF Search
  <2> QED BY <1>1, <2>1 DEF Search
<1>5. /\ t.found = found
      /\ t.task = s.task /\ t.limit = s.limit /\ t.listed = s.listed /\ t.todo = s.todo
      /\ t.status = s.status /\ t.late = s.late /\ t.leaks = s.leaks
  BY <1>2 DEF Search
<1> QED BY <1>3, <1>4, <1>5 DEF t

\* A visit that lists what is due of the file.
LEMMA VisitLists ==
  ASSUME NEW s, NEW f \in Files, NEW ed, NEW ws, Visiting(s, f, ed, ws), s.task \in ListingTasks,
         NEW n \in Nat, n = Due(s.task, f, ws)
  PROVE  LET t == Lists(s, f, n)
         IN t \in Search /\ t.status = None /\ InProgress(t, ed, ws)
<1> DEFINE t == Lists(s, f, n)
<1>1. s \in Search /\ s.status = None /\ s.found \in [Files -> Nat] /\ s.listed \subseteq Files
  BY DEF Visiting, Search
<1>2. /\ t \in Search
      /\ t.found = [s.found EXCEPT ![f] = n]
      /\ t.task = s.task /\ t.listed = s.listed /\ t.todo = s.todo /\ t.status = s.status
  BY <1>1, ListsAll
<1> HIDE DEF t
<1>3. t.found[f] = n /\ \A x \in Files \ {f} : t.found[x] = s.found[x]
  BY <1>1, <1>2
<1>4. \A x \in (s.listed \ s.todo) \ (ed \cup {f}) : s.found[x] = Due(s.task, x, ws)
  BY DEF Visiting
<1>5. Accurate(t, ed, ws)
  BY <1>1, <1>2, <1>3, <1>4 DEF Accurate
<1>6. t.todo \subseteq t.listed /\ \A x \in t.todo : t.found[x] = 0
  BY <1>1, <1>2, <1>3 DEF Visiting
<1>7. t.task \notin CappedTasks /\ t.task \notin FileSummaries
  BY <1>2 DEF CappedTasks, ListingTasks, FileSummaries
<1> QED BY <1>1, <1>2, <1>5, <1>6, <1>7 DEF InProgress, t

\* A visit of a file of which nothing is due, or of find_definition.
LEMMA VisitPasses ==
  ASSUME NEW s, NEW f \in Files, NEW ed, NEW ws, Visiting(s, f, ed, ws),
         \/ s.task = "find_definition"
         \/ s.task \in CappedTasks \cup ListingTasks /\ Due(s.task, f, ws) = 0
  PROVE  InProgress(s, ed, ws)
<1>1. s.task \notin FileSummaries
  BY DEF CappedTasks, ListingTasks, FileSummaries
<1>2. CASE s.task = "find_definition"
  BY <1>1, <1>2 DEF Visiting, InProgress, CappedTasks, ListingTasks
<1>3. CASE s.task \in CappedTasks \cup ListingTasks /\ Due(s.task, f, ws) = 0
  <2>1. (\A x \in (s.listed \ s.todo) \ (ed \cup {f}) : s.found[x] = Due(s.task, x, ws))
          => Accurate(s, ed, ws)
    <3> HAVE \A x \in (s.listed \ s.todo) \ (ed \cup {f}) : s.found[x] = Due(s.task, x, ws)
    <3>1. s.found[f] = Due(s.task, f, ws)
      BY <1>3 DEF Visiting
    <3> QED BY <3>1 DEF Accurate
  <2> QED BY <1>1, <2>1 DEF Visiting, InProgress, Capped
<1> QED BY <1>2, <1>3

LEMMA NoneIsNoStatus == None # "ok" /\ None # "error" /\ \A status \in Status : status # None
BY NoStatusAssumption DEF Status

\* A search that ends with a status.
LEMMA EndsSearch ==
  ASSUME NEW s \in Search, NEW status \in Status
  PROVE  LET t == Ends(s, status)
         IN /\ t \in Search /\ t.status = status /\ t.todo = {}
            /\ t.task = s.task /\ t.listed = s.listed /\ t.found = s.found /\ t.late = s.late
<1> DEFINE t == Ends(s, status)
<1>1. PICK todo : todo = {}
  OBVIOUS
<1>2. t = [s EXCEPT !.status = status, !.todo = todo]
  BY <1>1 DEF Ends
<1>3. t = [task |-> s.task, limit |-> s.limit, listed |-> s.listed, todo |-> todo,
           found |-> s.found, total |-> s.total, leaks |-> s.leaks, late |-> s.late,
           status |-> status]
  BY <1>2 DEF Search
<1> HIDE DEF t
<1>4. todo \in SUBSET Files
  BY <1>1
<1>5. t \in Search
  BY <1>3, <1>4 DEF Search
<1> QED BY <1>1, <1>3, <1>5 DEF t

\* A search with other hits.
LEMMA SearchRewritten ==
  ASSUME NEW s \in Search, NEW found, NEW leaks
  PROVE  [s EXCEPT !.found = found, !.leaks = leaks] =
           [task |-> s.task, limit |-> s.limit, listed |-> s.listed, todo |-> s.todo,
            found |-> found, total |-> s.total, leaks |-> leaks, late |-> s.late,
            status |-> s.status]
<1>1. PICK t : t = [s EXCEPT !.found = found]
  OBVIOUS
<1>2. t = [task |-> s.task, limit |-> s.limit, listed |-> s.listed, todo |-> s.todo,
           found |-> found, total |-> s.total, leaks |-> s.leaks, late |-> s.late,
           status |-> s.status]
  BY <1>1 DEF Search
<1>3. [t EXCEPT !.leaks = leaks] =
        [task |-> s.task, limit |-> s.limit, listed |-> s.listed, todo |-> s.todo,
         found |-> found, total |-> s.total, leaks |-> leaks, late |-> s.late,
         status |-> s.status]
  BY <1>2
<1> QED BY <1>1, <1>3

LEMMA SearchReplaced ==
  ASSUME NEW s \in Search, NEW found \in [Files -> Nat], NEW leaks \in BOOLEAN
  PROVE  LET t == [s EXCEPT !.found = found, !.leaks = leaks]
         IN t \in Search /\ t.status = s.status
<1> DEFINE t == [s EXCEPT !.found = found, !.leaks = leaks]
<1>1. t = [task |-> s.task, limit |-> s.limit, listed |-> s.listed, todo |-> s.todo,
           found |-> found, total |-> s.total, leaks |-> leaks, late |-> s.late,
           status |-> s.status]
  BY SearchRewritten
<1> HIDE DEF t
<1>2. t \in Search
  BY <1>1 DEF Search
<1> QED BY <1>1, <1>2 DEF t

\* One that fails returns nothing.
LEMMA FailsSearch ==
  ASSUME NEW s \in Search
  PROVE  Fails(s) \in Search /\ Fails(s).status = "error"
<1>1. "error" \in Status
  BY DEF Status
<1>2. Ends(s, "error") \in Search /\ Ends(s, "error").status = "error"
  BY <1>1, EndsSearch
<1>3. Nothing \in [Files -> Nat]
  BY DEF Nothing
<1>4. [Ends(s, "error") EXCEPT !.found = Nothing, !.leaks = FALSE] \in Search
  BY <1>2, <1>3, SearchReplaced
<1>5. [Ends(s, "error") EXCEPT !.found = Nothing, !.leaks = FALSE].status = "error"
  BY <1>2, <1>3, SearchReplaced
<1> QED BY <1>4, <1>5 DEF Fails

LEMMA FailureKeepsInv ==
  ASSUME NEW s \in Search, NEW ed, NEW ws PROVE SearchInv(Fails(s), ed, ws)
BY FailsSearch, NoneIsNoStatus DEF SearchInv

\* So does one that ends otherwise than ok.
LEMMA EndKeepsInv ==
  ASSUME NEW s \in Search, NEW status \in Status \ {"ok"}, NEW ed, NEW ws
  PROVE  SearchInv(Ends(s, status), ed, ws)
BY EndsSearch, NoneIsNoStatus DEF SearchInv

\* What a file that opens or parses holds.
LEMMA FileHits ==
  ASSUME NEW ws \in Workspaces, NEW f \in Files
  PROVE  /\ Opens(ws, f) => ws[f].hits \in Nat
         /\ Parses(ws, f) => ws[f].hits \in Nat
         /\ ws[f] # None => ws[f].hits \in Nat
         /\ ShowsSecret(ws, f) \in BOOLEAN
BY MinersAssumption DEF Workspaces, FileState, Opens, Parses, ShowsSecret

-----------------------------------------------------------------------------
LEMMA FileMinerVisit ==
  ASSUME NEW s, NEW f \in Files, NEW ed, NEW ws \in Workspaces, Visiting(s, f, ed, ws),
         s.task \in FileTasks
  PROVE  SearchInv(VisitOfFileMiner(s, f, ws), ed, ws)
<1> USE NoneIsNoStatus
<1>0. s \in Search /\ s.status = None /\ SearchInv(Fails(s), ed, ws)
  BY FailureKeepsInv DEF Visiting
<1>1. CASE s.task = "enumerate_tree"
  <2>1. Due(s.task, f, ws) = 1 /\ s.task \in ListingTasks
    BY <1>1 DEF Due, ListingTasks
  <2> QED BY <1>1, <2>1, VisitLists DEF SearchInv, VisitOfFileMiner, VisitOfTree
<1>2. CASE s.task = "find_by_glob"
  <2>1. Due(s.task, f, ws) = (IF f \in Named THEN 1 ELSE 0) /\ s.task \in CappedTasks
    BY <1>2 DEF Due, CappedTasks
  <2>2. f \in Named => SearchInv(Takes(s, f, 1, FALSE), ed, ws)
    BY <2>1, VisitTakes DEF SearchInv
  <2>3. f \notin Named => SearchInv(s, ed, ws)
    BY <1>0, <2>1, VisitPasses DEF SearchInv
  <2> QED BY <1>0, <1>2, <2>2, <2>3 DEF VisitOfFileMiner
<1>3. CASE s.task \in {"find_recent", "find_large"}
  <2>1. Due(s.task, f, ws) = (IF ws[f].hits > 0 THEN 1 ELSE 0) /\ s.task \in CappedTasks
    BY <1>3 DEF Due, CappedTasks
  <2>2. ws[f].hits > 0 => SearchInv(Takes(s, f, 1, FALSE), ed, ws)
    BY <2>1, VisitTakes DEF SearchInv
  <2>3. ~(ws[f].hits > 0) => SearchInv(s, ed, ws)
    BY <1>0, <2>1, VisitPasses DEF SearchInv
  <2> QED BY <1>0, <1>3, <2>2, <2>3 DEF VisitOfFileMiner
<1> QED BY <1>1, <1>2, <1>3 DEF FileTasks

LEMMA GrepMinerVisit ==
  ASSUME NEW s, NEW f \in Files, NEW ed, NEW ws \in Workspaces, Visiting(s, f, ed, ws),
         s.task \in GrepTasks
  PROVE  SearchInv(VisitOfGrepMiner(s, f, ws), ed, ws)
<1> USE NoneIsNoStatus
<1>0. s \in Search /\ s.status = None
  BY DEF Visiting
<1>1. Due(s.task, f, ws) = IF Opens(ws, f) THEN ws[f].hits ELSE 0
  BY DEF Due, GrepTasks
<1>2. s.task \in CappedTasks \cup ListingTasks
  BY DEF GrepTasks, CappedTasks, ListingTasks
<1>3. CASE ~Opens(ws, f)
  BY <1>0, <1>1, <1>2, <1>3, VisitPasses DEF SearchInv, VisitOfGrepMiner
<1>4. CASE Opens(ws, f) /\ s.task = "count_matches"
  <2>1. s.task \in ListingTasks
    BY <1>4 DEF ListingTasks
  <2> QED BY <1>1, <1>4, <2>1, FileHits, VisitLists DEF SearchInv, VisitOfGrepMiner
<1>5. CASE Opens(ws, f) /\ s.task # "count_matches"
  <2>1. s.task \in CappedTasks
    BY <1>5 DEF GrepTasks, CappedTasks
  <2>2. SearchInv(Takes(s, f, ws[f].hits, ShowsSecret(ws, f)), ed, ws)
    BY <1>1, <1>5, <2>1, FileHits, VisitTakes DEF SearchInv
  <2> QED BY <1>5, <2>2 DEF VisitOfGrepMiner
<1> QED BY <1>3, <1>4, <1>5

LEMMA AstMinerVisit ==
  ASSUME NEW s, NEW f \in Files, NEW ed, NEW ws \in Workspaces, Visiting(s, f, ed, ws),
         s.task \in AstTasks
  PROVE  SearchInv(VisitOfAstMiner(s, f, ws), ed, ws)
<1> USE NoneIsNoStatus
<1>0. s \in Search /\ s.status = None
  BY DEF Visiting
<1>1. CASE s.task = "find_references"
  <2>1. Due(s.task, f, ws) = (IF Opens(ws, f) THEN ws[f].hits ELSE 0) /\ s.task \in CappedTasks
    BY <1>1 DEF Due, CappedTasks
  <2>2. Opens(ws, f) => SearchInv(Takes(s, f, ws[f].hits, ShowsSecret(ws, f)), ed, ws)
    BY <2>1, FileHits, VisitTakes DEF SearchInv
  <2>3. ~Opens(ws, f) => SearchInv(s, ed, ws)
    BY <1>0, <2>1, VisitPasses DEF SearchInv
  <2> QED BY <1>1, <2>2, <2>3 DEF VisitOfAstMiner
<1>2. CASE s.task = "find_callers_of"
  <2>1. Due(s.task, f, ws) = (IF Parses(ws, f) THEN ws[f].hits ELSE 0) /\ s.task \in CappedTasks
    BY <1>2 DEF Due, CappedTasks
  <2>2. Parses(ws, f) => SearchInv(Takes(s, f, ws[f].hits, FALSE), ed, ws)
    BY <2>1, FileHits, VisitTakes DEF SearchInv
  <2>3. ~Parses(ws, f) => SearchInv(s, ed, ws)
    BY <1>0, <2>1, VisitPasses DEF SearchInv
  <2> QED BY <1>2, <2>2, <2>3 DEF VisitOfAstMiner
<1>3. CASE s.task = "extract_signatures"
  <2>1. Due(s.task, f, ws) = (IF Parses(ws, f) THEN 1 ELSE 0) /\ s.task \in ListingTasks
    BY <1>3 DEF Due, ListingTasks
  <2>2. Parses(ws, f) => SearchInv(Lists(s, f, 1), ed, ws)
    BY <2>1, VisitLists DEF SearchInv
  <2>3. ~Parses(ws, f) => SearchInv(s, ed, ws)
    BY <1>0, <2>1, VisitPasses DEF SearchInv
  <2> QED BY <1>3, <2>2, <2>3 DEF VisitOfAstMiner
<1>4. CASE s.task = "find_definition"
  <2>1. SearchInv(s, ed, ws)
    BY <1>0, <1>4, VisitPasses DEF SearchInv
  <2> DEFINE l == Lists(s, f, 1)
             secret == ShowsSecret(ws, f)
             d == [l EXCEPT !.leaks = secret]
  <2>2. l \in Search /\ l.task = s.task
    BY <1>0, ListsAll
  <2>3. secret \in BOOLEAN
    BY FileHits
  <2> HIDE DEF l, secret
  <2>4. d \in Search /\ d.task = s.task
    <3>1. d = [task |-> l.task, limit |-> l.limit, listed |-> l.listed, todo |-> l.todo,
               found |-> l.found, total |-> l.total, leaks |-> secret, late |-> l.late,
               status |-> l.status]
      BY <2>2 DEF Search
    <3> QED BY <2>2, <2>3, <3>1 DEF Search
  <2> HIDE DEF d
  <2>5. Ends(d, "ok") \in Search /\ Ends(d, "ok").task = s.task /\ Ends(d, "ok").status = "ok"
    <3>1. "ok" \in Status
      BY DEF Status
    <3> QED BY <2>4, <3>1, EndsSearch
  <2>6. SearchInv(Ends(d, "ok"), ed, ws)
    BY <1>4, <2>5 DEF SearchInv, Completed
  <2>7. VisitOfAstMiner(s, f, ws) \in {s, Ends(d, "ok")}
    BY <1>4 DEF VisitOfAstMiner, d, l, secret
  <2> QED BY <2>1, <2>6, <2>7
<1> QED BY <1>1, <1>2, <1>3, <1>4 DEF AstTasks

LEMMA SummarizerVisit ==
  ASSUME NEW s, NEW f \in Files, NEW ed, NEW ws \in Workspaces, Visiting(s, f, ed, ws),
         s.task \in SummaryTasks
  PROVE  SearchInv(VisitOfSummarizer(s, f, ws), ed, ws)
<1> USE NoneIsNoStatus
<1>0. s \in Search /\ s.status = None
  BY DEF Visiting
<1>1. CASE s.task = "module_overview"
  <2>1. Due(s.task, f, ws) = (IF Parses(ws, f) THEN 1 ELSE 0) /\ s.task \in ListingTasks
    BY <1>1 DEF Due, ListingTasks
  <2>2. Parses(ws, f) => SearchInv(Lists(s, f, 1), ed, ws)
    BY <2>1, VisitLists DEF SearchInv
  <2>3. ~Parses(ws, f) => SearchInv(s, ed, ws)
    BY <1>0, <2>1, VisitPasses DEF SearchInv
  <2> QED BY <1>1, <2>2, <2>3 DEF VisitOfSummarizer
<1>2. CASE s.task \in FileSummaries
  <2>1. s.listed = {f}
    BY <1>2 DEF Visiting
  <2>2. s.task # "module_overview"
    BY <1>2 DEF FileSummaries
  <2>3. /\ "ok" \in Status
        /\ \A status \in {"no_results", "error", "escalate"} : status \in Status \ {"ok"}
    BY DEF Status
  <2> DEFINE l == Lists(s, f, 1)
  <2>4. l \in Search /\ l.found[f] = 1 /\ l.task = s.task /\ l.listed = s.listed
    <3>1. l \in Search /\ l.found = [s.found EXCEPT ![f] = 1] /\ l.task = s.task /\ l.listed = s.listed
      BY <1>0, ListsAll
    <3>2. s.found \in [Files -> Nat]
      BY <1>0 DEF Search
    <3> HIDE DEF l
    <3> QED BY <3>1, <3>2
  <2> HIDE DEF l
  <2>5. SearchInv(Ends(s, "no_results"), ed, ws) /\ SearchInv(Ends(s, "error"), ed, ws)
    BY <1>0, <2>3, EndKeepsInv
  <2>6. SearchInv(Ends(l, "escalate"), ed, ws)
    BY <2>3, <2>4, EndKeepsInv
  <2>7. SearchInv(Fails(s), ed, ws)
    BY <1>0, FailureKeepsInv
  <2>8. Due(s.task, f, ws) = 1 => SearchInv(Ends(l, "ok"), ed, ws)
    <3>1. /\ Ends(l, "ok") \in Search /\ Ends(l, "ok").status = "ok" /\ Ends(l, "ok").task = s.task
          /\ Ends(l, "ok").listed = {f} /\ Ends(l, "ok").found[f] = 1
      <4> DEFINE e == Ends(l, "ok")
      <4>1. /\ e \in Search /\ e.status = "ok" /\ e.task = l.task /\ e.listed = l.listed
            /\ e.found = l.found
        BY <2>3, <2>4, EndsSearch
      <4> HIDE DEF e
      <4>2. e.found[f] = 1 /\ e.listed = {f} /\ e.task = s.task
        BY <2>1, <2>4, <4>1
      <4> QED BY <4>1, <4>2 DEF e
    <3> QED BY <3>1 DEF SearchInv, Completed
  <2>9. CASE s.task = "signature_summary"
    <3>1. Parses(ws, f) => Due(s.task, f, ws) = 1
      BY <2>9 DEF Due
    <3> QED BY <2>2, <2>5, <2>8, <2>9, <3>1 DEF VisitOfSummarizer, l
  <2>10. CASE s.task = "purpose_summary"
    <3>1. Opens(ws, f) => Due(s.task, f, ws) = 1
      BY <2>10 DEF Due
    <3> QED BY <2>2, <2>5, <2>6, <2>7, <2>8, <2>10, <3>1 DEF VisitOfSummarizer, l
  <2> QED BY <1>2, <2>9, <2>10 DEF FileSummaries
<1> QED BY <1>1, <1>2 DEF SummaryTasks, FileSummaries

\* A visit keeps the invariant of the search.
LEMMA VisitKeepsInv ==
  ASSUME NEW s, NEW ed, NEW ws \in Workspaces, SearchInv(s, ed, ws), s.status = None,
         NEW f \in s.todo
  PROVE  SearchInv(Visit(s, f, ws), ed, ws)
<1> DEFINE left == [s EXCEPT !.todo = s.todo \ {f}]
<1>1. /\ s \in Search /\ InProgress(s, ed, ws) /\ s.todo \subseteq Files /\ f \in Files
      /\ f \in s.listed
  BY DEF SearchInv, InProgress, Search
<1>2. PICK rest : rest = s.todo \ {f}
  OBVIOUS
<1>3. left = [task |-> s.task, limit |-> s.limit, listed |-> s.listed, todo |-> rest,
              found |-> s.found, total |-> s.total, leaks |-> s.leaks, late |-> s.late,
              status |-> s.status]
  BY <1>1, <1>2 DEF Search
<1> HIDE DEF left
<1>4. rest \in SUBSET Files
  BY <1>1, <1>2
<1>5. left \in Search
  BY <1>1, <1>3, <1>4 DEF Search
<1>6. /\ left.todo = s.todo \ {f} /\ left.listed = s.listed /\ left.found = s.found
      /\ left.task = s.task /\ left.limit = s.limit /\ left.total = s.total /\ left.status = None
  BY <1>2, <1>3
<1>7. Returned(left) = Returned(s)
  BY <1>6, ReturnedIsSum
<1>8. Accurate(s, ed, ws) =>
        \A x \in (left.listed \ left.todo) \ (ed \cup {f}) : left.found[x] = Due(left.task, x, ws)
  BY <1>6 DEF Accurate
<1>9. /\ left.task \in CappedTasks => Capped(s, ed, ws)
      /\ left.task \in ListingTasks => Accurate(s, ed, ws)
  BY <1>1, <1>6 DEF InProgress
<1>10. left.task \in FileSummaries => left.listed = {f}
  BY <1>1, <1>6 DEF InProgress
<1>11. /\ left.found[f] = 0 /\ left.todo \subseteq left.listed
       /\ \A x \in left.todo : left.found[x] = 0
  BY <1>1, <1>6 DEF InProgress
<1>12. left.task \in CappedTasks =>
         /\ Returned(left) <= left.limit
         /\ Returned(left) < left.limit => left.total = Returned(left)
         /\ left.total = Returned(left) =>
              \A x \in (left.listed \ left.todo) \ (ed \cup {f}) :
                left.found[x] = Due(left.task, x, ws)
         /\ Returned(left) <= left.total
  BY <1>6, <1>7, <1>8, <1>9 DEF Capped
<1>13. Visiting(left, f, ed, ws)
  BY <1>1, <1>5, <1>6, <1>8, <1>9, <1>10, <1>11, <1>12 DEF Visiting
<1>14. Visit(s, f, ws) =
         IF s.task \in FileTasks THEN VisitOfFileMiner(left, f, ws)
         ELSE IF s.task \in GrepTasks THEN VisitOfGrepMiner(left, f, ws)
         ELSE IF s.task \in AstTasks THEN VisitOfAstMiner(left, f, ws)
         ELSE VisitOfSummarizer(left, f, ws)
  <2>1. /\ s.task \in FileTasks => s.task \notin GrepTasks /\ s.task \notin AstTasks
        /\ s.task \in GrepTasks => s.task \notin AstTasks
    BY DEF FileTasks, GrepTasks, AstTasks
  <2> QED BY <2>1 DEF Visit, left
<1>15. s.task \in FileTasks \cup GrepTasks \cup AstTasks \cup SummaryTasks
  BY <1>1 DEF Search, Tasks
<1> QED BY <1>1, <1>6, <1>13, <1>14, <1>15, FileMinerVisit, GrepMinerVisit, AstMinerVisit, SummarizerVisit

LEMMA FinishKeepsInv ==
  ASSUME NEW s, NEW ed, NEW ws, SearchInv(s, ed, ws), s.status = None, s.todo = {}
  PROVE  SearchInv(Finish(s), ed, ws)
<1> DEFINE status ==
      CASE s.task = "ripgrep" -> RipgrepStatus(s)
        [] s.task = "count_matches" -> IF s.total > 0 THEN "ok" ELSE "no_results"
        [] s.task = "find_definition" -> "no_results"
        [] s.task \in {"enumerate_tree", "extract_signatures", "module_overview"} -> "ok"
        [] OTHER -> StatusOf(s)
<1>1. s \in Search /\ InProgress(s, ed, ws) /\ s.task \in Tasks
  BY DEF SearchInv, Search
<1>2. s.task \in CappedTasks \cup ListingTasks \cup {"find_definition"}
  <2>1. s.task \notin FileSummaries
    BY <1>1 DEF InProgress
  <2> QED BY <1>1, <2>1 DEF Tasks, FileTasks, GrepTasks, AstTasks, SummaryTasks, CappedTasks,
            ListingTasks, FileSummaries
<1>3. RipgrepStatus(s) \in Status /\ StatusOf(s) \in Status /\ {"ok", "no_results"} \subseteq Status
  BY DEF RipgrepStatus, StatusOf, Status
<1>4. status \in Status
  BY <1>2, <1>3 DEF CappedTasks, ListingTasks
<1>5. ASSUME status = "ok", s.task # "find_definition"
      PROVE  \A f \in s.listed \ ed : s.found[f] = Due(s.task, f, ws)
  <2>1. CASE s.task \in ListingTasks
    BY <1>1, <2>1 DEF InProgress, Accurate
  <2>2. CASE s.task \in CappedTasks
    <3>1. Capped(s, ed, ws) /\ Returned(s) \in Nat /\ s.limit \in Nat
      BY <1>1, <2>2, ReturnedIsNatural DEF InProgress, Search
    <3>2. s.task = "ripgrep" => status = RipgrepStatus(s)
      OBVIOUS
    <3>3. s.task # "ripgrep" => status = StatusOf(s)
      BY <2>2 DEF CappedTasks
    <3>4. s.total = Returned(s)
      <4>1. RipgrepStatus(s) = "ok" => ~(Returned(s) >= s.limit)
        BY DEF RipgrepStatus
      <4>2. StatusOf(s) = "ok" => s.total = Returned(s)
        BY DEF StatusOf
      <4> HIDE DEF status
      <4> QED BY <1>5, <3>1, <3>2, <3>3, <4>1, <4>2 DEF Capped
    <3> QED BY <3>1, <3>4 DEF Capped, Accurate
  <2> QED BY <1>2, <1>5, <2>1, <2>2
<1>6. Finish(s) = Ends(s, status)
  BY DEF Finish
<1> HIDE DEF status
<1>7. /\ Finish(s) \in Search /\ Finish(s).status = status /\ Finish(s).task = s.task
      /\ Finish(s).listed = s.listed /\ Finish(s).found = s.found
  BY <1>1, <1>4, <1>6, EndsSearch
<1> QED BY <1>4, <1>5, <1>7, NoneIsNoStatus DEF SearchInv, Completed

\* Of a search that its deadline has ended nothing is claimed.
LEMMA LateKeepsInv ==
  ASSUME NEW s \in Search, NEW ed, NEW ws, s.task \notin SummaryTasks
  PROVE  SearchInv(Late(s), ed, ws)
<1>1. PICK cut : cut = [s EXCEPT !.found = Nothing, !.total = 0, !.leaks = FALSE]
  OBVIOUS
<1>2. cut \in Search
  <2>1. PICK t : t = [s EXCEPT !.total = 0]
    OBVIOUS
  <2>2. t = [task |-> s.task, limit |-> s.limit, listed |-> s.listed, todo |-> s.todo,
             found |-> s.found, total |-> 0, leaks |-> s.leaks, late |-> s.late,
             status |-> s.status]
    BY <2>1 DEF Search
  <2>3. t \in Search
    BY <2>2 DEF Search
  <2>4. Nothing \in [Files -> Nat]
    BY DEF Nothing
  <2>5. cut = [t EXCEPT !.found = Nothing, !.leaks = FALSE]
    <3>1. cut = [[[s EXCEPT !.total = 0] EXCEPT !.found = Nothing] EXCEPT !.leaks = FALSE]
      BY <1>1 DEF Search
    <3> QED BY <2>1, <3>1
  <2> QED BY <2>3, <2>4, <2>5, SearchReplaced
<1>3. PICK end : /\ end \in Search /\ end.status \in Status
                 /\ Late(s) = [end EXCEPT !.late = TRUE]
  <2>1. \A x \in Search : \A status \in Status :
          Ends(x, status) \in Search /\ Ends(x, status).status = status
    BY EndsSearch
  <2>2. "timeout" \in Status /\ "no_results" \in Status
    BY DEF Status
  <2>3. Finish(s) \in Search /\ Finish(s).status \in Status
    <3>1. RipgrepStatus(s) \in Status /\ StatusOf(s) \in Status /\ "ok" \in Status
      BY DEF RipgrepStatus, StatusOf, Status
    <3>2. \E status \in Status : Finish(s) = Ends(s, status)
      BY <2>2, <3>1 DEF Finish
    <3> QED BY <2>1, <3>2
  <2>4. \E end \in {Finish(s), Ends(s, "timeout"), Ends(s, "no_results"), Ends(cut, "timeout")} :
          Late(s) = [end EXCEPT !.late = TRUE]
    <3> DEFINE e == CASE s.task \in BreakingTasks -> Finish(s)
                      [] s.task = "search_text" ->
                           Ends(s, IF Returned(s) > 0 THEN "timeout" ELSE "no_results")
                      [] s.task = "ripgrep" -> Ends(cut, "timeout")
                      [] OTHER -> Ends(s, "timeout")
    <3>1. Late(s) = [e EXCEPT !.late = TRUE]
      BY <1>1 DEF Late
    <3>2. e \in {Finish(s), Ends(s, "timeout"), Ends(s, "no_results"), Ends(cut, "timeout")}
      BY DEF BreakingTasks
    <3> HIDE DEF e
    <3> QED BY <3>1, <3>2
  <2>5. \A end \in {Finish(s), Ends(s, "timeout"), Ends(s, "no_results"), Ends(cut, "timeout")} :
          end \in Search /\ end.status \in Status
    BY <1>2, <2>1, <2>2, <2>3
  <2> QED BY <2>4, <2>5
<1>4. PICK late : late = TRUE
  OBVIOUS
<1>5. PICK t : t = [end EXCEPT !.late = late]
  OBVIOUS
<1>6. t = [task |-> end.task, limit |-> end.limit, listed |-> end.listed, todo |-> end.todo,
           found |-> end.found, total |-> end.total, leaks |-> end.leaks, late |-> late,
           status |-> end.status]
  BY <1>3, <1>5 DEF Search
<1>7. t \in Search /\ t.late = TRUE /\ t.status \in Status
  <2>1. late \in BOOLEAN
    BY <1>4
  <2>2. t \in Search
    BY <1>3, <1>6, <2>1 DEF Search
  <2> QED BY <1>3, <1>4, <1>6, <2>2
<1>8. SearchInv(t, ed, ws)
  BY <1>7, NoneIsNoStatus DEF SearchInv, Completed
<1> QED BY <1>3, <1>4, <1>5, <1>8

-----------------------------------------------------------------------------
\* What is due of a file depends on nothing else in the workspace.
LEMMA DueIsLocal ==
  ASSUME NEW task, NEW f, NEW v, NEW w, v[f] = w[f]
  PROVE  Due(task, f, v) = Due(task, f, w)
BY DEF Due, Opens, Parses

\* An edit leaves the search accurate for the other files.
LEMMA EditKeepsInv ==
  ASSUME NEW s, NEW ed, NEW ws, SearchInv(s, ed, ws), NEW g, NEW w,
         \A f \in Files \ {g} : w[f] = ws[f]
  PROVE  SearchInv(s, ed \cup {g}, w)
<1>1. s \in Search /\ s.listed \subseteq Files
  BY DEF SearchInv, Search
<1>2. \A f \in s.listed \ {g} : Due(s.task, f, w) = Due(s.task, f, ws)
  BY <1>1, DueIsLocal
<1>3. Accurate(s, ed, ws) => Accurate(s, ed \cup {g}, w)
  BY <1>1, <1>2 DEF Accurate
<1>4. InProgress(s, ed, ws) => InProgress(s, ed \cup {g}, w)
  BY <1>3 DEF InProgress, Capped
<1>5. Completed(s, ed, ws) => Completed(s, ed \cup {g}, w)
  BY <1>1, <1>2 DEF Completed
<1> QED BY <1>4, <1>5 DEF SearchInv

\* A task lists files of the workspace.
LEMMA ListingIsOfFiles ==
  ASSUME NEW ws, NEW task, NEW paths \in SUBSET Files
  PROVE  Listing(ws, task, paths) \subseteq Files
<1>1. Present(ws) \subseteq Files /\ ScopedFiles(ws) \subseteq Files
  BY DEF Present, ScopedFiles
<1>2. Listing(ws, task, paths) \in
        {paths, Present(ws) \cap Shallow, Present(ws) \ Excluded, ScopedFiles(ws) \cap Python, ScopedFiles(ws)}
  BY DEF Listing, PathTasks, SummaryTasks, AstTasks
<1> QED BY <1>1, <1>2

LEMMA StartIsSearch ==
  ASSUME NEW ws, NEW task \in Tasks, NEW limit \in Nat, NEW paths \in SUBSET Files
  PROVE  StartSearch(ws, task, limit, paths) \in Search
<1>1. Listing(ws, task, paths) \in SUBSET Files /\ Nothing \in [Files -> Nat]
  BY ListingIsOfFiles DEF Nothing
<1> QED BY <1>1 DEF StartSearch, Search

\* It has returned nothing when it starts.
LEMMA NothingReturnedYet ==
  ASSUME NEW ws, NEW task, NEW limit, NEW paths
  PROVE  Returned(StartSearch(ws, task, limit, paths)) = 0
<1>1. PICK s : s = StartSearch(ws, task, limit, paths)
  OBVIOUS
<1>2. \A f \in Files : s.found[f] = 0
  BY <1>1 DEF StartSearch, Nothing
<1> QED BY <1>1, <1>2, SumOfZeros, ReturnedIsSum, MinersAssumption

\* A search begins with the invariant.
LEMMA StartKeepsInv ==
  ASSUME NEW ws, NEW task \in Tasks, NEW limit \in Nat, NEW paths \in SUBSET Files,
         task \in FileSummaries => \E f \in Files : paths = {f}
  PROVE  SearchInv(StartSearch(ws, task, limit, paths), {}, ws)
<1>1. PICK s : s = StartSearch(ws, task, limit, paths)
  OBVIOUS
<1>2. s \in Search
  BY <1>1, StartIsSearch
<1>3. /\ s.task = task /\ s.limit = limit /\ s.listed = Listing(ws, task, paths)
      /\ s.todo = s.listed /\ s.found = Nothing /\ s.total = 0 /\ s.status = None
  BY <1>1 DEF StartSearch
<1>4. \A f \in Files : s.found[f] = 0
  BY <1>3 DEF Nothing
<1>5. Returned(s) = 0
  BY <1>1, NothingReturnedYet
<1>6. \A f \in s.todo : s.found[f] = 0
  BY <1>2, <1>4 DEF Search
<1>7. Accurate(s, {}, ws)
  BY <1>3 DEF Accurate
<1>8. task \in FileSummaries => s.listed = paths
  BY <1>3 DEF FileSummaries, Listing, PathTasks, SummaryTasks
<1>9. Capped(s, {}, ws)
  BY <1>3, <1>5, <1>7 DEF Capped
<1>10. InProgress(s, {}, ws)
  BY <1>3, <1>6, <1>7, <1>8, <1>9 DEF InProgress
<1> QED BY <1>1, <1>2, <1>3, <1>10, NoneIsNoStatus DEF SearchInv

\* And so does the one a request gets whose parameters cannot be used.
LEMMA BegunKeepsInv ==
  ASSUME NEW ws, NEW r \in Requests, NEW limit \in Nat, NEW search,
         search = StartSearch(ws, r.task, limit, r.paths)
  PROVE  SearchInv(Begun(r, search), {}, ws)
<1>1. r.task \in Tasks /\ r.paths \in SUBSET Files
  BY RefrlowAssumption DEF DispatchRequest
<1>2. search \in Search
  BY <1>1, StartIsSearch
<1>3. CASE ~r.valid \/ (~r.compiles /\ r.task # "ripgrep")
  BY <1>2, <1>3, FailureKeepsInv DEF Begun
<1>4. CASE r.valid /\ ~r.compiles /\ r.task = "ripgrep"
  <2>1. Finish(search) = Ends(search, RipgrepStatus(search))
    BY <1>4 DEF Finish, StartSearch
  <2>2. Returned(search) = 0
    BY NothingReturnedYet
  <2>3. RipgrepStatus(search) \in Status \ {"ok"}
    BY <2>2 DEF RipgrepStatus, Status
  <2>4. SearchInv(Finish(search), {}, ws)
    BY <1>2, <2>1, <2>3, EndKeepsInv
  <2> QED BY <1>4, <2>4 DEF Begun
<1>5. CASE r.valid /\ r.compiles
  <2>1. r.task \in FileSummaries => \E f \in Files : r.paths = {f}
    BY <1>5, RefrlowAssumption DEF FileSummaries
  <2> QED BY <1>1, <1>5, <2>1, StartKeepsInv DEF Begun
<1> QED BY <1>3, <1>4, <1>5

\* The dispatch in progress, after a step of its miner.
LEMMA SearchStep ==
  ASSUME RefrlowInv, run # None, NEW t, SearchInv(t, edited, workspace),
         run' = [run EXCEPT !.search = t], UNCHANGED <<workspace, report, edited>>
  PROVE  RefrlowInv'
<1>2. run = [id |-> run.id, search |-> run.search] /\ report = None
  BY DEF RefrlowInv
<1>3. run' = [id |-> run.id, search |-> t] /\ run'.search = t /\ run'.id = run.id
  BY <1>2
<1>4. SearchInv(run'.search, edited', workspace')
  BY <1>3
<1>5. report' = None /\ workspace' \in Workspaces
  BY <1>2 DEF RefrlowInv
<1> QED BY <1>3, <1>4, <1>5 DEF RefrlowInv

\* A step of the dispatcher, of its miner or of an editor keeps the invariant.
LEMMA RefrlowStep ==
  ASSUME RefrlowInv, [RefrlowNext]_refrlowVars
  PROVE  RefrlowInv'
<1>0. workspace \in Workspaces
  BY DEF RefrlowInv
<1>1. CASE BeginTurn
  BY <1>1 DEF RefrlowInv, BeginTurn
<1>2. CASE Edit
  <2>1. PICK f \in Files, content \in Contents :
          /\ run # None
          /\ workspace' = [workspace EXCEPT ![f] = content]
          /\ edited' = edited \cup {f}
          /\ run' = run /\ report' = report
    BY <1>2 DEF Edit
  <2>2. workspace' \in Workspaces
    BY <1>0, <2>1, RefrlowAssumption DEF Workspaces
  <2>3. PICK w : w = workspace'
    OBVIOUS
  <2>4. \A g \in Files \ {f} : w[g] = workspace[g]
    BY <1>0, <2>1, <2>3 DEF Workspaces
  <2>5. SearchInv(run.search, edited, workspace) /\ report = None
    BY <2>1 DEF RefrlowInv
  <2>6. SearchInv(run.search, edited \cup {f}, w)
    BY <2>4, <2>5, EditKeepsInv
  <2>7. SearchInv(run'.search, edited', workspace')
    BY <2>1, <2>3, <2>6
  <2> QED BY <2>1, <2>2, <2>5, <2>7 DEF RefrlowInv
<1>3. CASE Dispatch
  <2>1. PICK r \in Requests, parent \in Issued \cup {0} :
          LET id == Cardinality(Issued) + 1
              limit == IF r.limit < ClassResults THEN r.limit ELSE ClassResults
              search == StartSearch(workspace, r.task, limit, r.paths)
          IN /\ run = None /\ Cardinality(Issued) < MaxRequests
             /\ \/ Denied(id) /\ UNCHANGED <<run, edited>>
                \/ /\ run' = [id |-> id, search |-> Begun(r, search)]
                   /\ edited' = {} /\ report' = None
             /\ UNCHANGED workspace
    BY <1>3 DEF Dispatch
  <2> DEFINE id == Cardinality(Issued) + 1
             limit == IF r.limit < ClassResults THEN r.limit ELSE ClassResults
             search == StartSearch(workspace, r.task, limit, r.paths)
  <2>2. CASE Denied(id) /\ UNCHANGED <<run, edited>>
    <3>1. run' = None /\ workspace' \in Workspaces
      BY <1>0, <2>1, <2>2
    <3>2. report'.status # "ok"
      BY <2>2 DEF Denied, DispatchReport
    <3> QED BY <3>1, <3>2 DEF RefrlowInv
  <2>3. CASE /\ run' = [id |-> id, search |-> Begun(r, search)]
             /\ edited' = {} /\ report' = None
    <3>1. limit \in Nat
      BY RefrlowAssumption DEF DispatchRequest
    <3> HIDE DEF limit
    <3>2. PICK s : s = Begun(r, search)
      OBVIOUS
    <3>3. SearchInv(s, {}, workspace)
      <4>1. PICK begins : begins = search
        OBVIOUS
      <4> HIDE DEF search
      <4>2. begins = StartSearch(workspace, r.task, limit, r.paths)
        BY <4>1 DEF search
      <4> QED BY <3>1, <3>2, <4>1, <4>2, BegunKeepsInv
    <3>4. run' = [id |-> run'.id, search |-> run'.search] /\ run'.search = s
      <4>1. run' = [id |-> id, search |-> s]
        BY <2>3, <3>2
      <4> HIDE DEF id
      <4> QED BY <4>1
    <3>5. SearchInv(run'.search, edited', workspace')
      BY <2>1, <2>3, <3>3, <3>4
    <3> QED BY <1>0, <2>1, <2>3, <3>4, <3>5 DEF RefrlowInv
  <2> QED BY <2>1, <2>2, <2>3
<1>4. CASE VisitFile
  <2>1. PICK f \in run.search.todo :
          run' = [run EXCEPT !.search =
                    IF /\ Visit(run.search, f, workspace).status = None
                       /\ Visit(run.search, f, workspace).todo = {}
                    THEN Finish(Visit(run.search, f, workspace))
                    ELSE Visit(run.search, f, workspace)]
    BY <1>4 DEF VisitFile
  <2>2. run # None /\ run.search.status = None /\ UNCHANGED <<workspace, report, edited>>
    BY <1>4 DEF VisitFile, Searching
  <2>3. SearchInv(run.search, edited, workspace)
    BY <2>2 DEF RefrlowInv
  <2>4. PICK after : after = Visit(run.search, f, workspace)
    OBVIOUS
  <2>5. SearchInv(after, edited, workspace)
    BY <1>0, <2>2, <2>3, <2>4, VisitKeepsInv
  <2>6. after.status = None /\ after.todo = {} => SearchInv(Finish(after), edited, workspace)
    BY <2>5, FinishKeepsInv
  <2>7. PICK t : t = IF after.status = None /\ after.todo = {} THEN Finish(after) ELSE after
    OBVIOUS
  <2>8. SearchInv(t, edited, workspace)
    BY <2>5, <2>6, <2>7
  <2>9. run' = [run EXCEPT !.search = t]
    BY <2>1, <2>4, <2>7
  <2> QED BY <2>2, <2>8, <2>9, SearchStep
<1>5. CASE FinishEmpty
  <2>1. /\ run # None /\ run.search.status = None /\ run.search.todo = {}
        /\ run' = [run EXCEPT !.search = Finish(run.search)]
        /\ UNCHANGED <<workspace, report, edited>>
    BY <1>5 DEF FinishEmpty, Searching
  <2>2. SearchInv(run.search, edited, workspace)
    BY <2>1 DEF RefrlowInv
  <2>3. SearchInv(Finish(run.search), edited, workspace)
    BY <2>1, <2>2, FinishKeepsInv
  <2> QED BY <2>1, <2>3, SearchStep
<1>6. CASE Deadline
  <2>1. /\ run # None /\ run.search.task \notin SummaryTasks
        /\ run' = [run EXCEPT !.search = Late(run.search)]
        /\ UNCHANGED <<workspace, report, edited>>
    BY <1>6 DEF Deadline, Searching
  <2>2. run.search \in Search
    BY <2>1 DEF RefrlowInv, SearchInv
  <2>3. SearchInv(Late(run.search), edited, workspace)
    BY <2>1, <2>2, LateKeepsInv
  <2> QED BY <2>1, <2>3, SearchStep
<1>7. CASE Complete
  <2>1. PICK oversized \in BOOLEAN :
          report' = DispatchReport(run.id, Validated(run.search, oversized), run.search)
    BY <1>7 DEF Complete
  <2>2. run # None /\ run' = None /\ UNCHANGED <<workspace, edited>>
    BY <1>7 DEF Complete
  <2>3. report'.search = run.search /\ report'.status = Validated(run.search, oversized)
    BY <2>1 DEF DispatchReport
  <2>4. report'.status = "ok" => run.search.status = "ok"
    BY <2>3 DEF Validated
  <2>5. report'.status = "ok" => Completed(run.search, edited, workspace)
    BY <2>2, <2>4 DEF RefrlowInv, SearchInv
  <2>6. report'.status = "ok" => Completed(report'.search, edited', workspace')
    BY <2>2, <2>3, <2>5
  <2> QED BY <1>0, <2>2, <2>6 DEF RefrlowInv
<1>8. CASE DirectoryGone
  <2>1. /\ run # None
        /\ run' = [run EXCEPT !.search = Fails(run.search)]
        /\ UNCHANGED <<workspace, report, edited>>
    BY <1>8 DEF DirectoryGone, Searching
  <2>2. run.search \in Search
    BY <2>1 DEF RefrlowInv, SearchInv
  <2>3. SearchInv(Fails(run.search), edited, workspace)
    BY <2>2, FailureKeepsInv
  <2> QED BY <2>1, <2>3, SearchStep
<1>9. CASE UNCHANGED refrlowVars
  BY <1>9 DEF RefrlowInv, refrlowVars
<1> QED BY <1>1, <1>2, <1>3, <1>4, <1>5, <1>6, <1>7, <1>8, <1>9 DEF RefrlowNext, Step

\* In every state an ok report is complete but for the files edited meanwhile, for
\* find_definition and for the loops that break at their deadline.
\* About dispatcher.py:125-230, the miners' loops and validate_report.
THEOREM OkReportsAreComplete == RefrlowSpec => []OkMeansComplete
<1>1. RefrlowInit => RefrlowInv
  BY RefrlowAssumption DEF RefrlowInit, RefrlowInv, Workspaces
<1>2. RefrlowInv /\ [RefrlowNext]_refrlowVars => RefrlowInv'
  BY RefrlowStep
<1>3. RefrlowInv => OkMeansComplete
  BY DEF RefrlowInv, OkMeansComplete, Completed
<1> QED BY <1>1, <1>2, <1>3, PTL DEF RefrlowSpec
=============================================================================
