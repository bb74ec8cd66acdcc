---------------------------- MODULE BrainProofs ----------------------------
(***************************************************************************)
(* What holds of the brain's graph in every state (Brain), for any number  *)
(* of processes, nodes and commands: the invariants of the linker, the     *)
(* journal and the maintenance that their interleaving keeps.              *)
(***************************************************************************)
EXTENDS Brain, WellFoundedInduction, TLAPS

Fields == {"pc", "plan", "id", "other", "ids", "pending", "count", "outcome", "rows", "a", "b",
           "visited", "alone", "logged"}
NodeFields == {"type", "text", "confidence", "solved", "count"}

\* The plans a command may have left, by what it does next.
PlanOk(c) ==
  /\ c.pc = "refs" => c.plan \in {<<>>, <<"linking">>}
  /\ c.pc \in {"linking", "link", "join"} =>
       c.plan \in {<<>>, <<"orphans">>, <<"solve", "answer", "attach", "count", "tie">>}
  /\ c.pc = "solve" =>
       c.plan \in {<<"answer", "attach", "count">>, <<"answer", "attach", "count", "tie">>}
  /\ c.pc = "answer" => c.plan \in {<<"attach", "count">>, <<"attach", "count", "tie">>}
  /\ c.pc = "attach" => c.plan \in {<<"count">>, <<"count", "tie">>}
  /\ c.pc = "count" => c.plan \in {<<>>, <<"tie">>}
  /\ c.pc \in {"idle", "tie", "prune", "merge", "read", "move", "orphans", "sweep", "swept"} =>
       c.plan = <<>>

\* The count a command has read does not lead: before its solution is added it is no more
\* than the solutions recorded, and after that one less.
CountOk(c) ==
  /\ c.pc = "answer" => c.id \in NodeIds /\ c.count \in Nat /\ c.count <= answered[c.id]
  /\ c.pc \in {"attach", "count"} =>
       c.id \in NodeIds /\ c.count \in Nat /\ c.count + 1 <= answered[c.id]

\* An edge of nodes handed out; a SOLVES edge joins a problem and a solution.  `ty` is the
\* type each id was given, of the nodes deleted since as well.
Sound(e, ty) ==
  /\ e.source \in 1..lastNode /\ e.target \in 1..lastNode
  /\ e.type = "solves" => {ty[e.source], ty[e.target]} = {"problem", "solution"}

Listed(c, x) == x \in NodeIds /\ c.rows[x] # None

TypesOk(c, ty) ==
  /\ \A e \in c.pending : Sound(e, ty)
  /\ c.pc \in {"solve", "answer", "attach", "count", "tie"}
       \/ c.plan = <<"solve", "answer", "attach", "count", "tie">> =>
       c.id \in 1..lastNode /\ ty[c.id] = "problem"
  /\ c.pc \in {"attach", "count", "tie"} => c.other \in 1..lastNode /\ ty[c.other] = "solution"
  /\ c.pc \in {"merge", "read", "move"} =>
       /\ \A x \in NodeIds : c.rows[x] # None => x <= lastNode /\ c.rows[x].type = ty[x]
       /\ c.a \in 1..(MaxNodes + 1)
       /\ c.b # 0 => Listed(c, c.a) /\ Listed(c, c.b)
  /\ c.pc \in {"read", "move"} => c.b # 0 /\ ty[c.a] = ty[c.b]
  /\ c.pc = "move" => \A e \in c.pending : Removed(c) \in {e.source, e.target}

\* Whoever sweeps alone still has every dangling edge to look at, or has logged it.
SweepOk(c) ==
  /\ c.alone => c.pc \in {"sweep", "swept"}
  /\ c.alone /\ c.pc = "sweep" =>
       \A e \in edges : Dangling(e) => e \in c.pending \/ e \in c.logged
  /\ c.alone /\ c.pc = "swept" => \A e \in edges : Dangling(e) => e \in c.logged

CommandBase(c, ty) ==
  /\ DOMAIN c = Fields
  /\ PlanOk(c)
  /\ CountOk(c)
  /\ TypesOk(c, ty)

CommandInv(c, ty) == CommandBase(c, ty) /\ SweepOk(c)

GraphInv(ty) ==
  /\ lastNode \in 0..MaxNodes
  /\ DOMAIN nodes = NodeIds
  /\ answered \in [NodeIds -> Nat]
  /\ \A id \in NodeIds : nodes[id] # None =>
       /\ id <= lastNode
       /\ DOMAIN nodes[id] = NodeFields
       /\ nodes[id].type = ty[id]
       /\ nodes[id].count \in Nat /\ nodes[id].count <= answered[id]
  /\ \A e \in edges : Sound(e, ty)

BrainTyped(ty) == GraphInv(ty) /\ \A q \in Processes : CommandInv(proc[q], ty)
BrainInv == \E ty : BrainTyped(ty)

-----------------------------------------------------------------------------
\* The plans there are, taken apart.
LEMMA PlanHeads ==
  /\ Head(<<"linking">>) = "linking" /\ Tail(<<"linking">>) = <<>> /\ <<"linking">> # <<>>
  /\ Head(<<"orphans">>) = "orphans" /\ Tail(<<"orphans">>) = <<>> /\ <<"orphans">> # <<>>
  /\ Head(<<"tie">>) = "tie" /\ Tail(<<"tie">>) = <<>> /\ <<"tie">> # <<>>
  /\ Head(<<"count">>) = "count" /\ Tail(<<"count">>) = <<>> /\ <<"count">> # <<>>
  /\ Head(<<"count", "tie">>) = "count" /\ Tail(<<"count", "tie">>) = <<"tie">>
  /\ <<"count", "tie">> # <<>>
  /\ Head(<<"attach", "count">>) = "attach" /\ Tail(<<"attach", "count">>) = <<"count">>
  /\ <<"attach", "count">> # <<>>
  /\ Head(<<"attach", "count", "tie">>) = "attach"
  /\ Tail(<<"attach", "count", "tie">>) = <<"count", "tie">>
  /\ <<"attach", "count", "tie">> # <<>>
  /\ Head(<<"answer", "attach", "count">>) = "answer"
  /\ Tail(<<"answer", "attach", "count">>) = <<"attach", "count">>
  /\ <<"answer", "attach", "count">> # <<>>
  /\ Head(<<"answer", "attach", "count", "tie">>) = "answer"
  /\ Tail(<<"answer", "attach", "count", "tie">>) = <<"attach", "count", "tie">>
  /\ <<"answer", "attach", "count", "tie">> # <<>>
  /\ Head(<<"solve", "answer", "attach", "count", "tie">>) = "solve"
  /\ Tail(<<"solve", "answer", "attach", "count", "tie">>) = <<"answer", "attach", "count", "tie">>
  /\ <<"solve", "answer", "attach", "count", "tie">> # <<>>
OBVIOUS

\* No other plan is as long as that of a problem written with its solution.
LEMMA FullPlanIsLong ==
  \A plan \in {<<>>, <<"linking">>, <<"orphans">>, <<"tie">>, <<"count">>, <<"count", "tie">>,
               <<"attach", "count">>, <<"attach", "count", "tie">>,
               <<"answer", "attach", "count">>, <<"answer", "attach", "count", "tie">>} :
    plan # <<"solve", "answer", "attach", "count", "tie">>
OBVIOUS

\* The next command of a plan.
LEMMA ProceedsTo ==
  ASSUME NEW s, DOMAIN s = Fields, s.plan # <<>>
  PROVE  LET d == Proceeds(s)
         IN /\ DOMAIN d = Fields /\ d.pc = Head(s.plan) /\ d.plan = Tail(s.plan)
            /\ d.id = s.id /\ d.other = s.other /\ d.pending = s.pending /\ d.count = s.count
            /\ d.alone = s.alone
BY DEF Proceeds, Fields

\* An idle process.
LEMMA NoCommandInv ==
  ASSUME NEW ty PROVE CommandInv(NoCommand, ty)
<1>1. NoCommand.plan # <<"solve", "answer", "attach", "count", "tie">>
  BY FullPlanIsLong DEF NoCommand
<1>2. CommandBase(NoCommand, ty)
  BY <1>1 DEF NoCommand, CommandBase, Fields, PlanOk, CountOk, TypesOk
<1>3. SweepOk(NoCommand)
  BY DEF NoCommand, SweepOk
<1> QED BY <1>2, <1>3 DEF CommandInv

-----------------------------------------------------------------------------
\* Nodes are handed out and solutions recorded, and no id changes its type.
Later(ty, ty2) ==
  /\ lastNode <= lastNode'
  /\ \A id \in 1..lastNode : ty2[id] = ty[id]
  /\ \A id \in NodeIds : answered[id] <= answered'[id]

\* A sound edge stays one.
LEMMA SoundKept ==
  ASSUME NEW e, NEW ty, NEW ty2, Sound(e, ty), lastNode \in Nat, lastNode' \in Nat, Later(ty, ty2)
  PROVE  Sound(e, ty2)'
BY DEF Sound, Later

\* What is known of a command stays true while the others work.
LEMMA BaseKept ==
  ASSUME NEW c, NEW ty, NEW ty2, CommandBase(c, ty), GraphInv(ty), GraphInv(ty2)', Later(ty, ty2)
  PROVE  CommandBase(c, ty2)'
<1>1. lastNode \in Nat /\ lastNode' \in Nat /\ lastNode <= lastNode'
  BY NeuralGraphAssumption DEF GraphInv, Later
<1>2. \A x \in 1..lastNode : x \in 1..lastNode'
  BY <1>1
<1>3. CountOk(c)'
  BY DEF CommandBase, CountOk, GraphInv, Later
<1>4. \A e \in c.pending : Sound(e, ty2)'
  BY <1>1, SoundKept DEF CommandBase, TypesOk
<1>5. \A x \in NodeIds : x <= lastNode => x <= lastNode' /\ ty2[x] = ty[x]
  BY <1>1 DEF Later, NodeIds
<1>6. /\ c.pc \in {"solve", "answer", "attach", "count", "tie"}
           \/ c.plan = <<"solve", "answer", "attach", "count", "tie">> =>
           c.id \in 1..lastNode' /\ ty2[c.id] = "problem"
      /\ c.pc \in {"attach", "count", "tie"} => c.other \in 1..lastNode' /\ ty2[c.other] = "solution"
  BY <1>2 DEF CommandBase, TypesOk, Later
<1>7. c.pc \in {"merge", "read", "move"} =>
        \A x \in NodeIds : c.rows[x] # None => x <= lastNode' /\ c.rows[x].type = ty2[x]
  BY <1>5 DEF CommandBase, TypesOk
<1>8. c.pc \in {"read", "move"} => ty2[c.a] = ty2[c.b]
  <2> HAVE c.pc \in {"read", "move"}
  <2>1. /\ Listed(c, c.a) /\ Listed(c, c.b) /\ ty[c.a] = ty[c.b]
        /\ \A x \in NodeIds : c.rows[x] # None => x <= lastNode
    BY DEF CommandBase, TypesOk
  <2> QED BY <1>5, <2>1 DEF Listed
<1>9. TypesOk(c, ty2)'
  BY <1>4, <1>6, <1>7, <1>8 DEF CommandBase, TypesOk
<1> QED BY <1>3, <1>9 DEF CommandBase

\* The commands of the others, which a step of process p marks.
LEMMA OthersKept ==
  ASSUME NEW c, NEW ty, NEW ty2, CommandInv(c, ty), GraphInv(ty), GraphInv(ty2)', Later(ty, ty2),
         NEW written, NEW d,
         d = [c EXCEPT !.alone = FALSE, !.pending = IF c.pc = "sweep" THEN @ \ written ELSE @]
  PROVE  CommandInv(d, ty2)'
<1>1. DOMAIN c = Fields
  BY DEF CommandInv, CommandBase
<1>2. /\ DOMAIN d = Fields /\ d.pc = c.pc /\ d.plan = c.plan /\ d.id = c.id /\ d.other = c.other
      /\ d.count = c.count /\ d.rows = c.rows /\ d.a = c.a /\ d.b = c.b /\ ~d.alone
      /\ d.pending \subseteq c.pending
  BY <1>1 DEF Fields
<1>3. Removed(d) = Removed(c) /\ \A x : Listed(d, x) = Listed(c, x)
  BY <1>2 DEF Removed, Kept, Listed
<1>4. CommandBase(c, ty2)'
  BY BaseKept DEF CommandInv
<1>5. CommandBase(d, ty2)'
  BY <1>2, <1>3, <1>4 DEF CommandBase, PlanOk, CountOk, TypesOk, Listed
<1>6. SweepOk(d)'
  BY <1>2 DEF SweepOk
<1> QED BY <1>5, <1>6 DEF CommandInv

\* A step of process p, once the graph and the command it goes on with are seen to.
LEMMA StepKeeps ==
  ASSUME NEW ty, BrainTyped(ty), NEW ty2, NEW p \in Processes, NEW s, NEW written,
         GoesWriting(p, s, written), Later(ty, ty2), GraphInv(ty2)', CommandInv(s, ty2)'
  PROVE  BrainInv'
<1>1. ASSUME NEW q \in Processes PROVE CommandInv(proc[q], ty2)'
  <2>1. CASE q = p
    <3>1. proc'[q] = s
      BY <2>1 DEF GoesWriting
    <3> QED BY <3>1 DEF CommandInv, CommandBase, PlanOk, CountOk,
                      TypesOk, SweepOk, Listed, Removed, Kept
  <2>2. CASE q # p
    <3>1. PICK c : c = proc[q]
      OBVIOUS
    <3>2. PICK d : d = [c EXCEPT !.alone = FALSE,
                                 !.pending = IF c.pc = "sweep" THEN @ \ written ELSE @]
      OBVIOUS
    <3>3. proc'[q] = d
      BY <2>2, <3>1, <3>2 DEF GoesWriting
    <3>4. CommandInv(c, ty) /\ GraphInv(ty)
      BY <3>1 DEF BrainTyped
    <3>5. CommandInv(d, ty2)'
      BY <3>2, <3>4, OthersKept
    <3> QED BY <3>3, <3>5 DEF CommandInv, CommandBase, PlanOk, CountOk,
                      TypesOk, SweepOk, Listed, Removed, Kept
  <2> QED BY <2>1, <2>2
<1>2. BrainTyped(ty2)'
  BY <1>1 DEF BrainTyped
<1> QED BY <1>2 DEF BrainInv

-----------------------------------------------------------------------------
\* The graph as the actions leave it.
LEMMA GraphBounds ==
  ASSUME NEW ty, GraphInv(ty)
  PROVE  /\ lastNode \in Nat /\ MaxNodes \in Nat /\ \A id \in 1..lastNode : id \in NodeIds
         /\ Later(ty, ty) <=>
              (lastNode <= lastNode' /\ \A id \in NodeIds : answered[id] <= answered'[id])
BY NeuralGraphAssumption DEF GraphInv, NodeIds, Later

\* A step that hands out no node and records no solution.
LEMMA LaterItself ==
  ASSUME NEW ty, GraphInv(ty), lastNode' = lastNode, answered' = answered
  PROVE  Later(ty, ty)
BY GraphBounds DEF GraphInv

\* Nothing stored has changed.
LEMMA QuietStep ==
  ASSUME NEW ty, BrainTyped(ty), NEW p \in Processes, NEW s, Goes(p, s),
         UNCHANGED <<graphVars, answered>>, CommandInv(s, ty)
  PROVE  BrainInv'
<1>1. GraphInv(ty) /\ UNCHANGED <<nodes, edges, lastNode, answered>>
  BY DEF BrainTyped, graphVars
<1>2. GraphInv(ty)' /\ Later(ty, ty)
  BY <1>1, LaterItself DEF GraphInv, Sound
<1>3. CommandInv(s, ty)'
  BY <1>1 DEF CommandInv, CommandBase, CountOk, TypesOk, SweepOk, Sound, Dangling, Stored
<1> QED BY <1>2, <1>3, StepKeeps DEF Goes

\* An edge has been written.
LEMMA EdgeStep ==
  ASSUME NEW ty, BrainTyped(ty), NEW p \in Processes, NEW s, NEW written, GoesWriting(p, s, written),
         UNCHANGED <<nodes, lastNode, answered>>,
         NEW source, NEW target, NEW type, edges' = WithEdge(source, target, type),
         Sound([source |-> source, target |-> target, type |-> type], ty),
         CommandBase(s, ty), ~s.alone
  PROVE  BrainInv'
<1>1. GraphInv(ty)
  BY DEF BrainTyped
<1>2. Later(ty, ty)
  BY <1>1, LaterItself
<1>3. \A e \in edges' : Sound(e, ty)'
  <2>1. \A e : Sound(e, ty)' <=> Sound(e, ty)
    BY DEF Sound
  <2>2. \A e \in edges' : e \in edges \/ e = [source |-> source, target |-> target, type |-> type]
    BY DEF WithEdge
  <2> QED BY <1>1, <2>1, <2>2 DEF GraphInv
<1>4. GraphInv(ty)'
  BY <1>1, <1>3 DEF GraphInv
<1>5. CommandInv(s, ty)'
  BY DEF CommandInv, CommandBase, CountOk, TypesOk, SweepOk, Sound
<1> QED BY <1>2, <1>4, <1>5, StepKeeps

\* A node has been written.
LEMMA NodeStep ==
  ASSUME NEW ty, BrainTyped(ty), NEW ty2, NEW p \in Processes, NEW s, Goes(p, s),
         NEW type, NEW text, NEW confidence, AddNode(NewNode(type, text, confidence)),
         ty2 = [id \in NodeIds |-> IF id = lastNode + 1 THEN type ELSE ty[id]],
         edges' = edges, answered' \in [NodeIds -> Nat],
         \A id \in NodeIds : answered[id] <= answered'[id],
         CommandBase(s, ty2)', ~s.alone
  PROVE  BrainInv'
<1>1. GraphInv(ty) /\ lastNode \in Nat /\ MaxNodes \in Nat
  BY NeuralGraphAssumption DEF BrainTyped, GraphInv
<1>2. lastNode < MaxNodes /\ lastNode' = lastNode + 1
  BY DEF AddNode
<1>3. Later(ty, ty2)
  BY <1>1, <1>2 DEF Later, NodeIds
<1>4. \A e \in edges' : Sound(e, ty2)'
  BY <1>1, <1>2, <1>3, SoundKept DEF GraphInv
<1>5. PICK node : node = NewNode(type, text, confidence)
  OBVIOUS
<1>6. DOMAIN node = NodeFields /\ node.type = type /\ node.count = 0
  BY <1>5 DEF NewNode, NodeFields
<1>7. nodes' = [nodes EXCEPT ![lastNode + 1] = node]
  BY <1>5 DEF AddNode
<1>8. DOMAIN nodes' = NodeIds /\ lastNode' \in 0..MaxNodes /\ lastNode + 1 \in NodeIds
  BY <1>1, <1>2, <1>7 DEF GraphInv, NodeIds
<1>9. ASSUME NEW id \in NodeIds, nodes'[id] # None
      PROVE  /\ id <= lastNode'
             /\ DOMAIN nodes'[id] = NodeFields
             /\ nodes'[id].type = ty2[id]
             /\ nodes'[id].count \in Nat /\ nodes'[id].count <= answered'[id]
  <2>1. answered[id] \in Nat /\ answered'[id] \in Nat /\ answered[id] <= answered'[id]
    BY <1>1 DEF GraphInv
  <2>2. CASE id = lastNode + 1
    <3>1. nodes'[id] = node /\ ty2[id] = type
      BY <1>1, <1>7, <1>8, <2>2 DEF GraphInv
    <3> QED BY <1>2, <1>6, <2>1, <2>2, <3>1
  <2>3. CASE id # lastNode + 1
    <3>1. nodes'[id] = nodes[id] /\ ty2[id] = ty[id]
      BY <1>1, <1>7, <2>3 DEF GraphInv
    <3>2. /\ id <= lastNode
          /\ DOMAIN nodes[id] = NodeFields
          /\ nodes[id].type = ty[id]
          /\ nodes[id].count \in Nat /\ nodes[id].count <= answered[id]
      BY <1>1, <1>9, <3>1 DEF GraphInv
    <3>3. id <= lastNode' /\ nodes[id].count <= answered'[id]
      BY <1>1, <1>2, <2>1, <3>2 DEF NodeIds
    <3> QED BY <3>1, <3>2, <3>3
  <2> QED BY <2>2, <2>3
<1>10. GraphInv(ty2)'
  BY <1>4, <1>8, <1>9 DEF GraphInv
<1>11. CommandInv(s, ty2)'
  BY DEF CommandInv, SweepOk
<1> QED BY <1>3, <1>10, <1>11, StepKeeps DEF Goes

\* A node has been changed, though not its type.
LEMMA ChangeStep ==
  ASSUME NEW ty, BrainTyped(ty), NEW p \in Processes, NEW s, Goes(p, s), NEW id,
         UNCHANGED <<lastNode, answered>>, edges' \subseteq edges,
         nodes' = [nodes EXCEPT ![id] = nodes'[id]],
         id \in NodeIds /\ nodes'[id] # None =>
           /\ nodes[id] # None
           /\ DOMAIN nodes'[id] = NodeFields
           /\ nodes'[id].type = nodes[id].type
           /\ nodes'[id].count \in Nat /\ nodes'[id].count <= answered[id],
         CommandBase(s, ty), ~s.alone
  PROVE  BrainInv'
<1>1. GraphInv(ty)
  BY DEF BrainTyped
<1>2. Later(ty, ty)
  BY <1>1, LaterItself
<1>3. \A e \in edges' : Sound(e, ty)'
  BY <1>1 DEF GraphInv, Sound
<1>4. DOMAIN nodes' = NodeIds
  BY <1>1 DEF GraphInv
<1>5. ASSUME NEW x \in NodeIds, nodes'[x] # None
      PROVE  /\ x <= lastNode'
             /\ DOMAIN nodes'[x] = NodeFields
             /\ nodes'[x].type = ty[x]
             /\ nodes'[x].count \in Nat /\ nodes'[x].count <= answered'[x]
  <2>1. CASE x = id
    BY <1>1, <1>5, <2>1 DEF GraphInv
  <2>2. CASE x # id
    <3>1. nodes'[x] = nodes[x]
      BY <1>1, <2>2 DEF GraphInv
    <3> QED BY <1>1, <1>5, <3>1 DEF GraphInv
  <2> QED BY <2>1, <2>2
<1>6. GraphInv(ty)'
  BY <1>1, <1>3, <1>4, <1>5 DEF GraphInv
<1>7. CommandInv(s, ty)'
  BY DEF CommandInv, CommandBase, CountOk, TypesOk, SweepOk, Sound
<1> QED BY <1>2, <1>6, <1>7, StepKeeps DEF Goes

\* A node has been deleted, or the deletion raised.
LEMMA DeleteStep ==
  ASSUME NEW ty, BrainTyped(ty), NEW p \in Processes, NEW s, Goes(p, s), NEW id,
         \/ DeleteNode(id)
         \/ DeleteNodeRaises(id)
         \/ UNCHANGED <<nodes, edges>>,
         UNCHANGED <<lastNode, answered>>, CommandBase(s, ty), ~s.alone
  PROVE  BrainInv'
<1>1. GraphInv(ty) /\ Later(ty, ty)
  BY LaterItself DEF BrainTyped
<1>2. /\ DOMAIN nodes' = NodeIds
      /\ edges' \subseteq edges
      /\ \A x \in NodeIds : nodes'[x] \in {None, nodes[x]}
  BY <1>1 DEF DeleteNode, DeleteNodeRaises, GraphInv
<1>3. GraphInv(ty)'
  BY <1>1, <1>2 DEF GraphInv, Sound
<1>4. CommandInv(s, ty)'
  BY DEF CommandInv, CommandBase, CountOk, TypesOk, SweepOk, Sound
<1> QED BY <1>1, <1>3, <1>4, StepKeeps DEF Goes

-----------------------------------------------------------------------------
\* The newest of a bounded set of ids is one of them.
LEMMA NewestIsListed ==
  ASSUME NEW n \in Nat, NEW S \in SUBSET (1..n), S # {}
  PROVE  Newest(S) \in S
<1> DEFINE R == OpToRel(<, Nat)
           T == {n - id : id \in S}
<1>1. IsWellFoundedOn(R, Nat)
  BY NatLessThanWellFounded
<1>2. T \subseteq Nat /\ T # {}
  <2>1. \A id \in S : n - id \in Nat
    OBVIOUS
  <2>2. PICK id \in S : TRUE
    OBVIOUS
  <2>3. n - id \in T
    OBVIOUS
  <2> QED BY <2>1, <2>3
<1> HIDE DEF R, T
<1>3. PICK m \in T : \A k \in T : ~(<<k, m>> \in R)
  BY <1>1, <1>2, WFMin
<1>4. \A k \in T : ~(k < m)
  <2> TAKE k \in T
  <2>1. <<k, m>> \in Nat \X Nat
    BY <1>2
  <2>2. <<k, m>> \in R <=> k < m
    BY <2>1 DEF R, OpToRel
  <2> QED BY <1>3, <2>2
<1>5. PICK id \in S : m = n - id
  BY DEF T
<1>6. \A other \in S : other <= id
  <2> TAKE other \in S
  <2>1. n - other \in T
    BY DEF T
  <2>2. ~(n - other < m)
    BY <1>4, <2>1
  <2> QED BY <1>5, <2>2
<1> QED BY <1>6 DEF Newest

\* What a merge takes up next is 0 or in its list.
LEMMA AfterIsListed ==
  ASSUME NEW s, NEW id \in 1..(MaxNodes + 1), After(s, id) # 0
  PROVE  After(s, id) \in 1..(id - 1) /\ Listed(s, After(s, id))
<1> DEFINE older == {x \in 1..(id - 1) : s.rows[x] # None}
<1>1. MaxNodes \in Nat /\ id - 1 \in Nat
  BY NeuralGraphAssumption
<1>2. older # {} /\ After(s, id) = Newest(older)
  BY DEF After
<1>3. older \in SUBSET (1..(id - 1))
  OBVIOUS
<1> HIDE DEF older
<1>4. Newest(older) \in older
  BY <1>1, <1>2, <1>3, NewestIsListed
<1>5. After(s, id) \in 1..(id - 1) /\ s.rows[After(s, id)] # None
  BY <1>2, <1>4 DEF older
<1>6. After(s, id) \in NodeIds
  BY <1>1, <1>5 DEF NodeIds
<1> QED BY <1>5, <1>6 DEF Listed

\* The command of process p, and that it has its invariant.
LEMMA CommandOf ==
  ASSUME NEW ty, BrainTyped(ty), NEW p \in Processes, NEW s, s = proc[p]
  PROVE  /\ GraphInv(ty) /\ CommandInv(s, ty) /\ CommandBase(s, ty) /\ DOMAIN s = Fields
         /\ s.pc \notin {"sweep", "swept"} => ~s.alone
BY DEF BrainTyped, CommandInv, CommandBase, SweepOk

\* What a command goes on to when its writing or its linking is over.
LEMMA Resumed ==
  ASSUME NEW s, NEW ty, CommandBase(s, ty), s.pc \in {"refs", "linking", "link"}, ~s.alone
  PROVE  CommandInv(Proceeds(s), ty)
<1> DEFINE d == Proceeds(s)
<1>1. CASE s.plan = <<>>
  BY <1>1, NoCommandInv DEF Proceeds
<1>2. CASE s.plan # <<>>
  <2>1. s.plan \in {<<"linking">>, <<"orphans">>, <<"solve", "answer", "attach", "count", "tie">>}
    BY <1>2 DEF CommandBase, PlanOk
  <2>2. /\ DOMAIN d = Fields /\ d.pc = Head(s.plan) /\ d.plan = Tail(s.plan)
        /\ d.id = s.id /\ d.pending = s.pending /\ ~d.alone
    BY <1>2, ProceedsTo DEF CommandBase
  <2>3. /\ \/ d.pc \in {"linking", "orphans"} /\ d.plan = <<>>
           \/ /\ s.plan = <<"solve", "answer", "attach", "count", "tie">>
              /\ d.pc = "solve" /\ d.plan = <<"answer", "attach", "count", "tie">>
    BY <2>1, <2>2, PlanHeads
  <2>4. d.plan # <<"solve", "answer", "attach", "count", "tie">>
    BY <2>3, FullPlanIsLong
  <2> HIDE DEF d
  <2>5. PlanOk(d)
    BY <2>3 DEF PlanOk
  <2>6. TypesOk(d, ty)
    BY <2>2, <2>3, <2>4 DEF CommandBase, TypesOk
  <2>7. CommandInv(d, ty)
    BY <2>2, <2>3, <2>5, <2>6 DEF CommandInv, CommandBase, CountOk, SweepOk
  <2> QED BY <2>7 DEF d
<1> QED BY <1>1, <1>2

-----------------------------------------------------------------------------
\* The journal and the linker.
LEMMA WriteThenKeeps ==
  ASSUME NEW ty, BrainTyped(ty), NEW p \in Processes, NEW w, NEW refs \in SUBSET Seen,
         NEW plan \in {<<>>, <<"linking">>}, WriteThen(p, w, refs, plan)
  PROVE  BrainInv'
<1>0. PICK ty2 : ty2 = [id \in NodeIds |-> IF id = lastNode + 1 THEN w.type ELSE ty[id]]
  OBVIOUS
<1>1. lastNode \in Nat /\ lastNode' = lastNode + 1 /\ GraphInv(ty)
  BY GraphBounds DEF BrainTyped, WriteThen, AddNode
<1>2. PICK s : s = [NoCommand EXCEPT
                     !.pc = "refs", !.id = lastNode + 1, !.plan = plan,
                     !.pending = {EdgeTo(lastNode + 1, r, "relates_to") : r \in refs}]
  OBVIOUS
<1>3. /\ DOMAIN s = Fields /\ s.pc = "refs" /\ s.plan = plan /\ ~s.alone
      /\ s.pending = {EdgeTo(lastNode + 1, r, "relates_to") : r \in refs}
  BY <1>2 DEF NoCommand, Fields
<1>4. plan # <<"solve", "answer", "attach", "count", "tie">>
  BY FullPlanIsLong
<1>5. \A e \in s.pending : Sound(e, ty2)'
  <2> TAKE e \in s.pending
  <2>1. PICK r \in refs : e = EdgeTo(lastNode + 1, r, "relates_to")
    BY <1>3
  <2>2. e.source = lastNode + 1 /\ e.target = r /\ e.type = "relates_to"
    BY <2>1 DEF EdgeTo
  <2> QED BY <1>1, <2>2 DEF Sound, Seen
<1>6. CommandBase(s, ty2)'
  BY <1>3, <1>4, <1>5 DEF CommandBase, PlanOk, CountOk, TypesOk
<1>7. answered' \in [NodeIds -> Nat] /\ \A id \in NodeIds : answered[id] <= answered'[id]
  BY <1>1 DEF GraphInv, WriteThen
<1>8. /\ AddNode(NewNode(w.type, w.text, w.confidence)) /\ edges' = edges /\ Goes(p, s)
  BY <1>2 DEF WriteThen
<1> QED BY <1>0, <1>3, <1>6, <1>7, <1>8, NodeStep

LEMMA WriteRefsKeeps ==
  ASSUME NEW ty, BrainTyped(ty), NEW p \in Processes, WriteRefs(p)
  PROVE  BrainInv'
<1>1. PICK s : s = proc[p]
  OBVIOUS
<1>2. /\ GraphInv(ty) /\ CommandBase(s, ty) /\ DOMAIN s = Fields /\ s.pc = "refs" /\ ~s.alone
  BY <1>1, CommandOf DEF WriteRefs, Continues
<1>3. UNCHANGED <<nodes, lastNode, answered>>
  BY DEF WriteRefs
<1>4. ASSUME NEW e \in s.pending, edges' = WithEdge(e.source, e.target, e.type),
             GoesWriting(p, [s EXCEPT !.pending = @ \ {e}], {e})
      PROVE  BrainInv'
  <2>1. PICK d : d = [s EXCEPT !.pending = @ \ {e}]
    OBVIOUS
  <2>2. /\ DOMAIN d = Fields /\ d.pc = "refs" /\ d.plan = s.plan /\ d.id = s.id /\ ~d.alone
        /\ d.pending \subseteq s.pending
    BY <1>2, <2>1 DEF Fields
  <2>3. CommandBase(d, ty)
    BY <1>2, <2>2 DEF CommandBase, PlanOk, CountOk, TypesOk
  <2>4. Sound(e, ty)
    BY <1>2 DEF CommandBase, TypesOk
  <2>5. Sound([source |-> e.source, target |-> e.target, type |-> e.type], ty)
    BY <2>4 DEF Sound
  <2>6. GoesWriting(p, d, {e})
    BY <1>4, <2>1
  <2> QED BY <1>3, <1>4, <2>2, <2>3, <2>5, <2>6, EdgeStep
<1>5. ASSUME Goes(p, Proceeds(s)), UNCHANGED edges
      PROVE  BrainInv'
  <2>1. CommandInv(Proceeds(s), ty)
    BY <1>2, Resumed
  <2>2. PICK d : d = Proceeds(s)
    OBVIOUS
  <2> QED BY <1>3, <1>5, <2>1, <2>2, QuietStep DEF graphVars
<1> QED BY <1>1, <1>4, <1>5 DEF WriteRefs

LEMMA LinkKeeps ==
  ASSUME NEW ty, BrainTyped(ty), NEW p \in Processes, NEW source \in Seen, NEW target \in Seen,
         Link(p, source, target, "relates_to")
  PROVE  BrainInv'
<1>1. CommandBase(NoCommand, ty) /\ ~NoCommand.alone
  BY NoCommandInv DEF CommandInv, NoCommand
<1>2. Sound([source |-> source, target |-> target, type |-> "relates_to"], ty)
  BY DEF Sound, Seen
<1>3. PICK s : s = NoCommand
  OBVIOUS
<1>4. PICK written : written = {EdgeTo(source, target, "relates_to")}
  OBVIOUS
<1>5. GoesWriting(p, s, written) /\ CommandBase(s, ty) /\ ~s.alone
  BY <1>1, <1>3, <1>4 DEF Link
<1> QED BY <1>2, <1>5, EdgeStep DEF Link

LEMMA LinkNodeKeeps ==
  ASSUME NEW ty, BrainTyped(ty), NEW p \in Processes, LinkNode(p)
  PROVE  BrainInv'
<1>1. PICK s : s = proc[p]
  OBVIOUS
<1>2. /\ GraphInv(ty) /\ CommandBase(s, ty) /\ DOMAIN s = Fields /\ s.pc = "linking" /\ ~s.alone
  BY <1>1, CommandOf DEF LinkNode, Continues
<1>3. UNCHANGED <<graphVars, answered>>
  BY DEF LinkNode
<1>4. CASE ~Stored(s.id)
  <2>1. PICK d : d = Proceeds(s)
    OBVIOUS
  <2>2. Goes(p, d) /\ CommandInv(d, ty)
    BY <1>1, <1>2, <1>4, <2>1, Resumed DEF LinkNode
  <2> QED BY <1>3, <2>2, QuietStep
<1>5. CASE Stored(s.id)
  <2> DEFINE related == {x \in Rows \ {s.id} : Related(s.id, x)}
             linked(x) == EdgeTo(s.id, x, InferEdgeType(nodes[s.id].type, nodes[x].type))
  <2>1. PICK d : d = [s EXCEPT !.pc = "link", !.pending = {linked(x) : x \in related}]
    OBVIOUS
  <2>2. Goes(p, d)
    BY <1>1, <1>5, <2>1 DEF LinkNode
  <2>3. /\ DOMAIN d = Fields /\ d.pc = "link" /\ d.plan = s.plan /\ d.id = s.id /\ ~d.alone
        /\ d.pending = {linked(x) : x \in related}
    BY <1>2, <2>1 DEF Fields
  <2>4. \A x \in related : Sound(linked(x), ty)
    <3> TAKE x \in related
    <3>1. x \in Rows /\ s.id \in Rows
      BY <1>5 DEF Stored, Rows
    <3>2. /\ x \in 1..lastNode /\ s.id \in 1..lastNode
          /\ nodes[x].type = ty[x] /\ nodes[s.id].type = ty[s.id]
      BY <1>2, <3>1, GraphBounds DEF GraphInv, Rows, NodeIds
    <3>3. InferEdgeType(ty[s.id], ty[x]) = "solves" => {ty[s.id], ty[x]} = {"problem", "solution"}
      BY DEF InferEdgeType
    <3> QED BY <3>2, <3>3 DEF Sound, EdgeTo
  <2> HIDE DEF related, linked
  <2>5. \A e \in d.pending : Sound(e, ty)
    BY <2>3, <2>4
  <2>6. CommandBase(d, ty)
    BY <1>2, <2>3, <2>5 DEF CommandBase, PlanOk, CountOk, TypesOk
  <2>7. CommandInv(d, ty)
    BY <2>3, <2>6 DEF CommandInv, SweepOk
  <2> QED BY <1>3, <2>2, <2>7, QuietStep
<1> QED BY <1>4, <1>5

LEMMA LinkCheckKeeps ==
  ASSUME NEW ty, BrainTyped(ty), NEW p \in Processes, LinkCheck(p)
  PROVE  BrainInv'
<1> DEFINE x == Newest({e.target : e \in proc[p].pending})
<1>1. PICK s : s = proc[p]
  OBVIOUS
<1>2. /\ GraphInv(ty) /\ CommandBase(s, ty) /\ DOMAIN s = Fields /\ s.pc = "link" /\ ~s.alone
  BY <1>1, CommandOf DEF LinkCheck, Continues
<1>3. PICK d : /\ Goes(p, d)
               /\ \/ d = Proceeds(s)
                  \/ d = [s EXCEPT !.pending = {e \in @ : e.target # x}]
                  \/ d = [s EXCEPT !.pc = "join", !.other = x]
  BY <1>1 DEF LinkCheck
<1>4. CASE d = Proceeds(s)
  <2>1. CommandInv(d, ty)
    BY <1>2, <1>4, Resumed
  <2> QED BY <1>3, <2>1, QuietStep DEF LinkCheck
<1>5. CASE d \in {[s EXCEPT !.pending = {e \in @ : e.target # x}],
                 [s EXCEPT !.pc = "join", !.other = x]}
  <2>1. /\ DOMAIN d = Fields /\ d.pc \in {"link", "join"} /\ d.plan = s.plan /\ d.id = s.id
        /\ ~d.alone /\ d.pending \subseteq s.pending
    BY <1>2, <1>5 DEF Fields
  <2>2. CommandBase(d, ty)
    BY <1>2, <2>1 DEF CommandBase, PlanOk, CountOk, TypesOk
  <2>3. CommandInv(d, ty)
    BY <2>1, <2>2 DEF CommandInv, SweepOk
  <2> QED BY <1>3, <2>3, QuietStep DEF LinkCheck
<1> QED BY <1>3, <1>4, <1>5

LEMMA LinkJoinKeeps ==
  ASSUME NEW ty, BrainTyped(ty), NEW p \in Processes, LinkJoin(p)
  PROVE  BrainInv'
<1>1. PICK s : s = proc[p]
  OBVIOUS
<1>2. /\ GraphInv(ty) /\ CommandBase(s, ty) /\ DOMAIN s = Fields /\ s.pc = "join" /\ ~s.alone
  BY <1>1, CommandOf DEF LinkJoin, Continues
<1>3. PICK e \in s.pending : /\ edges' = WithEdge(e.source, e.target, e.type)
                             /\ GoesWriting(p, [s EXCEPT !.pc = "link", !.pending = @ \ {e}], {e})
  BY <1>1 DEF LinkJoin
<1>4. PICK d : d = [s EXCEPT !.pc = "link", !.pending = @ \ {e}]
  OBVIOUS
<1>5. /\ DOMAIN d = Fields /\ d.pc = "link" /\ d.plan = s.plan /\ d.id = s.id /\ ~d.alone
      /\ d.pending \subseteq s.pending
  BY <1>2, <1>4 DEF Fields
<1>6. CommandBase(d, ty)
  BY <1>2, <1>5 DEF CommandBase, PlanOk, CountOk, TypesOk
<1>7. Sound(e, ty)
  BY <1>2 DEF CommandBase, TypesOk
<1>8. Sound([source |-> e.source, target |-> e.target, type |-> e.type], ty)
  BY <1>7 DEF Sound
<1>9. GoesWriting(p, d, {e})
  BY <1>3, <1>4
<1> QED BY <1>3, <1>5, <1>6, <1>8, <1>9, EdgeStep DEF LinkJoin

-----------------------------------------------------------------------------
\* A problem and its solutions.
LEMMA ProblemKeeps ==
  ASSUME NEW ty, BrainTyped(ty), NEW p \in Processes, NEW text, NEW solved \in BOOLEAN,
         Problem(p, text, solved)
  PROVE  BrainInv'
<1>0. PICK ty2 : ty2 = [id \in NodeIds |-> IF id = lastNode + 1 THEN "problem" ELSE ty[id]]
  OBVIOUS
<1>1. lastNode \in Nat /\ lastNode' = lastNode + 1 /\ GraphInv(ty) /\ lastNode + 1 \in NodeIds
  BY GraphBounds DEF BrainTyped, Problem, AddNode, NodeIds
<1>2. PICK s : s = [NoCommand EXCEPT
           !.pc = "linking", !.id = lastNode + 1, !.outcome = "unknown",
           !.plan = IF solved THEN <<"solve", "answer", "attach", "count", "tie">> ELSE <<>>]
  OBVIOUS
<1>3. /\ DOMAIN s = Fields /\ s.pc = "linking" /\ ~s.alone /\ s.id = lastNode + 1
      /\ s.plan \in {<<>>, <<"solve", "answer", "attach", "count", "tie">>} /\ s.pending = {}
  BY <1>2 DEF NoCommand, Fields
<1>4. s.id \in 1..lastNode' /\ ty2[s.id] = "problem"
  BY <1>0, <1>1, <1>3
<1>5. CommandBase(s, ty2)'
  BY <1>3, <1>4 DEF CommandBase, PlanOk, CountOk, TypesOk
<1>6. answered' \in [NodeIds -> Nat] /\ \A id \in NodeIds : answered[id] <= answered'[id]
  BY <1>1 DEF GraphInv, Problem
<1>7. AddNode(NewNode("problem", text, 10)) /\ edges' = edges /\ Goes(p, s)
  BY <1>2 DEF Problem
<1> QED BY <1>0, <1>3, <1>5, <1>6, <1>7, NodeStep

LEMMA SolveKeeps ==
  ASSUME NEW ty, BrainTyped(ty), NEW p \in Processes, NEW id \in Rows, NEW outcome,
         nodes[id].type = "problem", Solve(p, id, outcome)
  PROVE  BrainInv'
<1>1. GraphInv(ty)
  BY DEF BrainTyped
<1>2. PICK s : s = [NoCommand EXCEPT !.pc = "solve", !.id = id, !.outcome = outcome,
                                     !.plan = <<"answer", "attach", "count">>]
  OBVIOUS
<1>3. /\ DOMAIN s = Fields /\ s.pc = "solve" /\ ~s.alone /\ s.id = id
      /\ s.plan = <<"answer", "attach", "count">> /\ s.pending = {}
  BY <1>2 DEF NoCommand, Fields
<1>4. id \in 1..lastNode /\ ty[id] = "problem"
  BY <1>1, GraphBounds DEF GraphInv, Rows, NodeIds
<1>5. CommandBase(s, ty)
  BY <1>3, <1>4 DEF CommandBase, PlanOk, CountOk, TypesOk
<1>6. CommandInv(s, ty)
  BY <1>3, <1>5 DEF CommandInv, SweepOk
<1>7. Goes(p, s)
  BY <1>2 DEF Solve
<1> QED BY <1>6, <1>7, QuietStep DEF Solve

LEMMA SolveReadKeeps ==
  ASSUME NEW ty, BrainTyped(ty), NEW p \in Processes, SolveRead(p)
  PROVE  BrainInv'
<1>1. PICK s : s = proc[p]
  OBVIOUS
<1>2. /\ GraphInv(ty) /\ CommandBase(s, ty) /\ DOMAIN s = Fields /\ s.pc = "solve" /\ ~s.alone
  BY <1>1, CommandOf DEF SolveRead, Continues
<1>3. CASE Stored(s.id)
  <2>1. PICK c : c = [s EXCEPT !.count = nodes[s.id].count]
    OBVIOUS
  <2>2. /\ DOMAIN c = Fields /\ c.plan = s.plan /\ c.id = s.id /\ c.pending = s.pending
        /\ ~c.alone /\ c.count = nodes[s.id].count
    BY <1>2, <2>1 DEF Fields
  <2>3. s.plan \in {<<"answer", "attach", "count">>, <<"answer", "attach", "count", "tie">>}
    BY <1>2 DEF CommandBase, PlanOk
  <2>4. PICK d : d = Proceeds(c)
    OBVIOUS
  <2>5. /\ DOMAIN d = Fields /\ d.pc = Head(c.plan) /\ d.plan = Tail(c.plan) /\ d.id = s.id
        /\ d.pending = s.pending /\ ~d.alone /\ d.count = nodes[s.id].count
    BY <2>2, <2>3, <2>4, ProceedsTo, PlanHeads
  <2>6. d.pc = "answer" /\ d.plan \in {<<"attach", "count">>, <<"attach", "count", "tie">>}
    BY <2>2, <2>3, <2>5, PlanHeads
  <2>7. CountOk(d)
    BY <1>2, <1>3, <2>5, <2>6 DEF CountOk, GraphInv, Stored
  <2>8. CommandBase(d, ty)
    BY <1>2, <2>5, <2>6, <2>7 DEF CommandBase, PlanOk, TypesOk
  <2>9. CommandInv(d, ty)
    BY <2>5, <2>6, <2>8 DEF CommandInv, SweepOk
  <2>10. Goes(p, d)
    BY <1>1, <1>3, <2>1, <2>4 DEF SolveRead
  <2> QED BY <2>9, <2>10, QuietStep DEF SolveRead
<1>4. CASE ~Stored(s.id)
  <2>1. Goes(p, NoCommand)
    BY <1>1, <1>4 DEF SolveRead
  <2>2. PICK d : d = NoCommand
    OBVIOUS
  <2> QED BY <2>1, <2>2, NoCommandInv, QuietStep DEF SolveRead
<1> QED BY <1>3, <1>4

LEMMA SolveAnswerKeeps ==
  ASSUME NEW ty, BrainTyped(ty), NEW p \in Processes, NEW text, SolveAnswer(p, text)
  PROVE  BrainInv'
<1>0. PICK ty2 : ty2 = [id \in NodeIds |-> IF id = lastNode + 1 THEN "solution" ELSE ty[id]]
  OBVIOUS
<1>1. /\ lastNode \in Nat /\ lastNode' = lastNode + 1 /\ GraphInv(ty) /\ lastNode + 1 \in NodeIds
      /\ \A x \in 1..lastNode : x \in NodeIds
  BY GraphBounds DEF BrainTyped, SolveAnswer, AddNode, NodeIds
<1>2. PICK s : s = proc[p]
  OBVIOUS
<1>3. /\ CommandBase(s, ty) /\ DOMAIN s = Fields /\ s.pc = "answer" /\ ~s.alone
  BY <1>2, CommandOf DEF SolveAnswer, Continues
<1>4. PICK c : c = [s EXCEPT !.other = lastNode + 1]
  OBVIOUS
<1>5. /\ DOMAIN c = Fields /\ c.plan = s.plan /\ c.id = s.id /\ c.pending = s.pending
      /\ ~c.alone /\ c.count = s.count /\ c.other = lastNode + 1
  BY <1>3, <1>4 DEF Fields
<1>6. s.plan \in {<<"attach", "count">>, <<"attach", "count", "tie">>}
  BY <1>3 DEF CommandBase, PlanOk
<1>7. PICK d : d = Proceeds(c)
  OBVIOUS
<1>8. /\ DOMAIN d = Fields /\ d.pc = Head(c.plan) /\ d.plan = Tail(c.plan) /\ d.id = s.id
      /\ d.pending = s.pending /\ ~d.alone /\ d.count = s.count /\ d.other = lastNode + 1
  BY <1>5, <1>6, <1>7, ProceedsTo, PlanHeads
<1>9. d.pc = "attach" /\ d.plan \in {<<"count">>, <<"count", "tie">>}
  BY <1>5, <1>6, <1>8, PlanHeads
<1>10. /\ s.id \in 1..lastNode /\ ty[s.id] = "problem" /\ s.id \in NodeIds
       /\ s.count \in Nat /\ s.count <= answered[s.id]
  BY <1>3 DEF CommandBase, TypesOk, CountOk
<1>11. /\ answered' \in [NodeIds -> Nat]
       /\ \A id \in NodeIds : answered[id] <= answered'[id]
       /\ answered'[s.id] = answered[s.id] + 1
  <2>1. answered' = [answered EXCEPT ![s.id] = @ + 1] /\ answered \in [NodeIds -> Nat]
    BY <1>1, <1>2 DEF SolveAnswer, GraphInv
  <2> QED BY <1>10, <2>1
<1>12. CountOk(d)'
  <2>1. answered[s.id] \in Nat
    BY <1>1, <1>10 DEF GraphInv
  <2>2. s.count + 1 <= answered'[s.id]
    BY <1>10, <1>11, <2>1
  <2> QED BY <1>8, <1>9, <1>10, <2>2 DEF CountOk
<1>13. \A e \in s.pending : Sound(e, ty2)'
  <2> TAKE e \in s.pending
  <2>1. Sound(e, ty)
    BY <1>3 DEF CommandBase, TypesOk
  <2>2. ty2[e.source] = ty[e.source] /\ ty2[e.target] = ty[e.target]
    BY <1>0, <1>1, <2>1 DEF Sound
  <2> QED BY <1>1, <2>1, <2>2 DEF Sound
<1>14. /\ d.id \in 1..lastNode' /\ ty2[d.id] = "problem"
       /\ d.other \in 1..lastNode' /\ ty2[d.other] = "solution"
  BY <1>0, <1>1, <1>8, <1>10
<1>15. TypesOk(d, ty2)'
  BY <1>8, <1>9, <1>13, <1>14 DEF TypesOk
<1>16. CommandBase(d, ty2)'
  BY <1>8, <1>9, <1>12, <1>15 DEF CommandBase, PlanOk
<1>17. AddNode(NewNode("solution", text, 8)) /\ edges' = edges /\ Goes(p, d)
  BY <1>2, <1>4, <1>7 DEF SolveAnswer
<1> QED BY <1>0, <1>8, <1>11, <1>16, <1>17, NodeStep

\* The SOLVES edge, written by write_solution and by the command.
LEMMA AddSolvesKeeps ==
  ASSUME NEW ty, BrainTyped(ty), NEW p \in Processes, NEW pc \in {"attach", "tie"},
         Continues(p, pc), AddSolves(p)
  PROVE  BrainInv'
<1>1. PICK s : s = proc[p]
  OBVIOUS
<1>2. /\ GraphInv(ty) /\ CommandBase(s, ty) /\ DOMAIN s = Fields /\ s.pc = pc /\ ~s.alone
  BY <1>1, CommandOf DEF Continues
<1>3. PICK d : d = Proceeds(s)
  OBVIOUS
<1>4. /\ s.id \in 1..lastNode /\ ty[s.id] = "problem"
      /\ s.other \in 1..lastNode /\ ty[s.other] = "solution"
  BY <1>2 DEF CommandBase, TypesOk
<1>5. Sound([source |-> s.other, target |-> s.id, type |-> "solves"], ty)
  BY <1>4 DEF Sound
<1>6. PICK written : written = {EdgeTo(s.other, s.id, "solves")}
  OBVIOUS
<1>7. /\ edges' = WithEdge(s.other, s.id, "solves") /\ GoesWriting(p, d, written)
      /\ UNCHANGED <<nodes, lastNode, answered>>
  BY <1>1, <1>3, <1>6 DEF AddSolves, EdgeTo
<1>8. CommandBase(d, ty) /\ ~d.alone
  <2>1. CASE pc = "tie"
    <3>1. d = NoCommand
      BY <1>2, <1>3, <2>1 DEF CommandBase, PlanOk, Proceeds
    <3> QED BY <3>1, NoCommandInv DEF CommandInv, NoCommand
  <2>2. CASE pc = "attach"
    <3>1. s.plan \in {<<"count">>, <<"count", "tie">>}
      BY <1>2, <2>2 DEF CommandBase, PlanOk
    <3>2. /\ DOMAIN d = Fields /\ d.pc = Head(s.plan) /\ d.plan = Tail(s.plan) /\ d.id = s.id
          /\ d.other = s.other /\ d.pending = s.pending /\ ~d.alone /\ d.count = s.count
      BY <1>2, <1>3, <3>1, ProceedsTo, PlanHeads
    <3>3. d.pc = "count" /\ d.plan \in {<<>>, <<"tie">>}
      BY <3>1, <3>2, PlanHeads
    <3>4. CountOk(d)
      BY <1>2, <2>2, <3>2, <3>3 DEF CommandBase, CountOk
    <3> QED BY <1>2, <1>4, <3>2, <3>3, <3>4 DEF CommandBase, PlanOk, TypesOk
  <2> QED BY <2>1, <2>2
<1> QED BY <1>5, <1>7, <1>8, EdgeStep

LEMMA SolveCountKeeps ==
  ASSUME NEW ty, BrainTyped(ty), NEW p \in Processes, SolveCount(p)
  PROVE  BrainInv'
<1>1. PICK s : s = proc[p]
  OBVIOUS
<1>2. /\ GraphInv(ty) /\ CommandBase(s, ty) /\ DOMAIN s = Fields /\ s.pc = "count" /\ ~s.alone
  BY <1>1, CommandOf DEF SolveCount, Continues
<1>3. PICK d : d = Proceeds(s)
  OBVIOUS
<1>4. /\ Goes(p, d) /\ UNCHANGED <<edges, lastNode, answered>>
      /\ UpdateNode(s.id, [nodes[s.id] EXCEPT !.solved = s.outcome = "success",
                                              !.count = s.count + 1])
  BY <1>1, <1>3 DEF SolveCount
<1>5. CommandBase(d, ty) /\ ~d.alone
  <2>1. CASE s.plan = <<>>
    <3>1. d = NoCommand
      BY <1>3, <2>1 DEF Proceeds
    <3> QED BY <3>1, NoCommandInv DEF CommandInv, NoCommand
  <2>2. CASE s.plan = <<"tie">>
    <3>1. /\ DOMAIN d = Fields /\ d.pc = "tie" /\ d.plan = <<>> /\ d.id = s.id
          /\ d.other = s.other /\ d.pending = s.pending /\ ~d.alone
      BY <1>2, <1>3, <2>2, ProceedsTo, PlanHeads
    <3> QED BY <1>2, <3>1 DEF CommandBase, PlanOk, CountOk, TypesOk
  <2> QED BY <1>2, <2>1, <2>2 DEF CommandBase, PlanOk
<1>6. CASE Stored(s.id)
  <2>1. PICK node : node = [nodes[s.id] EXCEPT !.solved = s.outcome = "success",
                                               !.count = s.count + 1]
    OBVIOUS
  <2>2. nodes' = [nodes EXCEPT ![s.id] = node] /\ nodes'[s.id] = node
    BY <1>2, <1>4, <1>6, <2>1 DEF UpdateNode, GraphInv, Stored
  <2>3. DOMAIN nodes[s.id] = NodeFields /\ nodes[s.id] # None
    BY <1>2, <1>6 DEF GraphInv, Stored
  <2>4. DOMAIN node = NodeFields /\ node.type = nodes[s.id].type /\ node.count = s.count + 1
    BY <2>1, <2>3 DEF NodeFields
  <2>5. s.count + 1 \in Nat /\ s.count + 1 <= answered[s.id]
    BY <1>2 DEF CommandBase, CountOk
  <2>6. nodes' = [nodes EXCEPT ![s.id] = nodes'[s.id]]
    BY <2>2
  <2>7. /\ nodes[s.id] # None
        /\ DOMAIN nodes'[s.id] = NodeFields
        /\ nodes'[s.id].type = nodes[s.id].type
        /\ nodes'[s.id].count \in Nat /\ nodes'[s.id].count <= answered[s.id]
    BY <2>2, <2>3, <2>4, <2>5
  <2>8. edges' \subseteq edges /\ UNCHANGED <<lastNode, answered>> /\ Goes(p, d)
    BY <1>4
  <2>9. PICK id : id = s.id
    OBVIOUS
  <2> QED BY <1>5, <2>6, <2>7, <2>8, <2>9, ChangeStep
<1>7. CASE ~Stored(s.id)
  <2>1. nodes' = nodes
    BY <1>4, <1>7 DEF UpdateNode
  <2>2. CommandInv(d, ty)
    <3>1. d.pc \notin {"sweep", "swept"}
      BY <1>2, <1>3, NoCommandInv, ProceedsTo, PlanHeads DEF CommandBase, PlanOk, Proceeds, NoCommand
    <3> QED BY <1>5 DEF CommandInv, SweepOk
  <2> QED BY <1>4, <2>1, <2>2, QuietStep DEF graphVars
<1> QED BY <1>6, <1>7

-----------------------------------------------------------------------------
\* The maintenance.
LEMMA MaintainKeeps ==
  ASSUME NEW ty, BrainTyped(ty), NEW p \in Processes, NEW m, NEW oldest, Maintain(p, m, oldest)
  PROVE  BrainInv'
<1>1. PICK ids : Goes(p, [NoCommand EXCEPT !.pc = "prune", !.ids = ids])
  BY DEF Maintain
<1>2. PICK d : d = [NoCommand EXCEPT !.pc = "prune", !.ids = ids]
  OBVIOUS
<1>3. DOMAIN d = Fields /\ d.pc = "prune" /\ d.plan = <<>> /\ d.pending = {} /\ ~d.alone
  BY <1>2 DEF NoCommand, Fields
<1>4. CommandInv(d, ty)
  BY <1>3, FullPlanIsLong DEF CommandInv, CommandBase, PlanOk, CountOk, TypesOk, SweepOk
<1> QED BY <1>1, <1>2, <1>4, QuietStep DEF Maintain

\* The prune goes on to the next node, whether this one is deleted or not.
LEMMA NextPruned ==
  ASSUME NEW ty, BrainTyped(ty), NEW p \in Processes, NEW s, CommandBase(s, ty), s.pc = "prune",
         ~s.alone, NEW id, DeleteNode(id) \/ DeleteNodeRaises(id),
         Goes(p, [s EXCEPT !.ids = @ \ {id}]), UNCHANGED <<lastNode, answered>>
  PROVE  BrainInv'
<1>1. PICK d : d = [s EXCEPT !.ids = @ \ {id}]
  OBVIOUS
<1>2. DOMAIN s = Fields
  BY DEF CommandBase
<1>3. /\ DOMAIN d = Fields /\ d.pc = "prune" /\ d.plan = s.plan /\ d.id = s.id
      /\ d.pending = s.pending
      /\ ~d.alone
  BY <1>1, <1>2 DEF Fields
<1>4. CommandBase(d, ty) /\ Goes(p, d)
  BY <1>1, <1>3 DEF CommandBase, PlanOk, CountOk, TypesOk
<1> QED BY <1>3, <1>4, DeleteStep

LEMMA PruneRaisesKeeps ==
  ASSUME NEW ty, BrainTyped(ty), NEW p \in Processes, PruneRaises(p)
  PROVE  BrainInv'
<1>1. PICK s : s = proc[p]
  OBVIOUS
<1>2. PICK id : id = Newest(s.ids)
  OBVIOUS
<1>3. CommandBase(s, ty) /\ s.pc = "prune" /\ ~s.alone
  BY <1>1, CommandOf DEF PruneRaises, Raises
<1>4. /\ DeleteNodeRaises(id) /\ Goes(p, [s EXCEPT !.ids = @ \ {id}])
      /\ UNCHANGED <<lastNode, answered>>
  BY <1>1, <1>2 DEF PruneRaises
<1> QED BY <1>3, <1>4, NextPruned

LEMMA PruneKeeps ==
  ASSUME NEW ty, BrainTyped(ty), NEW p \in Processes, Prune(p)
  PROVE  BrainInv'
<1>1. PICK s : s = proc[p]
  OBVIOUS
<1>2. /\ GraphInv(ty) /\ CommandBase(s, ty) /\ DOMAIN s = Fields /\ s.pc = "prune" /\ ~s.alone
  BY <1>1, CommandOf DEF Prune, Continues
<1>3. ASSUME NEW id, DeleteNode(id), Goes(p, [s EXCEPT !.ids = @ \ {id}])
      PROVE  BrainInv'
  <2>1. UNCHANGED <<lastNode, answered>>
    BY DEF Prune
  <2> QED BY <1>1, <1>2, <1>3, <2>1, NextPruned
<1>4. ASSUME Goes(p, [NoCommand EXCEPT !.pc = "merge", !.rows = nodes, !.a = MaxNodes + 1]),
             UNCHANGED <<nodes, edges>>
      PROVE  BrainInv'
  <2>1. PICK d : d = [NoCommand EXCEPT !.pc = "merge", !.rows = nodes, !.a = MaxNodes + 1]
    OBVIOUS
  <2>2. /\ DOMAIN d = Fields /\ d.pc = "merge" /\ d.plan = <<>> /\ d.pending = {} /\ ~d.alone
        /\ d.rows = nodes /\ d.a = MaxNodes + 1 /\ d.b = 0
    BY <2>1 DEF NoCommand, Fields
  <2>3. \A x \in NodeIds : d.rows[x] # None => x <= lastNode /\ d.rows[x].type = ty[x]
    BY <1>2, <2>2 DEF GraphInv
  <2>4. d.a \in 1..(MaxNodes + 1)
    BY <2>2, NeuralGraphAssumption
  <2>5. CommandInv(d, ty)
    BY <2>2, <2>3, <2>4, FullPlanIsLong DEF CommandInv, CommandBase, PlanOk, CountOk, TypesOk, SweepOk
  <2>6. Goes(p, d) /\ UNCHANGED <<graphVars, answered>>
    BY <1>4, <2>1 DEF Prune, graphVars
  <2> QED BY <2>5, <2>6, QuietStep
<1> QED BY <1>1, <1>3, <1>4 DEF Prune

LEMMA MergeLoopKeeps ==
  ASSUME NEW ty, BrainTyped(ty), NEW p \in Processes, MergeLoop(p)
  PROVE  BrainInv'
<1>1. PICK s : s = proc[p]
  OBVIOUS
<1>2. /\ GraphInv(ty) /\ CommandBase(s, ty) /\ DOMAIN s = Fields /\ s.pc = "merge" /\ ~s.alone
  BY <1>1, CommandOf DEF MergeLoop, Continues
<1>3. UNCHANGED <<graphVars, answered>>
  BY DEF MergeLoop
<1>4. PICK next : next = After(s, s.a)
  OBVIOUS
<1>5. PICK skips : skips = s.visited \cup {s.a}
  OBVIOUS
<1>6. CASE next = 0
  <2>1. PICK d : d = [NoCommand EXCEPT !.pc = "orphans", !.ids = Rows]
    OBVIOUS
  <2>2. DOMAIN d = Fields /\ d.pc = "orphans" /\ d.plan = <<>> /\ d.pending = {} /\ ~d.alone
    BY <2>1 DEF NoCommand, Fields
  <2>3. CommandInv(d, ty)
    BY <2>2, FullPlanIsLong DEF CommandInv, CommandBase, PlanOk, CountOk, TypesOk, SweepOk
  <2>4. Goes(p, d)
    BY <1>1, <1>4, <1>6, <2>1 DEF MergeLoop
  <2> QED BY <1>3, <2>3, <2>4, QuietStep
<1>7. CASE next # 0
  <2>1. PICK d : d = [s EXCEPT !.visited = skips, !.a = next,
                               !.b = IF next \in skips THEN 0 ELSE After(s, next)]
    OBVIOUS
  <2>2. /\ DOMAIN d = Fields /\ d.pc = "merge" /\ d.plan = s.plan /\ d.id = s.id
        /\ d.pending = s.pending
        /\ ~d.alone /\ d.rows = s.rows /\ d.a = next /\ d.b \in {0, After(s, next)}
    BY <1>2, <2>1 DEF Fields
  <2>3. /\ s.a \in 1..(MaxNodes + 1)
        /\ \A x \in NodeIds : s.rows[x] # None => x <= lastNode /\ s.rows[x].type = ty[x]
    BY <1>2 DEF CommandBase, TypesOk
  <2>4. Listed(s, next)
    BY <1>4, <1>7, <2>3, AfterIsListed
  <2>5. next \in 1..(MaxNodes + 1)
    BY <2>4, NeuralGraphAssumption DEF Listed, NodeIds
  <2>6. d.b # 0 => Listed(s, d.b)
    BY <2>2, <2>5, AfterIsListed
  <2>7. \A x : Listed(d, x) <=> Listed(s, x)
    BY <2>2 DEF Listed
  <2>8. TypesOk(d, ty)
    BY <1>2, <2>2, <2>3, <2>4, <2>5, <2>6, <2>7 DEF CommandBase, TypesOk
  <2>9. CommandInv(d, ty)
    BY <1>2, <2>2, <2>8 DEF CommandInv, CommandBase, PlanOk, CountOk, SweepOk
  <2>10. Goes(p, d)
    BY <1>1, <1>4, <1>5, <1>7, <2>1 DEF MergeLoop
  <2> QED BY <1>3, <2>9, <2>10, QuietStep
<1> QED BY <1>6, <1>7

\* The merge goes on to the next b, whatever has become of this one.
LEMMA NextPair ==
  ASSUME NEW ty, NEW s, CommandBase(s, ty), s.pc \in {"merge", "read", "move"}, s.b # 0, NEW d,
         DOMAIN d = Fields, d.pc = "merge", d.plan = s.plan, d.rows = s.rows, d.a = s.a,
         d.b = After(s, s.b), d.pending \subseteq s.pending
  PROVE  CommandBase(d, ty)
<1>1. /\ Listed(s, s.a) /\ Listed(s, s.b) /\ s.a \in 1..(MaxNodes + 1)
      /\ \A x \in NodeIds : s.rows[x] # None => x <= lastNode /\ s.rows[x].type = ty[x]
  BY DEF CommandBase, TypesOk
<1>2. s.b \in 1..(MaxNodes + 1)
  BY <1>1, NeuralGraphAssumption DEF Listed, NodeIds
<1>3. d.b # 0 => Listed(s, d.b)
  BY <1>2, AfterIsListed
<1>4. \A x : Listed(d, x) <=> Listed(s, x)
  BY DEF Listed
<1>5. d.plan = <<>> /\ d.plan # <<"solve", "answer", "attach", "count", "tie">>
  BY FullPlanIsLong DEF CommandBase, PlanOk
<1>6. \A e \in d.pending : Sound(e, ty)
  BY DEF CommandBase, TypesOk
<1>7. TypesOk(d, ty)
  BY <1>1, <1>3, <1>4, <1>5, <1>6 DEF TypesOk
<1> QED BY <1>5, <1>7 DEF CommandBase, PlanOk, CountOk

LEMMA MergePairKeeps ==
  ASSUME NEW ty, BrainTyped(ty), NEW p \in Processes, MergePair(p)
  PROVE  BrainInv'
<1>1. PICK s : s = proc[p]
  OBVIOUS
<1>2. /\ GraphInv(ty) /\ CommandBase(s, ty) /\ DOMAIN s = Fields /\ s.pc = "merge" /\ ~s.alone
      /\ s.b # 0 /\ UNCHANGED <<edges, lastNode, answered>>
  BY <1>1, CommandOf DEF MergePair, Continues
<1>3. /\ Listed(s, s.a) /\ Listed(s, s.b) /\ s.a \in 1..(MaxNodes + 1)
      /\ \A x \in NodeIds : s.rows[x] # None => x <= lastNode /\ s.rows[x].type = ty[x]
  BY <1>2 DEF CommandBase, TypesOk
<1>4. ASSUME NEW kept, NEW text, NEW confidence, Duplicates(s),
             UpdateNode(kept, [nodes[kept] EXCEPT !.text = text, !.confidence = confidence]),
             Goes(p, [s EXCEPT !.pc = "read"])
      PROVE  BrainInv'
  <2>1. PICK d : d = [s EXCEPT !.pc = "read"]
    OBVIOUS
  <2>2. /\ DOMAIN d = Fields /\ d.pc = "read" /\ d.plan = s.plan /\ d.id = s.id
        /\ d.pending = s.pending
        /\ ~d.alone /\ d.rows = s.rows /\ d.a = s.a /\ d.b = s.b
    BY <1>2, <2>1 DEF Fields
  <2>3. ty[s.a] = ty[s.b]
    BY <1>3, <1>4 DEF Duplicates, Listed
  <2>4. TypesOk(d, ty)
    BY <1>2, <1>3, <2>2, <2>3 DEF CommandBase, TypesOk, Listed
  <2>5. CommandBase(d, ty) /\ Goes(p, d)
    BY <1>2, <1>4, <2>1, <2>2, <2>4 DEF CommandBase, PlanOk, CountOk
  <2>6. CASE ~Stored(kept)
    <3>1. nodes' = nodes
      BY <1>4, <2>6 DEF UpdateNode
    <3>2. CommandInv(d, ty)
      BY <2>2, <2>5 DEF CommandInv, SweepOk
    <3> QED BY <1>2, <2>5, <3>1, <3>2, QuietStep DEF graphVars
  <2>7. CASE Stored(kept)
    <3>1. PICK node : node = [nodes[kept] EXCEPT !.text = text, !.confidence = confidence]
      OBVIOUS
    <3>2. nodes' = [nodes EXCEPT ![kept] = node] /\ nodes'[kept] = node
      BY <1>2, <1>4, <2>7, <3>1 DEF UpdateNode, GraphInv, Stored
    <3>3. /\ DOMAIN nodes[kept] = NodeFields /\ nodes[kept] # None
          /\ nodes[kept].count \in Nat /\ nodes[kept].count <= answered[kept]
      BY <1>2, <2>7 DEF GraphInv, Stored
    <3>4. /\ DOMAIN node = NodeFields /\ node.type = nodes[kept].type
          /\ node.count = nodes[kept].count
      BY <3>1, <3>3 DEF NodeFields
    <3>5. nodes' = [nodes EXCEPT ![kept] = nodes'[kept]]
      BY <3>2
    <3>6. /\ DOMAIN nodes'[kept] = NodeFields
          /\ nodes'[kept].type = nodes[kept].type
          /\ nodes'[kept].count \in Nat /\ nodes'[kept].count <= answered[kept]
      BY <3>2, <3>3, <3>4
    <3>7. edges' \subseteq edges
      BY <1>2
    <3> QED BY <1>2, <2>2, <2>5, <3>3, <3>5, <3>6, <3>7, ChangeStep
  <2> QED BY <2>6, <2>7
<1>5. ASSUME Goes(p, [s EXCEPT !.b = After(s, @)]), UNCHANGED nodes
      PROVE  BrainInv'
  <2>1. PICK d : d = [s EXCEPT !.b = After(s, @)]
    OBVIOUS
  <2>2. /\ DOMAIN d = Fields /\ d.pc = "merge" /\ d.plan = s.plan /\ d.pending = s.pending
        /\ ~d.alone /\ d.rows = s.rows /\ d.a = s.a /\ d.b = After(s, s.b)
    BY <1>2, <2>1 DEF Fields
  <2>3. CommandInv(d, ty) /\ Goes(p, d)
    BY <1>2, <1>5, <2>1, <2>2, NextPair DEF CommandInv, SweepOk
  <2> QED BY <1>2, <1>5, <2>3, QuietStep DEF graphVars
<1> QED BY <1>1, <1>4, <1>5 DEF MergePair, Merges

LEMMA MergeReadKeeps ==
  ASSUME NEW ty, BrainTyped(ty), NEW p \in Processes, MergeRead(p)
  PROVE  BrainInv'
<1>1. PICK s : s = proc[p]
  OBVIOUS
<1>2. /\ GraphInv(ty) /\ CommandBase(s, ty) /\ DOMAIN s = Fields /\ s.pc = "read" /\ ~s.alone
  BY <1>1, CommandOf DEF MergeRead, Continues
<1>3. PICK d : d = [s EXCEPT !.pc = "move", !.pending =
                      {e \in EdgesOf(Removed(s)) : OtherEnd(e, Removed(s)) # Kept(s)}]
  OBVIOUS
<1>4. /\ DOMAIN d = Fields /\ d.pc = "move" /\ d.plan = s.plan /\ d.id = s.id /\ ~d.alone
      /\ d.rows = s.rows /\ d.a = s.a /\ d.b = s.b
      /\ d.pending = {e \in EdgesOf(Removed(s)) : OtherEnd(e, Removed(s)) # Kept(s)}
  BY <1>2, <1>3 DEF Fields
<1>5. Removed(d) = Removed(s)
  BY <1>4 DEF Removed, Kept
<1>6. \A e \in d.pending : Sound(e, ty) /\ Removed(d) \in {e.source, e.target}
  BY <1>2, <1>4, <1>5 DEF EdgesOf, GraphInv
<1>7. TypesOk(d, ty)
  BY <1>2, <1>4, <1>6 DEF CommandBase, TypesOk, PlanOk, Listed
<1>8. CommandInv(d, ty)
  BY <1>2, <1>4, <1>7 DEF CommandInv, CommandBase, PlanOk, CountOk, SweepOk
<1>9. Goes(p, d) /\ UNCHANGED <<graphVars, answered>>
  BY <1>1, <1>3 DEF MergeRead
<1> QED BY <1>8, <1>9, QuietStep

LEMMA MergeMoveKeeps ==
  ASSUME NEW ty, BrainTyped(ty), NEW p \in Processes, MergeMove(p)
  PROVE  BrainInv'
<1>1. PICK s : s = proc[p]
  OBVIOUS
<1>2. /\ GraphInv(ty) /\ CommandBase(s, ty) /\ DOMAIN s = Fields /\ s.pc = "move" /\ ~s.alone
      /\ UNCHANGED <<lastNode, answered>>
  BY <1>1, CommandOf DEF MergeMove, Continues
<1>3. /\ Listed(s, s.a) /\ Listed(s, s.b) /\ s.a \in 1..(MaxNodes + 1) /\ ty[s.a] = ty[s.b]
      /\ \A x \in NodeIds : s.rows[x] # None => x <= lastNode /\ s.rows[x].type = ty[x]
      /\ \A e \in s.pending : Sound(e, ty) /\ Removed(s) \in {e.source, e.target}
  BY <1>2 DEF CommandBase, TypesOk
<1>4. ASSUME NEW e \in s.pending,
             edges' = WithEdge(Kept(s), OtherEnd(e, Removed(s)), e.type),
             NEW written, GoesWriting(p, [s EXCEPT !.pending = @ \ {e}], written),
             UNCHANGED nodes
      PROVE  BrainInv'
  <2>1. PICK d : d = [s EXCEPT !.pending = @ \ {e}]
    OBVIOUS
  <2>2. /\ DOMAIN d = Fields /\ d.pc = "move" /\ d.plan = s.plan /\ d.id = s.id /\ ~d.alone
        /\ d.rows = s.rows /\ d.a = s.a /\ d.b = s.b /\ d.pending \subseteq s.pending
    BY <1>2, <2>1 DEF Fields
  <2>3. Removed(d) = Removed(s)
    BY <2>2 DEF Removed, Kept
  <2>4. TypesOk(d, ty)
    BY <1>2, <2>2, <2>3 DEF CommandBase, TypesOk, PlanOk, Listed
  <2>5. CommandBase(d, ty)
    BY <1>2, <2>2, <2>4 DEF CommandBase, PlanOk, CountOk
  <2>6. PICK kept, removed, other :
          kept = Kept(s) /\ removed = Removed(s) /\ other = OtherEnd(e, removed)
    OBVIOUS
  <2>7. /\ kept \in 1..lastNode /\ ty[kept] = ty[removed]
    <3>1. s.a \in 1..lastNode /\ s.b \in 1..lastNode
      BY <1>2, <1>3, GraphBounds DEF Listed, NodeIds
    <3> QED BY <1>3, <2>6, <3>1 DEF Kept, Removed
  <2>8. /\ other \in 1..lastNode
        /\ e.type = "solves" => {ty[removed], ty[other]} = {"problem", "solution"}
    BY <1>3, <2>6 DEF OtherEnd, Sound
  <2>9. Sound([source |-> kept, target |-> other, type |-> e.type], ty)
    BY <2>7, <2>8 DEF Sound
  <2>10. edges' = WithEdge(kept, other, e.type) /\ GoesWriting(p, d, written)
    BY <1>4, <2>1, <2>6
  <2> QED BY <1>2, <1>4, <2>2, <2>5, <2>9, <2>10, EdgeStep
<1>5. ASSUME DeleteNode(Removed(s)),
             Goes(p, [s EXCEPT !.pc = "merge", !.visited = @ \cup {Removed(s)}, !.b = After(s, @)])
      PROVE  BrainInv'
  <2>1. PICK d : d = [s EXCEPT !.pc = "merge", !.visited = @ \cup {Removed(s)}, !.b = After(s, @)]
    OBVIOUS
  <2>2. /\ DOMAIN d = Fields /\ d.pc = "merge" /\ d.plan = s.plan /\ d.pending = s.pending
        /\ ~d.alone /\ d.rows = s.rows /\ d.a = s.a /\ d.b = After(s, s.b)
    BY <1>2, <2>1 DEF Fields
  <2>3. s.b # 0
    BY <1>2 DEF CommandBase, TypesOk
  <2>4. CommandBase(d, ty) /\ Goes(p, d)
    BY <1>2, <1>5, <2>1, <2>2, <2>3, NextPair
  <2> QED BY <1>2, <1>5, <2>2, <2>4, DeleteStep
<1> QED BY <1>1, <1>4, <1>5 DEF MergeMove, EdgeTo

LEMMA MergeRaisesKeeps ==
  ASSUME NEW ty, BrainTyped(ty), NEW p \in Processes, MergeRaises(p)
  PROVE  BrainInv'
<1>1. PICK s : s = proc[p]
  OBVIOUS
<1>2. /\ CommandBase(s, ty) /\ DOMAIN s = Fields /\ s.pc \in {"merge", "read", "move"}
      /\ s.b # 0 /\ ~s.alone /\ UNCHANGED <<lastNode, answered>>
  BY <1>1, CommandOf DEF MergeRaises, Raises, Merges
<1>3. PICK id : id = Removed(s)
  OBVIOUS
<1>4. \/ DeleteNode(id)
      \/ DeleteNodeRaises(id)
      \/ UNCHANGED <<nodes, edges>>
  BY <1>1, <1>3 DEF MergeRaises
<1>5. PICK d : d = [s EXCEPT !.pc = "merge", !.pending = {}, !.b = After(s, @)]
  OBVIOUS
<1>6. /\ DOMAIN d = Fields /\ d.pc = "merge" /\ d.plan = s.plan /\ d.pending = {}
      /\ ~d.alone /\ d.rows = s.rows /\ d.a = s.a /\ d.b = After(s, s.b)
  BY <1>2, <1>5 DEF Fields
<1>7. CommandBase(d, ty)
  BY <1>2, <1>6, NextPair
<1>8. Goes(p, d)
  BY <1>1, <1>5 DEF MergeRaises
<1> QED BY <1>2, <1>4, <1>6, <1>7, <1>8, DeleteStep

LEMMA OrphansKeeps ==
  ASSUME NEW ty, BrainTyped(ty), NEW p \in Processes, Orphans(p)
  PROVE  BrainInv'
<1>1. PICK s : s = proc[p]
  OBVIOUS
<1>2. /\ GraphInv(ty) /\ CommandBase(s, ty) /\ DOMAIN s = Fields /\ s.pc = "orphans" /\ ~s.alone
      /\ UNCHANGED <<graphVars, answered>>
  BY <1>1, CommandOf DEF Orphans, Continues
<1>3. s.plan = <<>> /\ s.plan # <<"solve", "answer", "attach", "count", "tie">>
  BY <1>2, FullPlanIsLong DEF CommandBase, PlanOk
<1>4. PICK id, rest, d :
        /\ rest = [s EXCEPT !.ids = @ \ {id}]
        /\ Goes(p, d)
        /\ \/ d = [s EXCEPT !.pc = "sweep", !.pending = edges, !.alone = TRUE]
           \/ d = rest
           \/ d = [rest EXCEPT !.pc = "linking", !.id = id, !.plan = <<"orphans">>]
  BY <1>1 DEF Orphans
<1>5. /\ DOMAIN rest = Fields /\ rest.pc = "orphans" /\ rest.plan = s.plan /\ rest.id = s.id
      /\ rest.pending = s.pending /\ ~rest.alone
  BY <1>2, <1>4 DEF Fields
<1>6. CASE d = [s EXCEPT !.pc = "sweep", !.pending = edges, !.alone = TRUE]
  <2>1. /\ DOMAIN d = Fields /\ d.pc = "sweep" /\ d.plan = s.plan /\ d.pending = edges
    BY <1>2, <1>6 DEF Fields
  <2>2. \A e \in d.pending : Sound(e, ty)
    BY <1>2, <2>1 DEF GraphInv
  <2>3. CommandInv(d, ty)
    BY <1>3, <2>1, <2>2 DEF CommandInv, CommandBase, PlanOk, CountOk, TypesOk, SweepOk
  <2> QED BY <1>2, <1>4, <2>3, QuietStep
<1>7. CASE d = rest
  <2>1. CommandInv(d, ty)
    BY <1>2, <1>3, <1>5, <1>7 DEF CommandInv, CommandBase, PlanOk, CountOk, TypesOk, SweepOk
  <2> QED BY <1>2, <1>4, <2>1, QuietStep
<1>8. CASE d = [rest EXCEPT !.pc = "linking", !.id = id, !.plan = <<"orphans">>]
  <2>1. /\ DOMAIN d = Fields /\ d.pc = "linking" /\ d.plan = <<"orphans">>
        /\ d.pending = s.pending /\ ~d.alone
    BY <1>5, <1>8 DEF Fields
  <2>2. d.plan # <<"solve", "answer", "attach", "count", "tie">>
    BY <2>1, FullPlanIsLong
  <2>3. CommandInv(d, ty)
    BY <1>2, <2>1, <2>2 DEF CommandInv, CommandBase, PlanOk, CountOk, TypesOk, SweepOk
  <2> QED BY <1>2, <1>4, <2>3, QuietStep
<1> QED BY <1>4, <1>6, <1>7, <1>8

\* The sweep goes on: an edge it has looked at is sound, deleted or logged.
LEMMA SweepStep ==
  ASSUME NEW ty, BrainTyped(ty), NEW p \in Processes, NEW s, s = proc[p], s.pc = "sweep", NEW d,
         Goes(p, d), NEW e, UNCHANGED <<nodes, lastNode, answered>>, edges' \subseteq edges,
         \/ /\ d = [s EXCEPT !.pending = @ \ {e}]
            /\ edges' = IF Dangling(e) THEN edges \ {e} ELSE edges
         \/ d = [s EXCEPT !.pending = @ \ {e}, !.logged = @ \cup {e}]
         \/ s.pending = {} /\ d = [s EXCEPT !.pc = "swept"]
  PROVE  BrainInv'
<1>1. GraphInv(ty) /\ CommandInv(s, ty) /\ DOMAIN s = Fields
  BY CommandOf
<1>2. /\ DOMAIN d = Fields /\ d.pc \in {"sweep", "swept"} /\ d.plan = s.plan /\ d.id = s.id
      /\ d.pending \subseteq s.pending /\ d.alone = s.alone
  <2>1. CASE d = [s EXCEPT !.pending = @ \ {e}]
    BY <1>1, <2>1 DEF Fields
  <2>2. CASE d = [s EXCEPT !.pending = @ \ {e}, !.logged = @ \cup {e}]
    BY <1>1, <2>2 DEF Fields
  <2>3. CASE d = [s EXCEPT !.pc = "swept"]
    BY <1>1, <2>3 DEF Fields
  <2> QED BY <2>1, <2>2, <2>3
<1>3. CommandBase(d, ty)
  BY <1>1, <1>2 DEF CommandInv, CommandBase, PlanOk, CountOk, TypesOk
<1>4. CommandBase(d, ty)'
  BY <1>3 DEF CommandBase, CountOk, TypesOk, Sound
<1>5. \A x : Dangling(x)' <=> Dangling(x)
  BY DEF Dangling, Stored
<1>6. SweepOk(d)'
  <2>1. CASE d = [s EXCEPT !.pending = @ \ {e}]
             /\ edges' = IF Dangling(e) THEN edges \ {e} ELSE edges
    <3>1. /\ d.pc = "sweep" /\ d.pending = s.pending \ {e} /\ d.alone = s.alone
          /\ d.logged = s.logged
      BY <1>1, <2>1 DEF Fields
    <3> QED BY <1>1, <1>5, <2>1, <3>1 DEF CommandInv, SweepOk
  <2>2. CASE d = [s EXCEPT !.pending = @ \ {e}, !.logged = @ \cup {e}]
    <3>1. /\ d.pc = "sweep" /\ d.pending = s.pending \ {e} /\ d.alone = s.alone
          /\ d.logged = s.logged \cup {e}
      BY <1>1, <2>2 DEF Fields
    <3> QED BY <1>1, <1>5, <3>1 DEF CommandInv, SweepOk
  <2>3. CASE s.pending = {} /\ d = [s EXCEPT !.pc = "swept"]
    <3>1. d.pc = "swept" /\ d.alone = s.alone /\ d.logged = s.logged
      BY <1>1, <2>3 DEF Fields
    <3> QED BY <1>1, <1>5, <2>3, <3>1 DEF CommandInv, SweepOk
  <2> QED BY <2>1, <2>2, <2>3
<1>7. GraphInv(ty)' /\ Later(ty, ty)
  BY <1>1, LaterItself DEF GraphInv, Sound
<1>8. CommandInv(d, ty)'
  BY <1>4, <1>6 DEF CommandInv
<1> QED BY <1>7, <1>8, StepKeeps DEF Goes

LEMMA SweepKeeps ==
  ASSUME NEW ty, BrainTyped(ty), NEW p \in Processes, Sweep(p)
  PROVE  BrainInv'
<1>1. PICK s : s = proc[p]
  OBVIOUS
<1>2. PICK d, e :
        /\ Goes(p, d)
        /\ \/ /\ d = [s EXCEPT !.pending = @ \ {e}]
              /\ edges' = IF Dangling(e) THEN edges \ {e} ELSE edges
           \/ s.pending = {} /\ d = [s EXCEPT !.pc = "swept"] /\ edges' = edges
  BY <1>1 DEF Sweep
<1>3. s.pc = "sweep" /\ UNCHANGED <<nodes, lastNode, answered>> /\ edges' \subseteq edges
  BY <1>1, <1>2 DEF Sweep, Continues
<1> QED BY <1>1, <1>2, <1>3, SweepStep

LEMMA SweepRaisesKeeps ==
  ASSUME NEW ty, BrainTyped(ty), NEW p \in Processes, SweepRaises(p)
  PROVE  BrainInv'
<1>1. PICK s : s = proc[p]
  OBVIOUS
<1>2. PICK d, e : /\ Goes(p, d)
                  /\ d = [s EXCEPT !.pending = @ \ {e}, !.logged = @ \cup {e}]
                  /\ edges' \in {edges, edges \ {e}}
  BY <1>1 DEF SweepRaises
<1>3. s.pc = "sweep" /\ UNCHANGED <<nodes, lastNode, answered>> /\ edges' \subseteq edges
  BY <1>1, <1>2 DEF SweepRaises, Raises
<1> QED BY <1>1, <1>2, <1>3, SweepStep

-----------------------------------------------------------------------------
\* An empty database.
LEMMA BrainInitInv == BrainInit => BrainInv
<1> SUFFICES ASSUME BrainInit PROVE BrainInv
  OBVIOUS
<1>1. PICK ty : ty = [id \in NodeIds |-> "topic"]
  OBVIOUS
<1>2. GraphInv(ty)
  BY NeuralGraphAssumption DEF BrainInit, GraphInv
<1>3. ASSUME NEW q \in Processes PROVE CommandInv(proc[q], ty)
  <2>1. proc[q] = NoCommand
    BY DEF BrainInit
  <2> QED BY <2>1, NoCommandInv
<1>4. BrainTyped(ty)
  BY <1>2, <1>3 DEF BrainTyped
<1> QED BY <1>4 DEF BrainInv

\* Every step of every process keeps the invariant.
LEMMA BrainStep == BrainInv /\ [BrainNext]_brainVars => BrainInv'
<1> SUFFICES ASSUME BrainInv, [BrainNext]_brainVars PROVE BrainInv'
  OBVIOUS
<1>1. PICK ty : BrainTyped(ty)
  BY DEF BrainInv
<1>2. CASE UNCHANGED brainVars
  <2>1. UNCHANGED <<nodes, edges, lastNode, proc, answered>>
    BY <1>2 DEF brainVars, graphVars
  <2>2. GraphInv(ty)'
    BY <1>1, <2>1 DEF BrainTyped, GraphInv, Sound
  <2>3. ASSUME NEW q \in Processes PROVE CommandInv(proc[q], ty)'
    <3>1. PICK c : c = proc[q]
      OBVIOUS
    <3>2. CommandInv(c, ty)' <=> CommandInv(c, ty)
      BY <2>1 DEF CommandInv, CommandBase, CountOk, TypesOk, SweepOk, Sound, Dangling, Stored
    <3>3. CommandInv(c, ty) /\ proc'[q] = c
      BY <1>1, <2>1, <3>1 DEF BrainTyped
    <3> QED BY <3>2, <3>3 DEF CommandInv, CommandBase, PlanOk, CountOk, TypesOk, SweepOk, Listed,
                              Removed, Kept
  <2>4. BrainTyped(ty)'
    BY <2>2, <2>3 DEF BrainTyped
  <2> QED BY <2>4 DEF BrainInv
<1>3. ASSUME NEW p \in Processes,
             \/ \E w \in Writes, refs \in SUBSET Seen :
                  Write(p, w, refs) \/ WriteJournal(p, w, refs)
             \/ \E w \in Writes, solved \in BOOLEAN : Problem(p, w.text, solved)
             \/ \E id \in Rows, outcome \in Outcomes :
                  nodes[id].type = "problem" /\ Solve(p, id, outcome)
             \/ \E source, target \in Seen : Link(p, source, target, "relates_to")
             \/ \E w \in Writes : SolveAnswer(p, w.text)
      PROVE  BrainInv'
  <2>1. ASSUME NEW w \in Writes, NEW refs \in SUBSET Seen,
               Write(p, w, refs) \/ WriteJournal(p, w, refs)
        PROVE  BrainInv'
    BY <1>1, <2>1, WriteThenKeeps DEF Write, WriteJournal
  <2>2. ASSUME NEW w \in Writes, NEW solved \in BOOLEAN, Problem(p, w.text, solved)
        PROVE  BrainInv'
    BY <1>1, <2>2, ProblemKeeps
  <2>3. ASSUME NEW id \in Rows, NEW outcome \in Outcomes, nodes[id].type = "problem",
               Solve(p, id, outcome)
        PROVE  BrainInv'
    BY <1>1, <2>3, SolveKeeps
  <2>4. ASSUME NEW source \in Seen, NEW target \in Seen, Link(p, source, target, "relates_to")
        PROVE  BrainInv'
    BY <1>1, <2>4, LinkKeeps
  <2>5. ASSUME NEW w \in Writes, SolveAnswer(p, w.text) PROVE BrainInv'
    BY <1>1, <2>5, SolveAnswerKeeps
  <2> QED BY <1>3, <2>1, <2>2, <2>3, <2>4, <2>5
<1>4. ASSUME NEW p \in Processes,
             \/ \E m \in MinConfidences, oldest \in 0..lastNode : Maintain(p, m, oldest)
             \/ Prune(p) \/ MergeLoop(p) \/ MergePair(p) \/ MergeRead(p) \/ MergeMove(p)
             \/ Orphans(p) \/ Sweep(p)
             \/ PruneRaises(p) \/ MergeRaises(p) \/ SweepRaises(p)
      PROVE  BrainInv'
  BY <1>1, <1>4, MaintainKeeps, PruneKeeps, MergeLoopKeeps, MergePairKeeps, MergeReadKeeps,
     MergeMoveKeeps, OrphansKeeps, SweepKeeps, PruneRaisesKeeps, MergeRaisesKeeps, SweepRaisesKeeps
<1>5. ASSUME NEW p \in Processes,
             \/ WriteRefs(p) \/ LinkNode(p) \/ LinkCheck(p) \/ LinkJoin(p)
             \/ SolveRead(p) \/ SolveAttach(p) \/ LinkProblemToSolution(p) \/ SolveCount(p)
      PROVE  BrainInv'
  <2>1. CASE SolveAttach(p)
    BY <1>1, <2>1, AddSolvesKeeps DEF SolveAttach
  <2>2. CASE LinkProblemToSolution(p)
    BY <1>1, <2>2, AddSolvesKeeps DEF LinkProblemToSolution
  <2> QED BY <1>1, <1>5, <2>1, <2>2, WriteRefsKeeps, LinkNodeKeeps, LinkCheckKeeps, LinkJoinKeeps,
             SolveReadKeeps, SolveCountKeeps
<1>6. ASSUME NEW p \in Processes, Stop(p) PROVE BrainInv'
  <2>1. PICK d : d = NoCommand
    OBVIOUS
  <2>2. Goes(p, d) /\ UNCHANGED <<graphVars, answered>> /\ CommandInv(d, ty)
    BY <1>6, <2>1, NoCommandInv DEF Stop
  <2> QED BY <1>1, <2>2, QuietStep
<1>7. CASE BrainNext
  BY <1>3, <1>4, <1>5, <1>6, <1>7 DEF BrainNext
<1> QED BY <1>2, <1>7

\* The invariant, in every state of every behaviour.
THEOREM BrainInvariant == BrainSpec => []BrainInv
BY BrainInitInv, BrainStep, PTL DEF BrainSpec

\* maintenance.py:167-193: when a sweep that nobody disturbed has ended, every edge left has
\* both its ends or is named by a warning of that sweep, whatever merges of any process,
\* broken off or not, had moved onto nodes since deleted.
THEOREM DeadEdgesArePruned == BrainSpec => []DeadEdgesPruned
<1>1. BrainInv => DeadEdgesPruned
  BY DEF BrainInv, BrainTyped, CommandInv, SweepOk, DeadEdgesPruned
<1> QED BY <1>1, BrainInvariant, PTL

\* journal.py:71-105, linker.py, maintenance.py:131-144: a SOLVES edge joins a problem and a
\* solution, and no merge of two stale rows ever re-ties one wrongly: the invariant keeps the
\* type each id was given, of the deleted nodes too, and a merge moves an edge between ids
\* of one type.
THEOREM SolvesEdgesAreSound == BrainSpec => []SolvesJoinsProblemAndSolution
<1>1. ASSUME BrainInv PROVE SolvesJoinsProblemAndSolution
  <2>1. PICK ty : GraphInv(ty)
    BY <1>1 DEF BrainInv, BrainTyped
  <2>2. ASSUME NEW id \in Rows, NEW other \in SolutionsOf(id)
        PROVE  {nodes[id].type, nodes[other].type} = {"problem", "solution"}
    <3>1. PICK e \in edges : /\ id \in {e.source, e.target} /\ e.type = "solves"
                             /\ other = OtherEnd(e, id) /\ other \in Rows
      BY <2>2 DEF SolutionsOf, Neighbors, EdgesOf
    <3>2. {ty[e.source], ty[e.target]} = {"problem", "solution"}
      BY <2>1, <3>1 DEF GraphInv, Sound
    <3>3. nodes[id].type = ty[id] /\ nodes[other].type = ty[other]
      BY <2>1, <3>1 DEF GraphInv, Rows
    <3> QED BY <3>1, <3>2, <3>3 DEF OtherEnd
  <2> QED BY <2>2 DEF SolvesJoinsProblemAndSolution
<1> QED BY <1>1, BrainInvariant, PTL

\* journal.py:71-105: however many write_solution calls interleave or die half-way, no problem
\* counts more solutions than were added for it, since each reads the count before it adds.
THEOREM CountsNeverLead == BrainSpec => []CountedSolutionsRecorded
<1>1. BrainInv => CountedSolutionsRecorded
  BY DEF BrainInv, BrainTyped, GraphInv, CountedSolutionsRecorded, Rows
<1> QED BY <1>1, BrainInvariant, PTL
=============================================================================
