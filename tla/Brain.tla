------------------------------- MODULE Brain -------------------------------
(***************************************************************************)
(* The brain (hermes_prime/brain/, the `brain` commands of cli.py): the    *)
(* journal that writes nodes, the linker that joins related ones and the   *)
(* maintenance agent that prunes and merges, run by processes that share   *)
(* the database.                                                           *)
(*                                                                         *)
(* Each statement commits by itself, so a command is a sequence of steps;  *)
(* what it listed at the start of a phase is a snapshot the others' steps  *)
(* make stale, and it may be killed between any two of them.               *)
(*                                                                         *)
(* The order of get_all_nodes is newest first.  Keyword scores are read    *)
(* off the topics of the texts: a common topic relates two texts, the same *)
(* topics make them duplicates.  Nobody writes an edge lighter than the    *)
(* 0.1 below which the maintenance drops it, so weights are left out.      *)
(***************************************************************************)
EXTENDS NeuralGraph, Sequences

CONSTANTS
  Processes,       \* the processes that run commands
  Writes,          \* what may be written: records of type, text and confidence
  Outcomes,        \* outcomes reported with a solution; "success" is one
  MinConfidences,  \* values of --min-confidence
  MaxRefs,         \* bound on the ids after --link-to
  MaxCommands      \* bound on the commands run and the failures they go on after

ASSUME BrainAssumption == {MaxRefs, MaxCommands} \subseteq Nat

VARIABLES
  proc,      \* per process, the command in progress
  commands,  \* commands started, and statements that raised, so far
  answered   \* history: per problem, the solutions write_solution has added for it

brainVars == <<graphVars, proc, commands, answered>>

\* pc: what the command does next, plan: what it does after that --
\*   "refs"     the edges asked for with the node
\*   "linking"  link_new_node(id) begins; "link" one node of its list, "join" its add_edge
\*   "solve" "answer" "attach" "count"  write_solution(id): get_node, add_node, add_edge,
\*              update_node; "tie" the command's own link_problem_to_solution
\*   "prune" "merge" "read" "move" "remove" "orphans" "sweep" "swept"  run_maintenance
\* ids, pending: the nodes and the edges a loop has still to visit.  rows: get_all_nodes as
\* the merge listed it, a and b its two loops, visited the nodes it is done with.
\* alone (history): nobody else has made a step since the sweep began.  logged: the edges
\* its warnings name, whose DELETE raised.
NoCommand ==
  [pc |-> "idle", plan |-> <<>>, id |-> 0, other |-> 0, ids |-> {}, pending |-> {},
   count |-> 0, outcome |-> None, rows |-> None, a |-> 0, b |-> 0, visited |-> {},
   alone |-> FALSE, logged |-> {}]

BrainInit ==
  /\ nodes = [id \in NodeIds |-> None]
  /\ edges = {}
  /\ lastNode = 0
  /\ proc = [p \in Processes |-> NoCommand]
  /\ commands = 0
  /\ answered = [id \in NodeIds |-> 0]

\* Process p goes on as s.  Whoever sweeps is not alone any more, and an edge written
\* again has a new edge_id, which the DELETE of a sweep that listed the old one misses.
GoesWriting(p, s, written) ==
  proc' = [q \in Processes |->
    IF q = p THEN s
    ELSE [proc[q] EXCEPT !.alone = FALSE,
                         !.pending = IF proc[q].pc = "sweep" THEN @ \ written ELSE @]]
Goes(p, s) == GoesWriting(p, s, {})

Proceeds(s) ==
  IF s.plan = <<>> THEN NoCommand ELSE [s EXCEPT !.pc = Head(s.plan), !.plan = Tail(@)]

Starts(p) == proc[p].pc = "idle" /\ commands < MaxCommands /\ commands' = commands + 1
Continues(p, pc) == proc[p].pc = pc /\ UNCHANGED commands
\* A statement raises -- the database is locked or its disk is full -- where the command
\* logs it and goes on; anywhere else the command ends with it, see Stop.
Raises(p, pc) == proc[p].pc = pc /\ commands < MaxCommands /\ commands' = commands + 1

Newest(S) == CHOOSE id \in S : \A other \in S : other <= id
EdgeTo(id, target, type) == [source |-> id, target |-> target, type |-> type]

-----------------------------------------------------------------------------
\* add_node, then the edges to the nodes referred to, then what is planned.
WriteThen(p, w, refs, plan) ==
  /\ Starts(p)
  /\ AddNode(NewNode(w.type, w.text, w.confidence))
  /\ Goes(p, [NoCommand EXCEPT
       !.pc = "refs", !.id = lastNode + 1, !.plan = plan,
       !.pending = {EdgeTo(lastNode + 1, r, "relates_to") : r \in refs}])
  /\ UNCHANGED <<edges, answered>>

\* brain write: the edges asked for with --link-to, then the linker.
Write(p, w, refs) == WriteThen(p, w, refs, <<"linking">>)

\* The journal's write_observation and its like do not call the linker.
WriteJournal(p, w, refs) == WriteThen(p, w, refs, <<>>)

WriteRefs(p) ==
  LET s == proc[p]
  IN /\ Continues(p, "refs")
     /\ \/ \E e \in s.pending :
             /\ edges' = WithEdge(e.source, e.target, e.type)
             /\ GoesWriting(p, [s EXCEPT !.pending = @ \ {e}], {e})
        \/ /\ s.pending = {}
           /\ Goes(p, Proceeds(s))
           /\ UNCHANGED edges
     /\ UNCHANGED <<nodes, lastNode, answered>>

\* brain link.
Link(p, source, target, type) ==
  /\ Starts(p)
  /\ edges' = WithEdge(source, target, type)
  /\ GoesWriting(p, NoCommand, {EdgeTo(source, target, type)})
  /\ UNCHANGED <<nodes, lastNode, answered>>

\* The linker's _infer_edge_type.
InferEdgeType(from, to) ==
  CASE {from, to} = {"problem", "solution"} -> "solves"
    [] {from, to} = {"topic"} -> "extends"
    [] from = "decision" /\ to \in {"problem", "observation"} -> "produces"
    [] OTHER -> "relates_to"

Related(id, other) == nodes[id].text \cap nodes[other].text # {}

\* link_new_node: get_node, get_all_nodes, and the edges worth adding.
LinkNode(p) ==
  LET s == proc[p]
      related == {x \in Rows \ {s.id} : Related(s.id, x)}
  IN /\ Continues(p, "linking")
     /\ Goes(p, IF ~Stored(s.id) THEN Proceeds(s)
                ELSE [s EXCEPT !.pc = "link", !.pending =
                        {EdgeTo(s.id, x, InferEdgeType(nodes[s.id].type, nodes[x].type)) :
                           x \in related}])
     /\ UNCHANGED <<graphVars, answered>>

\* Newest first: nothing for a node that get_node_edges shows to be joined already.
LinkCheck(p) ==
  LET s == proc[p]
      x == Newest({e.target : e \in s.pending})
  IN /\ Continues(p, "link")
     /\ Goes(p,
          IF s.pending = {} THEN Proceeds(s)
          ELSE IF \E e \in edges : Joins(e, s.id, x)
               THEN [s EXCEPT !.pending = {e \in @ : e.target # x}]
          ELSE [s EXCEPT !.pc = "join", !.other = x])
     /\ UNCHANGED <<graphVars, answered>>

LinkJoin(p) ==
  LET s == proc[p]
  IN /\ Continues(p, "join")
     /\ \E e \in s.pending :
          /\ e.target = s.other
          /\ edges' = WithEdge(e.source, e.target, e.type)
          /\ GoesWriting(p, [s EXCEPT !.pc = "link", !.pending = @ \ {e}], {e})
     /\ UNCHANGED <<nodes, lastNode, answered>>

-----------------------------------------------------------------------------
\* brain problem: write_problem, link_new_node, then its solution if one is given, whose
\* outcome the command leaves "unknown".
Problem(p, text, solved) ==
  /\ Starts(p)
  /\ AddNode(NewNode("problem", text, 10))
  /\ Goes(p, [NoCommand EXCEPT
       !.pc = "linking", !.id = lastNode + 1, !.outcome = "unknown",
       !.plan = IF solved THEN <<"solve", "answer", "attach", "count", "tie">> ELSE <<>>])
  /\ UNCHANGED <<edges, answered>>

\* Mutant: the problem's count is written back before the solution is added.
SolveCountingFirst(p, id, outcome) ==
  /\ Starts(p)
  /\ Goes(p, [NoCommand EXCEPT !.pc = "solve", !.id = id, !.outcome = outcome,
                               !.plan = <<"count", "answer", "attach">>])
  /\ UNCHANGED <<graphVars, answered>>

\* The journal's write_solution, for a problem written earlier.
Solve(p, id, outcome) ==
  /\ Starts(p)
  /\ Goes(p, [NoCommand EXCEPT !.pc = "solve", !.id = id, !.outcome = outcome,
                               !.plan = <<"answer", "attach", "count">>])
  /\ UNCHANGED <<graphVars, answered>>

\* get_node: None when the problem was pruned or merged away, and the command fails.
SolveRead(p) ==
  LET s == proc[p]
  IN /\ Continues(p, "solve")
     /\ Goes(p, IF Stored(s.id) THEN Proceeds([s EXCEPT !.count = nodes[s.id].count])
                ELSE NoCommand)
     /\ UNCHANGED <<graphVars, answered>>

SolveAnswer(p, text) ==
  LET s == proc[p]
  IN /\ Continues(p, "answer")
     /\ AddNode(NewNode("solution", text, 8))
     /\ answered' = [answered EXCEPT ![s.id] = @ + 1]
     /\ Goes(p, Proceeds([s EXCEPT !.other = lastNode + 1]))
     /\ UNCHANGED edges

\* get_solutions_for_problem.
SolutionsOf(problem) == Neighbors(problem, {"solves"})

\* The SOLVES edge, from the solution to the problem.
AddSolves(p) ==
  LET s == proc[p]
      e == EdgeTo(s.other, s.id, "solves")
  IN /\ edges' = WithEdge(e.source, e.target, e.type)
     /\ GoesWriting(p, Proceeds(s), {e})
     /\ UNCHANGED <<nodes, lastNode, answered>>

\* By write_solution, and once more by the command, through the linker.
SolveAttach(p) == Continues(p, "attach") /\ AddSolves(p)
LinkProblemToSolution(p) == Continues(p, "tie") /\ AddSolves(p)

\* update_node(problem, metadata): the metadata read at the start, with one more.
SolveCount(p) ==
  LET s == proc[p]
  IN /\ Continues(p, "count")
     /\ UpdateNode(s.id, [nodes[s.id] EXCEPT !.solved = s.outcome = "success",
                                             !.count = s.count + 1])
     /\ Goes(p, Proceeds(s))
     /\ UNCHANGED <<edges, lastNode, answered>>

-----------------------------------------------------------------------------
\* brain maintenance: _prune_low_value_nodes lists what is older than the given age and
\* below the given confidence; a decision or a pattern of 0.6 is kept.
Maintain(p, minConfidence, oldest) ==
  LET low(n) == /\ n.confidence < minConfidence
                /\ ~(n.type \in {"decision", "pattern"} /\ n.confidence >= 6)
  IN /\ Starts(p)
     /\ Goes(p, [NoCommand EXCEPT !.pc = "prune",
                   !.ids = {id \in Rows : id <= oldest /\ low(nodes[id])}])
     /\ UNCHANGED <<graphVars, answered>>

\* One node less; then _merge_duplicates lists the nodes.
Prune(p) ==
  LET s == proc[p]
  IN /\ Continues(p, "prune")
     /\ \/ /\ s.ids # {}
           /\ DeleteNode(Newest(s.ids))
           /\ Goes(p, [s EXCEPT !.ids = @ \ {Newest(@)}])
        \/ /\ s.ids = {}
           /\ Goes(p, [NoCommand EXCEPT !.pc = "merge", !.rows = nodes, !.a = MaxNodes + 1])
           /\ UNCHANGED <<nodes, edges>>
     /\ UNCHANGED <<lastNode, answered>>

\* delete_node raises: the loop goes on with the node still stored.
PruneRaises(p) ==
  LET s == proc[p]
  IN /\ Raises(p, "prune")
     /\ s.ids # {}
     /\ DeleteNodeRaises(Newest(s.ids))
     /\ Goes(p, [s EXCEPT !.ids = @ \ {Newest(@)}])
     /\ UNCHANGED <<lastNode, answered>>

\* Before `id` in the list a merge goes through; 0 at its end.
After(s, id) ==
  LET older == {x \in 1..(id - 1) : s.rows[x] # None}
  IN IF older = {} THEN 0 ELSE Newest(older)

\* _compute_similarity of the texts as listed, for two nodes of one type.
Duplicates(s) ==
  /\ s.rows[s.a].type = s.rows[s.b].type
  /\ s.rows[s.a].text = s.rows[s.b].text

\* The pair the loops have come to is merged.
Merges(s) == s.b # 0 /\ s.b \notin s.visited /\ Duplicates(s)

\* keep_id, the more confident of the two, and remove_id.
Kept(s) == IF s.rows[s.a].confidence >= s.rows[s.b].confidence THEN s.a ELSE s.b
Removed(s) == IF Kept(s) = s.a THEN s.b ELSE s.a

\* The two loops.  That a itself was removed meanwhile is only looked at when its turn
\* begins, so an inner loop may go on comparing with it.
MergeLoop(p) ==
  LET s == proc[p]
      skips == s.visited \cup {s.a}
      next == After(s, s.a)
  IN /\ Continues(p, "merge")
     /\ s.b = 0
     /\ Goes(p, IF next = 0 THEN [NoCommand EXCEPT !.pc = "orphans", !.ids = Rows]
                ELSE [s EXCEPT !.visited = skips, !.a = next,
                               !.b = IF next \in skips THEN 0 ELSE After(s, next)])
     /\ UNCHANGED <<graphVars, answered>>

\* Mutant: nodes of different types are merged too.
MergePairAnyType(p) ==
  LET s == proc[p]
      kept == Kept(s)
  IN /\ Continues(p, "merge")
     /\ s.b # 0
     /\ \/ /\ s.b \notin s.visited /\ s.rows[s.a].text = s.rows[s.b].text
           /\ UpdateNode(kept, [nodes[kept] EXCEPT !.text = s.rows[s.a].text \cup s.rows[s.b].text])
           /\ Goes(p, [s EXCEPT !.pc = "read"])
        \/ /\ s.b \in s.visited \/ s.rows[s.a].text # s.rows[s.b].text
           /\ Goes(p, [s EXCEPT !.b = After(s, @)])
           /\ UNCHANGED nodes
     /\ UNCHANGED <<edges, lastNode, answered>>

\* update_node(keep_id): the texts joined, the higher confidence, which the kept has.
MergePair(p) ==
  LET s == proc[p]
      kept == Kept(s)
  IN /\ Continues(p, "merge")
     /\ s.b # 0
     /\ \/ /\ Merges(s)
           /\ UpdateNode(kept, [nodes[kept] EXCEPT
                !.text = s.rows[s.a].text \cup s.rows[s.b].text,
                !.confidence = s.rows[kept].confidence])
           /\ Goes(p, [s EXCEPT !.pc = "read"])
        \/ /\ ~Merges(s)
           /\ Goes(p, [s EXCEPT !.b = After(s, @)])
           /\ UNCHANGED nodes
     /\ UNCHANGED <<edges, lastNode, answered>>

\* get_node_edges(remove_id); an edge between the two is not carried over.
MergeRead(p) ==
  LET s == proc[p]
  IN /\ Continues(p, "read")
     /\ Goes(p, [s EXCEPT !.pc = "move", !.pending =
                   {e \in EdgesOf(Removed(s)) : OtherEnd(e, Removed(s)) # Kept(s)}])
     /\ UNCHANGED <<graphVars, answered>>

\* add_edge for each, always out of the kept node; when all are moved, delete_node.
MergeMove(p) ==
  LET s == proc[p]
      moved(e) == EdgeTo(Kept(s), OtherEnd(e, Removed(s)), e.type)
  IN /\ Continues(p, "move")
     /\ \/ \E e \in s.pending :
             /\ edges' = WithEdge(moved(e).source, moved(e).target, e.type)
             /\ GoesWriting(p, [s EXCEPT !.pending = @ \ {e}], {moved(e)})
             /\ UNCHANGED nodes
        \/ /\ s.pending = {}
           /\ DeleteNode(Removed(s))
           /\ Goes(p, [s EXCEPT !.pc = "merge", !.visited = @ \cup {Removed(s)},
                                !.b = After(s, @)])
     /\ UNCHANGED <<lastNode, answered>>

\* A statement of the merge raises: the pair stays as far as it got, nothing
\* is added to `visited`, and the loop goes on to the next b.
MergeRaises(p) ==
  LET s == proc[p]
  IN /\ \E pc \in {"merge", "read", "move"} : Raises(p, pc)
     /\ Merges(s)
     /\ \/ UNCHANGED <<nodes, edges>>
        \/ /\ s.pc = "move" /\ s.pending = {}
           /\ DeleteNode(Removed(s)) \/ DeleteNodeRaises(Removed(s))
     /\ Goes(p, [s EXCEPT !.pc = "merge", !.pending = {}, !.b = After(s, @)])
     /\ UNCHANGED <<lastNode, answered>>

\* _consolidate_orphans: link_new_node for a listed node without edges, newest first;
\* then _prune_dead_edges lists the edges.
Orphans(p) ==
  LET s == proc[p]
      id == Newest(s.ids)
      rest == [s EXCEPT !.ids = @ \ {id}]
  IN /\ Continues(p, "orphans")
     /\ Goes(p, IF s.ids = {} THEN [s EXCEPT !.pc = "sweep", !.pending = edges, !.alone = TRUE]
                ELSE IF EdgesOf(id) # {} THEN rest
                ELSE [rest EXCEPT !.pc = "linking", !.id = id, !.plan = <<"orphans">>])
     /\ UNCHANGED <<graphVars, answered>>

\* Mutant: only the edge's source is looked up.
SweepSource(p) ==
  LET s == proc[p]
  IN /\ Continues(p, "sweep")
     /\ \/ \E e \in s.pending :
             /\ edges' = IF ~Stored(e.source) THEN edges \ {e} ELSE edges
             /\ Goes(p, [s EXCEPT !.pending = @ \ {e}])
        \/ /\ s.pending = {}
           /\ Goes(p, [s EXCEPT !.pc = "swept"])
           /\ UNCHANGED edges
     /\ UNCHANGED <<nodes, lastNode, answered>>

\* get_node for both ends of a listed edge, and DELETE by its edge_id.
Sweep(p) ==
  LET s == proc[p]
  IN /\ Continues(p, "sweep")
     /\ \/ \E e \in s.pending :
             /\ edges' = IF Dangling(e) THEN edges \ {e} ELSE edges
             /\ Goes(p, [s EXCEPT !.pending = @ \ {e}])
        \/ /\ s.pending = {}
           /\ Goes(p, [s EXCEPT !.pc = "swept"])
           /\ UNCHANGED edges
     /\ UNCHANGED <<nodes, lastNode, answered>>

\* The DELETE raises: a warning names the edge, and the loop goes on.  The edge stays, unless
\* it was the commit that raised and the next get_node commits the DELETE after all.
SweepRaises(p) ==
  LET s == proc[p]
  IN /\ Raises(p, "sweep")
     /\ \E e \in s.pending :
          /\ Dangling(e)
          /\ edges' \in {edges, edges \ {e}}
          /\ Goes(p, [s EXCEPT !.pending = @ \ {e}, !.logged = @ \cup {e}])
     /\ UNCHANGED <<nodes, lastNode, answered>>

\* The report is printed, or the process is killed.
Stop(p) ==
  /\ proc[p].pc # "idle"
  /\ Goes(p, NoCommand)
  /\ UNCHANGED <<graphVars, commands, answered>>

Seen == 1..lastNode  \* the ids a user may have been shown

BrainNext ==
  \E p \in Processes :
    \/ \E w \in Writes, refs \in SUBSET Seen :
         /\ Cardinality(refs) <= MaxRefs
         /\ Write(p, w, refs) \/ WriteJournal(p, w, refs)
    \/ \E w \in Writes, solved \in BOOLEAN : Problem(p, w.text, solved)
    \/ \E id \in Rows, outcome \in Outcomes : nodes[id].type = "problem" /\ Solve(p, id, outcome)
    \/ \E source, target \in Seen : Link(p, source, target, "relates_to")
    \/ \E m \in MinConfidences, oldest \in 0..lastNode : Maintain(p, m, oldest)
    \/ WriteRefs(p) \/ LinkNode(p) \/ LinkCheck(p) \/ LinkJoin(p)
    \/ SolveRead(p) \/ SolveAttach(p) \/ LinkProblemToSolution(p) \/ SolveCount(p)
    \/ \E w \in Writes : SolveAnswer(p, w.text)
    \/ Prune(p) \/ MergeLoop(p) \/ MergePair(p) \/ MergeRead(p) \/ MergeMove(p)
    \/ Orphans(p) \/ Sweep(p)
    \/ PruneRaises(p) \/ MergeRaises(p) \/ SweepRaises(p)
    \/ Stop(p)

BrainSpec == BrainInit /\ [][BrainNext]_brainVars

-----------------------------------------------------------------------------
\* What maintenance is for (maintenance.py:167-193): once its sweep has ended, and nobody
\* else has written since it began, an edge left with a missing end is one a warning of that
\* sweep names, its DELETE having raised -- although merges, complete or broken off, move
\* edges onto nodes that are gone and the schema's foreign keys are not enforced.
DeadEdgesPruned ==
  \A p \in Processes :
    proc[p].pc = "swept" /\ proc[p].alone =>
      \A e \in edges : Dangling(e) => e \in proc[p].logged

\* A SOLVES edge joins a problem and a solution (journal.py:71-105, linker.py:147-161 and
\* 212-225, maintenance.py:131-144): no merge, whose added edges forget which end was which,
\* ever leaves it between two problems, two solutions or anything else, so what
\* get_solutions_for_problem returns is a solution.  `brain link` is asked for no SOLVES
\* edge here: there the user alone answers for the ends.
SolvesJoinsProblemAndSolution ==
  \A id \in Rows : \A other \in SolutionsOf(id) :
    {nodes[id].type, nodes[other].type} = {"problem", "solution"}

\* A problem counts no solution that was not recorded (journal.py:71-105): the count may
\* lag -- two write_solution calls lose one, a killed one is not counted -- but never leads.
CountedSolutionsRecorded ==
  \A id \in Rows : nodes[id].count <= answered[id]
=============================================================================
