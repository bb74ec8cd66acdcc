---------------------------- MODULE NeuralGraph ----------------------------
(***************************************************************************)
(* The brain's graph (hermes_prime/brain/neural_graph.py): two tables of   *)
(* one SQLite file, every statement committed by itself.                   *)
(*                                                                         *)
(* Node ids are numbered in the order the nodes are created, and a text is *)
(* the set of the topics its keywords name.  access_count and the time of  *)
(* the last access decide nothing but the order of search results, and are *)
(* left out.  The FOREIGN KEY clauses of the schema are no constraint:     *)
(* SQLite checks them only after PRAGMA foreign_keys, which nothing sets.  *)
(***************************************************************************)
EXTENDS Integers, FiniteSets

CONSTANTS
  MaxNodes,  \* bound on the nodes ever created
  Topics,    \* what a text may be about
  None       \* Python's None

ASSUME NeuralGraphAssumption == MaxNodes \in Nat

VARIABLES
  nodes,     \* brain_nodes: node_id -> its row, or None
  edges,     \* brain_edges
  lastNode   \* the newest node id handed out

graphVars == <<nodes, edges, lastNode>>

NodeIds == 1..MaxNodes
\* The types the program gives to what it writes, of the ten there are.
NodeType == {"topic", "problem", "solution", "observation", "pattern", "decision"}
EdgeType == {"solves", "extends", "produces", "relates_to"}

\* confidence in tenths; solved and count are the metadata of a problem.
BrainNode ==
  [type: NodeType, text: SUBSET Topics, confidence: 0..10, solved: BOOLEAN, count: Nat]

BrainEdge == [source: NodeIds, target: NodeIds, type: EdgeType]

Stored(id) == id \in NodeIds /\ nodes[id] # None
Rows == {id \in NodeIds : nodes[id] # None}

NewNode(type, text, confidence) ==
  [type |-> type, text |-> text, confidence |-> confidence, solved |-> FALSE, count |-> 0]

\* add_node, under a fresh urn.
AddNode(node) ==
  /\ lastNode < MaxNodes
  /\ lastNode' = lastNode + 1
  /\ nodes' = [nodes EXCEPT ![lastNode + 1] = node]

\* update_node: an UPDATE that matches no row changes nothing.
UpdateNode(id, node) ==
  nodes' = IF Stored(id) THEN [nodes EXCEPT ![id] = node] ELSE nodes

EdgesOf(id) == {e \in edges : id \in {e.source, e.target}}
OtherEnd(e, id) == IF e.source = id THEN e.target ELSE e.source
\* get_neighbors: the stored nodes at the other ends of a node's edges.
Neighbors(id, types) == {OtherEnd(e, id) : e \in {x \in EdgesOf(id) : x.type \in types}} \cap Rows
Joins(e, id, other) == {e.source, e.target} = {id, other}

\* delete_node: the node with its edges, in one transaction.
DeleteNode(id) ==
  /\ nodes' = [nodes EXCEPT ![id] = None]
  /\ edges' = edges \ EdgesOf(id)

\* delete_node raises at its second DELETE or before.  What its transaction has done by then
\* keeps the write lock until the connection's next commit makes it last, or its end undoes
\* it: nobody else writes in between, and it is taken to happen at once or not at all.
DeleteNodeRaises(id) ==
  /\ edges' \in {edges, edges \ EdgesOf(id)}
  /\ UNCHANGED nodes

\* add_edge: INSERT OR REPLACE by (source, target, type); a node is not linked to
\* itself.  That both ends are stored is not looked at.
WithEdge(source, target, type) ==
  IF source = target THEN edges
  ELSE edges \cup {[source |-> source, target |-> target, type |-> type]}

Dangling(e) == ~Stored(e.source) \/ ~Stored(e.target)
=============================================================================
