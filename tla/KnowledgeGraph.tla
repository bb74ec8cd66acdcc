--------------------------- MODULE KnowledgeGraph ---------------------------
(***************************************************************************)
(* The lineage of memory claims (hermes_prime/memory/graph.py): a forest   *)
(* of edges child -> parent with its inverse lists.  Every MemoryStore     *)
(* makes one for itself, in memory, and add_edge is the one operation it   *)
(* uses; so a graph is a value here and each process holds one.            *)
(***************************************************************************)
EXTENDS Naturals, FiniteSets

CONSTANTS
  Nodes,  \* what an edge may name
  None    \* Python's None

ASSUME NodesAssumption == None \notin Nodes

KGraph == [edges: [Nodes -> Nodes \cup {None}], kids: [Nodes -> SUBSET Nodes]]

EmptyKGraph == [edges |-> [n \in Nodes |-> None], kids |-> [n \in Nodes |-> {}]]

\* _ancestors_set, and the ids of get_lineage: the parents of `n`, their parents, ...
AncestorsIn(g, n) ==
  LET Up(m) == {g.edges[m]} \ {None}
  IN {a \in Nodes : \A S \in SUBSET Nodes :
        (Up(n) \subseteq S /\ \A m \in S : Up(m) \subseteq S) => a \in S}

\* add_edge raises ValueError on a self-reference or a cycle.
MayAddEdge(g, child, parent) ==
  child # parent /\ child \notin AncestorsIn(g, parent)

\* A child with a parent already gets the new one, and stays in the list of the old.
AddEdge(g, child, parent) ==
  [edges |-> [g.edges EXCEPT ![child] = parent],
   kids |-> [g.kids EXCEPT ![parent] = @ \cup {child}]]
=============================================================================
