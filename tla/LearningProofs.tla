--------------------------- MODULE LearningProofs ---------------------------
(***************************************************************************)
(* Proofs about the memory fabric (Memory) and the learning loop over it   *)
(* (Learning), for any processes, claims, outcomes and patterns: what is   *)
(* on record about contradictions and lineage stays true however calls     *)
(* overlap, fail and break off, and what is learned rests on outcomes.     *)
(***************************************************************************)
EXTENDS Learning, FiniteSetTheorems, FunctionTheorems, SequenceTheorems, TLAPS

WriteFields == {"op", "pc", "intent", "type", "sure", "parent", "fact", "listed", "contra", "todo",
                "other", "copy", "wanted"}
UpdateFields == {"op", "pc", "fact", "target", "copy"}
ArbitrateFields == {"op", "pc", "a", "b", "keep", "copyA", "copyB"}
DecayFields == {"op", "pc", "todo", "copies"}

WriteOps == {"write", "review", "consolidate"}

\* The fact ids in use.
Named == 1..drawn

\* What a claim may hang below.
ParentOk(x) == x = None \/ x \in Named \/ x \in Recorded

\* What holds of a claim with id f, stored or in the hands of a call: it names facts there
\* are, and whatever graph has an edge for it gives the lineage it carries.
ClaimOk(f, r) ==
  /\ f \in Named
  /\ r \in Claim
  /\ r.contra \subseteq Named
  /\ ParentOk(r.parent)
  /\ \A q \in Processes : graph[q].edges[f] # None => r.lineage = AncestorsIn(graph[q], f)

\* A copy in the hands of a call: what is stored, unless the fact is conflicted.
Fresh(f, r) == ClaimOk(f, r) /\ (f \in conflicted \/ claims[f] = r)

\* A graph: a forest whose edges join facts in use and what is no fact at all.
GraphOk(g) ==
  /\ g = [edges |-> g.edges, kids |-> g.kids]
  /\ g \in KGraph
  /\ \A n, m \in Nodes : g.edges[n] = m <=> n \in g.kids[m]
  /\ \A n \in Nodes : n \notin AncestorsIn(g, n)
  /\ \A n \in Nodes : g.edges[n] # None => n \in Named /\ g.edges[n] \in Named \cup (Nodes \ Facts)

\* What a call relies on, by what it does.
WriteInv(c) ==
  /\ DOMAIN c = WriteFields
  /\ c.pc \in {"list", "check", "store", "detect", "get", "put"}
  /\ c.intent \in Intents \cup {None} /\ c.type \in MemoryTypes /\ c.sure \in BOOLEAN
  /\ ParentOk(c.parent)
  /\ c.wanted \in Seq(Nodes \cup {None}) /\ \A n \in DOMAIN c.wanted : ParentOk(c.wanted[n])
  /\ c.fact \in {None} \cup Named
  /\ c.listed \subseteq Named /\ c.contra \subseteq Named /\ c.todo \subseteq c.contra
  /\ c.op # "review" => c.pc \in {"list", "check", "store"}
  /\ c.pc \in {"list", "check", "store", "detect"} => c.contra = {}
  /\ c.pc = "detect" =>
       c.fact # None /\ c.fact \notin c.listed /\ Fresh(c.fact, c.copy) /\ c.copy.contra = {}
  /\ c.pc \in {"get", "put"} =>
       /\ c.fact # None /\ c.fact \notin c.contra
       /\ c.fact \in conflicted \/ (claims[c.fact] # None /\ claims[c.fact].contra = c.contra)
  /\ c.pc = "put" => c.other \in c.todo /\ Fresh(c.other, c.copy)

UpdateInv(c) ==
  /\ DOMAIN c = UpdateFields
  /\ c.fact \in Named /\ c.target \in TrustStates
  /\ c.pc = "put" => Fresh(c.fact, c.copy)

ArbitrateInv(c) ==
  /\ DOMAIN c = ArbitrateFields
  /\ c.a \in Named /\ c.b \in Named /\ c.a # c.b
  /\ c.pc = "getB" => c.copyA = None \/ Fresh(c.a, c.copyA)
  /\ c.pc = "putA" => Fresh(c.a, c.copyA)
  /\ c.pc \in {"putA", "putB"} => Fresh(c.b, c.copyB)
  /\ c.pc = "putB" =>
       c.a \in conflicted \/ (claims[c.a] # None /\ c.b \notin claims[c.a].contra)

DecayInv(c) ==
  /\ DOMAIN c = DecayFields
  /\ c.todo \subseteq Named
  /\ DOMAIN c.copies = Facts
  /\ \A f \in c.todo : Fresh(f, c.copies[f])
  /\ c.pc = "list" => c.todo = {}

CallInv(c) ==
  \/ c = Idle
  \/ c.op \in WriteOps /\ WriteInv(c)
  \/ c.op \in {"promote", "revoke"} /\ UpdateInv(c)
  \/ c.op = "arbitrate" /\ ArbitrateInv(c)
  \/ c.op = "decay" /\ DecayInv(c)
  \/ c.op = "gc"

\* a contradicts b, and b does not say so.
Loose(a, b) ==
  /\ a \in Facts /\ b \in Facts /\ claims[a] # None /\ claims[b] # None
  /\ b \in claims[a].contra /\ a \notin claims[b].contra

\* The call is about to mend it: a review that has its claim's contradictions on record and
\* the back references to come, an arbitration that has settled one side.
Explains(c, a, b) ==
  \/ c.op = "review" /\ c.pc \in {"get", "put"} /\ a = c.fact /\ b \in c.todo
  \/ c.op = "arbitrate" /\ c.pc = "putB" /\ a = c.b /\ b = c.a

Explained ==
  \A a, b \in Facts : Loose(a, b) =>
    a \in conflicted \/ b \in conflicted \/ \E q \in Processes : Explains(call[q], a, b)

FabricInv ==
  /\ drawn \in 0..MaxFacts /\ clock \in Days
  /\ DOMAIN claims = Facts
  /\ \A f \in Facts : claims[f] # None => ClaimOk(f, claims[f])
  /\ DOMAIN graph = Processes /\ \A q \in Processes : GraphOk(graph[q])
  /\ DOMAIN call = Processes /\ \A q \in Processes : CallInv(call[q])
  /\ Explained

\* What holds of a registry of patterns.
RegOk(known) ==
  /\ IsFiniteSet(known)
  /\ \A x \in known :
       /\ x.kind \in {"heuristic", "rejection", "parse", "task", "slow"}
       /\ x.sources \subseteq Recorded
       /\ Cardinality(x.sources) >= MinKind
       /\ x.sources = Evidence(x.kind, x.sources)
  /\ \A x, y \in known :
       x.kind = y.kind /\ x.action = y.action /\ x.kind \in {"heuristic", "rejection", "task"}
         => x = y

LessonFields == {"pc", "run", "guided", "seen", "todo", "next"}

LessonOk(l, known) ==
  l = NoLesson \/
    /\ DOMAIN l = LessonFields
    /\ RegOk(known)
    /\ l.seen \subseteq Recorded
    /\ l.todo \in Seq({"heuristic", "rejection", "parse", "task", "slow"})

LessonInv ==
  /\ DOMAIN outcomes = Outcomes
  /\ registry = Torn \/ RegOk(registry)
  /\ DOMAIN patterns = Processes /\ \A q \in Processes : patterns[q] = None \/ RegOk(patterns[q])
  /\ DOMAIN lesson = Processes /\ \A q \in Processes : LessonOk(lesson[q], patterns[q])

\* A lesson leaves the memory alone until it consolidates.
AloneOk == \A q \in Processes : lesson[q].pc \notin {"none", "consolidate"} => call[q] = Idle

LearningInv == FabricInv /\ LessonInv /\ AloneOk

-----------------------------------------------------------------------------
(***************************************************************************)
(* The lineage graph                                                       *)
(***************************************************************************)
\* The parents, as a set.
Above(g, m) == {g.edges[m]} \ {None}

LEMMA AncestorsAre ==
  ASSUME NEW g, NEW n
  PROVE  AncestorsIn(g, n) = {a \in Nodes : \A S \in SUBSET Nodes :
           (Above(g, n) \subseteq S /\ \A m \in S : Above(g, m) \subseteq S) => a \in S}
BY DEF AncestorsIn, Above

\* The ancestors are closed under parents ...
LEMMA AncestorsClosed ==
  ASSUME NEW g \in KGraph, NEW n \in Nodes
  PROVE  /\ AncestorsIn(g, n) \subseteq Nodes
         /\ Above(g, n) \subseteq AncestorsIn(g, n)
         /\ \A m \in AncestorsIn(g, n) : Above(g, m) \subseteq AncestorsIn(g, n)
<1>1. \A m \in Nodes : Above(g, m) \subseteq Nodes
  BY DEF Above, KGraph
<1>2. AncestorsIn(g, n) \subseteq Nodes
  BY AncestorsAre
<1>3. Above(g, n) \subseteq AncestorsIn(g, n)
  BY <1>1, AncestorsAre
<1>4. ASSUME NEW m \in AncestorsIn(g, n), NEW a \in Above(g, m)
      PROVE  a \in AncestorsIn(g, n)
  <2>1. a \in Nodes
    BY <1>1, <1>2
  <2>2. ASSUME NEW S \in SUBSET Nodes, Above(g, n) \subseteq S,
               \A x \in S : Above(g, x) \subseteq S
        PROVE  a \in S
    <3>1. m \in S
      BY <2>2, AncestorsAre
    <3> QED BY <3>1, <2>2
  <2> QED BY <2>1, <2>2, AncestorsAre
<1> QED BY <1>2, <1>3, <1>4

\* ... and the least set that is.
LEMMA AncestorsLeast ==
  ASSUME NEW g, NEW n, NEW S \in SUBSET Nodes, Above(g, n) \subseteq S,
         \A m \in S : Above(g, m) \subseteq S
  PROVE  AncestorsIn(g, n) \subseteq S
BY AncestorsAre

\* Nothing but the edges counts.
LEMMA NoAncestors ==
  ASSUME NEW g, NEW n, g.edges[n] = None
  PROVE  AncestorsIn(g, n) = {}
<1>1. Above(g, n) = {}
  BY DEF Above
<1> QED BY <1>1, AncestorsLeast

\* A node nothing points to is nobody's ancestor.
LEMMA TipIsNoAncestor ==
  ASSUME NEW g \in KGraph, NEW f \in Nodes, \A n \in Nodes : g.edges[n] # f, NEW n \in Nodes
  PROVE  f \notin AncestorsIn(g, n)
<1> DEFINE S == AncestorsIn(g, n) \ {f}
<1>1. S \in SUBSET Nodes
  BY AncestorsClosed
<1>2. \A m \in Nodes : f \notin Above(g, m)
  BY DEF Above
<1>3. Above(g, n) \subseteq S
  BY <1>2, AncestorsClosed
<1>4. \A m \in S : Above(g, m) \subseteq S
  BY <1>2, AncestorsClosed
<1>5. AncestorsIn(g, n) \subseteq S
  BY <1>1, <1>3, <1>4, AncestorsLeast
<1> QED BY <1>5

\* An edge out of such a node changes nobody else's ancestors.
LEMMA NewTipKeepsAncestors ==
  ASSUME NEW g \in KGraph, NEW h \in KGraph, NEW f \in Nodes,
         \A n \in Nodes : g.edges[n] # f /\ h.edges[n] # f,
         \A n \in Nodes \ {f} : h.edges[n] = g.edges[n],
         NEW n \in Nodes \ {f}
  PROVE  AncestorsIn(h, n) = AncestorsIn(g, n)
<1>1. \A m \in Nodes \ {f} : Above(h, m) = Above(g, m)
  BY DEF Above
<1>2. f \notin AncestorsIn(g, n) /\ f \notin AncestorsIn(h, n)
  BY TipIsNoAncestor
<1>3. /\ AncestorsIn(g, n) \subseteq Nodes
      /\ Above(g, n) \subseteq AncestorsIn(g, n)
      /\ \A m \in AncestorsIn(g, n) : Above(g, m) \subseteq AncestorsIn(g, n)
  BY AncestorsClosed
<1>4. /\ AncestorsIn(h, n) \subseteq Nodes
      /\ Above(h, n) \subseteq AncestorsIn(h, n)
      /\ \A m \in AncestorsIn(h, n) : Above(h, m) \subseteq AncestorsIn(h, n)
  BY AncestorsClosed
<1>5. AncestorsIn(h, n) \subseteq AncestorsIn(g, n)
  <2>1. \A m \in AncestorsIn(g, n) : Above(h, m) \subseteq AncestorsIn(g, n)
    BY <1>1, <1>2, <1>3
  <2>2. Above(h, n) \subseteq AncestorsIn(g, n)
    BY <1>1, <1>3
  <2> QED BY <1>3, <2>1, <2>2, AncestorsLeast
<1>6. AncestorsIn(g, n) \subseteq AncestorsIn(h, n)
  <2>1. \A m \in AncestorsIn(h, n) : Above(g, m) \subseteq AncestorsIn(h, n)
    BY <1>1, <1>2, <1>4
  <2>2. Above(g, n) \subseteq AncestorsIn(h, n)
    BY <1>1, <1>4
  <2> QED BY <1>4, <2>1, <2>2, AncestorsLeast
<1> QED BY <1>5, <1>6

LEMMA NamedFacts ==
  ASSUME drawn \in 0..MaxFacts
  PROVE  /\ Named \subseteq Facts /\ Named \subseteq Nodes /\ Facts \subseteq Nodes
         /\ None \notin Nodes /\ None \notin Facts /\ None \notin Named
         /\ drawn \in Nat /\ drawn + 1 \notin Named
BY MemoryAssumption, NodesAssumption DEF Named, Facts

\* An edge out of the fact id drawn next.
LEMMA AddEdgeOk ==
  ASSUME drawn \in 0..MaxFacts, drawn < MaxFacts, drawn' = drawn + 1,
         NEW g, GraphOk(g), NEW m \in Named \cup (Nodes \ Facts),
         NEW h, h = AddEdge(g, drawn + 1, m)
  PROVE  /\ GraphOk(h)'
         /\ \A n \in Named : h.edges[n] = g.edges[n] /\ AncestorsIn(h, n) = AncestorsIn(g, n)
<1> DEFINE f == drawn + 1
<1>0. PICK k : k = drawn + 1
  OBVIOUS
<1>1. k \in Facts /\ k \in Nodes /\ k \notin Named /\ Named' = Named \cup {k} /\ m \in Nodes /\ m # k
  BY <1>0, NamedFacts, MemoryAssumption DEF Named, Facts
<1>2. g \in KGraph /\ g.edges \in [Nodes -> Nodes \cup {None}] /\ g.kids \in [Nodes -> SUBSET Nodes]
  BY DEF GraphOk, KGraph
<1>3. /\ h = [edges |-> h.edges, kids |-> h.kids]
      /\ h.edges = [g.edges EXCEPT ![k] = m]
      /\ h.kids = [g.kids EXCEPT ![m] = @ \cup {k}]
  BY <1>0 DEF AddEdge
<1>4. h \in KGraph
  BY <1>1, <1>2, <1>3 DEF KGraph
<1>5. \A n \in Nodes : g.edges[n] # k
  BY <1>1, NamedFacts DEF GraphOk
<1>6. g.edges[k] = None
  BY <1>1, <1>2 DEF GraphOk
<1>7. \A n \in Nodes : h.edges[n] # k
  BY <1>1, <1>2, <1>3, <1>5
<1>8. \A n \in Nodes \ {k} : h.edges[n] = g.edges[n]
  BY <1>1, <1>2, <1>3
<1>9. \A n \in Nodes \ {k} : AncestorsIn(h, n) = AncestorsIn(g, n)
  BY <1>1, <1>2, <1>4, <1>5, <1>7, <1>8, NewTipKeepsAncestors
<1>10. \A n \in Nodes : n \notin AncestorsIn(h, n)
  <2>1. k \notin AncestorsIn(h, k)
    BY <1>1, <1>4, <1>7, TipIsNoAncestor
  <2> QED BY <2>1, <1>9 DEF GraphOk
<1>11. \A n, x \in Nodes : h.edges[n] = x <=> n \in h.kids[x]
  <2> TAKE n, x \in Nodes
  <2>1. g.edges[n] = x <=> n \in g.kids[x]
    BY DEF GraphOk
  <2>2. k \notin g.kids[x]
    BY <1>1, <1>6, NamedFacts DEF GraphOk
  <2>3. h.edges[n] = IF n = k THEN m ELSE g.edges[n]
    BY <1>1, <1>2, <1>3
  <2>4. h.kids[x] = IF x = m THEN g.kids[x] \cup {k} ELSE g.kids[x]
    BY <1>1, <1>2, <1>3
  <2> QED BY <2>1, <2>2, <2>3, <2>4
<1>12. \A n \in Nodes : h.edges[n] # None =>
         n \in Named \cup {k} /\ h.edges[n] \in (Named \cup {k}) \cup (Nodes \ Facts)
  <2> TAKE n \in Nodes
  <2>1. h.edges[n] = IF n = k THEN m ELSE g.edges[n]
    BY <1>1, <1>2, <1>3
  <2> QED BY <2>1 DEF GraphOk
<1>13. GraphOk(h)'
  BY <1>1, <1>3, <1>4, <1>10, <1>11, <1>12 DEF GraphOk
<1> QED BY <1>13, <1>8, <1>9, <1>1, NamedFacts

LEMMA EmptyGraphOk == GraphOk(EmptyKGraph)
<1>1. EmptyKGraph.edges = [n \in Nodes |-> None] /\ EmptyKGraph.kids = [n \in Nodes |-> {}]
  BY DEF EmptyKGraph
<1>2. \A n \in Nodes : AncestorsIn(EmptyKGraph, n) = {}
  BY <1>1, NoAncestors
<1>3. EmptyKGraph \in KGraph
  BY DEF EmptyKGraph, KGraph
<1>4. EmptyKGraph = [edges |-> EmptyKGraph.edges, kids |-> EmptyKGraph.kids]
  BY DEF EmptyKGraph
<1> QED BY <1>1, <1>2, <1>3, <1>4, NodesAssumption DEF GraphOk

-----------------------------------------------------------------------------
(***************************************************************************)
(* The steps of the fabric                                                 *)
(***************************************************************************)
\* What one step leaves of what was there: ids and outcomes on record stay so, and a graph
\* says of facts in use what it said, or nothing.
Later ==
  /\ Named \subseteq Named' /\ Recorded \subseteq Recorded' /\ conflicted \subseteq conflicted'
  /\ \A q \in Processes, n \in Named : graph'[q].edges[n] # None =>
       graph[q].edges[n] # None /\ AncestorsIn(graph'[q], n) = AncestorsIn(graph[q], n)

\* The claims a call relies on have not changed, or are conflicted.
Undisturbed(c) == \A f \in Footprint(c) : f \in conflicted' \/ claims'[f] = claims[f]

LEMMA ParentStaysOk ==
  ASSUME Later, NEW x, ParentOk(x)
  PROVE  ParentOk(x)'
BY DEF Later, ParentOk

LEMMA ClaimStaysOk ==
  ASSUME Later, NEW f, NEW r, ClaimOk(f, r)
  PROVE  ClaimOk(f, r)'
<1>1. f \in Named' /\ r.contra \subseteq Named' /\ r \in Claim /\ f \in Named
  BY DEF Later, ClaimOk
<1>2. ParentOk(r.parent)'
  BY ParentStaysOk DEF ClaimOk
<1>3. ASSUME NEW q \in Processes, graph'[q].edges[f] # None
      PROVE  r.lineage = AncestorsIn(graph'[q], f)
  BY <1>1, <1>3 DEF Later, ClaimOk
<1> QED BY <1>1, <1>2, <1>3 DEF ClaimOk

LEMMA FreshStaysOk ==
  ASSUME Later, NEW c, Undisturbed(c), NEW f \in Footprint(c), NEW r, Fresh(f, r)
  PROVE  Fresh(f, r)'
BY ClaimStaysOk DEF Fresh, Later, Undisturbed

\* What a call relies on stays so in the steps of others.
LEMMA WriteStaysOk ==
  ASSUME drawn \in 0..MaxFacts, Later, NEW c, c.op \in WriteOps, WriteInv(c), Undisturbed(c)
  PROVE  WriteInv(c)'
<1>1. Footprint(c) = ({c.fact} \ {None}) \cup c.contra
  BY DEF Footprint, WriteOps
<1>2. /\ ParentOk(c.parent)'
      /\ \A n \in DOMAIN c.wanted : ParentOk(c.wanted[n])'
      /\ c.fact \in {None} \cup Named'
      /\ c.listed \subseteq Named' /\ c.contra \subseteq Named'
  BY ParentStaysOk DEF WriteInv, Later
<1>3. c.pc = "detect" => Fresh(c.fact, c.copy)'
  BY <1>1, FreshStaysOk DEF WriteInv
<1>4. c.pc = "put" => Fresh(c.other, c.copy)'
  BY <1>1, FreshStaysOk DEF WriteInv
<1>5. c.pc \in {"get", "put"} =>
        c.fact \in conflicted' \/ (claims'[c.fact] # None /\ claims'[c.fact].contra = c.contra)
  BY <1>1 DEF WriteInv, Later, Undisturbed
<1> QED BY <1>2, <1>3, <1>4, <1>5 DEF WriteInv

LEMMA UpdateStaysOk ==
  ASSUME Later, NEW c, c.op \in {"promote", "revoke"}, UpdateInv(c), Undisturbed(c)
  PROVE  UpdateInv(c)'
<1>1. Footprint(c) = {c.fact}
  BY DEF Footprint
<1> QED BY <1>1, FreshStaysOk DEF UpdateInv, Later

LEMMA ArbitrateStaysOk ==
  ASSUME Later, NEW c, c.op = "arbitrate", ArbitrateInv(c), Undisturbed(c)
  PROVE  ArbitrateInv(c)'
<1>1. Footprint(c) = {c.a, c.b}
  BY DEF Footprint
<1>2. c.a \in Named' /\ c.b \in Named'
  BY DEF ArbitrateInv, Later
<1>3. c.pc = "getB" => c.copyA = None \/ Fresh(c.a, c.copyA)'
  BY <1>1, FreshStaysOk DEF ArbitrateInv
<1>4. c.pc = "putA" => Fresh(c.a, c.copyA)'
  BY <1>1, FreshStaysOk DEF ArbitrateInv
<1>5. c.pc \in {"putA", "putB"} => Fresh(c.b, c.copyB)'
  BY <1>1, FreshStaysOk DEF ArbitrateInv
<1>6. c.pc = "putB" =>
        c.a \in conflicted' \/ (claims'[c.a] # None /\ c.b \notin claims'[c.a].contra)
  BY <1>1 DEF ArbitrateInv, Later, Undisturbed
<1> QED BY <1>2, <1>3, <1>4, <1>5, <1>6 DEF ArbitrateInv

LEMMA DecayStaysOk ==
  ASSUME Later, NEW c, c.op = "decay", DecayInv(c), Undisturbed(c)
  PROVE  DecayInv(c)'
<1>1. Footprint(c) = c.todo
  BY DEF Footprint
<1>2. \A f \in c.todo : Fresh(f, c.copies[f])'
  BY <1>1, FreshStaysOk DEF DecayInv
<1> QED BY <1>2 DEF DecayInv, Later

LEMMA CallStaysOk ==
  ASSUME drawn \in 0..MaxFacts, Later, NEW c, CallInv(c), Undisturbed(c)
  PROVE  CallInv(c)'
BY WriteStaysOk, UpdateStaysOk, ArbitrateStaysOk, DecayStaysOk DEF CallInv

\* A step of the call of p, which is `c` afterwards.
LEMMA FabricStepOk ==
  ASSUME FabricInv, NEW p \in Processes, NEW c, call' = [call EXCEPT ![p] = c],
         Later, drawn' \in 0..MaxFacts, clock' \in Days,
         DOMAIN claims' = Facts,
         \A f \in Facts : claims'[f] # None => claims'[f] = claims[f] \/ ClaimOk(f, claims[f])',
         DOMAIN graph' = Processes, \A q \in Processes : GraphOk(graph[q])',
         \A q \in Processes \ {p} : Undisturbed(call[q]),
         CallInv(c)',
         \A a, b \in Facts : Loose(a, b)' =>
           \/ a \in conflicted' \/ b \in conflicted'
           \/ Loose(a, b) /\ ~Explains(call[p], a, b)
           \/ Explains(c, a, b)
  PROVE  FabricInv'
<1>1. DOMAIN call' = Processes /\ call'[p] = c /\ \A q \in Processes \ {p} : call'[q] = call[q]
  BY DEF FabricInv
<1>2. \A f \in Facts : claims'[f] # None => ClaimOk(f, claims[f])'
  <2> SUFFICES ASSUME NEW f \in Facts, claims'[f] # None, claims'[f] = claims[f]
               PROVE  ClaimOk(f, claims[f])'
    OBVIOUS
  <2>1. PICK r : r = claims[f]
    OBVIOUS
  <2>2. ClaimOk(f, r)
    BY <2>1 DEF FabricInv
  <2>3. ClaimOk(f, r)'
    BY <2>2, ClaimStaysOk
  <2> QED BY <2>1, <2>3
<1>3. \A q \in Processes : CallInv(call[q])'
  <2> SUFFICES ASSUME NEW q \in Processes \ {p} PROVE CallInv(call[q])'
    BY <1>1
  <2>1. PICK d : d = call[q]
    OBVIOUS
  <2>2. CallInv(d) /\ Undisturbed(d) /\ drawn \in 0..MaxFacts
    BY <2>1 DEF FabricInv
  <2>3. CallInv(d)'
    BY <2>2, CallStaysOk
  <2> QED BY <2>1, <2>3, <1>1
<1>4. Explained'
  <2> SUFFICES ASSUME NEW a \in Facts, NEW b \in Facts, Loose(a, b)',
                      a \notin conflicted', b \notin conflicted'
               PROVE  \E q \in Processes : Explains(call'[q], a, b)
    BY DEF Explained
  <2>1. CASE Explains(c, a, b)
    BY <2>1, <1>1
  <2>2. CASE Loose(a, b) /\ ~Explains(call[p], a, b)
    <3>1. a \notin conflicted /\ b \notin conflicted
      BY DEF Later
    <3>2. PICK q \in Processes : Explains(call[q], a, b)
      BY <2>2, <3>1 DEF FabricInv, Explained
    <3>3. q # p
      BY <2>2, <3>2
    <3> QED BY <3>2, <3>3, <1>1
  <2> QED BY <2>1, <2>2
<1> QED BY <1>1, <1>2, <1>3, <1>4 DEF FabricInv

LEMMA FootprintNamed ==
  ASSUME NEW c, CallInv(c)
  PROVE  Footprint(c) \subseteq Named
<1>1. CASE c = Idle
  BY <1>1 DEF Footprint, Idle
<1>2. CASE c.op \in WriteOps /\ WriteInv(c)
  BY <1>2 DEF Footprint, WriteOps, WriteInv
<1>3. CASE c.op \in {"promote", "revoke"} /\ UpdateInv(c)
  BY <1>3 DEF Footprint, UpdateInv
<1>4. CASE c.op = "arbitrate" /\ ArbitrateInv(c)
  BY <1>4 DEF Footprint, ArbitrateInv
<1>5. CASE c.op = "decay" /\ DecayInv(c)
  BY <1>5 DEF Footprint, DecayInv
<1>6. CASE c.op = "gc"
  BY <1>6 DEF Footprint
<1> QED BY <1>1, <1>2, <1>3, <1>4, <1>5, <1>6 DEF CallInv

LEMMA IdleIsOk == CallInv(Idle) /\ \A a, b : ~Explains(Idle, a, b)
BY DEF CallInv, Idle, Explains

\* The tables stay as they are, and so does what the call was about to mend.
LEMMA QuietStepOk ==
  ASSUME FabricInv, NEW p \in Processes, NEW c, call' = [call EXCEPT ![p] = c],
         UNCHANGED <<claims, drawn, clock, graph, conflicted, outcomes>>,
         CallInv(c),
         \A a, b \in Facts : Loose(a, b) /\ Explains(call[p], a, b) => Explains(c, a, b)
  PROVE  FabricInv'
<1>1. Later /\ \A q \in Processes \cup {p} : Undisturbed(call[q])
  BY DEF Later, Undisturbed, Named, Recorded
<1>2. Undisturbed(c)
  BY DEF Undisturbed
<1>3. CallInv(c)'
  BY <1>1, <1>2, CallStaysOk DEF FabricInv
<1>4. \A q \in Processes : GraphOk(graph[q])'
  BY DEF FabricInv, GraphOk, Named
<1>5. \A a, b \in Facts : Loose(a, b)' <=> Loose(a, b)
  BY DEF Loose
<1>6. /\ drawn' \in 0..MaxFacts /\ clock' \in Days /\ DOMAIN claims' = Facts
      /\ DOMAIN graph' = Processes /\ claims' = claims
  BY DEF FabricInv
<1>7. \A a, b \in Facts : Loose(a, b)' =>
        \/ a \in conflicted' \/ b \in conflicted'
        \/ Loose(a, b) /\ ~Explains(call[p], a, b)
        \/ Explains(c, a, b)
  BY <1>5
<1>8. \A f \in Facts : claims'[f] # None => claims'[f] = claims[f] \/ ClaimOk(f, claims[f])'
  BY <1>6
<1> QED BY <1>1, <1>3, <1>4, <1>6, <1>7, <1>8, FabricStepOk

\* The claim r is stored as f.
LEMMA StoreStepOk ==
  ASSUME FabricInv, NEW p \in Processes, NEW c, call' = [call EXCEPT ![p] = c],
         NEW f, NEW r, ClaimOk(f, r), StoreClaim(p, f, r),
         UNCHANGED <<drawn, clock, graph, outcomes>>,
         CallInv(c)',
         \A a, b \in Facts : Loose(a, b)' =>
           \/ a \in conflicted' \/ b \in conflicted'
           \/ Loose(a, b) /\ ~Explains(call[p], a, b)
           \/ Explains(c, a, b)
  PROVE  FabricInv'
<1>1. /\ claims' = [claims EXCEPT ![f] = r] /\ conflicted \subseteq conflicted'
      /\ \A q \in Processes \ {p} : f \in Footprint(call[q]) => f \in conflicted'
  BY DEF StoreClaim, Conflicts
<1>2. Later
  BY <1>1 DEF Later, Named, Recorded
<1>3. /\ f \in Facts /\ DOMAIN claims' = Facts /\ claims'[f] = r
      /\ \A x \in Facts \ {f} : claims'[x] = claims[x]
  BY <1>1, NamedFacts DEF FabricInv, ClaimOk
<1>4. ASSUME NEW q \in Processes \ {p}
      PROVE  Undisturbed(call[q])
  <2>1. Footprint(call[q]) \subseteq Facts
    BY FootprintNamed, NamedFacts DEF FabricInv
  <2> QED BY <2>1, <1>1, <1>3 DEF Undisturbed
<1>5. ClaimOk(f, r)'
  BY <1>2, ClaimStaysOk
<1>6. \A x \in Facts : claims'[x] # None => claims'[x] = claims[x] \/ ClaimOk(x, claims[x])'
  BY <1>3, <1>5
<1>7. \A q \in Processes : GraphOk(graph[q])'
  BY DEF FabricInv, GraphOk, Named
<1>8. drawn' \in 0..MaxFacts /\ clock' \in Days /\ DOMAIN graph' = Processes
  BY DEF FabricInv
<1> QED BY <1>2, <1>3, <1>4, <1>6, <1>7, <1>8, FabricStepOk

\* Storing a claim with the contradictions it has loosens nothing.
LEMMA SameContradictions ==
  ASSUME FabricInv, NEW p, NEW f \in Facts, NEW r, StoreClaim(p, f, r), r # None,
         f \in conflicted \/ (claims[f] # None /\ claims[f].contra = r.contra)
  PROVE  \A a, b \in Facts : Loose(a, b)' => a \in conflicted' \/ b \in conflicted' \/ Loose(a, b)
<1>1. /\ claims' = [claims EXCEPT ![f] = r] /\ conflicted \subseteq conflicted'
  BY DEF StoreClaim, Conflicts
<1>2. /\ claims'[f] = r /\ \A x \in Facts \ {f} : claims'[x] = claims[x]
  BY <1>1 DEF FabricInv
<1>3. CASE f \in conflicted
  BY <1>1, <1>2, <1>3 DEF Loose
<1>4. CASE claims[f] # None /\ claims[f].contra = r.contra
  BY <1>2, <1>4 DEF Loose
<1> QED BY <1>3, <1>4

\* Claims are deleted.
LEMMA DeleteStepOk ==
  ASSUME FabricInv, NEW p \in Processes, NEW c, call' = [call EXCEPT ![p] = c],
         NEW gone, DeleteClaims(p, gone),
         UNCHANGED <<drawn, clock, graph, outcomes>>,
         CallInv(c)',
         \A a, b \in Facts : ~Explains(call[p], a, b)
  PROVE  FabricInv'
<1>1. /\ claims' = [x \in Facts |-> IF x \in gone THEN None ELSE claims[x]]
      /\ conflicted \subseteq conflicted'
      /\ \A q \in Processes \ {p}, x \in gone : x \in Footprint(call[q]) => x \in conflicted'
  BY DEF DeleteClaims, Conflicts
<1>2. Later
  BY <1>1 DEF Later, Named, Recorded
<1>3. DOMAIN claims' = Facts /\ \A x \in Facts : claims'[x] # None => claims'[x] = claims[x]
  BY <1>1
<1>4. ASSUME NEW q \in Processes \ {p}
      PROVE  Undisturbed(call[q])
  <2>1. Footprint(call[q]) \subseteq Facts
    BY FootprintNamed, NamedFacts DEF FabricInv
  <2> QED BY <2>1, <1>1 DEF Undisturbed
<1>5. \A q \in Processes : GraphOk(graph[q])'
  BY DEF FabricInv, GraphOk, Named
<1>6. \A a, b \in Facts : Loose(a, b)' => Loose(a, b)
  BY <1>3 DEF Loose
<1>7. drawn' \in 0..MaxFacts /\ clock' \in Days /\ DOMAIN graph' = Processes
  BY DEF FabricInv
<1>8. \A a, b \in Facts : Loose(a, b)' =>
        \/ a \in conflicted' \/ b \in conflicted'
        \/ Loose(a, b) /\ ~Explains(call[p], a, b)
        \/ Explains(c, a, b)
  BY <1>6
<1>9. \A f \in Facts : claims'[f] # None => claims'[f] = claims[f] \/ ClaimOk(f, claims[f])'
  BY <1>3
<1> QED BY <1>2, <1>3, <1>4, <1>5, <1>7, <1>8, <1>9, FabricStepOk

LEMMA BeginOk ==
  ASSUME FabricInv, NEW p \in Processes, NEW c, Begin(p, c), CallInv(c), UNCHANGED outcomes
  PROVE  FabricInv'
<1>1. call[p] = Idle /\ call' = [call EXCEPT ![p] = c]
  BY DEF Begin
<1>2. \A a, b : ~Explains(call[p], a, b)
  BY <1>1, IdleIsOk
<1>3. UNCHANGED <<claims, drawn, clock, graph, conflicted, outcomes>>
  BY DEF Begin
<1> QED BY <1>1, <1>2, <1>3, QuietStepOk

\* A write that has just been asked for.
NewWrite(c) ==
  /\ DOMAIN c = WriteFields /\ c.op \in WriteOps /\ c.pc \in {"list", "check"}
  /\ c.intent \in Intents \cup {None} /\ c.type \in MemoryTypes /\ c.sure \in BOOLEAN
  /\ ParentOk(c.parent)
  /\ c.wanted \in Seq(Nodes \cup {None}) /\ \A n \in DOMAIN c.wanted : ParentOk(c.wanted[n])
  /\ c.fact = None /\ c.listed = {} /\ c.contra = {} /\ c.todo = {}

LEMMA NewWriteOk ==
  ASSUME NEW c, NewWrite(c)
  PROVE  CallInv(c)
BY DEF NewWrite, CallInv, WriteInv

LEMMA NothingWanted == <<>> \in Seq(Nodes \cup {None}) /\ DOMAIN <<>> = {}
OBVIOUS

LEMMA NoWriteFields ==
  /\ DOMAIN NoWrite = WriteFields
  /\ NoWrite.op = "write" /\ NoWrite.pc = "check" /\ NoWrite.intent = None
  /\ NoWrite.type = "episodic" /\ NoWrite.sure = FALSE /\ NoWrite.parent = None
  /\ NoWrite.fact = None /\ NoWrite.listed = {} /\ NoWrite.contra = {} /\ NoWrite.todo = {}
  /\ NoWrite.wanted = <<>>
BY DEF NoWrite, WriteFields

LEMMA WriteBeginOk ==
  ASSUME FabricInv, NEW p \in Processes, UNCHANGED outcomes,
         NEW i \in Intents, NEW type \in WriteTypes, NEW sure \in BOOLEAN,
         NEW q \in Named \cup {None}, Write(p, i, type, sure, q)
  PROVE  FabricInv'
<1>1. PICK c : c = [NoWrite EXCEPT !.intent = i, !.type = type, !.sure = sure, !.parent = q]
  OBVIOUS
<1>2. /\ DOMAIN c = WriteFields
      /\ c.op = "write" /\ c.pc = "check" /\ c.intent = i /\ c.type = type /\ c.sure = sure
      /\ c.parent = q /\ c.fact = None /\ c.listed = {} /\ c.contra = {} /\ c.todo = {}
      /\ c.wanted = <<>>
  BY <1>1, NoWriteFields DEF WriteFields
<1>3. ParentOk(q) /\ type \in MemoryTypes
  BY MemoryAssumption DEF ParentOk
<1>4. NewWrite(c)
  BY <1>2, <1>3, NothingWanted DEF NewWrite, WriteOps
<1>5. Begin(p, c)
  BY <1>1 DEF Write
<1> QED BY <1>4, <1>5, NewWriteOk, BeginOk

LEMMA ReviewBeginOk ==
  ASSUME FabricInv, NEW p \in Processes, UNCHANGED outcomes, NEW i \in Intents, Review(p, i, TRUE)
  PROVE  FabricInv'
<1>1. PICK c : c = [NoWrite EXCEPT !.op = "review", !.pc = "list", !.intent = i, !.sure = TRUE]
  OBVIOUS
<1>2. /\ DOMAIN c = WriteFields
      /\ c.op = "review" /\ c.pc = "list" /\ c.intent = i /\ c.type = "episodic" /\ c.sure = TRUE
      /\ c.parent = None /\ c.fact = None /\ c.listed = {} /\ c.contra = {} /\ c.todo = {}
      /\ c.wanted = <<>>
  BY <1>1, NoWriteFields DEF WriteFields
<1>3. ParentOk(None) /\ c.type \in MemoryTypes /\ c.sure \in BOOLEAN /\ c.op \in WriteOps
  BY <1>2 DEF ParentOk, MemoryTypes, WriteOps
<1>4. NewWrite(c)
  BY <1>2, <1>3, NothingWanted DEF NewWrite
<1>5. Begin(p, c)
  BY <1>1 DEF Review
<1> QED BY <1>4, <1>5, NewWriteOk, BeginOk

LEMMA ConsolidateBeginOk ==
  ASSUME FabricInv, NEW p \in Processes, UNCHANGED outcomes, NEW i \in Intents,
         NEW q \in Named \cup {None}, Consolidate(p, i, <<q>>)
  PROVE  FabricInv'
<1>1. PICK c : c = [NoWrite EXCEPT !.op = "consolidate", !.pc = "list", !.intent = i,
                      !.type = "reflective", !.sure = TRUE, !.wanted = <<q>>]
  OBVIOUS
<1>2. /\ DOMAIN c = WriteFields
      /\ c.op = "consolidate" /\ c.pc = "list" /\ c.intent = i /\ c.type = "reflective"
      /\ c.sure = TRUE
      /\ c.parent = None /\ c.fact = None /\ c.listed = {} /\ c.contra = {} /\ c.todo = {}
      /\ c.wanted = <<q>>
  BY <1>1, NoWriteFields DEF WriteFields
<1>3. ParentOk(None) /\ ParentOk(q) /\ q \in Nodes \cup {None}
  BY NamedFacts DEF ParentOk, FabricInv
<1>4. <<q>> \in Seq(Nodes \cup {None}) /\ DOMAIN <<q>> = {1} /\ <<q>>[1] = q
  BY <1>3
<1>5. NewWrite(c)
  BY <1>2, <1>3, <1>4 DEF NewWrite, WriteOps, MemoryTypes
<1>6. Begin(p, c)
  BY <1>1 DEF Consolidate
<1> QED BY <1>5, <1>6, NewWriteOk, BeginOk

LEMMA PromoteBeginOk ==
  ASSUME FabricInv, NEW p \in Processes, UNCHANGED outcomes, NEW f \in Named,
         NEW target \in Targets, Promote(p, f, target)
  PROVE  FabricInv'
<1>1. PICK c : c = [op |-> "promote", pc |-> "get", fact |-> f, target |-> target, copy |-> None]
  OBVIOUS
<1>2. CallInv(c)
  BY <1>1, MemoryAssumption DEF CallInv, UpdateInv, UpdateFields
<1> QED BY <1>1, <1>2, BeginOk DEF Promote

LEMMA RevokeBeginOk ==
  ASSUME FabricInv, NEW p \in Processes, UNCHANGED outcomes, NEW f \in Named, Revoke(p, f)
  PROVE  FabricInv'
<1>1. PICK c : c = [op |-> "revoke", pc |-> "get", fact |-> f, target |-> "REVOKED", copy |-> None]
  OBVIOUS
<1>2. CallInv(c)
  BY <1>1 DEF CallInv, UpdateInv, UpdateFields, TrustStates
<1> QED BY <1>1, <1>2, BeginOk DEF Revoke

LEMMA ArbitrateBeginOk ==
  ASSUME FabricInv, NEW p \in Processes, UNCHANGED outcomes, NEW a \in Named, NEW b \in Named,
         NEW keep \in {"a", "b"}, a # b, Arbitrate(p, a, b, keep)
  PROVE  FabricInv'
<1>1. PICK c : c = [op |-> "arbitrate", pc |-> "getA", a |-> a, b |-> b, keep |-> keep,
                    copyA |-> None, copyB |-> None]
  OBVIOUS
<1>2. CallInv(c)
  BY <1>1 DEF CallInv, ArbitrateInv, ArbitrateFields
<1> QED BY <1>1, <1>2, BeginOk DEF Arbitrate

LEMMA DecayBeginOk ==
  ASSUME FabricInv, NEW p \in Processes, UNCHANGED outcomes, DecayCycle(p)
  PROVE  FabricInv'
<1>1. PICK c : c = [op |-> "decay", pc |-> "list", todo |-> {}, copies |-> [f \in Facts |-> None]]
  OBVIOUS
<1>2. CallInv(c)
  BY <1>1 DEF CallInv, DecayInv, DecayFields
<1> QED BY <1>1, <1>2, BeginOk DEF DecayCycle

LEMMA GcBeginOk ==
  ASSUME FabricInv, NEW p \in Processes, UNCHANGED outcomes, NEW day \in Days, Gc(p, day)
  PROVE  FabricInv'
<1>1. PICK c : c = [op |-> "gc", pc |-> "delete", before |-> day]
  OBVIOUS
<1>2. CallInv(c)
  BY <1>1 DEF CallInv
<1> QED BY <1>1, <1>2, BeginOk DEF Gc

LEMMA MemoryBeginOk ==
  ASSUME FabricInv, NEW p \in Processes, UNCHANGED outcomes, MemoryBegin(p)
  PROVE  FabricInv'
<1>1. CASE \E i \in Intents, type \in WriteTypes, sure \in BOOLEAN, q \in Named \cup {None} :
             Write(p, i, type, sure, q)
  BY <1>1, WriteBeginOk
<1>2. CASE \E i \in Intents : Review(p, i, TRUE)
  BY <1>2, ReviewBeginOk
<1>3. CASE \E i \in Intents, q \in Named \cup {None} : Consolidate(p, i, <<q>>)
  BY <1>3, ConsolidateBeginOk
<1>4. CASE \E f \in Named, target \in Targets : Promote(p, f, target)
  BY <1>4, PromoteBeginOk
<1>5. CASE \E a, b \in Named, keep \in {"a", "b"} : a # b /\ Arbitrate(p, a, b, keep)
  BY <1>5, ArbitrateBeginOk
<1>6. CASE DecayCycle(p)
  BY <1>6, DecayBeginOk
<1>7. CASE \E f \in Named : Revoke(p, f)
  BY <1>7, RevokeBeginOk
<1>8. CASE \E day \in Days : Gc(p, day)
  BY <1>8, GcBeginOk
<1> QED BY <1>1, <1>2, <1>3, <1>4, <1>5, <1>6, <1>7, <1>8 DEF MemoryBegin, MemoryCommand, Named

\* What is known of the call of p, by what it does.
LEMMA CallFacts ==
  ASSUME FabricInv, NEW p \in Processes
  PROVE  /\ call[p].op \in WriteOps => WriteInv(call[p])
         /\ call[p].op \in {"promote", "revoke"} => UpdateInv(call[p])
         /\ call[p].op = "arbitrate" => ArbitrateInv(call[p])
         /\ call[p].op = "decay" => DecayInv(call[p])
BY DEF FabricInv, CallInv, WriteOps, Idle

LEMMA StoredNamed ==
  ASSUME FabricInv
  PROVE  Stored \subseteq Named /\ \A f \in Stored : ClaimOk(f, claims[f]) /\ f \in Facts
BY DEF FabricInv, Stored, ClaimOk

LEMMA ReviewListOk ==
  ASSUME FabricInv, NEW p \in Processes, UNCHANGED outcomes, ReviewList(p)
  PROVE  FabricInv'
<1>1. PICK s : s = call[p]
  OBVIOUS
<1>2. s.op = "review" /\ s.pc = "list" /\ WriteInv(s)
  BY <1>1, CallFacts DEF ReviewList, WriteOps
<1>3. PICK c : c = [s EXCEPT !.pc = "check", !.listed = Stored]
  OBVIOUS
<1>4. /\ DOMAIN c = WriteFields /\ c.op = "review" /\ c.pc = "check" /\ c.listed = Stored
      /\ c.intent = s.intent /\ c.type = s.type /\ c.sure = s.sure /\ c.parent = s.parent
      /\ c.fact = s.fact /\ c.contra = s.contra /\ c.todo = s.todo /\ c.wanted = s.wanted
  BY <1>2, <1>3 DEF WriteInv, WriteFields
<1>5. WriteInv(c)
  BY <1>2, <1>4, StoredNamed DEF WriteInv
<1>6. CallInv(c)
  BY <1>4, <1>5 DEF CallInv, WriteOps
<1>7. \A a, b : ~Explains(s, a, b)
  BY <1>2 DEF Explains
<1> QED BY <1>1, <1>3, <1>6, <1>7, QuietStepOk DEF ReviewList, Goto

LEMMA ConsolidateListOk ==
  ASSUME FabricInv, NEW p \in Processes, UNCHANGED outcomes, ConsolidateList(p)
  PROVE  FabricInv'
<1>1. PICK s : s = call[p]
  OBVIOUS
<1>2. s.op = "consolidate" /\ s.pc = "list" /\ WriteInv(s)
  BY <1>1, CallFacts DEF ConsolidateList, WriteOps
<1>3. PICK x \in Stored \cup {None} :
        call' = [call EXCEPT ![p] = [s EXCEPT !.pc = "check", !.parent = x]]
  BY <1>1 DEF ConsolidateList, Goto
<1>4. PICK c : c = [s EXCEPT !.pc = "check", !.parent = x]
  OBVIOUS
<1>5. /\ DOMAIN c = WriteFields /\ c.op = "consolidate" /\ c.pc = "check" /\ c.parent = x
      /\ c.intent = s.intent /\ c.type = s.type /\ c.sure = s.sure /\ c.listed = s.listed
      /\ c.fact = s.fact /\ c.contra = s.contra /\ c.todo = s.todo /\ c.wanted = s.wanted
  BY <1>2, <1>4 DEF WriteInv, WriteFields
<1>6. ParentOk(x)
  BY StoredNamed DEF ParentOk
<1>7. WriteInv(c)
  BY <1>2, <1>5, <1>6 DEF WriteInv
<1>8. CallInv(c)
  BY <1>5, <1>7 DEF CallInv, WriteOps
<1>9. \A a, b : ~Explains(s, a, b)
  BY <1>2 DEF Explains
<1> QED BY <1>1, <1>3, <1>4, <1>8, <1>9, QuietStepOk DEF ConsolidateList

\* The next write of a consolidation.
FurtherWrite(s, summary) ==
  [s EXCEPT !.pc = "check", !.fact = summary, !.type = "strategic",
            !.parent = IF Head(s.wanted) = None THEN summary ELSE Head(s.wanted),
            !.wanted = Tail(s.wanted)]

LEMMA AfterWriteIs ==
  ASSUME NEW s, DOMAIN s = WriteFields, s.op \in WriteOps, NEW f, NEW r
  PROVE  \/ AfterWrite(s, f, r) = Idle
         \/ /\ s.op = "review" /\ f # None
            /\ AfterWrite(s, f, r) = [s EXCEPT !.pc = "detect", !.fact = f, !.copy = r]
         \/ /\ s.op = "consolidate" /\ s.wanted # <<>> /\ (s.fact # None \/ f # None)
            /\ AfterWrite(s, f, r) = FurtherWrite(s, IF s.fact = None THEN f ELSE s.fact)
<1>1. CASE s.op = "write" \/ (f = None /\ (s.op = "review" \/ s.fact = None))
  BY <1>1 DEF AfterWrite
<1>2. CASE s.op = "review" /\ f # None
  BY <1>2 DEF AfterWrite
<1>3. CASE s.op = "consolidate" /\ (s.fact # None \/ f # None)
  <2>1. CASE s.wanted = <<>>
    BY <1>3, <2>1 DEF AfterWrite
  <2>2. CASE s.wanted # <<>>
    <3>1. [s EXCEPT !.pc = "check", !.fact = IF s.fact = None THEN f ELSE s.fact,
                    !.type = "strategic",
                    !.parent = IF Head(s.wanted) = None THEN (IF s.fact = None THEN f ELSE s.fact)
                               ELSE Head(s.wanted),
                    !.wanted = Tail(@)] = FurtherWrite(s, IF s.fact = None THEN f ELSE s.fact)
      BY DEF FurtherWrite, WriteFields
    <3> QED BY <1>3, <2>2, <3>1 DEF AfterWrite
  <2> QED BY <2>1, <2>2
<1> QED BY <1>1, <1>2, <1>3 DEF WriteOps

LEMMA FurtherWriteFields ==
  ASSUME NEW s, DOMAIN s = WriteFields, s.wanted \in Seq(Nodes \cup {None}), s.wanted # <<>>,
         NEW x, NEW c, c = FurtherWrite(s, x)
  PROVE  /\ DOMAIN c = WriteFields /\ c.op = s.op /\ c.pc = "check" /\ c.fact = x
         /\ c.type = "strategic" /\ c.intent = s.intent /\ c.sure = s.sure
         /\ c.listed = s.listed /\ c.contra = s.contra /\ c.todo = s.todo
         /\ c.parent = x \/ \E n \in DOMAIN s.wanted : c.parent = s.wanted[n]
         /\ c.wanted \in Seq(Nodes \cup {None})
         /\ \A n \in DOMAIN c.wanted : \E k \in DOMAIN s.wanted : c.wanted[n] = s.wanted[k]
<1>1. /\ DOMAIN c = WriteFields /\ c.op = s.op /\ c.pc = "check" /\ c.fact = x
      /\ c.type = "strategic" /\ c.intent = s.intent /\ c.sure = s.sure
      /\ c.listed = s.listed /\ c.contra = s.contra /\ c.todo = s.todo
      /\ c.parent = (IF Head(s.wanted) = None THEN x ELSE Head(s.wanted))
      /\ c.wanted = Tail(s.wanted)
  BY DEF FurtherWrite, WriteFields
<1>2. PICK w : w = s.wanted
  OBVIOUS
<1>3. /\ w \in Seq(Nodes \cup {None}) /\ w # <<>> /\ Len(w) \in Nat /\ Len(w) >= 1
      /\ DOMAIN w = 1..Len(w) /\ Head(w) = w[1]
  BY <1>2
<1>4. /\ Tail(w) \in Seq(Nodes \cup {None}) /\ DOMAIN Tail(w) = 1..(Len(w) - 1)
      /\ \A n \in 1..(Len(w) - 1) : Tail(w)[n] = w[n + 1]
  BY <1>3
<1>5. \A n \in DOMAIN Tail(w) : n + 1 \in DOMAIN w /\ Tail(w)[n] = w[n + 1]
  BY <1>3, <1>4
<1>6. 1 \in DOMAIN w
  BY <1>3
<1> QED BY <1>1, <1>2, <1>3, <1>4, <1>5, <1>6

LEMMA FurtherWriteOk ==
  ASSUME NEW s, WriteInv(s), s.op = "consolidate", s.pc \in {"check", "store"},
         s.wanted # <<>>, NEW x \in Named, NEW c, c = FurtherWrite(s, x)
  PROVE  CallInv(c)
<1>1. DOMAIN s = WriteFields /\ s.wanted \in Seq(Nodes \cup {None})
  BY DEF WriteInv
<1>2. /\ DOMAIN c = WriteFields /\ c.op = s.op /\ c.pc = "check" /\ c.fact = x
      /\ c.type = "strategic" /\ c.intent = s.intent /\ c.sure = s.sure
      /\ c.listed = s.listed /\ c.contra = s.contra /\ c.todo = s.todo
      /\ c.parent = x \/ \E n \in DOMAIN s.wanted : c.parent = s.wanted[n]
      /\ c.wanted \in Seq(Nodes \cup {None})
      /\ \A n \in DOMAIN c.wanted : \E k \in DOMAIN s.wanted : c.wanted[n] = s.wanted[k]
  BY <1>1, FurtherWriteFields
<1>3. ParentOk(c.parent) /\ \A n \in DOMAIN c.wanted : ParentOk(c.wanted[n])
  BY <1>2 DEF WriteInv, ParentOk
<1>4. c.contra = {} /\ c.todo = {} /\ c.type \in MemoryTypes
  BY <1>2 DEF WriteInv, MemoryTypes
<1>5. WriteInv(c)
  BY <1>2, <1>3, <1>4 DEF WriteInv
<1> QED BY <1>2, <1>5 DEF CallInv, WriteOps

LEMMA WriteCheckOk ==
  ASSUME FabricInv, NEW p \in Processes, UNCHANGED outcomes, WriteCheck(p)
  PROVE  FabricInv'
<1>1. PICK s : s = call[p]
  OBVIOUS
<1>2. s.op \in WriteOps /\ s.pc = "check" /\ WriteInv(s) /\ DOMAIN s = WriteFields
  BY <1>1, CallFacts DEF WriteCheck, WriteOps, WriteInv
<1>3. \A a, b : ~Explains(s, a, b)
  BY <1>2 DEF Explains, WriteOps
<1>4. \/ call' = [call EXCEPT ![p] = [s EXCEPT !.pc = "store"]]
      \/ call' = [call EXCEPT ![p] = AfterWrite(s, None, None)]
  BY <1>1 DEF WriteCheck, Goto
<1>5. CASE call' = [call EXCEPT ![p] = [s EXCEPT !.pc = "store"]]
  <2>1. PICK c : c = [s EXCEPT !.pc = "store"]
    OBVIOUS
  <2>2. /\ DOMAIN c = WriteFields /\ c.op = s.op /\ c.pc = "store" /\ c.parent = s.parent
        /\ c.intent = s.intent /\ c.type = s.type /\ c.sure = s.sure /\ c.listed = s.listed
        /\ c.fact = s.fact /\ c.contra = s.contra /\ c.todo = s.todo /\ c.wanted = s.wanted
    BY <1>2, <2>1 DEF WriteFields
  <2>3. WriteInv(c)
    BY <1>2, <2>2 DEF WriteInv
  <2>4. CallInv(c)
    BY <1>2, <2>2, <2>3 DEF CallInv
  <2> QED BY <1>1, <1>3, <1>5, <2>1, <2>4, QuietStepOk DEF WriteCheck
<1>6. CASE call' = [call EXCEPT ![p] = AfterWrite(s, None, None)]
  <2>1. PICK c : c = AfterWrite(s, None, None)
    OBVIOUS
  <2>2. \/ c = Idle
        \/ s.op = "consolidate" /\ s.wanted # <<>> /\ s.fact # None /\ c = FurtherWrite(s, s.fact)
    BY <1>2, <2>1, AfterWriteIs
  <2>3. CallInv(c)
    BY <1>2, <2>2, IdleIsOk, FurtherWriteOk DEF WriteInv
  <2> QED BY <1>1, <1>3, <1>6, <2>1, <2>3, QuietStepOk DEF WriteCheck
<1> QED BY <1>4, <1>5, <1>6

LEMMA GraphStaysOk ==
  ASSUME NEW g, GraphOk(g), Named \subseteq Named'
  PROVE  GraphOk(g)'
BY DEF GraphOk

\* The graph after a write, whether or not its claim is then stored.
LEMMA WriteGraphOk ==
  ASSUME FabricInv, NEW p \in Processes, UNCHANGED outcomes, WriteStore(p),
         NEW s, s = call[p], NEW k, k = drawn + 1,
         NEW h, h = IF s.parent = None THEN graph[p] ELSE AddEdge(graph[p], k, s.parent)
  PROVE  /\ WriteInv(s) /\ s.op \in WriteOps /\ s.pc = "store" /\ DOMAIN s = WriteFields
         /\ k \in Facts /\ k \notin Named /\ Named' = Named \cup {k}
         /\ drawn' = k /\ drawn' \in 0..MaxFacts
         /\ graph' = [graph EXCEPT ![p] = h] /\ DOMAIN graph' = Processes
         /\ \A q \in Processes : GraphOk(graph[q])'
         /\ \A q \in Processes, n \in Named : graph'[q].edges[n] = graph[q].edges[n]
                                           /\ AncestorsIn(graph'[q], n) = AncestorsIn(graph[q], n)
         /\ \A q \in Processes : graph'[q].edges[k] # None => q = p
<1>1. WriteInv(s) /\ s.op \in WriteOps /\ s.pc = "store" /\ DOMAIN s = WriteFields
  BY CallFacts DEF WriteStore, WriteInv, WriteOps
<1>2. /\ drawn < MaxFacts /\ drawn' = k
      /\ graph' = [graph EXCEPT ![p] = h] /\ drawn \in 0..MaxFacts /\ DOMAIN graph = Processes
  BY DEF WriteStore, FabricInv
<1>3. /\ k \in Facts /\ k \notin Named /\ Named' = Named \cup {k} /\ drawn' \in 0..MaxFacts
  BY <1>2, NamedFacts, MemoryAssumption DEF Named, Facts
<1>4. PICK g : g = graph[p]
  OBVIOUS
<1>5. GraphOk(g)
  BY <1>4 DEF FabricInv
<1>6. GraphOk(h)' /\ \A n \in Named : h.edges[n] = g.edges[n] /\ AncestorsIn(h, n) = AncestorsIn(g, n)
  <2>1. CASE s.parent = None
    <3>1. h = g
      BY <2>1, <1>4
    <3>2. GraphOk(g)'
      BY <1>3, <1>5, GraphStaysOk
    <3> QED BY <3>1, <3>2
  <2>2. CASE s.parent # None
    <3>1. ParentOk(s.parent)
      BY <1>1 DEF WriteInv
    <3>2. s.parent \in Named \cup (Nodes \ Facts)
      BY <3>1, <2>2, LearningAssumption DEF ParentOk, Recorded
    <3>3. h = AddEdge(g, drawn + 1, s.parent)
      BY <2>2, <1>4
    <3> QED BY <1>2, <1>5, <3>2, <3>3, AddEdgeOk
  <2> QED BY <2>1, <2>2
<1>7. graph'[p] = h /\ DOMAIN graph' = Processes /\ \A q \in Processes \ {p} : graph'[q] = graph[q]
  BY <1>2
<1>8. \A q \in Processes : GraphOk(graph[q])'
  <2> SUFFICES ASSUME NEW q \in Processes PROVE GraphOk(graph[q])'
    OBVIOUS
  <2>1. CASE q = p
    BY <2>1, <1>6, <1>7
  <2>2. CASE q # p
    <3>1. PICK d : d = graph[q]
      OBVIOUS
    <3>2. GraphOk(d)
      BY <3>1 DEF FabricInv
    <3>3. GraphOk(d)'
      BY <1>3, <3>2, GraphStaysOk
    <3> QED BY <2>2, <3>1, <3>3, <1>7
  <2> QED BY <2>1, <2>2
<1>9. \A q \in Processes, n \in Named : graph'[q].edges[n] = graph[q].edges[n]
                                   /\ AncestorsIn(graph'[q], n) = AncestorsIn(graph[q], n)
  BY <1>4, <1>6, <1>7
<1>10. ASSUME NEW q \in Processes, graph'[q].edges[k] # None
       PROVE  q = p
  <2> SUFFICES ASSUME q # p PROVE FALSE
    OBVIOUS
  <2>1. graph[q].edges[k] # None /\ GraphOk(graph[q])
    BY <1>7, <1>10 DEF FabricInv
  <2> QED BY <2>1, <1>3, NamedFacts DEF GraphOk, FabricInv
<1> QED BY <1>1, <1>2, <1>3, <1>7, <1>8, <1>9, <1>10

LEMMA WriteStoreOk ==
  ASSUME FabricInv, NEW p \in Processes, UNCHANGED outcomes, WriteStore(p)
  PROVE  FabricInv'
<1>1. PICK s : s = call[p]
  OBVIOUS
<1>2. PICK k : k = drawn + 1
  OBVIOUS
<1>3. PICK h : h = IF s.parent = None THEN graph[p] ELSE AddEdge(graph[p], k, s.parent)
  OBVIOUS
<1>4. /\ WriteInv(s) /\ s.op \in WriteOps /\ s.pc = "store" /\ DOMAIN s = WriteFields
      /\ k \in Facts /\ k \notin Named /\ Named' = Named \cup {k}
      /\ drawn' = k /\ drawn' \in 0..MaxFacts
      /\ graph' = [graph EXCEPT ![p] = h] /\ DOMAIN graph' = Processes
      /\ \A q \in Processes : GraphOk(graph[q])'
      /\ \A q \in Processes, n \in Named : graph'[q].edges[n] = graph[q].edges[n]
                                        /\ AncestorsIn(graph'[q], n) = AncestorsIn(graph[q], n)
      /\ \A q \in Processes : graph'[q].edges[k] # None => q = p
  BY <1>1, <1>2, <1>3, WriteGraphOk
<1>5. PICK r : r = Written(s, k, h)
  OBVIOUS
<1>6. \/ StoreClaim(p, k, r) /\ call' = [call EXCEPT ![p] = AfterWrite(s, k, r)]
      \/ UNCHANGED <<claims, conflicted>> /\ call' = [call EXCEPT ![p] = Idle]
  BY <1>1, <1>2, <1>3, <1>5 DEF WriteStore, Goto
<1>7. clock' \in Days /\ clock \in Days /\ DOMAIN claims = Facts
  BY DEF WriteStore, FabricInv
<1>8. \A a, b : ~Explains(s, a, b)
  BY <1>4 DEF Explains, WriteOps
<1>9. \A q \in Processes : Footprint(call[q]) \subseteq Named
  BY FootprintNamed DEF FabricInv
<1>10. conflicted \subseteq conflicted'
  BY <1>6 DEF StoreClaim, Conflicts
<1>11. Later
  BY <1>4, <1>10 DEF Later, Recorded
<1>12. CASE UNCHANGED <<claims, conflicted>> /\ call' = [call EXCEPT ![p] = Idle]
  <2>1. CallInv(Idle)'
    BY DEF CallInv
  <2>2. \A a, b \in Facts : Loose(a, b)' <=> Loose(a, b)
    BY <1>12 DEF Loose
  <2>3. \A q \in Processes \ {p} : Undisturbed(call[q])
    BY <1>12 DEF Undisturbed
  <2>4. DOMAIN claims' = Facts /\ claims' = claims
    BY <1>7, <1>12
  <2>5. \A f \in Facts : claims'[f] # None => claims'[f] = claims[f] \/ ClaimOk(f, claims[f])'
    BY <2>4
  <2>6. \A a, b \in Facts : Loose(a, b)' =>
          \/ a \in conflicted' \/ b \in conflicted'
          \/ Loose(a, b) /\ ~Explains(call[p], a, b)
          \/ Explains(Idle, a, b)
    BY <2>2, <1>1, <1>8
  <2> QED BY <1>4, <1>7, <1>11, <1>12, <2>1, <2>3, <2>4, <2>5, <2>6, FabricStepOk
<1>13. CASE StoreClaim(p, k, r) /\ call' = [call EXCEPT ![p] = AfterWrite(s, k, r)]
  <2>1. /\ claims' = [claims EXCEPT ![k] = r] /\ DOMAIN claims' = Facts /\ claims'[k] = r
        /\ \A x \in Facts \ {k} : claims'[x] = claims[x]
    BY <1>4, <1>7, <1>13 DEF StoreClaim
  <2>2. r = [intent |-> s.intent, type |-> s.type, sure |-> s.sure, state |-> "UNVERIFIED",
             tier |-> "quarantine", contra |-> {}, parent |-> s.parent,
             lineage |-> AncestorsIn(h, k), at |-> clock]
    BY <1>5 DEF Written
  <2>3. ParentOk(s.parent)' /\ s.parent \in Nodes \cup {None}
    <3>1. ParentOk(s.parent)
      BY <1>4 DEF WriteInv
    <3> QED BY <3>1, <1>11, ParentStaysOk, NamedFacts, LearningAssumption
            DEF ParentOk, Recorded, FabricInv
  <2>4. r \in Claim
    <3>1. AncestorsIn(h, k) \subseteq Nodes
      BY AncestorsAre
    <3>2. /\ s.intent \in Intents \cup {None} /\ s.type \in MemoryTypes /\ s.sure \in BOOLEAN
      BY <1>4 DEF WriteInv
    <3> QED BY <2>2, <2>3, <3>1, <3>2, <1>7 DEF Claim, TrustStates, Live
  <2>5. /\ r.contra = {} /\ r.parent = s.parent /\ r.lineage = AncestorsIn(h, k) /\ r # None
    BY <2>2, <2>4, NoClaimAssumption
  <2>6. ClaimOk(k, r)'
    <3>1. \A q \in Processes : graph'[q].edges[k] # None => r.lineage = AncestorsIn(graph'[q], k)
      <4>1. DOMAIN graph = Processes
        BY DEF FabricInv
      <4>2. graph'[p] = h
        BY <1>4, <4>1
      <4> QED BY <1>4, <2>5, <4>2
    <3> QED BY <1>4, <2>3, <2>4, <2>5, <3>1 DEF ClaimOk
  <2>7. Fresh(k, r)'
    BY <2>1, <2>6 DEF Fresh
  <2>8. WriteInv(s)'
    <3>1. Footprint(s) \subseteq Named
      BY <1>1, <1>9
    <3>2. Undisturbed(s)
      BY <3>1, <1>4, <2>1, NamedFacts DEF Undisturbed, FabricInv
    <3> QED BY <3>2, <1>4, <1>11, WriteStaysOk DEF FabricInv
  <2>9. PICK c : c = AfterWrite(s, k, r)
    OBVIOUS
  <2>10. CallInv(c)'
    <3>1. \/ c = Idle
          \/ s.op = "review" /\ c = [s EXCEPT !.pc = "detect", !.fact = k, !.copy = r]
          \/ /\ s.op = "consolidate" /\ s.wanted # <<>>
             /\ c = FurtherWrite(s, IF s.fact = None THEN k ELSE s.fact)
      <4>1. s.op \in WriteOps /\ DOMAIN s = WriteFields
        BY <1>4
      <4>2. \/ AfterWrite(s, k, r) = Idle
            \/ /\ s.op = "review" /\ k # None
               /\ AfterWrite(s, k, r) = [s EXCEPT !.pc = "detect", !.fact = k, !.copy = r]
            \/ /\ s.op = "consolidate" /\ s.wanted # <<>> /\ (s.fact # None \/ k # None)
               /\ AfterWrite(s, k, r) = FurtherWrite(s, IF s.fact = None THEN k ELSE s.fact)
        BY <4>1, AfterWriteIs
      <4> QED BY <2>9, <4>2
    <3>2. CASE c = Idle
      BY <3>2 DEF CallInv
    <3>3. CASE s.op = "review" /\ c = [s EXCEPT !.pc = "detect", !.fact = k, !.copy = r]
      <4>1. /\ DOMAIN c = WriteFields /\ c.op = s.op /\ c.pc = "detect" /\ c.fact = k /\ c.copy = r
            /\ c.intent = s.intent /\ c.type = s.type /\ c.sure = s.sure /\ c.listed = s.listed
            /\ c.parent = s.parent /\ c.contra = s.contra /\ c.todo = s.todo /\ c.wanted = s.wanted
        BY <3>3, <1>4 DEF WriteFields
      <4>2. k # None /\ k \notin s.listed /\ s.contra = {}
        BY <1>4, NamedFacts DEF WriteInv, FabricInv
      <4>3. WriteInv(c)'
        BY <2>5, <2>7, <2>8, <3>3, <4>1, <4>2, <1>4 DEF WriteInv
      <4> QED BY <4>1, <4>3, <1>4 DEF CallInv
    <3>4. CASE /\ s.op = "consolidate" /\ s.wanted # <<>>
               /\ c = FurtherWrite(s, IF s.fact = None THEN k ELSE s.fact)
      <4>1. PICK x : x = IF s.fact = None THEN k ELSE s.fact
        OBVIOUS
      <4>2. x \in Named'
        BY <4>1, <1>4 DEF WriteInv
      <4>3. /\ DOMAIN c = WriteFields /\ c.op = s.op /\ c.pc = "check" /\ c.fact = x
            /\ c.type = "strategic" /\ c.intent = s.intent /\ c.sure = s.sure
            /\ c.listed = s.listed /\ c.contra = s.contra /\ c.todo = s.todo
            /\ c.parent = x \/ \E n \in DOMAIN s.wanted : c.parent = s.wanted[n]
            /\ c.wanted \in Seq(Nodes \cup {None})
            /\ \A n \in DOMAIN c.wanted : \E y \in DOMAIN s.wanted : c.wanted[n] = s.wanted[y]
        BY <1>4, <3>4, <4>1, FurtherWriteFields DEF WriteInv
      <4>4. ParentOk(x)'
        BY <4>2 DEF ParentOk
      <4>5. \A n \in DOMAIN s.wanted : ParentOk(s.wanted[n])'
        BY <2>8 DEF WriteInv
      <4>6. ParentOk(c.parent)' /\ \A n \in DOMAIN c.wanted : ParentOk(c.wanted[n])'
        BY <4>3, <4>4, <4>5
      <4>7. c.contra = {} /\ c.todo = {} /\ c.type \in MemoryTypes
        BY <4>3, <1>4 DEF WriteInv, MemoryTypes
      <4>8. WriteInv(c)'
        BY <2>8, <3>4, <4>2, <4>3, <4>6, <4>7 DEF WriteInv
      <4> QED BY <4>3, <4>8, <1>4 DEF CallInv
    <3> QED BY <3>1, <3>2, <3>3, <3>4
  <2>11. \A q \in Processes \ {p} : Undisturbed(call[q])
    BY <1>4, <1>9, <2>1, NamedFacts DEF Undisturbed, FabricInv
  <2>12. \A f \in Facts : claims'[f] # None => claims'[f] = claims[f] \/ ClaimOk(f, claims[f])'
    BY <2>1, <2>6
  <2>13. \A a, b \in Facts : Loose(a, b)' => Loose(a, b)
    <3> SUFFICES ASSUME NEW a \in Facts, NEW b \in Facts, Loose(a, b)' PROVE Loose(a, b)
      OBVIOUS
    <3>1. a # k
      BY <2>1, <2>5 DEF Loose
    <3>2. claims[a] # None /\ claims[a] = claims'[a] /\ ClaimOk(a, claims[a])
      BY <3>1, <2>1 DEF Loose, FabricInv
    <3>3. b # k
      BY <3>2, <1>4 DEF Loose, ClaimOk
    <3> QED BY <3>2, <3>3, <2>1 DEF Loose
  <2>14. \A a, b \in Facts : Loose(a, b)' =>
          \/ a \in conflicted' \/ b \in conflicted'
          \/ Loose(a, b) /\ ~Explains(call[p], a, b)
          \/ Explains(c, a, b)
    BY <2>13, <1>1, <1>8
  <2> QED BY <1>4, <1>7, <1>11, <1>13, <2>1, <2>9, <2>10, <2>11, <2>12, <2>14, FabricStepOk
<1> QED BY <1>6, <1>12, <1>13

\* A claim without what it holds of other claims is as good.
LEMMA ClaimChanged ==
  ASSUME NEW f, NEW r, ClaimOk(f, r), NEW x, x \in Claim, x.parent = r.parent,
         x.lineage = r.lineage, x.contra \subseteq Named
  PROVE  ClaimOk(f, x)
BY DEF ClaimOk

LEMMA ReviewDetectOk ==
  ASSUME FabricInv, NEW p \in Processes, UNCHANGED outcomes, NEW found \in SUBSET Facts,
         ReviewDetect(p, found)
  PROVE  FabricInv'
<1>1. PICK s : s = call[p]
  OBVIOUS
<1>2. /\ s.op = "review" /\ s.pc = "detect" /\ WriteInv(s) /\ DOMAIN s = WriteFields
      /\ found \subseteq s.listed
  BY <1>1, CallFacts DEF ReviewDetect, WriteOps, WriteInv
<1>3. \A a, b : ~Explains(s, a, b)
  BY <1>2 DEF Explains
<1>4. CASE found = {}
  BY <1>1, <1>3, <1>4, IdleIsOk, QuietStepOk DEF ReviewDetect, Goto
<1>5. CASE found # {}
  <2>1. PICK f, y, r, c : /\ f = s.fact /\ y = s.copy /\ r = [y EXCEPT !.contra = found]
                          /\ c = [s EXCEPT !.pc = "get", !.contra = found, !.todo = found,
                                           !.copy = None]
    OBVIOUS
  <2>2. StoreClaim(p, f, r) /\ call' = [call EXCEPT ![p] = c]
        /\ UNCHANGED <<drawn, clock, graph, outcomes>>
    BY <1>1, <1>5, <2>1 DEF ReviewDetect, Goto
  <2>3. /\ f \in Named /\ f # None /\ f \notin found /\ found \subseteq Named
        /\ ClaimOk(f, y) /\ y \in Claim /\ y.contra = {}
        /\ f \in conflicted \/ claims[f] = y
    BY <1>2, <2>1 DEF WriteInv, Fresh, ClaimOk
  <2>4. /\ r \in Claim /\ r.contra = found /\ r.parent = y.parent /\ r.lineage = y.lineage
        /\ r # None /\ y # None
    BY <2>1, <2>3, NoClaimAssumption DEF Claim
  <2>5. ClaimOk(f, r)
    BY <2>3, <2>4, ClaimChanged
  <2>6. /\ DOMAIN c = WriteFields /\ c.op = "review" /\ c.pc = "get" /\ c.fact = f
        /\ c.intent = s.intent /\ c.type = s.type /\ c.sure = s.sure /\ c.listed = s.listed
        /\ c.parent = s.parent /\ c.contra = found /\ c.todo = found /\ c.wanted = s.wanted
    BY <1>2, <2>1 DEF WriteFields
  <2>7. /\ claims' = [claims EXCEPT ![f] = r] /\ f \in Facts /\ claims'[f] = r
        /\ \A x \in Facts \ {f} : claims'[x] = claims[x]
        /\ conflicted \subseteq conflicted'
    BY <2>2, <2>3, NamedFacts DEF StoreClaim, Conflicts, FabricInv
  <2>8. CallInv(c)'
    <3>1. Named' = Named /\ ParentOk(s.parent)'
          /\ \A n \in DOMAIN s.wanted : ParentOk(s.wanted[n])'
      BY <1>2, <2>2 DEF Named, ParentOk, Recorded, WriteInv
    <3>2. WriteInv(c)'
      BY <1>2, <2>3, <2>4, <2>6, <2>7, <3>1 DEF WriteInv
    <3> QED BY <2>6, <3>2 DEF CallInv, WriteOps
  <2>9. \A a, b \in Facts : Loose(a, b)' =>
          \/ a \in conflicted' \/ b \in conflicted'
          \/ Loose(a, b) /\ ~Explains(call[p], a, b)
          \/ Explains(c, a, b)
    <3> SUFFICES ASSUME NEW a \in Facts, NEW b \in Facts, Loose(a, b)',
                        a \notin conflicted', b \notin conflicted'
                 PROVE  Loose(a, b) \/ Explains(c, a, b)
      BY <1>1, <1>3
    <3>1. CASE a = f
      BY <3>1, <2>4, <2>6, <2>7 DEF Loose, Explains
    <3>2. CASE a # f /\ b = f
      <4>1. claims[f] = y /\ claims[a] = claims'[a]
        BY <3>2, <2>3, <2>7
      <4> QED BY <3>2, <4>1, <2>3, <2>4, <2>7 DEF Loose
    <3>3. CASE a # f /\ b # f
      BY <3>3, <2>7 DEF Loose
    <3> QED BY <3>1, <3>2, <3>3
  <2> QED BY <2>2, <2>5, <2>8, <2>9, StoreStepOk
<1> QED BY <1>4, <1>5

LEMMA ReviewGetOk ==
  ASSUME FabricInv, NEW p \in Processes, UNCHANGED outcomes, ReviewGet(p)
  PROVE  FabricInv'
<1>1. PICK s : s = call[p]
  OBVIOUS
<1>2. s.op = "review" /\ s.pc = "get" /\ WriteInv(s) /\ DOMAIN s = WriteFields
  BY <1>1, CallFacts DEF ReviewGet, WriteOps, WriteInv
<1>3. UNCHANGED <<claims, drawn, clock, graph, conflicted, outcomes>>
  BY DEF ReviewGet
<1>4. CASE s.todo = {} /\ call' = [call EXCEPT ![p] = Idle]
  <2>1. \A a, b : ~Explains(s, a, b)
    BY <1>2, <1>4 DEF Explains
  <2> QED BY <1>1, <1>3, <1>4, <2>1, IdleIsOk, QuietStepOk
<1>5. ASSUME NEW o \in s.todo, claims[o] = None,
             call' = [call EXCEPT ![p] = [s EXCEPT !.todo = @ \ {o}]]
      PROVE  FabricInv'
  <2>1. PICK c : c = [s EXCEPT !.todo = @ \ {o}]
    OBVIOUS
  <2>2. /\ DOMAIN c = WriteFields /\ c.op = "review" /\ c.pc = "get" /\ c.fact = s.fact
        /\ c.intent = s.intent /\ c.type = s.type /\ c.sure = s.sure /\ c.listed = s.listed
        /\ c.parent = s.parent /\ c.contra = s.contra /\ c.todo = s.todo \ {o}
        /\ c.wanted = s.wanted
    BY <1>2, <2>1 DEF WriteFields
  <2>3. WriteInv(c)
    BY <1>2, <2>2 DEF WriteInv
  <2>4. CallInv(c)
    BY <2>2, <2>3 DEF CallInv, WriteOps
  <2>5. \A a, b \in Facts : Loose(a, b) /\ Explains(call[p], a, b) => Explains(c, a, b)
    BY <1>1, <1>2, <1>5, <2>2 DEF Loose, Explains
  <2> QED BY <1>3, <1>5, <2>1, <2>4, <2>5, QuietStepOk
<1>6. ASSUME NEW o \in s.todo, claims[o] # None,
             call' = [call EXCEPT ![p] = [s EXCEPT !.pc = "put", !.other = o, !.copy = claims[o]]]
      PROVE  FabricInv'
  <2>1. PICK c : c = [s EXCEPT !.pc = "put", !.other = o, !.copy = claims[o]]
    OBVIOUS
  <2>2. /\ DOMAIN c = WriteFields /\ c.op = "review" /\ c.pc = "put" /\ c.fact = s.fact
        /\ c.intent = s.intent /\ c.type = s.type /\ c.sure = s.sure /\ c.listed = s.listed
        /\ c.parent = s.parent /\ c.contra = s.contra /\ c.todo = s.todo
        /\ c.wanted = s.wanted /\ c.other = o /\ c.copy = claims[o]
    BY <1>2, <2>1 DEF WriteFields
  <2>3. Fresh(o, claims[o])
    BY <1>2, <1>6, NamedFacts DEF FabricInv, Fresh, WriteInv
  <2>4. WriteInv(c)
    BY <1>2, <1>6, <2>2, <2>3 DEF WriteInv
  <2>5. CallInv(c)
    BY <2>2, <2>4 DEF CallInv, WriteOps
  <2>6. \A a, b \in Facts : Loose(a, b) /\ Explains(call[p], a, b) => Explains(c, a, b)
    BY <1>1, <1>2, <2>2 DEF Explains
  <2> QED BY <1>3, <1>6, <2>1, <2>5, <2>6, QuietStepOk
<1>7. \/ s.todo = {} /\ call' = [call EXCEPT ![p] = Idle]
      \/ \E o \in s.todo :
           call' = [call EXCEPT ![p] =
             IF claims[o] = None THEN [s EXCEPT !.todo = @ \ {o}]
             ELSE [s EXCEPT !.pc = "put", !.other = o, !.copy = claims[o]]]
  BY <1>1 DEF ReviewGet, Goto
<1> QED BY <1>4, <1>5, <1>6, <1>7

LEMMA ReviewPutOk ==
  ASSUME FabricInv, NEW p \in Processes, UNCHANGED outcomes, ReviewPut(p)
  PROVE  FabricInv'
<1>1. PICK s : s = call[p]
  OBVIOUS
<1>2. s.op = "review" /\ s.pc = "put" /\ WriteInv(s) /\ DOMAIN s = WriteFields
  BY <1>1, CallFacts DEF ReviewPut, WriteOps, WriteInv
<1>3. PICK f, o, y, r, c :
        /\ f = s.fact /\ o = s.other /\ y = s.copy /\ r = [y EXCEPT !.contra = @ \cup {f}]
        /\ c = [s EXCEPT !.pc = "get", !.todo = @ \ {o}, !.other = None, !.copy = None]
  OBVIOUS
<1>4. /\ StoreClaim(p, o, r) /\ call' = [call EXCEPT ![p] = c]
      /\ UNCHANGED <<drawn, clock, graph, outcomes>>
  BY <1>1, <1>3 DEF ReviewPut, Goto
<1>5. /\ f \in Named /\ o \in s.todo /\ s.todo \subseteq s.contra /\ s.contra \subseteq Named
      /\ f \notin s.contra /\ f # o /\ ClaimOk(o, y) /\ y \in Claim /\ y.contra \subseteq Named
      /\ o \in conflicted \/ claims[o] = y
      /\ f \in conflicted \/ (claims[f] # None /\ claims[f].contra = s.contra)
  BY <1>2, <1>3 DEF WriteInv, Fresh, ClaimOk
<1>6. /\ r \in Claim /\ r.contra = y.contra \cup {f} /\ r.parent = y.parent
      /\ r.lineage = y.lineage /\ r # None /\ y # None
  BY <1>3, <1>5, NamedFacts, NoClaimAssumption DEF Claim, FabricInv
<1>7. ClaimOk(o, r)
  BY <1>5, <1>6, ClaimChanged
<1>8. /\ DOMAIN c = WriteFields /\ c.op = "review" /\ c.pc = "get" /\ c.fact = f
      /\ c.intent = s.intent /\ c.type = s.type /\ c.sure = s.sure /\ c.listed = s.listed
      /\ c.parent = s.parent /\ c.contra = s.contra /\ c.todo = s.todo \ {o}
      /\ c.wanted = s.wanted
  BY <1>2, <1>3 DEF WriteFields
<1>9. /\ claims' = [claims EXCEPT ![o] = r] /\ o \in Facts /\ f \in Facts /\ claims'[o] = r
      /\ \A x \in Facts \ {o} : claims'[x] = claims[x]
      /\ conflicted \subseteq conflicted'
  BY <1>4, <1>5, NamedFacts DEF StoreClaim, Conflicts, FabricInv
<1>10. CallInv(c)'
  <2>1. Named' = Named /\ ParentOk(s.parent)'
        /\ \A n \in DOMAIN s.wanted : ParentOk(s.wanted[n])'
    BY <1>2, <1>4 DEF Named, ParentOk, Recorded, WriteInv
  <2>2. f \in conflicted' \/ (claims'[f] # None /\ claims'[f].contra = s.contra)
    BY <1>5, <1>9
  <2>3. f # None /\ s.listed \subseteq Named /\ s.intent \in Intents \cup {None}
        /\ s.type \in MemoryTypes /\ s.sure \in BOOLEAN /\ s.wanted \in Seq(Nodes \cup {None})
    BY <1>2, <1>3 DEF WriteInv
  <2>4. WriteInv(c)'
    BY <1>5, <1>8, <2>1, <2>2, <2>3 DEF WriteInv
  <2> QED BY <1>8, <2>4 DEF CallInv, WriteOps
<1>11. \A a, b \in Facts : Loose(a, b)' =>
         \/ a \in conflicted' \/ b \in conflicted'
         \/ Loose(a, b) /\ ~Explains(call[p], a, b)
         \/ Explains(c, a, b)
  <2> SUFFICES ASSUME NEW a \in Facts, NEW b \in Facts, Loose(a, b)',
                      a \notin conflicted', b \notin conflicted'
               PROVE  (Loose(a, b) /\ ~Explains(s, a, b)) \/ Explains(c, a, b)
    BY <1>1
  <2>1. Explains(s, a, b) <=> a = f /\ b \in s.todo
    BY <1>2, <1>3 DEF Explains
  <2>2. Explains(c, a, b) <=> a = f /\ b \in s.todo \ {o}
    BY <1>8 DEF Explains
  <2>3. ~(a = f /\ b = o)
    BY <1>6, <1>9 DEF Loose
  <2>4. CASE a = o
    <3>1. claims[o] = y /\ b # o
      BY <2>4, <1>5, <1>6, <1>9 DEF Loose
    <3>2. b # f
      <4> SUFFICES ASSUME b = f PROVE FALSE
        OBVIOUS
      <4>1. claims'[f] = claims[f] /\ claims[f].contra = s.contra
        BY <1>5, <1>9
      <4> QED BY <4>1, <2>4, <1>5 DEF Loose
    <3>3. Loose(a, b)
      BY <2>4, <3>1, <3>2, <1>6, <1>9 DEF Loose
    <3> QED BY <3>3, <2>1, <2>4, <1>5
  <2>5. CASE b = o
    <3>1. claims[o] = y /\ a # o
      BY <2>5, <1>5, <1>6, <1>9 DEF Loose
    <3>2. Loose(a, b)
      BY <2>5, <3>1, <1>6, <1>9 DEF Loose
    <3> QED BY <3>2, <2>1, <2>3, <2>5
  <2>6. CASE a # o /\ b # o
    <3>1. Loose(a, b)
      BY <2>6, <1>9 DEF Loose
    <3> QED BY <3>1, <2>1, <2>2, <2>6
  <2> QED BY <2>4, <2>5, <2>6
<1> QED BY <1>4, <1>7, <1>10, <1>11, StoreStepOk

LEMMA UpdateGetOk ==
  ASSUME FabricInv, NEW p \in Processes, UNCHANGED outcomes, UpdateGet(p)
  PROVE  FabricInv'
<1>1. PICK s : s = call[p]
  OBVIOUS
<1>2. s.op \in {"promote", "revoke"} /\ UpdateInv(s) /\ DOMAIN s = UpdateFields
  BY <1>1, CallFacts DEF UpdateGet, UpdateInv
<1>3. UNCHANGED <<claims, drawn, clock, graph, conflicted, outcomes>>
  BY DEF UpdateGet
<1>4. \A a, b : ~Explains(s, a, b)
  BY <1>2 DEF Explains
<1>5. \/ call' = [call EXCEPT ![p] = Idle]
      \/ /\ claims[s.fact] # None
         /\ call' = [call EXCEPT ![p] = [s EXCEPT !.pc = "put", !.copy = claims[s.fact]]]
  BY <1>1 DEF UpdateGet, Goto
<1>6. CASE call' = [call EXCEPT ![p] = Idle]
  BY <1>1, <1>3, <1>4, <1>6, IdleIsOk, QuietStepOk
<1>7. CASE /\ claims[s.fact] # None
           /\ call' = [call EXCEPT ![p] = [s EXCEPT !.pc = "put", !.copy = claims[s.fact]]]
  <2>1. PICK c : c = [s EXCEPT !.pc = "put", !.copy = claims[s.fact]]
    OBVIOUS
  <2>2. /\ DOMAIN c = UpdateFields /\ c.op = s.op /\ c.pc = "put" /\ c.fact = s.fact
        /\ c.target = s.target /\ c.copy = claims[s.fact]
    BY <1>2, <2>1 DEF UpdateFields
  <2>3. Fresh(s.fact, claims[s.fact])
    BY <1>2, <1>7, NamedFacts DEF FabricInv, Fresh, UpdateInv
  <2>4. CallInv(c)
    BY <1>2, <2>2, <2>3 DEF CallInv, UpdateInv
  <2> QED BY <1>1, <1>3, <1>4, <1>7, <2>1, <2>4, QuietStepOk
<1> QED BY <1>5, <1>6, <1>7

\* A step that stores a copy with the contradictions it was read with, and mends nothing.
LEMMA PutStepOk ==
  ASSUME FabricInv, NEW p \in Processes, NEW c, call' = [call EXCEPT ![p] = c],
         NEW f, NEW y, Fresh(f, y), NEW r, r \in Claim, r.contra = y.contra,
         r.parent = y.parent, r.lineage = y.lineage, StoreClaim(p, f, r),
         UNCHANGED <<drawn, clock, graph, outcomes>>, CallInv(c)',
         \A a, b : ~Explains(call[p], a, b)
  PROVE  FabricInv'
<1>1. /\ ClaimOk(f, y) /\ y # None /\ r # None /\ f \in Facts /\ r.contra \subseteq Named
      /\ f \in conflicted \/ claims[f] = y
  BY NoClaimAssumption, NamedFacts DEF Fresh, ClaimOk, FabricInv
<1>2. ClaimOk(f, r)
  BY <1>1, ClaimChanged
<1>3. \A a, b \in Facts : Loose(a, b)' => a \in conflicted' \/ b \in conflicted' \/ Loose(a, b)
  BY <1>1, SameContradictions
<1>4. \A a, b \in Facts : Loose(a, b)' =>
         \/ a \in conflicted' \/ b \in conflicted'
         \/ Loose(a, b) /\ ~Explains(call[p], a, b)
         \/ Explains(c, a, b)
  BY <1>3
<1> QED BY <1>2, <1>4, StoreStepOk

LEMMA UpdatePutOk ==
  ASSUME FabricInv, NEW p \in Processes, UNCHANGED outcomes, PromotePut(p) \/ RevokePut(p)
  PROVE  FabricInv'
<1>1. PICK s : s = call[p]
  OBVIOUS
<1>2. /\ s.op \in {"promote", "revoke"} /\ s.pc = "put" /\ UpdateInv(s)
      /\ UNCHANGED <<drawn, clock, graph, outcomes>> /\ call' = [call EXCEPT ![p] = Idle]
  BY <1>1, CallFacts DEF PromotePut, RevokePut, Goto
<1>3. \A a, b : ~Explains(s, a, b)
  BY <1>2 DEF Explains
<1>4. CallInv(Idle)'
  BY DEF CallInv
<1>5. CASE UNCHANGED <<claims, conflicted>>
  BY <1>1, <1>2, <1>3, <1>5, IdleIsOk, QuietStepOk
<1>6. ASSUME NEW target \in TrustStates, NEW tier \in {"quarantine", s.copy.tier, "authoritative"},
             StoreClaim(p, s.fact, [s.copy EXCEPT !.state = target, !.tier = tier])
      PROVE  FabricInv'
  <2>1. PICK y, r : y = s.copy /\ r = [s.copy EXCEPT !.state = target, !.tier = tier]
    OBVIOUS
  <2>2. Fresh(s.fact, y) /\ y \in Claim
    BY <1>2, <2>1 DEF UpdateInv, Fresh, ClaimOk
  <2>3. r \in Claim /\ r.contra = y.contra /\ r.parent = y.parent /\ r.lineage = y.lineage
    BY <2>1, <2>2 DEF Claim
  <2> QED BY <1>1, <1>2, <1>3, <1>4, <1>6, <2>1, <2>2, <2>3, PutStepOk
<1>7. CASE PromotePut(p)
  <2>1. \/ UNCHANGED <<claims, conflicted>>
        \/ StoreClaim(p, s.fact, [s.copy EXCEPT !.state = s.target,
             !.tier = IF s.target \in {"VALIDATED", "EXECUTABLE"} THEN "authoritative" ELSE @])
    BY <1>1, <1>7 DEF PromotePut
  <2>2. s.target \in TrustStates
    BY <1>2 DEF UpdateInv
  <2> QED BY <1>5, <1>6, <2>1, <2>2
<1>8. CASE RevokePut(p)
  <2>1. StoreClaim(p, s.fact, [s.copy EXCEPT !.state = "REVOKED"])
    BY <1>1, <1>8 DEF RevokePut
  <2>2. PICK y, r : y = s.copy /\ r = [s.copy EXCEPT !.state = "REVOKED"]
    OBVIOUS
  <2>3. Fresh(s.fact, y) /\ y \in Claim
    BY <1>2, <2>2 DEF UpdateInv, Fresh, ClaimOk
  <2>4. r \in Claim /\ r.contra = y.contra /\ r.parent = y.parent /\ r.lineage = y.lineage
    BY <2>2, <2>3 DEF Claim, TrustStates
  <2> QED BY <1>1, <1>2, <1>3, <1>4, <2>1, <2>2, <2>3, <2>4, PutStepOk
<1> QED BY <1>7, <1>8

LEMMA ArbitrateGetOk ==
  ASSUME FabricInv, NEW p \in Processes, UNCHANGED outcomes, ArbitrateGet(p)
  PROVE  FabricInv'
<1>1. PICK s : s = call[p]
  OBVIOUS
<1>2. /\ s.op = "arbitrate" /\ s.pc \in {"getA", "getB"} /\ ArbitrateInv(s)
      /\ DOMAIN s = ArbitrateFields /\ s.a \in Facts /\ s.b \in Facts
  BY <1>1, CallFacts, NamedFacts DEF ArbitrateGet, ArbitrateInv, FabricInv
<1>3. UNCHANGED <<claims, drawn, clock, graph, conflicted, outcomes>>
  BY DEF ArbitrateGet
<1>4. \A a, b : ~Explains(s, a, b)
  BY <1>2 DEF Explains
<1>5. \/ /\ s.pc = "getA"
         /\ call' = [call EXCEPT ![p] = [s EXCEPT !.pc = "getB", !.copyA = claims[s.a]]]
      \/ call' = [call EXCEPT ![p] = Idle]
      \/ /\ s.pc = "getB" /\ s.copyA # None /\ claims[s.b] # None
         /\ call' = [call EXCEPT ![p] = [s EXCEPT !.pc = "putA", !.copyB = claims[s.b]]]
  BY <1>1, <1>2 DEF ArbitrateGet, Goto
<1>6. CASE call' = [call EXCEPT ![p] = Idle]
  BY <1>1, <1>3, <1>4, <1>6, IdleIsOk, QuietStepOk
<1>7. CASE /\ s.pc = "getA"
           /\ call' = [call EXCEPT ![p] = [s EXCEPT !.pc = "getB", !.copyA = claims[s.a]]]
  <2>1. PICK c : c = [s EXCEPT !.pc = "getB", !.copyA = claims[s.a]]
    OBVIOUS
  <2>2. /\ DOMAIN c = ArbitrateFields /\ c.op = "arbitrate" /\ c.pc = "getB" /\ c.a = s.a
        /\ c.b = s.b /\ c.copyA = claims[s.a]
    BY <1>2, <2>1 DEF ArbitrateFields
  <2>3. claims[s.a] = None \/ Fresh(s.a, claims[s.a])
    BY <1>2 DEF FabricInv, Fresh
  <2>4. CallInv(c)
    BY <1>2, <2>2, <2>3 DEF CallInv, ArbitrateInv
  <2> QED BY <1>1, <1>3, <1>4, <1>7, <2>1, <2>4, QuietStepOk
<1>8. CASE /\ s.pc = "getB" /\ s.copyA # None /\ claims[s.b] # None
           /\ call' = [call EXCEPT ![p] = [s EXCEPT !.pc = "putA", !.copyB = claims[s.b]]]
  <2>1. PICK c : c = [s EXCEPT !.pc = "putA", !.copyB = claims[s.b]]
    OBVIOUS
  <2>2. /\ DOMAIN c = ArbitrateFields /\ c.op = "arbitrate" /\ c.pc = "putA" /\ c.a = s.a
        /\ c.b = s.b /\ c.copyA = s.copyA /\ c.copyB = claims[s.b]
    BY <1>2, <2>1 DEF ArbitrateFields
  <2>3. Fresh(s.b, claims[s.b])
    BY <1>2, <1>8 DEF FabricInv, Fresh
  <2>4. Fresh(s.a, s.copyA)
    BY <1>2, <1>8 DEF ArbitrateInv
  <2>5. CallInv(c)
    BY <1>2, <2>2, <2>3, <2>4 DEF CallInv, ArbitrateInv
  <2> QED BY <1>1, <1>3, <1>4, <1>8, <2>1, <2>5, QuietStepOk
<1> QED BY <1>5, <1>6, <1>7, <1>8

LEMMA SettledIs ==
  ASSUME NEW y \in Claim, NEW f, NEW wins
  PROVE  /\ Settled(y, f, wins) \in Claim /\ Settled(y, f, wins).contra = y.contra \ {f}
         /\ Settled(y, f, wins).parent = y.parent /\ Settled(y, f, wins).lineage = y.lineage
BY DEF Settled, Claim, TrustStates, Live

\* A claim is stored as x with y's contradictions, but for z: nothing is loosened but what z
\* says of x.
LEMMA SettledLoose ==
  ASSUME FabricInv, NEW p, NEW x \in Facts, NEW z \in Facts, x # z, NEW y, NEW r,
         StoreClaim(p, x, r), r # None, y # None, r.contra = y.contra \ {z},
         x \in conflicted \/ claims[x] = y
  PROVE  \A a, b \in Facts : Loose(a, b)' =>
           \/ a \in conflicted' \/ b \in conflicted'
           \/ Loose(a, b) /\ ~(a = x /\ b = z)
           \/ a = z /\ b = x /\ claims[z] # None /\ x \in claims[z].contra
<1>1. /\ claims' = [claims EXCEPT ![x] = r] /\ conflicted \subseteq conflicted'
  BY DEF StoreClaim, Conflicts
<1>2. /\ claims'[x] = r /\ \A w \in Facts \ {x} : claims'[w] = claims[w]
  BY <1>1 DEF FabricInv
<1> SUFFICES ASSUME NEW a \in Facts, NEW b \in Facts, Loose(a, b)',
                    a \notin conflicted', b \notin conflicted'
             PROVE  \/ Loose(a, b) /\ ~(a = x /\ b = z)
                    \/ a = z /\ b = x /\ claims[z] # None /\ x \in claims[z].contra
  OBVIOUS
<1>3. CASE a = x
  BY <1>1, <1>2, <1>3 DEF Loose
<1>4. CASE b = x
  BY <1>1, <1>2, <1>4 DEF Loose
<1>5. CASE a # x /\ b # x
  BY <1>2, <1>5 DEF Loose
<1> QED BY <1>3, <1>4, <1>5

LEMMA ArbitratePutOk ==
  ASSUME FabricInv, NEW p \in Processes, UNCHANGED outcomes, ArbitratePut(p)
  PROVE  FabricInv'
<1>1. PICK s : s = call[p]
  OBVIOUS
<1>2. /\ s.op = "arbitrate" /\ s.pc \in {"putA", "putB"} /\ ArbitrateInv(s)
      /\ DOMAIN s = ArbitrateFields /\ s.a \in Facts /\ s.b \in Facts
      /\ s.a \in Named /\ s.b \in Named /\ s.a # s.b
  BY <1>1, CallFacts, NamedFacts DEF ArbitratePut, ArbitrateInv, FabricInv
<1>3. UNCHANGED <<drawn, clock, graph, outcomes>>
  BY DEF ArbitratePut
<1>4. CASE s.pc = "putA"
  <2>1. PICK y, r, c : /\ y = s.copyA /\ r = Settled(s.copyA, s.b, s.keep = "a")
                       /\ c = [s EXCEPT !.pc = "putB"]
    OBVIOUS
  <2>2. StoreClaim(p, s.a, r) /\ call' = [call EXCEPT ![p] = c]
    BY <1>1, <1>4, <2>1 DEF ArbitratePut, Goto
  <2>3. Fresh(s.a, y) /\ Fresh(s.b, s.copyB) /\ y \in Claim /\ ClaimOk(s.a, y) /\ y # None
        /\ (s.a \in conflicted \/ claims[s.a] = y) /\ y.contra \subseteq Named
    BY <1>2, <1>4, <2>1, NoClaimAssumption DEF ArbitrateInv, Fresh, ClaimOk
  <2>4. /\ r \in Claim /\ r.contra = y.contra \ {s.b} /\ r.parent = y.parent
        /\ r.lineage = y.lineage /\ r # None
    BY <2>1, <2>3, SettledIs, NoClaimAssumption
  <2>5. ClaimOk(s.a, r)
    BY <2>3, <2>4, ClaimChanged
  <2>6. /\ DOMAIN c = ArbitrateFields /\ c.op = "arbitrate" /\ c.pc = "putB" /\ c.a = s.a
        /\ c.b = s.b /\ c.copyB = s.copyB
    BY <1>2, <2>1 DEF ArbitrateFields
  <2>7. /\ claims'[s.a] = r /\ claims'[s.b] = claims[s.b] /\ conflicted \subseteq conflicted'
    BY <1>2, <2>2 DEF StoreClaim, Conflicts, FabricInv
  <2>8. CallInv(c)'
    <3>1. Named' = Named
      BY <1>3 DEF Named
    <3>2. \A f, x : ClaimOk(f, x) => ClaimOk(f, x)'
      BY <1>3 DEF ClaimOk, ParentOk, Named, Recorded
    <3>3. Fresh(s.b, s.copyB)'
      BY <2>3, <2>7, <3>2 DEF Fresh
    <3>4. ArbitrateInv(c)'
      BY <1>2, <2>4, <2>6, <2>7, <3>1, <3>3 DEF ArbitrateInv
    <3> QED BY <2>6, <3>4 DEF CallInv
  <2>9. \A a, b \in Facts : Loose(a, b)' =>
          \/ a \in conflicted' \/ b \in conflicted'
          \/ Loose(a, b) /\ ~(a = s.a /\ b = s.b)
          \/ a = s.b /\ b = s.a /\ claims[s.b] # None /\ s.a \in claims[s.b].contra
    <3>1. PICK x, z : x = s.a /\ z = s.b
      OBVIOUS
    <3>2. /\ x \in Facts /\ z \in Facts /\ x # z /\ StoreClaim(p, x, r)
          /\ r # None /\ y # None /\ r.contra = y.contra \ {z}
          /\ x \in conflicted \/ claims[x] = y
      BY <1>2, <2>2, <2>3, <2>4, <3>1
    <3>3. \A a, b \in Facts : Loose(a, b)' =>
            \/ a \in conflicted' \/ b \in conflicted'
            \/ Loose(a, b) /\ ~(a = x /\ b = z)
            \/ a = z /\ b = x /\ claims[z] # None /\ x \in claims[z].contra
      BY <3>2, SettledLoose
    <3> QED BY <3>1, <3>3
  <2>10. \A a, b : ~Explains(call[p], a, b)
    BY <1>1, <1>2, <1>4 DEF Explains
  <2>11. Explains(c, s.b, s.a)
    BY <2>6 DEF Explains
  <2>12. \A a, b \in Facts : Loose(a, b)' =>
          \/ a \in conflicted' \/ b \in conflicted'
          \/ Loose(a, b) /\ ~Explains(call[p], a, b)
          \/ Explains(c, a, b)
    BY <2>9, <2>10, <2>11
  <2> QED BY <1>3, <2>2, <2>5, <2>8, <2>12, StoreStepOk
<1>5. CASE s.pc = "putB"
  <2>1. PICK y, r : y = s.copyB /\ r = Settled(s.copyB, s.a, s.keep = "b")
    OBVIOUS
  <2>2. StoreClaim(p, s.b, r) /\ call' = [call EXCEPT ![p] = Idle]
    BY <1>1, <1>5, <2>1 DEF ArbitratePut, Goto
  <2>3. Fresh(s.b, y) /\ y \in Claim /\ ClaimOk(s.b, y) /\ y # None
        /\ (s.b \in conflicted \/ claims[s.b] = y) /\ y.contra \subseteq Named
        /\ (s.a \in conflicted \/ (claims[s.a] # None /\ s.b \notin claims[s.a].contra))
    BY <1>2, <1>5, <2>1, NoClaimAssumption DEF ArbitrateInv, Fresh, ClaimOk
  <2>4. /\ r \in Claim /\ r.contra = y.contra \ {s.a} /\ r.parent = y.parent
        /\ r.lineage = y.lineage /\ r # None
    BY <2>1, <2>3, SettledIs, NoClaimAssumption
  <2>5. ClaimOk(s.b, r)
    BY <2>3, <2>4, ClaimChanged
  <2>6. CallInv(Idle)'
    BY DEF CallInv
  <2>7. \A a, b \in Facts : Loose(a, b)' =>
          \/ a \in conflicted' \/ b \in conflicted'
          \/ Loose(a, b) /\ ~(a = s.b /\ b = s.a)
          \/ a = s.a /\ b = s.b /\ claims[s.a] # None /\ s.b \in claims[s.a].contra
    <3>1. PICK x, z : x = s.b /\ z = s.a
      OBVIOUS
    <3>2. /\ x \in Facts /\ z \in Facts /\ x # z /\ StoreClaim(p, x, r)
          /\ r # None /\ y # None /\ r.contra = y.contra \ {z}
          /\ x \in conflicted \/ claims[x] = y
      BY <1>2, <2>2, <2>3, <2>4, <3>1
    <3>3. \A a, b \in Facts : Loose(a, b)' =>
            \/ a \in conflicted' \/ b \in conflicted'
            \/ Loose(a, b) /\ ~(a = x /\ b = z)
            \/ a = z /\ b = x /\ claims[z] # None /\ x \in claims[z].contra
      BY <3>2, SettledLoose
    <3> QED BY <3>1, <3>3
  <2>8. conflicted \subseteq conflicted'
    BY <2>2 DEF StoreClaim, Conflicts
  <2>9. \A a, b : Explains(call[p], a, b) => a = s.b /\ b = s.a
    BY <1>1, <1>2 DEF Explains
  <2>10. \A a, b \in Facts : Loose(a, b)' =>
          \/ a \in conflicted' \/ b \in conflicted'
          \/ Loose(a, b) /\ ~Explains(call[p], a, b)
          \/ Explains(Idle, a, b)
    BY <2>3, <2>7, <2>8, <2>9
  <2> QED BY <1>3, <2>2, <2>5, <2>6, <2>10, StoreStepOk
<1> QED BY <1>2, <1>4, <1>5

LEMMA DecayListOk ==
  ASSUME FabricInv, NEW p \in Processes, UNCHANGED outcomes, DecayList(p)
  PROVE  FabricInv'
<1>1. PICK s : s = call[p]
  OBVIOUS
<1>2. s.op = "decay" /\ DecayInv(s) /\ DOMAIN s = DecayFields
  BY <1>1, CallFacts DEF DecayList, DecayInv
<1>3. PICK c : c = [s EXCEPT !.pc = "process", !.todo = Stored, !.copies = claims]
  OBVIOUS
<1>4. /\ DOMAIN c = DecayFields /\ c.op = "decay" /\ c.pc = "process" /\ c.todo = Stored
      /\ c.copies = claims
  BY <1>2, <1>3 DEF DecayFields
<1>5. \A f \in Stored : Fresh(f, claims[f])
  BY StoredNamed DEF Fresh
<1>6. DecayInv(c)
  BY <1>4, <1>5, StoredNamed DEF DecayInv, FabricInv
<1>7. CallInv(c)
  BY <1>4, <1>6 DEF CallInv
<1>8. \A a, b : ~Explains(s, a, b)
  BY <1>2 DEF Explains
<1> QED BY <1>1, <1>3, <1>7, <1>8, QuietStepOk DEF DecayList, Goto

LEMMA DecayClaimOk ==
  ASSUME FabricInv, NEW p \in Processes, UNCHANGED outcomes, DecayClaim(p)
  PROVE  FabricInv'
<1>1. PICK s : s = call[p]
  OBVIOUS
<1>2. s.op = "decay" /\ s.pc = "process" /\ DecayInv(s) /\ DOMAIN s = DecayFields
  BY <1>1, CallFacts DEF DecayClaim, DecayInv
<1>3. UNCHANGED <<drawn, clock, graph, outcomes>>
  BY DEF DecayClaim
<1>4. \A a, b : ~Explains(s, a, b)
  BY <1>2 DEF Explains
<1>5. CASE call' = [call EXCEPT ![p] = Idle] /\ UNCHANGED <<claims, conflicted>>
  BY <1>1, <1>3, <1>4, <1>5, IdleIsOk, QuietStepOk
<1>6. ASSUME NEW f \in s.todo,
             call' = [call EXCEPT ![p] = [s EXCEPT !.todo = @ \ {f}, !.copies[f] = None]],
             \/ UNCHANGED <<claims, conflicted>>
             \/ StoreClaim(p, f, [s.copies[f] EXCEPT !.state = "OBSERVED"])
             \/ DeleteClaims(p, {f})
      PROVE  FabricInv'
  <2>1. PICK c : c = [s EXCEPT !.todo = @ \ {f}, !.copies[f] = None]
    OBVIOUS
  <2>2. /\ DOMAIN c = DecayFields /\ c.op = "decay" /\ c.pc = "process" /\ c.todo = s.todo \ {f}
        /\ DOMAIN c.copies = Facts /\ \A x \in Facts \ {f} : c.copies[x] = s.copies[x]
    BY <1>2, <2>1 DEF DecayFields, DecayInv
  <2>3. f \in Named /\ f \in Facts /\ s.todo \subseteq Facts /\ Fresh(f, s.copies[f])
        /\ \A x \in s.todo : Fresh(x, s.copies[x])
    BY <1>2, NamedFacts DEF DecayInv, FabricInv
  <2>4. CallInv(c)
    BY <1>2, <2>2, <2>3 DEF CallInv, DecayInv
  <2>5. Footprint(c) = s.todo \ {f}
    BY <2>2 DEF Footprint
  <2>6. CASE UNCHANGED <<claims, conflicted>>
    BY <1>1, <1>3, <1>4, <1>6, <2>1, <2>4, <2>6, QuietStepOk
  <2>7. \A x \in Facts \ {f} : claims'[x] = claims[x]
    BY <1>6, <2>3 DEF StoreClaim, DeleteClaims, FabricInv
  <2>8. conflicted \subseteq conflicted'
    BY <1>6 DEF StoreClaim, DeleteClaims, Conflicts
  <2>9. Later /\ Undisturbed(c)
    BY <1>3, <2>3, <2>5, <2>7, <2>8 DEF Later, Undisturbed, Named, Recorded
  <2>10. CallInv(c)'
    BY <2>4, <2>9, CallStaysOk DEF FabricInv
  <2>11. CASE StoreClaim(p, f, [s.copies[f] EXCEPT !.state = "OBSERVED"])
    <3>1. PICK y, r : y = s.copies[f] /\ r = [s.copies[f] EXCEPT !.state = "OBSERVED"]
      OBVIOUS
    <3>2. Fresh(f, y) /\ y \in Claim
      BY <2>3, <3>1 DEF Fresh, ClaimOk
    <3>3. r \in Claim /\ r.contra = y.contra /\ r.parent = y.parent /\ r.lineage = y.lineage
      BY <3>1, <3>2 DEF Claim, TrustStates, Live
    <3> QED BY <1>1, <1>3, <1>4, <1>6, <2>1, <2>10, <2>11, <3>1, <3>2, <3>3, PutStepOk
  <2>12. CASE DeleteClaims(p, {f})
    BY <1>1, <1>3, <1>4, <1>6, <2>1, <2>10, <2>12, DeleteStepOk
  <2> QED BY <1>6, <2>6, <2>11, <2>12
<1>7. \/ call' = [call EXCEPT ![p] = Idle] /\ UNCHANGED <<claims, conflicted>>
      \/ \E f \in s.todo :
           /\ call' = [call EXCEPT ![p] = [s EXCEPT !.todo = @ \ {f}, !.copies[f] = None]]
           /\ \/ UNCHANGED <<claims, conflicted>>
              \/ StoreClaim(p, f, [s.copies[f] EXCEPT !.state = "OBSERVED"])
              \/ DeleteClaims(p, {f})
  BY <1>1 DEF DecayClaim, Goto
<1> QED BY <1>5, <1>6, <1>7

LEMMA GcDeleteOk ==
  ASSUME FabricInv, NEW p \in Processes, UNCHANGED outcomes, GcDelete(p)
  PROVE  FabricInv'
<1>1. PICK gone : gone = {f \in Stored : claims[f].at < call[p].before}
  OBVIOUS
<1>2. CallInv(Idle)'
  BY DEF CallInv
<1>3. \A a, b : ~Explains(call[p], a, b)
  BY DEF GcDelete, Explains
<1> QED BY <1>1, <1>2, <1>3, DeleteStepOk DEF GcDelete, Goto

LEMMA MemoryStepOk ==
  ASSUME FabricInv, NEW p \in Processes, UNCHANGED outcomes, MemoryStep(p)
  PROVE  FabricInv'
BY ReviewListOk, ConsolidateListOk, WriteCheckOk, WriteStoreOk, ReviewDetectOk, ReviewGetOk,
   ReviewPutOk, UpdateGetOk, UpdatePutOk, ArbitrateGetOk, ArbitratePutOk, DecayListOk,
   DecayClaimOk, GcDeleteOk
DEF MemoryStep

\* A call breaks off; its process may end with it.
LEMMA BreakOffOk ==
  ASSUME FabricInv, NEW p \in Processes, UNCHANGED outcomes, BreakOff(p),
         graph' = graph \/ graph' = [graph EXCEPT ![p] = EmptyKGraph]
  PROVE  FabricInv'
<1>1. PICK s : s = call[p]
  OBVIOUS
<1>2. /\ conflicted' = conflicted \cup (IF HalfWay(s) THEN Footprint(s) ELSE {})
      /\ call' = [call EXCEPT ![p] = Idle]
      /\ UNCHANGED <<claims, drawn, clock, outcomes>>
  BY <1>1 DEF BreakOff, Goto
<1>3. DOMAIN graph' = Processes /\ \A q \in Processes : graph'[q] \in {graph[q], EmptyKGraph}
  BY DEF FabricInv
<1>4. \A n \in Nodes : EmptyKGraph.edges[n] = None
  BY DEF EmptyKGraph
<1>5. Named' = Named /\ Recorded' = Recorded /\ conflicted \subseteq conflicted'
  BY <1>2 DEF Named, Recorded
<1>6. Later
  BY <1>3, <1>4, <1>5, NamedFacts DEF Later, FabricInv
<1>7. \A q \in Processes : GraphOk(graph[q])'
  <2> SUFFICES ASSUME NEW q \in Processes PROVE GraphOk(graph[q])'
    OBVIOUS
  <2>1. PICK g : g = graph'[q]
    OBVIOUS
  <2>2. GraphOk(g)
    BY <1>3, <2>1, EmptyGraphOk DEF FabricInv
  <2>3. GraphOk(g)'
    BY <1>5, <2>2, GraphStaysOk
  <2> QED BY <2>1, <2>3
<1>8. \A q \in Processes \ {p} : Undisturbed(call[q])
  BY <1>2 DEF Undisturbed
<1>9. CallInv(Idle)'
  BY DEF CallInv
<1>10. \A a, b : Explains(s, a, b) => a \in conflicted'
  <2> SUFFICES ASSUME NEW a, NEW b, Explains(s, a, b) PROVE a \in conflicted'
    OBVIOUS
  <2>1. HalfWay(s)
    BY DEF Explains, HalfWay
  <2>2. a \in Footprint(s)
    <3>1. CASE s.op = "review" /\ s.pc \in {"get", "put"} /\ a = s.fact
      <4>1. WriteInv(s)
        BY <1>1, <3>1, CallFacts DEF WriteOps
      <4> QED BY <3>1, <4>1 DEF Footprint, WriteInv
    <3>2. CASE s.op = "arbitrate" /\ a = s.b
      BY <3>2 DEF Footprint
    <3> QED BY <3>1, <3>2 DEF Explains
  <2> QED BY <1>2, <2>1, <2>2
<1>11. \A a, b \in Facts : Loose(a, b)' <=> Loose(a, b)
  BY <1>2 DEF Loose
<1>12. \A a, b \in Facts : Loose(a, b)' =>
         \/ a \in conflicted' \/ b \in conflicted'
         \/ Loose(a, b) /\ ~Explains(call[p], a, b)
         \/ Explains(Idle, a, b)
  BY <1>1, <1>10, <1>11
<1>13. drawn' \in 0..MaxFacts /\ clock' \in Days /\ DOMAIN claims' = Facts /\ claims' = claims
  BY <1>2 DEF FabricInv
<1>14. \A f \in Facts : claims'[f] # None => claims'[f] = claims[f] \/ ClaimOk(f, claims[f])'
  BY <1>13
<1> QED BY <1>2, <1>3, <1>6, <1>7, <1>8, <1>9, <1>12, <1>13, <1>14, FabricStepOk

\* Nothing but the clock and the outcomes on record moves.
LEMMA FabricStaysOk ==
  ASSUME FabricInv, UNCHANGED <<claims, drawn, graph, call, conflicted>>, clock' \in Days,
         Recorded \subseteq Recorded'
  PROVE  FabricInv'
<1>1. Later /\ Named' = Named
  BY DEF Later, Named
<1>2. \A f \in Facts : claims'[f] # None => ClaimOk(f, claims[f])'
  <2> SUFFICES ASSUME NEW f \in Facts, claims'[f] # None PROVE ClaimOk(f, claims[f])'
    OBVIOUS
  <2>1. PICK r : r = claims[f]
    OBVIOUS
  <2>2. ClaimOk(f, r)
    BY <2>1 DEF FabricInv
  <2>3. ClaimOk(f, r)'
    BY <1>1, <2>2, ClaimStaysOk
  <2> QED BY <2>1, <2>3
<1>3. \A q \in Processes : GraphOk(graph[q])'
  BY <1>1 DEF FabricInv, GraphOk
<1>4. \A q \in Processes : CallInv(call[q])'
  <2> SUFFICES ASSUME NEW q \in Processes PROVE CallInv(call[q])'
    OBVIOUS
  <2>1. PICK d : d = call[q]
    OBVIOUS
  <2>2. CallInv(d) /\ Undisturbed(d)
    BY <2>1 DEF FabricInv, Undisturbed
  <2>3. CallInv(d)'
    BY <1>1, <2>2, CallStaysOk DEF FabricInv
  <2> QED BY <2>1, <2>3
<1>5. Explained'
  BY DEF FabricInv, Explained, Loose
<1> QED BY <1>2, <1>3, <1>4, <1>5 DEF FabricInv

-----------------------------------------------------------------------------
(***************************************************************************)
(* The learning loop                                                       *)
(***************************************************************************)
Kinds == {"heuristic", "rejection", "parse", "task", "slow"}

\* Outcomes on record are never changed.
OutcomesKept == DOMAIN outcomes' = Outcomes /\ \A o \in Recorded : outcomes'[o] = outcomes[o]

LEMMA EvidenceStays ==
  ASSUME OutcomesKept, NEW kind \in Kinds, NEW seen, seen \subseteq Recorded
  PROVE  Evidence(kind, seen)' = Evidence(kind, seen)
<1>1. \A o \in seen : outcomes'[o] = outcomes[o]
  BY DEF OutcomesKept
<1>2. CASE kind \in {"heuristic", "task"}
  BY <1>1, <1>2 DEF Evidence
<1>3. CASE kind = "rejection"
  BY <1>1, <1>3 DEF Evidence
<1>4. CASE kind = "parse"
  BY <1>1, <1>4 DEF Evidence
<1>5. CASE kind = "slow"
  BY <1>1, <1>5 DEF Evidence
<1> QED BY <1>2, <1>3, <1>4, <1>5 DEF Kinds

\* What an extraction finds is evidence of its kind, and nothing else is.
LEMMA EvidenceIs ==
  ASSUME NEW kind \in Kinds, NEW seen
  PROVE  Evidence(kind, seen) \subseteq seen
         /\ Evidence(kind, Evidence(kind, seen)) = Evidence(kind, seen)
<1>2. CASE kind \in {"heuristic", "task"}
  BY <1>2 DEF Evidence
<1>3. CASE kind = "rejection"
  BY <1>3 DEF Evidence
<1>4. CASE kind = "parse"
  BY <1>4 DEF Evidence
<1>5. CASE kind = "slow"
  BY <1>5 DEF Evidence
<1> QED BY <1>2, <1>3, <1>4, <1>5 DEF Kinds

LEMMA RecordedStays ==
  ASSUME OutcomesKept
  PROVE  Recorded \subseteq Recorded'
BY DEF OutcomesKept, Recorded

LEMMA RegStaysOk ==
  ASSUME OutcomesKept, NEW known, RegOk(known)
  PROVE  RegOk(known)'
<1>1. \A x \in known : /\ x.kind \in Kinds
                       /\ x.sources \subseteq Recorded
                       /\ Cardinality(x.sources) >= MinKind
                       /\ x.sources = Evidence(x.kind, x.sources)
  BY DEF RegOk, Kinds
<1>2. \A x \in known : x.sources = Evidence(x.kind, x.sources)'
  BY <1>1, EvidenceStays
<1> QED BY <1>1, <1>2, RecordedStays DEF RegOk, Kinds

LEMMA LessonStaysOk ==
  ASSUME OutcomesKept, NEW l, NEW known, LessonOk(l, known)
  PROVE  LessonOk(l, known)'
BY RegStaysOk, RecordedStays DEF LessonOk

\* A step of the lesson of p: its registry is k afterwards, the lesson is at l, and the
\* file is r.
LEMMA LessonStepOk ==
  ASSUME LessonInv, OutcomesKept, NEW p \in Processes, NEW k, NEW l, NEW r,
         DOMAIN patterns' = Processes, patterns'[p] = k,
         \A q \in Processes \ {p} : patterns'[q] = patterns[q],
         DOMAIN lesson' = Processes, lesson'[p] = l,
         \A q \in Processes \ {p} : lesson'[q] = lesson[q],
         registry' = r, r = Torn \/ RegOk(r), k = None \/ RegOk(k),
         LessonOk(l, k) \/ LessonOk(l, k)'
  PROVE  LessonInv'
<1>1. DOMAIN outcomes' = Outcomes /\ (registry' = Torn \/ RegOk(registry)')
  BY RegStaysOk DEF OutcomesKept
<1>2. ASSUME NEW q \in Processes
      PROVE  (patterns'[q] = None \/ RegOk(patterns[q])') /\ LessonOk(lesson[q], patterns[q])'
  <2>1. CASE q = p
    BY <2>1, RegStaysOk, LessonStaysOk
  <2>2. CASE q # p
    <3>1. PICK m, x : m = lesson[q] /\ x = patterns[q]
      OBVIOUS
    <3>2. lesson'[q] = m /\ patterns'[q] = x
      BY <2>2, <3>1
    <3>3. LessonOk(m, x) /\ (x = None \/ RegOk(x))
      BY <3>1 DEF LessonInv
    <3>4. LessonOk(m, x)' /\ (x = None \/ RegOk(x)')
      BY <3>3, LessonStaysOk, RegStaysOk
    <3> QED BY <3>2, <3>4
  <2> QED BY <2>1, <2>2
<1> QED BY <1>1, <1>2 DEF LessonInv

LEMMA AloneStepOk ==
  ASSUME AloneOk, NEW p \in Processes,
         \A q \in Processes \ {p} : lesson'[q] = lesson[q] /\ call'[q] = call[q],
         lesson'[p].pc \in {"none", "consolidate"} \/ call'[p] = Idle
  PROVE  AloneOk'
BY DEF AloneOk

LEMMA OutcomesStay ==
  ASSUME LessonInv, UNCHANGED outcomes
  PROVE  OutcomesKept /\ Recorded' = Recorded
BY DEF LessonInv, OutcomesKept, Recorded

\* The fabric is left alone.
LEMMA FabricAloneOk ==
  ASSUME FabricInv, OutcomesKept, UNCHANGED <<claims, drawn, clock, graph, call, conflicted>>
  PROVE  FabricInv'
<1>1. clock' \in Days
  BY DEF FabricInv
<1> QED BY <1>1, RecordedStays, FabricStaysOk

LEMMA LoadOk ==
  ASSUME LessonInv, NEW p \in Processes, Load(p)
  PROVE  /\ DOMAIN patterns' = Processes /\ RegOk(patterns'[p])
         /\ \A q \in Processes \ {p} : patterns'[q] = patterns[q]
<1>1. CASE patterns[p] = None
  <2>1. registry # Torn /\ patterns' = [patterns EXCEPT ![p] = registry]
    BY <1>1 DEF Load
  <2> QED BY <2>1 DEF LessonInv
<1>2. CASE patterns[p] # None
  BY <1>2 DEF Load, LessonInv
<1> QED BY <1>1, <1>2

\* A lesson begins.
LEMMA BeginLessonOk ==
  ASSUME LearningInv, NEW p \in Processes, NEW l, BeginLesson(p, l), Load(p),
         DOMAIN l = LessonFields, l.seen = {}, l.todo = <<>>
  PROVE  LearningInv'
<1> USE DEF LearningInv
<1>1. /\ Free(p) /\ lesson' = [lesson EXCEPT ![p] = l] /\ call[p] = Idle
      /\ UNCHANGED <<claims, drawn, clock, graph, call, conflicted, outcomes, registry>>
  BY DEF BeginLesson, Learn, Free
<1>2. OutcomesKept
  BY <1>1, OutcomesStay
<1>3. FabricInv'
  BY <1>1, <1>2, FabricAloneOk
<1>4. PICK k : k = patterns'[p]
  OBVIOUS
<1>5. /\ DOMAIN patterns' = Processes /\ RegOk(k)
      /\ \A q \in Processes \ {p} : patterns'[q] = patterns[q]
  BY <1>4, LoadOk
<1>6. /\ DOMAIN lesson' = Processes /\ lesson'[p] = l
      /\ \A q \in Processes \ {p} : lesson'[q] = lesson[q]
  BY <1>1 DEF LessonInv
<1>7. LessonOk(l, k)
  BY <1>5 DEF LessonOk
<1>8. PICK r : r = registry
  OBVIOUS
<1>9. r = Torn \/ RegOk(r)
  BY <1>8 DEF LessonInv
<1>10. LessonInv'
  BY <1>1, <1>2, <1>4, <1>5, <1>6, <1>7, <1>8, <1>9, LessonStepOk
<1>11. AloneOk'
  BY <1>1, <1>6, AloneStepOk
<1> QED BY <1>3, <1>10, <1>11

LEMMA ExecuteOk ==
  ASSUME LearningInv, NEW p \in Processes, NEW guided \in BOOLEAN, Execute(p, guided)
  PROVE  LearningInv'
<1>1. PICK l : l = [pc |-> "outcome", run |-> TRUE, guided |-> guided, seen |-> {},
                    todo |-> <<>>, next |-> "end"]
  OBVIOUS
<1>2. DOMAIN l = LessonFields /\ l.seen = {} /\ l.todo = <<>>
  BY <1>1 DEF LessonFields
<1> QED BY <1>1, <1>2, BeginLessonOk DEF Execute

LEMMA ReflectOk ==
  ASSUME LearningInv, NEW p \in Processes, Reflect(p)
  PROVE  LearningInv'
<1>1. PICK l : l = [pc |-> "read", run |-> FALSE, guided |-> FALSE, seen |-> {},
                    todo |-> <<>>, next |-> "end"]
  OBVIOUS
<1>2. DOMAIN l = LessonFields /\ l.seen = {} /\ l.todo = <<>>
  BY <1>1 DEF LessonFields
<1> QED BY <1>1, <1>2, BeginLessonOk DEF Reflect

\* Fewer patterns are as good.
LEMMA RegSubsetOk ==
  ASSUME NEW known, RegOk(known), NEW fewer \in SUBSET known
  PROVE  RegOk(fewer)
BY FS_Subset DEF RegOk

\* A step of a lesson that leaves the memory alone: the registry of p is k afterwards, the
\* lesson is at l, and the file is r.
LEMMA QuietLessonOk ==
  ASSUME LearningInv, NEW p \in Processes, NEW k, NEW l, NEW r,
         UNCHANGED <<claims, drawn, clock, graph, call, conflicted>>, OutcomesKept,
         \/ k = patterns[p] /\ UNCHANGED patterns
         \/ RegOk(k) /\ patterns' = [patterns EXCEPT ![p] = k],
         lesson' = [lesson EXCEPT ![p] = l],
         registry' = r, r = registry \/ r = Torn \/ RegOk(r),
         LessonOk(l, k) \/ LessonOk(l, k)',
         l.pc \in {"none", "consolidate"} \/ call[p] = Idle
  PROVE  LearningInv'
<1> USE DEF LearningInv
<1>1. FabricInv'
  BY FabricAloneOk
<1>2. /\ DOMAIN patterns' = Processes /\ patterns'[p] = k /\ (k = None \/ RegOk(k))
      /\ \A q \in Processes \ {p} : patterns'[q] = patterns[q]
  BY DEF LessonInv
<1>3. /\ DOMAIN lesson' = Processes /\ lesson'[p] = l
      /\ \A q \in Processes \ {p} : lesson'[q] = lesson[q]
  BY DEF LessonInv
<1>4. r = Torn \/ RegOk(r)
  BY DEF LessonInv
<1>5. LessonInv'
  BY <1>2, <1>3, <1>4, LessonStepOk
<1>6. AloneOk'
  BY <1>3, AloneStepOk
<1> QED BY <1>1, <1>5, <1>6

LEMMA NoLessonOk == NoLesson.pc = "none" /\ \A known : LessonOk(NoLesson, known)
BY DEF NoLesson, LessonOk

\* What is known of a lesson under way.
LEMMA LessonFacts ==
  ASSUME LearningInv, NEW p \in Processes, NEW l, l = lesson[p], l.pc # "none"
  PROVE  /\ DOMAIN l = LessonFields /\ RegOk(patterns[p]) /\ l.seen \subseteq Recorded
         /\ l.todo \in Seq(Kinds)
         /\ l.pc # "consolidate" => call[p] = Idle
<1>1. LessonOk(l, patterns[p]) /\ l # NoLesson
  BY NoLessonOk DEF LearningInv, LessonInv
<1> QED BY <1>1 DEF LessonOk, LearningInv, AloneOk, Kinds

LEMMA ForgetOk ==
  ASSUME LearningInv, NEW p \in Processes, Forget(p)
  PROVE  LearningInv'
<1>1. PICK known : known = IF patterns[p] = None THEN registry ELSE patterns[p]
  OBVIOUS
<1>2. RegOk(known)
  BY <1>1 DEF Forget, LearningInv, LessonInv
<1>3. PICK x \in known : Upsert(p, known \ {x})
  BY <1>1 DEF Forget
<1>4. PICK k : k = known \ {x}
  OBVIOUS
<1>5. RegOk(k)
  BY <1>2, <1>4, RegSubsetOk
<1>6. PICK l : l = [pc |-> "save", run |-> FALSE, guided |-> FALSE, seen |-> {},
                    todo |-> <<>>, next |-> "end"]
  OBVIOUS
<1>7. LessonOk(l, k)
  BY <1>5, <1>6 DEF LessonOk, LessonFields
<1>8. patterns' = [patterns EXCEPT ![p] = k] /\ registry' = Torn
  BY <1>3, <1>4 DEF Upsert
<1>9. /\ UNCHANGED <<claims, drawn, clock, graph, call, conflicted, outcomes>>
      /\ lesson' = [lesson EXCEPT ![p] = l] /\ call[p] = Idle
  BY <1>6 DEF Forget, Learn, Free
<1>10. OutcomesKept
  BY <1>9, OutcomesStay DEF LearningInv
<1> QED BY <1>5, <1>7, <1>8, <1>9, <1>10, QuietLessonOk

\* A lesson that goes on, with outcomes on record seen and extractions to come.
LEMMA GoesOnOk ==
  ASSUME NEW l, NEW known, DOMAIN l = LessonFields, RegOk(known), l.seen \subseteq Recorded,
         l.todo \in Seq(Kinds)
  PROVE  LessonOk(l, known)
BY DEF LessonOk, Kinds

LEMMA AfterReflectionOk ==
  ASSUME NEW l, NEW known, DOMAIN l = LessonFields, RegOk(known)
  PROVE  LessonOk(AfterReflection(l), known)
         /\ (l.run => LessonOk([AfterReflection(l) EXCEPT !.next = "end"], known))
<1>1. PICK m : m = [l EXCEPT !.pc = "feedback", !.seen = {}, !.todo = <<>>]
  OBVIOUS
<1>2. DOMAIN m = LessonFields /\ m.seen = {} /\ m.todo = <<>>
  BY <1>1 DEF LessonFields
<1>3. PICK n : n = [m EXCEPT !.next = "end"]
  OBVIOUS
<1>4. DOMAIN n = LessonFields /\ n.seen = {} /\ n.todo = <<>>
  BY <1>2, <1>3 DEF LessonFields
<1>5. LessonOk(m, known) /\ LessonOk(n, known)
  BY <1>2, <1>4 DEF LessonOk
<1> QED BY <1>1, <1>3, <1>5, NoLessonOk DEF AfterReflection

LEMMA StoreOutcomeOk ==
  ASSUME LessonInv, NEW kind \in OutcomeKinds, StoreOutcome(kind)
  PROVE  OutcomesKept
<1>1. PICK o : o = CHOOSE x \in Outcomes : x \notin Recorded
  OBVIOUS
<1>2. Recorded # Outcomes /\ outcomes' = [outcomes EXCEPT ![o] = kind]
  BY <1>1 DEF StoreOutcome
<1>3. o \notin Recorded
  BY <1>1, <1>2 DEF Recorded
<1> QED BY <1>2, <1>3 DEF OutcomesKept, LessonInv

LEMMA RecordOutcomeOk ==
  ASSUME LearningInv, NEW p \in Processes, NEW kind \in OutcomeKinds, RecordOutcome(p, kind)
  PROVE  LearningInv'
<1>1. PICK l, k, r : l = lesson[p] /\ k = patterns[p] /\ r = registry
  OBVIOUS
<1>2. /\ l.pc \in {"outcome", "failed"} /\ StoreOutcome(kind)
      /\ UNCHANGED <<claims, drawn, clock, graph, call, conflicted, registry, patterns>>
  BY <1>1 DEF RecordOutcome, memoryVars
<1>3. /\ DOMAIN l = LessonFields /\ RegOk(k) /\ l.seen \subseteq Recorded /\ l.todo \in Seq(Kinds)
      /\ call[p] = Idle
  BY <1>1, <1>2, LessonFacts
<1>4. OutcomesKept
  BY <1>2, StoreOutcomeOk DEF LearningInv
<1>5. PICK m : /\ lesson' = [lesson EXCEPT ![p] = m]
               /\ \/ m = [l EXCEPT !.pc = "read", !.run = kind.parseable]
                  \/ m = [l EXCEPT !.pc = "feedback"]
                  \/ m = NoLesson
  BY <1>1 DEF RecordOutcome, Learn
<1>6. \/ DOMAIN m = LessonFields /\ m.seen = l.seen /\ m.todo = l.todo
      \/ m = NoLesson
  BY <1>3, <1>5 DEF LessonFields
<1>7. LessonOk(m, k)
  BY <1>3, <1>6, NoLessonOk, GoesOnOk
<1> QED BY <1>1, <1>2, <1>3, <1>4, <1>5, <1>7, QuietLessonOk

LEMMA ReflectReadOk ==
  ASSUME LearningInv, NEW p \in Processes, ReflectRead(p)
  PROVE  LearningInv'
<1>1. PICK l, k, r : l = lesson[p] /\ k = patterns[p] /\ r = registry
  OBVIOUS
<1>2. /\ l.pc = "read"
      /\ UNCHANGED <<claims, drawn, clock, graph, call, conflicted, outcomes, registry, patterns>>
  BY <1>1 DEF ReflectRead, memoryVars
<1>3. /\ DOMAIN l = LessonFields /\ RegOk(k) /\ call[p] = Idle
  BY <1>1, <1>2, LessonFacts
<1>4. OutcomesKept
  BY <1>2, OutcomesStay DEF LearningInv
<1>5. PICK m : /\ lesson' = [lesson EXCEPT ![p] = m]
               /\ \/ m = AfterReflection(l)
                  \/ m = [l EXCEPT !.pc = "extract", !.seen = Recorded, !.todo = Extractions]
  BY <1>1 DEF ReflectRead, Learn
<1>6. LessonOk(m, k)
  <2>1. CASE m = AfterReflection(l)
    BY <1>3, <2>1, AfterReflectionOk
  <2>2. CASE m = [l EXCEPT !.pc = "extract", !.seen = Recorded, !.todo = Extractions]
    <3>1. Extractions \in Seq(Kinds)
      BY DEF Extractions, Kinds
    <3>2. DOMAIN m = LessonFields /\ m.seen = Recorded /\ m.todo = Extractions
      BY <1>3, <2>2 DEF LessonFields
    <3> QED BY <1>3, <3>1, <3>2, GoesOnOk
  <2> QED BY <1>5, <2>1, <2>2
<1> QED BY <1>1, <1>2, <1>3, <1>4, <1>5, <1>6, QuietLessonOk

\* A pattern nobody has, with enough evidence.
LEMMA FoundPatternOk ==
  ASSUME NEW known, RegOk(known), NEW kind \in Kinds, NEW seen, seen \subseteq Recorded,
         NEW found, found = Evidence(kind, seen), ~(Cardinality(found) < MinKind),
         NEW a, a \in Findings(kind, found, known),
         NEW x, x.kind = kind, x.sources = found, x.action = a
  PROVE  RegOk(known \cup {x})
<1>1. found \subseteq Recorded /\ found = Evidence(kind, found)
  BY EvidenceIs
<1>2. Cardinality(found) >= MinKind
  <2>1. IsFiniteSet(found)
    BY <1>1, LearningAssumption, FS_Subset DEF Recorded
  <2>2. Cardinality(found) \in Nat
    BY <2>1, FS_CardinalityType
  <2> QED BY <2>2, LearningAssumption
<1>3. IsFiniteSet(known \cup {x})
  BY FS_AddElement DEF RegOk
<1>4. kind = "heuristic" => \A y \in known : y.kind = "heuristic" => y.action # a
  BY DEF Findings, OfType
<1>5. kind = "rejection" => \A y \in known : y.kind # "rejection"
  BY DEF Findings, OfType
<1>6. kind = "task" => \A y \in known : y.kind # "task"
  BY DEF Findings, OfType
<1>7. \A y \in known : y.kind = kind /\ y.action = a => kind \notin {"heuristic", "rejection", "task"}
  BY <1>4, <1>5, <1>6
<1>8. \A y, z \in known \cup {x} :
        y.kind = z.kind /\ y.action = z.action /\ y.kind \in {"heuristic", "rejection", "task"}
          => y = z
  BY <1>7 DEF RegOk
<1> QED BY <1>1, <1>2, <1>3, <1>8 DEF RegOk, Kinds

LEMMA ExtractOk ==
  ASSUME LearningInv, NEW p \in Processes, Extract(p)
  PROVE  LearningInv'
<1>1. PICK l, k, r : l = lesson[p] /\ k = patterns[p] /\ r = registry
  OBVIOUS
<1>2. /\ l.pc = "extract" /\ l.todo # <<>>
      /\ UNCHANGED <<claims, drawn, clock, graph, call, conflicted, outcomes>>
  BY <1>1 DEF Extract, memoryVars
<1>3. /\ DOMAIN l = LessonFields /\ RegOk(k) /\ l.seen \subseteq Recorded /\ l.todo \in Seq(Kinds)
      /\ call[p] = Idle
  BY <1>1, <1>2, LessonFacts
<1>4. OutcomesKept
  BY <1>2, OutcomesStay DEF LearningInv
<1>5. PICK kind, found : kind = Head(l.todo) /\ found = Evidence(kind, l.seen)
  OBVIOUS
<1>6. PICK later : later = [l EXCEPT !.todo = Tail(@)]
  OBVIOUS
<1>7. kind \in Kinds /\ Tail(l.todo) \in Seq(Kinds)
  BY <1>2, <1>3, <1>5
<1>8. DOMAIN later = LessonFields /\ later.seen = l.seen /\ later.todo = Tail(l.todo)
  BY <1>3, <1>6 DEF LessonFields
<1>9. CASE Learn(p, later) /\ UNCHANGED <<registry, patterns>>
  <2>1. LessonOk(later, k)
    BY <1>3, <1>7, <1>8, GoesOnOk
  <2>2. lesson' = [lesson EXCEPT ![p] = later]
    BY <1>9 DEF Learn
  <2> QED BY <1>1, <1>2, <1>3, <1>4, <1>9, <2>1, <2>2, QuietLessonOk
<1>10. ASSUME NEW a \in IF Cardinality(found) < MinKind THEN {} ELSE Findings(kind, found, k),
              Upsert(p, k \cup {[id |-> minted', kind |-> kind, sources |-> found, action |-> a]}),
              Learn(p, [later EXCEPT !.pc = "save", !.next = "extract"])
       PROVE  LearningInv'
  <2>1. PICK x : x = [id |-> minted', kind |-> kind, sources |-> found, action |-> a]
    OBVIOUS
  <2>2. PICK m, b : /\ m = [later EXCEPT !.pc = "save", !.next = "extract"]
                    /\ b = a
    OBVIOUS
  <2>3. x.kind = kind /\ x.sources = found /\ x.action = b
    BY <2>1, <2>2
  <2>4. ~(Cardinality(found) < MinKind) /\ b \in Findings(kind, found, k)
    BY <1>10, <2>2
  <2>5. PICK known : known = k \cup {x}
    OBVIOUS
  <2>6. RegOk(known)
    BY <1>3, <1>5, <1>7, <2>3, <2>4, <2>5, FoundPatternOk
  <2>7. patterns' = [patterns EXCEPT ![p] = known] /\ registry' = Torn
    BY <1>10, <2>1, <2>5 DEF Upsert
  <2>8. DOMAIN m = LessonFields /\ m.seen = l.seen /\ m.todo = Tail(l.todo)
    BY <1>8, <2>2 DEF LessonFields
  <2>9. LessonOk(m, known)
    BY <1>3, <1>7, <2>6, <2>8, GoesOnOk
  <2>10. lesson' = [lesson EXCEPT ![p] = m]
    BY <1>10, <2>2 DEF Learn
  <2> QED BY <1>2, <1>3, <1>4, <2>6, <2>7, <2>9, <2>10, QuietLessonOk
<1> QED BY <1>1, <1>5, <1>6, <1>9, <1>10 DEF Extract

LEMMA SaveOk ==
  ASSUME LearningInv, NEW p \in Processes, Save(p)
  PROVE  LearningInv'
<1>1. PICK l, k, r : l = lesson[p] /\ k = patterns[p] /\ r = registry'
  OBVIOUS
<1>2. /\ l.pc = "save"
      /\ UNCHANGED <<claims, drawn, clock, graph, call, conflicted, outcomes, patterns>>
  BY <1>1 DEF Save, memoryVars
<1>3. /\ DOMAIN l = LessonFields /\ RegOk(k) /\ l.seen \subseteq Recorded /\ l.todo \in Seq(Kinds)
      /\ call[p] = Idle
  BY <1>1, <1>2, LessonFacts
<1>4. OutcomesKept
  BY <1>2, OutcomesStay DEF LearningInv
<1>5. PICK m : /\ lesson' = [lesson EXCEPT ![p] = m]
               /\ m = [l EXCEPT !.pc = "extract", !.next = "end"] \/ m = NoLesson
  BY <1>1 DEF Save, Learn
<1>6. m = NoLesson \/ (DOMAIN m = LessonFields /\ m.seen = l.seen /\ m.todo = l.todo)
  BY <1>3, <1>5 DEF LessonFields
<1>7. LessonOk(m, k)
  BY <1>3, <1>6, NoLessonOk, GoesOnOk
<1>8. r = Torn \/ RegOk(r)
  BY <1>1, <1>3 DEF Save
<1> QED BY <1>1, <1>2, <1>3, <1>4, <1>5, <1>7, <1>8, QuietLessonOk

LEMMA ConsolidatedOk ==
  ASSUME LearningInv, NEW p \in Processes, Consolidated(p)
  PROVE  LearningInv'
<1>1. PICK l, k, r : l = lesson[p] /\ k = patterns[p] /\ r = registry
  OBVIOUS
<1>2. /\ l.pc = "consolidate" /\ call[p] = Idle
      /\ UNCHANGED <<claims, drawn, clock, graph, call, conflicted, outcomes, registry, patterns>>
  BY <1>1 DEF Consolidated, memoryVars
<1>3. DOMAIN l = LessonFields /\ RegOk(k)
  BY <1>1, <1>2, LessonFacts
<1>4. OutcomesKept
  BY <1>2, OutcomesStay DEF LearningInv
<1>5. PICK m : m = AfterReflection(l) /\ lesson' = [lesson EXCEPT ![p] = m]
  BY <1>1 DEF Consolidated, Learn
<1>6. LessonOk(m, k)
  BY <1>3, <1>5, AfterReflectionOk
<1> QED BY <1>1, <1>2, <1>4, <1>5, <1>6, QuietLessonOk

LEMMA FeedbackOk ==
  ASSUME LearningInv, NEW p \in Processes, Feedback(p)
  PROVE  LearningInv'
<1>1. PICK l, k, r : l = lesson[p] /\ k = patterns[p] /\ r = registry
  OBVIOUS
<1>2. /\ l.pc = "feedback"
      /\ UNCHANGED <<claims, drawn, clock, graph, call, conflicted, outcomes>>
  BY <1>1 DEF Feedback, memoryVars
<1>3. /\ DOMAIN l = LessonFields /\ RegOk(k) /\ l.seen \subseteq Recorded /\ l.todo \in Seq(Kinds)
      /\ call[p] = Idle
  BY <1>1, <1>2, LessonFacts
<1>4. OutcomesKept
  BY <1>2, OutcomesStay DEF LearningInv
<1>5. CASE RecordApplications(p)
  <2>1. PICK m : m = [l EXCEPT !.pc = "save", !.next = "end"]
    OBVIOUS
  <2>2. DOMAIN m = LessonFields /\ m.seen = l.seen /\ m.todo = l.todo
    BY <1>3, <2>1 DEF LessonFields
  <2>3. LessonOk(m, k)
    BY <1>3, <2>2, GoesOnOk
  <2>4. /\ patterns' = [patterns EXCEPT ![p] = k] /\ registry' = Torn
        /\ lesson' = [lesson EXCEPT ![p] = m]
    BY <1>1, <1>5, <2>1 DEF RecordApplications, Upsert, Learn
  <2> QED BY <1>2, <1>3, <1>4, <2>3, <2>4, QuietLessonOk
<1>6. CASE Learn(p, NoLesson) /\ UNCHANGED <<registry, patterns>>
  BY <1>1, <1>2, <1>4, <1>6, NoLessonOk, QuietLessonOk DEF Learn
<1> QED BY <1>1, <1>5, <1>6 DEF Feedback

\* The call of p breaks off, and its lesson goes on at m with the registry k.
LEMMA LessonBreaksOk ==
  ASSUME LearningInv, NEW p \in Processes, BreakOff(p), UNCHANGED <<outcomes, registry>>,
         graph' = graph \/ graph' = [graph EXCEPT ![p] = EmptyKGraph],
         NEW k, NEW m,
         \/ k = patterns[p] /\ UNCHANGED patterns
         \/ k = None /\ patterns' = [patterns EXCEPT ![p] = k],
         lesson' = [lesson EXCEPT ![p] = m], LessonOk(m, k)
  PROVE  LearningInv'
<1> USE DEF LearningInv
<1>1. FabricInv'
  BY BreakOffOk
<1>2. OutcomesKept
  BY OutcomesStay
<1>3. /\ DOMAIN patterns' = Processes /\ patterns'[p] = k /\ (k = None \/ RegOk(k))
      /\ \A q \in Processes \ {p} : patterns'[q] = patterns[q]
  BY DEF LessonInv
<1>4. /\ DOMAIN lesson' = Processes /\ lesson'[p] = m
      /\ \A q \in Processes \ {p} : lesson'[q] = lesson[q]
  BY DEF LessonInv
<1>5. PICK r : r = registry
  OBVIOUS
<1>6. r = Torn \/ RegOk(r)
  BY <1>5 DEF LessonInv
<1>7. LessonInv'
  BY <1>2, <1>3, <1>4, <1>5, <1>6, LessonStepOk
<1>8. call'[p] = Idle /\ \A q \in Processes \ {p} : call'[q] = call[q]
  BY DEF BreakOff, Goto, FabricInv
<1>9. AloneOk'
  BY <1>4, <1>8, AloneStepOk
<1> QED BY <1>1, <1>7, <1>9

LEMMA LessonRaisesOk ==
  ASSUME LearningInv, NEW p \in Processes, LessonRaises(p)
  PROVE  LearningInv'
<1>1. PICK l, k : l = lesson[p] /\ k = patterns[p]
  OBVIOUS
<1>2. l.pc # "none" /\ BreakOff(p) /\ UNCHANGED <<graph, outcomes, registry, patterns>>
  BY <1>1 DEF LessonRaises
<1>3. DOMAIN l = LessonFields /\ RegOk(k) /\ l.seen \subseteq Recorded /\ l.todo \in Seq(Kinds)
  BY <1>1, <1>2, LessonFacts
<1>4. PICK m : /\ lesson' = [lesson EXCEPT ![p] = m]
               /\ \/ m = [l EXCEPT !.pc = "failed"]
                  \/ l.run /\ m = [AfterReflection(l) EXCEPT !.next = "end"]
                  \/ m = NoLesson
  BY <1>1 DEF LessonRaises, Learn
<1>5. LessonOk(m, k)
  <2>1. CASE m = [l EXCEPT !.pc = "failed"]
    <3>1. DOMAIN m = LessonFields /\ m.seen = l.seen /\ m.todo = l.todo
      BY <1>3, <2>1 DEF LessonFields
    <3> QED BY <1>3, <3>1, GoesOnOk
  <2> QED BY <1>3, <1>4, <2>1, AfterReflectionOk, NoLessonOk
<1>6. /\ BreakOff(p) /\ UNCHANGED <<outcomes, registry>>
      /\ graph' = graph \/ graph' = [graph EXCEPT ![p] = EmptyKGraph]
      /\ \/ k = patterns[p] /\ UNCHANGED patterns
         \/ k = None /\ patterns' = [patterns EXCEPT ![p] = k]
      /\ lesson' = [lesson EXCEPT ![p] = m]
  BY <1>1, <1>2, <1>4
<1> QED BY <1>5, <1>6, LessonBreaksOk

LEMMA LearnerExitsOk ==
  ASSUME LearningInv, NEW p \in Processes, LearnerExits(p)
  PROVE  LearningInv'
<1>1. /\ BreakOff(p) /\ graph' = [graph EXCEPT ![p] = EmptyKGraph]
      /\ patterns' = [patterns EXCEPT ![p] = None]
      /\ lesson' = [lesson EXCEPT ![p] = NoLesson] /\ UNCHANGED <<outcomes, registry>>
  BY DEF LearnerExits, Exit, Learn
<1> QED BY <1>1, NoLessonOk, LessonBreaksOk

LEMMA LessonAloneOk ==
  ASSUME LessonInv, UNCHANGED <<outcomes, registry, patterns, lesson>>
  PROVE  LessonInv'
<1>1. OutcomesKept
  BY OutcomesStay
<1>2. PICK r : r = registry
  OBVIOUS
<1>3. registry' = Torn \/ RegOk(registry)'
  <2>1. r = Torn \/ RegOk(r)
    BY <1>2 DEF LessonInv
  <2> QED BY <1>1, <1>2, <2>1, RegStaysOk
<1>4. ASSUME NEW q \in Processes
      PROVE  (patterns'[q] = None \/ RegOk(patterns[q])') /\ LessonOk(lesson[q], patterns[q])'
  <2>1. PICK m, x : m = lesson[q] /\ x = patterns[q]
    OBVIOUS
  <2>2. LessonOk(m, x) /\ (x = None \/ RegOk(x))
    BY <2>1 DEF LessonInv
  <2>3. LessonOk(m, x)' /\ (x = None \/ RegOk(x)')
    BY <1>1, <2>2, LessonStaysOk, RegStaysOk
  <2> QED BY <2>1, <2>3
<1> QED BY <1>3, <1>4 DEF LessonInv

\* A step of p's call is nobody else's.
LEMMA OneCallMoves ==
  ASSUME NEW p \in Processes, DOMAIN call = Processes, MemoryBegin(p) \/ MemoryStep(p)
  PROVE  \A q \in Processes \ {p} : call'[q] = call[q]
<1>1. CASE MemoryBegin(p)
  <2>1. \E c : Begin(p, c)
    BY <1>1 DEF MemoryBegin, Write, Review, Consolidate, Promote, Arbitrate, DecayCycle,
                MemoryCommand, Revoke, Gc
  <2> QED BY <2>1 DEF Begin
<1>2. CASE MemoryStep(p)
  <2>1. CASE ReviewList(p)
    BY <2>1 DEF ReviewList, Goto
  <2>2. CASE ConsolidateList(p)
    BY <2>2 DEF ConsolidateList, Goto
  <2>3. CASE WriteCheck(p)
    BY <2>3 DEF WriteCheck, Goto
  <2>4. CASE WriteStore(p)
    BY <2>4 DEF WriteStore, Goto
  <2>5. CASE \E found \in SUBSET Facts : ReviewDetect(p, found)
    BY <2>5 DEF ReviewDetect, Goto
  <2>6. CASE ReviewGet(p)
    BY <2>6 DEF ReviewGet, Goto
  <2>7. CASE ReviewPut(p)
    BY <2>7 DEF ReviewPut, Goto
  <2>8. CASE UpdateGet(p)
    BY <2>8 DEF UpdateGet, Goto
  <2>9. CASE PromotePut(p)
    BY <2>9 DEF PromotePut, Goto
  <2>10. CASE RevokePut(p)
    BY <2>10 DEF RevokePut, Goto
  <2>11. CASE ArbitrateGet(p)
    BY <2>11 DEF ArbitrateGet, Goto
  <2>12. CASE ArbitratePut(p)
    BY <2>12 DEF ArbitratePut, Goto
  <2>13. CASE DecayList(p)
    BY <2>13 DEF DecayList, Goto
  <2>14. CASE DecayClaim(p)
    BY <2>14 DEF DecayClaim, Goto
  <2>15. CASE GcDelete(p)
    BY <2>15 DEF GcDelete, Goto
  <2> QED BY <1>2, <2>1, <2>2, <2>3, <2>4, <2>5, <2>6, <2>7, <2>8, <2>9, <2>10, <2>11, <2>12,
             <2>13, <2>14, <2>15 DEF MemoryStep
<1> QED BY <1>1, <1>2

LEMMA StepIsOfACall ==
  ASSUME NEW p, MemoryStep(p)
  PROVE  call[p] # Idle
<1>1. call[p].op # "idle"
  BY DEF MemoryStep, ReviewList, ConsolidateList, WriteCheck, WriteStore, ReviewDetect, ReviewGet,
         ReviewPut, UpdateGet, PromotePut, RevokePut, ArbitrateGet, ArbitratePut, DecayList,
         DecayClaim, GcDelete
<1> QED BY <1>1 DEF Idle

LEMMA FabricStepOfLearningOk ==
  ASSUME LearningInv, NEW p \in Processes, FabricStep(p)
  PROVE  LearningInv'
<1> USE DEF LearningInv
<1>1. UNCHANGED <<outcomes, registry, patterns, lesson>>
  BY DEF FabricStep
<1>2. LessonInv'
  BY <1>1, LessonAloneOk
<1>3. CASE Free(p) /\ MemoryBegin(p)
  <2>1. FabricInv'
    BY <1>1, <1>3, MemoryBeginOk
  <2>2. lesson'[p].pc = "none"
    BY <1>1, <1>3, NoLessonOk DEF Free
  <2>3. AloneOk'
    BY <1>1, <1>3, <2>2, OneCallMoves, AloneStepOk DEF FabricInv
  <2> QED BY <1>2, <2>1, <2>3
<1>4. CASE MemoryStep(p)
  <2>1. FabricInv'
    BY <1>1, <1>4, MemoryStepOk
  <2>2. lesson'[p].pc \in {"none", "consolidate"}
    BY <1>1, <1>4, StepIsOfACall DEF AloneOk
  <2>3. AloneOk'
    BY <1>1, <1>4, <2>2, OneCallMoves, AloneStepOk DEF FabricInv
  <2> QED BY <1>2, <2>1, <2>3
<1>5. CASE Raise(p)
  <2>1. FabricInv'
    BY <1>1, <1>5, BreakOffOk DEF Raise
  <2>2. call'[p] = Idle /\ \A q \in Processes \ {p} : call'[q] = call[q]
    BY <1>5 DEF Raise, BreakOff, Goto, FabricInv
  <2>3. AloneOk'
    BY <1>1, <2>2, AloneStepOk
  <2> QED BY <1>2, <2>1, <2>3
<1> QED BY <1>3, <1>4, <1>5 DEF FabricStep

LEMMA TickOk ==
  ASSUME LearningInv, Tick, UNCHANGED <<outcomes, registry, patterns, lesson>>
  PROVE  LearningInv'
<1> USE DEF LearningInv
<1>1. LessonInv' /\ OutcomesKept
  BY LessonAloneOk, OutcomesStay
<1>2. FabricInv'
  BY <1>1, RecordedStays, FabricStaysOk DEF Tick
<1>3. AloneOk'
  BY DEF Tick, AloneOk
<1> QED BY <1>1, <1>2, <1>3

LEMMA SetToSeqLists ==
  ASSUME NEW S, IsFiniteSet(S)
  PROVE  SetToSeq(S) \in [1..Cardinality(S) -> S]
<1>1. Bijection(1..Cardinality(S), S) # {}
  BY FS_CardinalityType, Fun_ExistsBij
<1>2. PICK f : f \in Bijection(1..Cardinality(S), S)
  BY <1>1
<1>3. f \in [1..Cardinality(S) -> S] /\ IsInjective(f)
  BY <1>2 DEF Bijection, Injection
<1> QED BY <1>3 DEF SetToSeq

\* What the claims of learned patterns are to hang below: each pattern has a source.
Wants(chosen) ==
  [n \in 1..Cardinality(chosen) |-> CHOOSE o \in SetToSeq(chosen)[n].sources : TRUE]

LEMMA WantedOk ==
  ASSUME NEW known, RegOk(known), NEW chosen \in SUBSET known, NEW wanted,
         wanted = Wants(chosen)
  PROVE  /\ wanted \in Seq(Nodes \cup {None})
         /\ \A n \in DOMAIN wanted : ParentOk(wanted[n])
<1>1. IsFiniteSet(chosen) /\ Cardinality(chosen) \in Nat
  BY FS_Subset, FS_CardinalityType DEF RegOk
<1>2. PICK f : f = SetToSeq(chosen)
  OBVIOUS
<1>3. f \in [1..Cardinality(chosen) -> chosen]
  BY <1>1, <1>2, SetToSeqLists
<1>4. \A x \in known : x.sources # {} /\ x.sources \subseteq Recorded
  <2> SUFFICES ASSUME NEW x \in known PROVE x.sources # {} /\ x.sources \subseteq Recorded
    OBVIOUS
  <2>1. x.sources \subseteq Recorded /\ Cardinality(x.sources) >= MinKind
    BY DEF RegOk
  <2>2. Cardinality(x.sources) # 0
    BY <2>1, LearningAssumption
  <2> QED BY <2>1, <2>2, FS_EmptySet
<1>5. \A n \in 1..Cardinality(chosen) : wanted[n] \in Recorded
  <2> TAKE n \in 1..Cardinality(chosen)
  <2>1. PICK s : s = f[n].sources
    OBVIOUS
  <2>2. s # {} /\ s \subseteq Recorded
    BY <1>3, <1>4, <2>1
  <2>3. wanted[n] = CHOOSE o \in s : TRUE
    BY <1>2, <2>1 DEF Wants
  <2> QED BY <2>2, <2>3
<1>6. Recorded \subseteq Nodes
  BY LearningAssumption DEF Recorded
<1>7. wanted \in [1..Cardinality(chosen) -> Nodes \cup {None}]
  BY <1>5, <1>6 DEF Wants
<1>8. PICK n, T : n = Cardinality(chosen) /\ T = Nodes \cup {None}
  OBVIOUS
<1>9. n \in Nat /\ wanted \in [1..n -> T]
  BY <1>1, <1>7, <1>8
<1>10. wanted \in Seq(T)
  BY <1>9, SeqDef
<1>11. \A i \in DOMAIN wanted : ParentOk(wanted[i])
  BY <1>5, <1>7 DEF ParentOk
<1> QED BY <1>8, <1>10, <1>11

LEMMA ConsolidateLearningsOk ==
  ASSUME LearningInv, NEW p \in Processes, ConsolidateLearnings(p)
  PROVE  LearningInv'
<1>1. PICK l, k, r : l = lesson[p] /\ k = patterns[p] /\ r = registry
  OBVIOUS
<1>2. /\ l.pc = "extract"
      /\ UNCHANGED <<claims, drawn, clock, graph, conflicted, outcomes, registry, patterns>>
  BY <1>1 DEF ConsolidateLearnings
<1>3. /\ DOMAIN l = LessonFields /\ RegOk(k) /\ l.seen \subseteq Recorded /\ l.todo \in Seq(Kinds)
      /\ call[p] = Idle
  BY <1>1, <1>2, LessonFacts
<1>4. OutcomesKept
  BY <1>2, OutcomesStay DEF LearningInv
<1>5. CASE Learn(p, AfterReflection(l)) /\ UNCHANGED call
  <2>1. PICK m : m = AfterReflection(l)
    OBVIOUS
  <2>2. LessonOk(m, k)
    BY <1>3, <2>1, AfterReflectionOk
  <2>3. lesson' = [lesson EXCEPT ![p] = m]
    BY <1>5, <2>1 DEF Learn
  <2> QED BY <1>1, <1>2, <1>3, <1>4, <1>5, <2>2, <2>3, QuietLessonOk
<1>6. ASSUME NEW chosen \in SUBSET k, NEW wanted, wanted = Wants(chosen),
             Goto(p, [NoWrite EXCEPT !.op = "consolidate", !.pc = "list", !.type = "reflective",
                        !.sure = TRUE, !.wanted = wanted]),
             Learn(p, [l EXCEPT !.pc = "consolidate"])
      PROVE  LearningInv'
  <2>1. PICK c : c = [NoWrite EXCEPT !.op = "consolidate", !.pc = "list", !.type = "reflective",
                        !.sure = TRUE, !.wanted = wanted]
    OBVIOUS
  <2>2. /\ DOMAIN c = WriteFields
        /\ c.op = "consolidate" /\ c.pc = "list" /\ c.intent = None /\ c.type = "reflective"
        /\ c.sure = TRUE /\ c.parent = None /\ c.fact = None /\ c.listed = {} /\ c.contra = {}
        /\ c.todo = {} /\ c.wanted = wanted
    BY <2>1, NoWriteFields DEF WriteFields
  <2>3. wanted \in Seq(Nodes \cup {None}) /\ \A n \in DOMAIN wanted : ParentOk(wanted[n])
    BY <1>3, <1>6, WantedOk
  <2>4. NewWrite(c)
    BY <2>2, <2>3 DEF NewWrite, WriteOps, MemoryTypes, ParentOk
  <2>5. CallInv(c)
    BY <2>4, NewWriteOk
  <2>6. call' = [call EXCEPT ![p] = c]
    BY <1>6, <2>1 DEF Goto
  <2>7. \A a, b : ~Explains(call[p], a, b)
    BY <1>3, IdleIsOk
  <2>8. FabricInv'
    BY <1>2, <2>5, <2>6, <2>7, QuietStepOk DEF LearningInv
  <2>9. PICK m : m = [l EXCEPT !.pc = "consolidate"]
    OBVIOUS
  <2>10. DOMAIN m = LessonFields /\ m.pc = "consolidate" /\ m.seen = l.seen /\ m.todo = l.todo
    BY <1>3, <2>9 DEF LessonFields
  <2>11. LessonOk(m, k)
    BY <1>3, <2>10, GoesOnOk
  <2>12. /\ DOMAIN lesson' = Processes /\ lesson'[p] = m
         /\ \A q \in Processes \ {p} : lesson'[q] = lesson[q]
    BY <1>6, <2>9 DEF Learn, LearningInv, LessonInv
  <2>13. /\ DOMAIN patterns' = Processes /\ patterns'[p] = k
         /\ \A q \in Processes \ {p} : patterns'[q] = patterns[q]
         /\ registry' = r /\ (r = Torn \/ RegOk(r))
    BY <1>1, <1>2 DEF LearningInv, LessonInv
  <2>14. LessonInv'
    BY <1>3, <1>4, <2>11, <2>12, <2>13, LessonStepOk DEF LearningInv
  <2>15. \A q \in Processes \ {p} : call'[q] = call[q]
    BY <2>6 DEF LearningInv, FabricInv
  <2>16. AloneOk'
    BY <2>10, <2>12, <2>15, AloneStepOk DEF LearningInv
  <2> QED BY <2>8, <2>14, <2>16 DEF LearningInv
<1>7. \/ Learn(p, AfterReflection(l)) /\ UNCHANGED call
      \/ \E chosen \in SUBSET k : \E wanted :
           /\ wanted = Wants(chosen)
           /\ Goto(p, [NoWrite EXCEPT !.op = "consolidate", !.pc = "list", !.type = "reflective",
                         !.sure = TRUE, !.wanted = wanted])
           /\ Learn(p, [l EXCEPT !.pc = "consolidate"])
  BY <1>1 DEF ConsolidateLearnings, Wants
<1> QED BY <1>5, <1>6, <1>7

LEMMA InitOk ==
  ASSUME NEW s \in Starts, LearningInit(s.seed, s.past, {})
  PROVE  LearningInv
<1>1. PICK seed, past, old : seed = s.seed /\ past = s.past /\ old = DOMAIN seed
  OBVIOUS
<1>2. PICK n \in 0..MaxFacts : old = 1..n /\ Cardinality(old) = n
  BY <1>1, StartsAssumption
<1>3. /\ seed \in [old -> Claim]
      /\ \A a, b \in old : b \in seed[a].contra => a \in seed[b].contra
      /\ \A f \in old : seed[f].contra \subseteq old
      /\ \A f \in old : seed[f].parent \in {None} \cup old \cup DOMAIN past
      /\ DOMAIN past \subseteq Outcomes /\ \A o \in DOMAIN past : past[o] # None
  BY <1>1, StartsAssumption
<1>4. /\ claims = [f \in Facts |-> IF f \in old THEN seed[f] ELSE None]
      /\ drawn = Cardinality(old) /\ clock = 0
      /\ graph = [p \in Processes |-> EmptyKGraph] /\ call = [p \in Processes |-> Idle]
      /\ conflicted = {}
      /\ outcomes = [o \in Outcomes |-> IF o \in DOMAIN past THEN past[o] ELSE None]
      /\ registry = {} /\ patterns = [p \in Processes |-> None]
      /\ lesson = [p \in Processes |-> NoLesson]
  BY <1>1 DEF LearningInit, MemoryInit
<1>5. drawn = n /\ Named = old /\ drawn \in 0..MaxFacts /\ Named \subseteq Facts
  BY <1>2, <1>4, NamedFacts DEF Named
<1>6. Recorded = DOMAIN past
  BY <1>3, <1>4 DEF Recorded
<1>7. \A m \in Nodes : EmptyKGraph.edges[m] = None
  BY DEF EmptyKGraph
<1>8. \A f \in Facts : claims[f] # None => ClaimOk(f, claims[f])
  <2> SUFFICES ASSUME NEW f \in Facts, claims[f] # None PROVE ClaimOk(f, claims[f])
    OBVIOUS
  <2>1. f \in old /\ claims[f] = seed[f] /\ f \in Nodes
    BY <1>4, MemoryAssumption
  <2>2. PICK r : r = seed[f]
    OBVIOUS
  <2>3. r \in Claim /\ r.contra \subseteq Named /\ f \in Named
    BY <1>3, <1>5, <2>1, <2>2
  <2>4. ParentOk(r.parent)
    BY <1>3, <1>5, <1>6, <2>1, <2>2 DEF ParentOk
  <2>5. \A q \in Processes : graph[q].edges[f] = None
    BY <1>4, <1>7, <2>1
  <2> QED BY <2>1, <2>2, <2>3, <2>4, <2>5 DEF ClaimOk
<1>9. DOMAIN graph = Processes /\ \A q \in Processes : GraphOk(graph[q])
  BY <1>4, EmptyGraphOk
<1>10. DOMAIN call = Processes /\ \A q \in Processes : CallInv(call[q])
  BY <1>4, IdleIsOk
<1>11. Explained
  <2>1. \A a, b \in Facts : ~Loose(a, b)
    <3> SUFFICES ASSUME NEW a \in Facts, NEW b \in Facts, Loose(a, b) PROVE FALSE
      OBVIOUS
    <3>1. a \in old /\ b \in old /\ claims[a] = seed[a] /\ claims[b] = seed[b]
      BY <1>4 DEF Loose
    <3> QED BY <1>3, <3>1 DEF Loose
  <2> QED BY <2>1 DEF Explained
<1>12. clock \in Days /\ DOMAIN claims = Facts
  BY <1>4, MemoryAssumption
<1>13. FabricInv
  BY <1>5, <1>8, <1>9, <1>10, <1>11, <1>12 DEF FabricInv
<1>14. RegOk({})
  BY FS_EmptySet DEF RegOk
<1>15. LessonInv
  BY <1>4, <1>14, NoLessonOk DEF LessonInv
<1>16. AloneOk
  BY <1>4 DEF AloneOk
<1> QED BY <1>13, <1>15, <1>16 DEF LearningInv

LEMMA NextOk ==
  ASSUME LearningInv, LearningNext
  PROVE  LearningInv'
<1>1. ASSUME NEW p \in Processes, LearningStep(p)
      PROVE  LearningInv'
  BY <1>1, ExecuteOk, ReflectOk, ForgetOk, RecordOutcomeOk, ReflectReadOk, ExtractOk, SaveOk,
     ConsolidateLearningsOk, ConsolidatedOk, FeedbackOk, LessonRaisesOk, LearnerExitsOk
  DEF LearningStep
<1> QED BY <1>1, FabricStepOfLearningOk, TickOk DEF LearningNext

LEMMA NothingMovesOk ==
  ASSUME LearningInv, UNCHANGED learningVars
  PROVE  LearningInv'
<1> USE DEF LearningInv, learningVars, memoryVars
<1>1. LessonInv' /\ OutcomesKept
  BY LessonAloneOk, OutcomesStay
<1>2. FabricInv'
  BY <1>1, FabricAloneOk
<1>3. AloneOk'
  BY DEF AloneOk
<1> QED BY <1>1, <1>2, <1>3

\* However the calls of the processes and their lessons overlap, fail and break off: claims
\* and calls name facts there are, copies in the hands of calls are what is stored unless
\* their fact is conflicted, a contradiction on record at one claim only is being mended,
\* every graph is a forest, and every registry rests on outcomes on record
\* (store.py:52-233, governor.py:110-192, engine.py:67-243, registry.py:59-110).
THEOREM LearningInvariant == LearningSpec => []LearningInv
<1>1. (\E s \in Starts : LearningInit(s.seed, s.past, {})) => LearningInv
  BY InitOk
<1>2. LearningInv /\ [LearningNext]_learningVars => LearningInv'
  BY NextOk, NothingMovesOk
<1> QED BY <1>1, <1>2, PTL DEF LearningSpec

\* A contradiction on record at one claim only is one a call under way will put on record
\* at the other, or one that overlapping or broken calls have left
\* (governor.py:137-153, 169-192).
THEOREM ContradictionsAreMutual == LearningSpec => []ContradictionsMutual
<1>1. ASSUME FabricInv PROVE ContradictionsMutual
  <2> SUFFICES ASSUME NEW a \in Stored, NEW b \in Stored, b \in claims[a].contra,
                      a \notin claims[b].contra
               PROVE  \/ a \in conflicted \/ b \in conflicted
                      \/ \E q \in Processes : a \in Footprint(call[q])
    BY DEF ContradictionsMutual
  <2>1. a \in Facts /\ b \in Facts /\ Loose(a, b)
    BY DEF Stored, Loose
  <2>2. CASE a \in conflicted \/ b \in conflicted
    BY <2>2
  <2>3. CASE \E q \in Processes : Explains(call[q], a, b)
    <3>1. PICK q \in Processes : Explains(call[q], a, b)
      BY <2>3
    <3>2. PICK c : c = call[q]
      OBVIOUS
    <3>3. CASE c.op = "review" /\ a = c.fact
      <4>1. a # None
        BY <1>1, <2>1, NamedFacts DEF FabricInv
      <4> QED BY <3>2, <3>3, <4>1 DEF Footprint
    <3>4. CASE c.op = "arbitrate" /\ a = c.b
      BY <3>2, <3>4 DEF Footprint
    <3> QED BY <3>1, <3>2, <3>3, <3>4 DEF Explains
  <2> QED BY <1>1, <2>1, <2>2, <2>3 DEF FabricInv, Explained
<1> QED BY <1>1, LearningInvariant, PTL DEF LearningInv

\* The lineage a claim carries is the one the graph of its writer still gives for it, and
\* the graph's two halves agree (store.py:85-89, graph.py).
THEOREM LineageIsRecorded == LearningSpec => []LineageRecorded
<1>1. ASSUME FabricInv PROVE LineageRecorded
  <2> SUFFICES ASSUME NEW p \in Processes
               PROVE  /\ \A n, m \in Nodes : graph[p].edges[n] = m <=> n \in graph[p].kids[m]
                      /\ \A n \in Nodes : n \notin AncestorsIn(graph[p], n)
                      /\ \A f \in Stored : graph[p].edges[f] # None =>
                           claims[f].lineage = AncestorsIn(graph[p], f)
    BY DEF LineageRecorded
  <2>1. GraphOk(graph[p])
    BY <1>1 DEF FabricInv
  <2>2. \A f \in Stored : ClaimOk(f, claims[f])
    BY <1>1 DEF FabricInv, Stored
  <2> QED BY <2>1, <2>2 DEF GraphOk, ClaimOk
<1> QED BY <1>1, LearningInvariant, PTL DEF LearningInv

\* Every pattern, in the file and in every process, has enough recorded outcomes of its
\* kind behind it, says what no other one says where the code asks for that, and a claim
\* drawn from a pattern hangs below a recorded outcome (engine.py:67-243,
\* registry.py:59-110).
THEOREM PatternsRestOnWhatHappened == LearningSpec => []PatternsRestOnOutcomes
<1>1. ASSUME FabricInv, LessonInv PROVE PatternsRestOnOutcomes
  <2>1. ASSUME NEW known \in ({registry} \cup {patterns[p] : p \in Processes}) \ {Torn, None}
        PROVE  RegOk(known)
    BY <1>1, <2>1 DEF LessonInv
  <2>2. ASSUME NEW f \in Stored, claims[f].parent \in Outcomes
        PROVE  claims[f].parent \in Recorded
    <3>1. ParentOk(claims[f].parent)
      BY <1>1 DEF FabricInv, Stored, ClaimOk
    <3>2. Outcomes \cap Named = {} /\ None \notin Outcomes
      BY <1>1, NamedFacts, LearningAssumption DEF FabricInv
    <3> QED BY <2>2, <3>1, <3>2 DEF ParentOk
  <2>3. ASSUME NEW known \in ({registry} \cup {patterns[p] : p \in Processes}) \ {Torn, None}
        PROVE  /\ \A x \in known : /\ x.sources \subseteq Recorded
                                   /\ Cardinality(x.sources) >= MinKind
                                   /\ x.sources = Evidence(x.kind, x.sources)
               /\ \A x, y \in known :
                    x.kind = y.kind /\ x.action = y.action
                      /\ x.kind \in {"heuristic", "rejection", "task"} => x = y
    BY <2>1 DEF RegOk
  <2> QED BY <2>2, <2>3 DEF PatternsRestOnOutcomes
<1> QED BY <1>1, LearningInvariant, PTL DEF LearningInv
=============================================================================
