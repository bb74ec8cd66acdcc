------------------------------- MODULE Memory -------------------------------
(***************************************************************************)
(* The memory fabric (hermes_prime/memory): MemoryStore over the SQLite    *)
(* backend, with the governor, the decay scheduler and the consolidator.   *)
(*                                                                         *)
(* Processes share the table of claims; each has its own lineage graph and *)
(* makes one call at a time.  Every backend call is one step, since SQLite *)
(* commits it on its own; nothing makes two of them atomic.  Claims are    *)
(* read whole, changed in memory and stored whole.                         *)
(***************************************************************************)
EXTENDS KnowledgeGraph, Sequences

CONSTANTS
  Processes,     \* processes that use the workspace's memory
  Intents,       \* intent roots
  MaxFacts,      \* bound on the fact ids drawn
  MaxPerIntent, MaxTotal,  \* DepthPolicy: max_claims_per_intent, max_total_claims
  Retention,     \* retention days, per memory type
  Days,          \* the values of the clock, in days
  WriteTypes,    \* memory types the callers of write() name
  Targets,       \* trust states the callers of promote() ask for
  MaxCalls       \* bound on the calls begun, over all processes

Facts == 1..MaxFacts
MemoryTypes == {"working", "reflective", "episodic", "semantic", "strategic", "governance"}

Live == {"UNVERIFIED", "OBSERVED", "ATTESTED", "VALIDATED", "EXECUTABLE"}
TrustStates == Live \cup {"QUARANTINED", "REVOKED", "EXPIRED"}

ASSUME MemoryAssumption ==
  /\ Facts \subseteq Nodes
  /\ MaxFacts \in Nat /\ MaxPerIntent \in Nat /\ MaxTotal \in Nat /\ MaxCalls \in Nat
  /\ Retention \in [MemoryTypes -> Nat]
  /\ WriteTypes \subseteq MemoryTypes /\ Targets \subseteq TrustStates
  /\ Days \subseteq Nat /\ 0 \in Days

VARIABLES
  claims,      \* memory_claims: fact id -> claim, or None
  drawn,       \* fact ids drawn so far (uuid4, never twice)
  clock,       \* the wall clock
  graph,       \* per process, knowledge_graph
  call,        \* per process, the call in progress
  calls,       \* calls begun so far
  conflicted   \* history: facts that overlapping or broken calls have written

memoryVars == <<claims, drawn, clock, graph, call, calls, conflicted>>

\* `intent` None stands for a root that no other call has.  `sure`: epistemic_confidence
\* >= 0.8; `contra` the fact ids under "contradictions";
\* `parent` and `lineage` what write() left in source.
Claim ==
  [intent: Intents \cup {None}, type: MemoryTypes, sure: BOOLEAN, state: TrustStates,
   tier: {"quarantine", "authoritative"}, contra: SUBSET Facts, parent: Nodes \cup {None},
   lineage: SUBSET Nodes, at: Days]

ASSUME NoClaimAssumption == None \notin Claim

Stored == {f \in Facts : claims[f] # None}

\* trust_transition_allowed
Allowed(from, to) ==
  \/ from = to
  \/ <<from, to>> \in {<<"UNVERIFIED", "OBSERVED">>, <<"OBSERVED", "ATTESTED">>,
                       <<"ATTESTED", "VALIDATED">>, <<"VALIDATED", "EXECUTABLE">>}
  \/ from \in Live \ {"EXECUTABLE"} /\ to = "QUARANTINED"
  \/ from \in {"EXECUTABLE", "QUARANTINED"} /\ to \in {"REVOKED", "EXPIRED"}

Idle == [op |-> "idle"]
\* write(), alone or inside review() and consolidate().  `wanted` are the writes still
\* to follow, `listed` the facts review() saw, `todo` and `copy` its back references.
WriteCall ==
  [op: {"write", "review", "consolidate"}, pc: {"list", "check", "store", "detect", "get", "put"},
   intent: Intents \cup {None}, type: MemoryTypes, sure: BOOLEAN,
   parent: Nodes \cup {None}, fact: Facts \cup {None}, listed: SUBSET Facts,
   contra: SUBSET Facts, todo: SUBSET Facts, other: Facts \cup {None},
   copy: Claim \cup {None}, wanted: Seq(Nodes \cup {None})]
UpdateCall ==
  [op: {"promote", "revoke"}, pc: {"get", "put"}, fact: Facts, target: TrustStates,
   copy: Claim \cup {None}]
ArbitrateCall ==
  [op: {"arbitrate"}, pc: {"getA", "getB", "putA", "putB"}, a: Facts, b: Facts,
   keep: {"a", "b"}, copyA: Claim \cup {None}, copyB: Claim \cup {None}]
DecayCall ==
  [op: {"decay"}, pc: {"list", "process"}, todo: SUBSET Facts,
   copies: [Facts -> Claim \cup {None}]]
GcCall == [op: {"gc"}, pc: {"delete"}, before: Days]
MemoryCall == {Idle} \cup WriteCall \cup UpdateCall \cup ArbitrateCall \cup DecayCall \cup GcCall

NoWrite ==
  [op |-> "write", pc |-> "check", intent |-> None, type |-> "episodic", sure |-> FALSE,
   parent |-> None, fact |-> None, listed |-> {}, contra |-> {}, todo |-> {}, other |-> None,
   copy |-> None, wanted |-> <<>>]

MemoryInit(seed) ==
  /\ claims = [f \in Facts |-> IF f \in DOMAIN seed THEN seed[f] ELSE None]
  /\ drawn = Cardinality(DOMAIN seed)
  /\ clock = 0
  /\ graph = [p \in Processes |-> EmptyKGraph]
  /\ call = [p \in Processes |-> Idle]
  /\ calls = 0
  /\ conflicted = {}

Begin(p, c) ==
  /\ call[p] = Idle /\ calls < MaxCalls
  /\ call' = [call EXCEPT ![p] = c] /\ calls' = calls + 1
  /\ UNCHANGED <<claims, drawn, clock, graph, conflicted>>

Goto(p, c) == call' = [call EXCEPT ![p] = c]

\* The facts a call has read and will still write, or leave in agreement.
Footprint(c) ==
  CASE c.op \in {"write", "review", "consolidate"} -> ({c.fact} \ {None}) \cup c.contra
    [] c.op \in {"promote", "revoke"} -> {c.fact}
    [] c.op = "arbitrate" -> {c.a, c.b}
    [] c.op = "decay" -> c.todo
    [] OTHER -> {}

\* A write to `facts` by `p`, under calls of others that rely on some of them.
Conflicts(p, facts) ==
  conflicted' = conflicted \cup
    (facts \cap UNION {Footprint(call[q]) : q \in Processes \ {p}})

\* SQLiteMemoryBackend.store: an upsert of the whole claim.
StoreClaim(p, f, c) ==
  claims' = [claims EXCEPT ![f] = c] /\ Conflicts(p, {f})

\* SQLiteMemoryBackend.delete
DeleteClaims(p, facts) ==
  /\ claims' = [f \in Facts |-> IF f \in facts THEN None ELSE claims[f]]
  /\ Conflicts(p, facts)

-----------------------------------------------------------------------------
\* MemoryStore.write, from the CLI, the executor or the library.
Write(p, i, type, sure, parent) ==
  Begin(p, [NoWrite EXCEPT !.intent = i, !.type = type, !.sure = sure, !.parent = parent])

\* MemoryGovernor.review
Review(p, i, sure) ==
  Begin(p, [NoWrite EXCEPT !.op = "review", !.pc = "list", !.intent = i, !.sure = sure])

\* review() lists the claims before it writes its own.
ReviewList(p) ==
  /\ call[p].op = "review" /\ call[p].pc = "list"
  /\ Goto(p, [call[p] EXCEPT !.pc = "check", !.listed = Stored])
  /\ UNCHANGED <<claims, drawn, clock, graph, calls, conflicted>>

\* ReflectiveConsolidator.consolidate of an intent root's claims, or of some of them:
\* the first of them is the summary's parent, which one depends on their order.  Each
\* pattern names a source of its own or hangs below the summary (None).
Consolidate(p, i, patterns) ==
  Begin(p, [NoWrite EXCEPT !.op = "consolidate", !.pc = "list", !.intent = i,
              !.type = "reflective", !.sure = TRUE, !.wanted = patterns])

ConsolidateList(p) ==
  LET c == call[p]
      sources == {f \in Stored : c.intent # None /\ claims[f].intent = c.intent}
  IN /\ c.op = "consolidate" /\ c.pc = "list"
     /\ \E s \in sources \cup {None} : Goto(p, [c EXCEPT !.pc = "check", !.parent = s])
     /\ UNCHANGED <<claims, drawn, clock, graph, calls, conflicted>>

\* What follows a write that was refused (f is None), or that stored `claim` as `f`.
AfterWrite(c, f, claim) ==
  IF c.op = "write" \/ (f = None /\ (c.op = "review" \/ c.fact = None)) THEN Idle
  ELSE IF c.op = "review" THEN [c EXCEPT !.pc = "detect", !.fact = f, !.copy = claim]
  ELSE LET summary == IF c.fact = None THEN f ELSE c.fact
       IN IF c.wanted = <<>> THEN Idle
          ELSE [c EXCEPT !.pc = "check", !.fact = summary, !.type = "strategic",
                  !.parent = IF Head(c.wanted) = None THEN summary ELSE Head(c.wanted),
                  !.wanted = Tail(@)]

\* The depth policy on list_all() and count(), which follow each other.
WriteCheck(p) ==
  LET c == call[p]
      room == /\ c.intent # None =>
                   Cardinality({f \in Stored : claims[f].intent = c.intent}) < MaxPerIntent
              /\ Cardinality(Stored) < MaxTotal
  IN /\ c.op \in {"write", "review", "consolidate"} /\ c.pc = "check"
     /\ Goto(p, IF room THEN [c EXCEPT !.pc = "store"] ELSE AfterWrite(c, None, None))
     /\ UNCHANGED <<claims, drawn, clock, graph, calls, conflicted>>

\* Mutant: the lineage is read before the edge is added.
WrittenEarly(c, f, g) ==
  [intent |-> c.intent, type |-> c.type, sure |-> c.sure, state |-> "UNVERIFIED",
   tier |-> "quarantine", contra |-> {}, parent |-> c.parent,
   lineage |-> IF c.parent = None THEN {} ELSE AncestorsIn(g, c.parent), at |-> clock]

\* ProvenanceLinker.build_claim, and the lineage write() adds: `g` has the edge.
Written(c, f, g) ==
  [intent |-> c.intent, type |-> c.type, sure |-> c.sure, state |-> "UNVERIFIED",
   tier |-> "quarantine", contra |-> {}, parent |-> c.parent,
   lineage |-> AncestorsIn(g, f), at |-> clock]

\* The rest of write(): a fact id, the edge, the attestation, the store.  A store that
\* raises ends the call and leaves the edge behind.
WriteStore(p) ==
  LET c == call[p]
      f == drawn + 1
      g == IF c.parent = None THEN graph[p] ELSE AddEdge(graph[p], f, c.parent)
  IN /\ c.op \in {"write", "review", "consolidate"} /\ c.pc = "store"
     /\ drawn < MaxFacts
     /\ drawn' = f
     /\ c.parent # None => MayAddEdge(graph[p], f, c.parent)
     /\ graph' = [graph EXCEPT ![p] = g]
     /\ \/ StoreClaim(p, f, Written(c, f, g)) /\ Goto(p, AfterWrite(c, f, Written(c, f, g)))
        \/ Goto(p, Idle) /\ UNCHANGED <<claims, conflicted>>
     /\ UNCHANGED <<clock, calls>>

\* Mutant: the back references are left to the next review.
ReviewDetectOneSided(p, found) ==
  LET c == call[p]
  IN /\ c.op = "review" /\ c.pc = "detect"
     /\ found \subseteq c.listed
     /\ IF found = {} THEN UNCHANGED <<claims, conflicted>>
        ELSE StoreClaim(p, c.fact, [c.copy EXCEPT !.contra = found])
     /\ Goto(p, Idle)
     /\ UNCHANGED <<drawn, clock, graph, calls>>

\* The contradictions found among the listed claims, by likeness or as declared; then the
\* claim write() made is stored again with them.
ReviewDetect(p, found) ==
  LET c == call[p]
  IN /\ c.op = "review" /\ c.pc = "detect"
     /\ found \subseteq c.listed
     /\ IF found = {} THEN Goto(p, Idle) /\ UNCHANGED <<claims, conflicted>>
        ELSE /\ StoreClaim(p, c.fact, [c.copy EXCEPT !.contra = found])
             /\ Goto(p, [c EXCEPT !.pc = "get", !.contra = found, !.todo = found,
                               !.copy = None])
     /\ UNCHANGED <<drawn, clock, graph, calls>>

\* backend.get of a contradicted claim; one that is gone is skipped.
ReviewGet(p) ==
  LET c == call[p]
  IN /\ c.op = "review" /\ c.pc = "get"
     /\ \/ c.todo = {} /\ Goto(p, Idle)
        \/ \E o \in c.todo :
             Goto(p, IF claims[o] = None THEN [c EXCEPT !.todo = @ \ {o}]
                     ELSE [c EXCEPT !.pc = "put", !.other = o, !.copy = claims[o]])
     /\ UNCHANGED <<claims, drawn, clock, graph, calls, conflicted>>

\* The back reference, in the copy; the copy is stored.
ReviewPut(p) ==
  LET c == call[p]
  IN /\ c.op = "review" /\ c.pc = "put"
     /\ StoreClaim(p, c.other, [c.copy EXCEPT !.contra = @ \cup {c.fact}])
     /\ Goto(p, [c EXCEPT !.pc = "get", !.todo = @ \ {c.other}, !.other = None, !.copy = None])
     /\ UNCHANGED <<drawn, clock, graph, calls>>

-----------------------------------------------------------------------------
\* MemoryStore.promote and MemoryStore.revoke: get the claim, ...
Promote(p, f, target) ==
  Begin(p, [op |-> "promote", pc |-> "get", fact |-> f, target |-> target, copy |-> None])

Revoke(p, f) ==
  Begin(p, [op |-> "revoke", pc |-> "get", fact |-> f, target |-> "REVOKED", copy |-> None])

UpdateGet(p) ==
  LET c == call[p]
  IN /\ c.op \in {"promote", "revoke"} /\ c.pc = "get"
     /\ Goto(p, IF claims[c.fact] = None THEN Idle
                ELSE [c EXCEPT !.pc = "put", !.copy = claims[c.fact]])
     /\ UNCHANGED <<claims, drawn, clock, graph, calls, conflicted>>

\* What promote() asks of a claim.
MayPromote(c, target) ==
  /\ Allowed(c.state, target)
  /\ target \in {"VALIDATED", "EXECUTABLE"} => c.contra = {} /\ c.sure

\* ... change the copy and store it.
PromotePut(p) ==
  LET c == call[p]
      top == c.target \in {"VALIDATED", "EXECUTABLE"}
  IN /\ c.op = "promote" /\ c.pc = "put"
     /\ IF ~MayPromote(c.copy, c.target) THEN UNCHANGED <<claims, conflicted>>
        ELSE StoreClaim(p, c.fact, [c.copy EXCEPT !.state = c.target,
                                      !.tier = IF top THEN "authoritative" ELSE @])
     /\ Goto(p, Idle)
     /\ UNCHANGED <<drawn, clock, graph, calls>>

\* revoke() asks nothing, and leaves the tier.
RevokePut(p) ==
  LET c == call[p]
  IN /\ c.op = "revoke" /\ c.pc = "put"
     /\ StoreClaim(p, c.fact, [c.copy EXCEPT !.state = "REVOKED"])
     /\ Goto(p, Idle)
     /\ UNCHANGED <<drawn, clock, graph, calls>>

\* MemoryGovernor.arbitrate reads both claims ...
Arbitrate(p, a, b, keep) ==
  Begin(p, [op |-> "arbitrate", pc |-> "getA", a |-> a, b |-> b, keep |-> keep,
            copyA |-> None, copyB |-> None])

ArbitrateGet(p) ==
  LET c == call[p]
  IN /\ c.op = "arbitrate" /\ c.pc \in {"getA", "getB"}
     /\ IF c.pc = "getA" THEN Goto(p, [c EXCEPT !.pc = "getB", !.copyA = claims[c.a]])
        ELSE Goto(p, IF c.copyA = None \/ claims[c.b] = None THEN Idle
                     ELSE [c EXCEPT !.pc = "putA", !.copyB = claims[c.b]])
     /\ UNCHANGED <<claims, drawn, clock, graph, calls, conflicted>>

\* The claim that wins or loses against `f`: neither its state nor its other
\* contradictions are asked for, and its tier stays.
Settled(c, f, wins) ==
  [c EXCEPT !.contra = @ \ {f}, !.state = IF wins THEN "VALIDATED" ELSE "REVOKED"]

\* ... and stores them one after the other.
ArbitratePut(p) ==
  LET c == call[p]
  IN /\ c.op = "arbitrate" /\ c.pc \in {"putA", "putB"}
     /\ IF c.pc = "putA"
        THEN /\ StoreClaim(p, c.a, Settled(c.copyA, c.b, c.keep = "a"))
             /\ Goto(p, [c EXCEPT !.pc = "putB"])
        ELSE StoreClaim(p, c.b, Settled(c.copyB, c.a, c.keep = "b")) /\ Goto(p, Idle)
     /\ UNCHANGED <<drawn, clock, graph, calls>>

-----------------------------------------------------------------------------
\* DecayPolicy.is_exempt; a retention of 0 exempts as well.
Exempt(c) ==
  \/ c.state = "EXECUTABLE"
  \/ c.type \in {"strategic", "governance"}
  \/ Retention[c.type] = 0

\* effective_age_ratio, in tenths: an unverified claim ages twice as fast.
AgeRatio(c) ==
  (10 * (clock - c.at) * (IF c.state = "UNVERIFIED" THEN 2 ELSE 1)) \div Retention[c.type]

\* What _process_claim does to a claim: "keep", "demote" or "delete".
Fate(c) ==
  IF Exempt(c) \/ AgeRatio(c) < 8 THEN "keep"
  ELSE IF AgeRatio(c) >= 10
  THEN IF c.type \in {"episodic", "semantic"} /\ c.state = "VALIDATED" THEN "demote" ELSE "delete"
  ELSE IF c.type = "working" /\ c.state \in {"UNVERIFIED", "OBSERVED"} THEN "delete" ELSE "keep"

\* DecayScheduler.run_cycle lists all claims, ...
DecayCycle(p) ==
  Begin(p, [op |-> "decay", pc |-> "list", todo |-> {}, copies |-> [f \in Facts |-> None]])

DecayList(p) ==
  /\ call[p].op = "decay" /\ call[p].pc = "list"
  /\ Goto(p, [call[p] EXCEPT !.pc = "process", !.todo = Stored, !.copies = claims])
  /\ UNCHANGED <<claims, drawn, clock, graph, calls, conflicted>>

\* ... then looks at the listed copies one at a time; a demotion stores the copy.
DecayClaim(p) ==
  LET c == call[p]
  IN /\ c.op = "decay" /\ c.pc = "process"
     /\ \/ c.todo = {} /\ Goto(p, Idle) /\ UNCHANGED <<claims, conflicted>>
        \/ \E f \in c.todo :
             /\ Goto(p, [c EXCEPT !.todo = @ \ {f}, !.copies[f] = None])
             /\ CASE Fate(c.copies[f]) = "keep" -> UNCHANGED <<claims, conflicted>>
                  [] Fate(c.copies[f]) = "demote" ->
                       StoreClaim(p, f, [c.copies[f] EXCEPT !.state = "OBSERVED"])
                  [] OTHER -> DeleteClaims(p, {f})
     /\ UNCHANGED <<drawn, clock, graph, calls>>

\* MemoryStore.gc: one DELETE of the claims created before a day.
Gc(p, day) == Begin(p, [op |-> "gc", pc |-> "delete", before |-> day])

GcDelete(p) ==
  /\ call[p].op = "gc"
  /\ DeleteClaims(p, {f \in Stored : claims[f].at < call[p].before})
  /\ Goto(p, Idle)
  /\ UNCHANGED <<drawn, clock, graph, calls>>

\* What a call has stored stays when it breaks off.
HalfWay(c) ==
  \/ c.op = "review" /\ c.pc \in {"get", "put"}
  \/ c.op = "arbitrate" /\ c.pc = "putB"

BreakOff(p) ==
  /\ conflicted' = conflicted \cup (IF HalfWay(call[p]) THEN Footprint(call[p]) ELSE {})
  /\ Goto(p, Idle)
  /\ UNCHANGED <<claims, drawn, clock, calls>>

\* A backend call raises.
Raise(p) == call[p] # Idle /\ BreakOff(p) /\ UNCHANGED graph

\* The process ends or is killed, and a new one takes its place: it has no graph.
Exit(p) == graph' = [graph EXCEPT ![p] = EmptyKGraph] /\ BreakOff(p)

Tick ==
  /\ \E d \in Days : d > clock /\ clock' = d
  /\ UNCHANGED <<claims, drawn, graph, call, calls, conflicted>>

\* hermes hp-memory revoke, gc.
MemoryCommand(p) == (\E f \in 1..drawn : Revoke(p, f)) \/ \E day \in Days : Gc(p, day)

\* The calls of the fabric, which name facts that have been drawn, and their steps.
MemoryBegin(p) ==
  LET named == 1..drawn
  IN \/ \E i \in Intents, type \in WriteTypes, sure \in BOOLEAN, q \in named \cup {None} :
          Write(p, i, type, sure, q)
     \/ \E i \in Intents : Review(p, i, TRUE)
     \/ \E i \in Intents, q \in named \cup {None} : Consolidate(p, i, <<q>>)
     \/ \E f \in named, target \in Targets : Promote(p, f, target)
     \/ \E a, b \in named, keep \in {"a", "b"} : a # b /\ Arbitrate(p, a, b, keep)
     \/ DecayCycle(p) \/ MemoryCommand(p)

MemoryStep(p) ==
  \/ ReviewList(p) \/ ConsolidateList(p) \/ WriteCheck(p) \/ WriteStore(p)
  \/ (\E found \in SUBSET Facts : ReviewDetect(p, found)) \/ ReviewGet(p) \/ ReviewPut(p)
  \/ UpdateGet(p) \/ PromotePut(p) \/ RevokePut(p) \/ ArbitrateGet(p) \/ ArbitratePut(p)
  \/ DecayList(p) \/ DecayClaim(p) \/ GcDelete(p)

-----------------------------------------------------------------------------
\* A contradiction is on record at both claims (governor.py:137-153, 169-192, and every
\* other writer of whole claims), save for claims of a call under way and claims that
\* overlapping or broken calls have written: no serial history of writes, reviews,
\* promotions, arbitrations, decay and collection leaves a claim that can be promoted
\* although another one still contradicts it.
ContradictionsMutual ==
  \A a, b \in Stored :
    b \in claims[a].contra /\ a \notin claims[b].contra =>
      {a, b} \cap (conflicted \cup UNION {Footprint(call[p]) : p \in Processes}) # {}

\* The lineage a claim carries (store.py:85-89) is the one the graph of its writer still
\* gives for it, and the graph's two halves agree, whatever was written, refused,
\* interrupted or deleted since: descendants found below a claim name it in theirs.
LineageRecorded ==
  \A p \in Processes :
    /\ \A n, m \in Nodes : graph[p].edges[n] = m <=> n \in graph[p].kids[m]
    /\ \A n \in Nodes : n \notin AncestorsIn(graph[p], n)
    /\ \A f \in Stored : graph[p].edges[f] # None => claims[f].lineage = AncestorsIn(graph[p], f)
=============================================================================
