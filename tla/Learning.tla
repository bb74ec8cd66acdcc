------------------------------ MODULE Learning ------------------------------
(***************************************************************************)
(* The learning loop (hermes_prime/learning) over the memory fabric: the   *)
(* executor's outcomes (SQLite), the registry of learned patterns (a JSON  *)
(* file that a process reads once, when it starts, and from then on        *)
(* overwrites with what it has in memory), and reflection, which turns     *)
(* outcomes into patterns and patterns into memory claims.                 *)
(***************************************************************************)
EXTENDS Memory, SequencesExt

CONSTANTS
  Outcomes,      \* execution ids of outcomes
  OutcomeKinds,  \* what an execution can come to
  MinOutcomes,   \* outcomes a reflection wants (min_outcomes, 5)
  MinKind,       \* outcomes of a kind a pattern wants (3)
  Interval,      \* executions of a process between reflections (10)
  MaxPatterns,   \* bound on the pattern ids drawn
  Starts,        \* what the tables may hold already: claims, and past outcomes
  Torn           \* a registry file that is no JSON

\* What reflection looks at in an ExecutionOutcome.
ExecutionOutcome == [approved: BOOLEAN, parseable: BOOLEAN, slow: BOOLEAN, action: STRING]

ASSUME LearningAssumption ==
  /\ Outcomes \subseteq Nodes \ Facts /\ IsFiniteSet(Outcomes)
  /\ OutcomeKinds \subseteq ExecutionOutcome
  /\ MinOutcomes \in Nat /\ MinKind \in Nat \ {0} /\ Interval \in Nat \ {0} /\ MaxPatterns \in Nat

\* Claims as the fabric leaves them between calls: contradictions are mutual, and what a
\* claim was drawn from is a claim or an outcome on record.
ASSUME StartsAssumption == \A s \in Starts :
  LET old == DOMAIN s.seed
  IN /\ \E n \in 0..MaxFacts : old = 1..n /\ Cardinality(old) = n
     /\ s.seed \in [old -> Claim]
     /\ \A a, b \in old : b \in s.seed[a].contra => a \in s.seed[b].contra
     /\ \A f \in old : s.seed[f].contra \subseteq old
                      /\ s.seed[f].parent \in {None} \cup old \cup DOMAIN s.past
     /\ DOMAIN s.past \subseteq Outcomes /\ \A o \in DOMAIN s.past : s.past[o] # None

VARIABLES
  outcomes,  \* outcome id -> what it came to, or None
  registry,  \* learned_patterns.json: a set of patterns, or Torn
  patterns,  \* per process, _patterns, or None before it has a LearningRegistry
  executed,  \* per process, _execution_count modulo Interval
  minted,    \* pattern ids drawn so far
  lesson     \* per process, where its execution or reflection is

learningVars == <<memoryVars, outcomes, registry, patterns, executed, minted, lesson>>

Extractions == <<"heuristic", "rejection", "parse", "task", "slow">>

\* `action` is what the heuristics are kept apart by.
Pattern ==
  [id: 1..MaxPatterns, kind: {"heuristic", "rejection", "parse", "task", "slow"},
   sources: SUBSET Outcomes, action: STRING]

\* pc of a lesson --
\*   "outcome"   record the outcome of an execution    "read"   reflect(): read the outcomes
\*   "extract"   the extractions of reflect() to come  "save"   the registry is truncated
\*   "consolidate"  write the learnings to memory      "feedback"  record_application
\*   "failed"    the outcome of an execution that raised
\* `run`: it is part of an execution; `guided`: the prompt had learned guidance.
NoLesson == [pc |-> "none"]
Lesson ==
  {NoLesson} \cup
  [pc: {"outcome", "read", "extract", "save", "consolidate", "feedback", "failed"},
   run: BOOLEAN, guided: BOOLEAN, seen: SUBSET Outcomes, todo: Seq(STRING),
   next: {"extract", "end"}]

LearningInit(seed, past, file) ==
  /\ MemoryInit(seed)
  /\ outcomes = [o \in Outcomes |-> IF o \in DOMAIN past THEN past[o] ELSE None]
  /\ registry = file
  /\ patterns = [p \in Processes |-> None]
  /\ executed = [p \in Processes |-> 0]
  /\ minted = Cardinality(file)
  /\ lesson = [p \in Processes |-> NoLesson]

Recorded == {o \in Outcomes : outcomes[o] # None}
Free(p) == call[p] = Idle /\ lesson[p] = NoLesson
Learn(p, l) == lesson' = [lesson EXCEPT ![p] = l]

\* The LearningRegistry of a process; its constructor raises on a torn file.
Load(p) ==
  /\ patterns[p] # None \/ registry # Torn
  /\ patterns' = IF patterns[p] = None THEN [patterns EXCEPT ![p] = registry] ELSE patterns

\* list_patterns(pattern_type): rejections, parse failures and slow calls are all
\* "prompt_instruction".
OfType(known, kinds) == {x \in known : x.kind \in kinds}

\* build_augmentation_block: the guidance the prompt may get.  Of an instruction a confidence
\* of 0.6 is asked, which a rejection may be below and a slow pattern's 0.5 always is; no tag
\* of a task pattern need be in the task.
Guidance(known) ==
  {OfType(known, {"heuristic", "parse"}) \cup x :
     x \in SUBSET OfType(known, {"rejection", "task"})}

\* _upsert and _delete: change the patterns in memory, then save them: the first thing
\* that does to the file is to truncate it.
Upsert(p, known) ==
  /\ patterns' = [patterns EXCEPT ![p] = known]
  /\ registry' = Torn

BeginLesson(p, l) ==
  /\ Free(p) /\ calls < MaxCalls
  /\ calls' = calls + 1
  /\ Learn(p, l)
  /\ UNCHANGED <<claims, drawn, clock, graph, call, conflicted, outcomes, registry, executed, minted>>

\* AutonomousExecutor.execute, as far as it learns.  The claim it writes of its answer is
\* a Write.
Execute(p, guided) ==
  /\ Load(p)
  /\ guided \in {x # {} : x \in Guidance(patterns'[p])}
  /\ BeginLesson(p, [pc |-> "outcome", run |-> TRUE, guided |-> guided, seen |-> {},
                     todo |-> <<>>, next |-> "end"])

\* hermes learn reflect
Reflect(p) ==
  /\ Load(p)
  /\ BeginLesson(p, [pc |-> "read", run |-> FALSE, guided |-> FALSE, seen |-> {},
                     todo |-> <<>>, next |-> "end"])

\* hermes learn forget: drop a pattern and save.
Forget(p) ==
  /\ Free(p) /\ calls < MaxCalls
  /\ calls' = calls + 1
  /\ patterns[p] # None \/ registry # Torn
  /\ LET known == IF patterns[p] = None THEN registry ELSE patterns[p]
     IN \E x \in known : Upsert(p, known \ {x})
  /\ Learn(p, [pc |-> "save", run |-> FALSE, guided |-> FALSE, seen |-> {}, todo |-> <<>>,
               next |-> "end"])
  /\ UNCHANGED <<claims, drawn, clock, graph, call, conflicted, outcomes, executed, minted>>

-----------------------------------------------------------------------------
\* What a lesson goes on to when its reflection, or the whole of it, is over.
AfterReflection(l) ==
  IF l.run THEN [l EXCEPT !.pc = "feedback", !.seen = {}, !.todo = <<>>] ELSE NoLesson

\* OutcomeStore.store: one commit.
StoreOutcome(kind) ==
  LET o == CHOOSE o \in Outcomes : o \notin Recorded
  IN Recorded # Outcomes /\ outcomes' = [outcomes EXCEPT ![o] = kind]

\* _record_outcome; every Interval-th time it reflects.  The last step of an execution
\* whose answer was no proposal, or that raised.
RecordOutcome(p, kind) ==
  LET l == lesson[p]
      due == executed'[p] = 0
  IN /\ l.pc \in {"outcome", "failed"}
     /\ l.pc = "failed" => ~kind.approved /\ ~kind.parseable /\ ~kind.slow
     /\ StoreOutcome(kind)
     /\ executed' = [executed EXCEPT ![p] = (@ + 1) % Interval]
     /\ Learn(p, IF due THEN [l EXCEPT !.pc = "read", !.run = kind.parseable]
                 ELSE IF kind.parseable THEN [l EXCEPT !.pc = "feedback"] ELSE NoLesson)
     /\ UNCHANGED <<memoryVars, registry, patterns, minted>>

\* reflect() reads all outcomes, if there are enough.
ReflectRead(p) ==
  LET l == lesson[p]
  IN /\ l.pc = "read"
     /\ Learn(p, IF Cardinality(Recorded) < MinOutcomes THEN AfterReflection(l)
                 ELSE [l EXCEPT !.pc = "extract", !.seen = Recorded, !.todo = Extractions])
     /\ UNCHANGED <<memoryVars, outcomes, registry, patterns, executed, minted>>

\* The outcomes an extraction counts.
Evidence(kind, seen) ==
  CASE kind \in {"heuristic", "task"} -> {o \in seen : outcomes[o].approved}
    [] kind = "rejection" -> {o \in seen : ~outcomes[o].approved /\ outcomes[o].parseable}
    [] kind = "parse" -> {o \in seen : ~outcomes[o].parseable}
    [] kind = "slow" -> {o \in seen : outcomes[o].slow}

\* Mutant: the registry is not asked for a task pattern.
FindingsAgain(kind, found, known) ==
  CASE kind = "heuristic" ->
         {a \in {outcomes[o].action : o \in found} :
            /\ 10 * Cardinality({o \in found : outcomes[o].action = a}) > 6 * Cardinality(found)
            /\ \A x \in OfType(known, {"heuristic"}) : x.action # a}
    [] kind = "rejection" ->
         IF OfType(known, {"rejection", "parse", "slow"}) = {} THEN {"layer"} ELSE {}
    [] OTHER -> {""}

\* What an extraction would register, named by its action: a heuristic for the action
\* of more than 60%, a rejection pattern unless there is an instruction already, a task
\* pattern unless there is one; parse failures and slow calls always.
Findings(kind, found, known) ==
  CASE kind = "heuristic" ->
         {a \in {outcomes[o].action : o \in found} :
            /\ 10 * Cardinality({o \in found : outcomes[o].action = a}) > 6 * Cardinality(found)
            /\ \A x \in OfType(known, {"heuristic"}) : x.action # a}
    [] kind = "rejection" ->
         IF OfType(known, {"rejection", "parse", "slow"}) = {} THEN {"layer"} ELSE {}
    [] kind = "task" -> IF OfType(known, {"task"}) = {} THEN {""} ELSE {}
    [] OTHER -> {""}

\* One extraction: register a pattern, in memory and, from "save" on, in the file.
\* Rejections may have no dominant layer, tasks no common word.  (Of more than five
\* outcomes the code keeps the newest ones; the instances have three.)
Extract(p) ==
  LET l == lesson[p]
      kind == Head(l.todo)
      found == Evidence(kind, l.seen)
      findings == IF Cardinality(found) < MinKind THEN {} ELSE Findings(kind, found, patterns[p])
      later == [l EXCEPT !.todo = Tail(@)]
  IN /\ l.pc = "extract" /\ l.todo # <<>>
     /\ \/ /\ findings = {} \/ kind \in {"rejection", "task"}
           /\ Learn(p, later)
           /\ UNCHANGED <<registry, patterns, minted>>
        \/ \E a \in findings :
             /\ minted < MaxPatterns
             /\ minted' = minted + 1
             /\ Upsert(p, patterns[p] \cup
                  {[id |-> minted', kind |-> kind, sources |-> found, action |-> a]})
             /\ Learn(p, [later EXCEPT !.pc = "save", !.next = "extract"])
     /\ UNCHANGED <<memoryVars, outcomes, executed>>

\* _save_json: write_text has truncated the file and now writes it.  Over what another
\* process wrote in between, a shorter text leaves the rest of the longer one.
Save(p) ==
  LET l == lesson[p]
  IN /\ l.pc = "save"
     /\ registry' \in {patterns[p]} \cup (IF registry = Torn THEN {} ELSE {Torn})
     /\ Learn(p, IF l.next = "extract" THEN [l EXCEPT !.pc = "extract", !.next = "end"] ELSE NoLesson)
     /\ UNCHANGED <<memoryVars, outcomes, patterns, executed, minted>>

\* _consolidate_learnings, after the last extraction: a summary and a claim per pattern,
\* under a root of their own.  A pattern's first source, an execution id, is its claim's
\* parent; a rejection pattern may be below the confidence asked for.
ConsolidateLearnings(p) ==
  LET l == lesson[p]
  IN /\ l.pc = "extract" /\ l.todo = <<>>
     /\ \E chosen \in SUBSET patterns[p] :
          /\ patterns[p] \ chosen \subseteq OfType(patterns[p], {"rejection"})
          /\ IF chosen = {} THEN Learn(p, AfterReflection(l)) /\ UNCHANGED call
             ELSE LET wanted == [n \in 1..Cardinality(chosen) |->
                                   CHOOSE o \in SetToSeq(chosen)[n].sources : TRUE]
                  IN /\ Goto(p, [NoWrite EXCEPT !.op = "consolidate", !.pc = "list",
                                   !.type = "reflective", !.sure = TRUE, !.wanted = wanted])
                     /\ Learn(p, [l EXCEPT !.pc = "consolidate"])
     /\ UNCHANGED <<claims, drawn, clock, graph, calls, conflicted, outcomes, registry, patterns,
                    executed, minted>>

Consolidated(p) ==
  /\ lesson[p].pc = "consolidate" /\ call[p] = Idle
  /\ Learn(p, AfterReflection(lesson[p]))
  /\ UNCHANGED <<memoryVars, outcomes, registry, patterns, executed, minted>>

\* record_application: how often a pattern was applied, and how well, is kept with it.
RecordApplications(p) ==
  /\ Upsert(p, patterns[p])
  /\ Learn(p, [lesson[p] EXCEPT !.pc = "save", !.next = "end"])

\* The feedback of an execution that had guidance: up to five patterns, whichever the
\* prompt had, count an application, and each saves the registry.
Feedback(p) ==
  LET l == lesson[p]
  IN /\ l.pc = "feedback"
     /\ IF l.guided /\ patterns[p] # {} THEN RecordApplications(p)
        ELSE Learn(p, NoLesson) /\ UNCHANGED <<registry, patterns>>
     /\ UNCHANGED <<memoryVars, outcomes, executed, minted>>

\* A store raises.  In _record_outcome, and in the reflection it starts, that is caught
\* and the execution goes on; in the feedback of an execution whose outcome is
\* recorded, execute() records a second one, a failure.
LessonRaises(p) ==
  LET l == lesson[p]
  IN /\ l.pc # "none" /\ (l.pc = "consolidate" => call[p] # Idle)
     /\ \/ l.run /\ l.pc = "save" /\ l.next = "end" /\ Learn(p, [l EXCEPT !.pc = "failed"])
        \/ l.pc # "failed" /\ (l.pc = "save" => l.next = "extract")
           /\ l.run /\ Learn(p, [AfterReflection(l) EXCEPT !.next = "end"])
        \/ (~l.run \/ l.pc \in {"outcome", "failed"}) /\ Learn(p, NoLesson)
     /\ BreakOff(p) /\ UNCHANGED <<graph, outcomes, registry, patterns, executed, minted>>

\* The process ends at any step.
LearnerExits(p) ==
  /\ Exit(p)
  /\ patterns' = [patterns EXCEPT ![p] = None]
  /\ executed' = [executed EXCEPT ![p] = 0]
  /\ Learn(p, NoLesson)
  /\ UNCHANGED <<outcomes, registry, minted>>

LearningStep(p) ==
  \/ (\E guided \in BOOLEAN : Execute(p, guided)) \/ Reflect(p) \/ Forget(p)
  \/ (\E kind \in OutcomeKinds : RecordOutcome(p, kind))
  \/ ReflectRead(p) \/ Extract(p) \/ Save(p) \/ ConsolidateLearnings(p) \/ Consolidated(p)
  \/ Feedback(p) \/ LessonRaises(p) \/ LearnerExits(p)

\* The steps of the fabric, for a call of its own or for a consolidation.
FabricStep(p) ==
  /\ (Free(p) /\ MemoryBegin(p)) \/ MemoryStep(p) \/ (lesson[p] = NoLesson /\ Raise(p))
  /\ UNCHANGED <<outcomes, registry, patterns, executed, minted, lesson>>

LearningNext ==
  \/ \E p \in Processes : LearningStep(p) \/ FabricStep(p)
  \/ Tick /\ UNCHANGED <<outcomes, registry, patterns, executed, minted, lesson>>

LearningSpec ==
  (\E s \in Starts : LearningInit(s.seed, s.past, {})) /\ [][LearningNext]_learningVars

-----------------------------------------------------------------------------
\* What is learned rests on what happened (engine.py:67-243, registry.py:59-110), in the
\* file and in every process, though processes overwrite each other's files and one may
\* have forgotten what another still saves: every pattern has recorded outcomes of its
\* kind behind it, no two patterns of one registry say the same where the code asks
\* for that, and a claim drawn from a pattern hangs below a recorded outcome.
PatternsRestOnOutcomes ==
  /\ \A known \in ({registry} \cup {patterns[p] : p \in Processes}) \ {Torn, None} :
       /\ \A x \in known : /\ x.sources \subseteq Recorded
                           /\ Cardinality(x.sources) >= MinKind
                           /\ x.sources = Evidence(x.kind, x.sources)
       /\ \A x, y \in known :
            x.kind = y.kind /\ x.action = y.action /\ x.kind \in {"heuristic", "rejection", "task"}
              => x = y
  /\ \A f \in Stored : claims[f].parent \in Outcomes => claims[f].parent \in Recorded
=============================================================================
