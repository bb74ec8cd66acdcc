------------------------------ MODULE Refrlow ------------------------------
(***************************************************************************)
(* The dispatcher of claude-code-refrlow (skeleton/refrlow/dispatcher.py,  *)
(* reports.py): the main agent's requests, one at a time, go through the   *)
(* policy, to a miner, through the validation of its report and back,      *)
(* while an editor changes the workspace.                                  *)
(*                                                                         *)
(* Request ids are numbers, in the order they are issued (they are fresh   *)
(* uuids).  The deadline passes, and a report is over its token budget,    *)
(* whenever they may.  No miner reports tokens used.                       *)
(***************************************************************************)
EXTENDS RefrlowMiners, Sequences

CONSTANTS
  Contents,          \* what an edit leaves in a file: FileStates and None
  Requests,          \* the requests the main agent makes
  Registered,        \* the classes of the registered miners
  MaxDispatches,     \* max_dispatches_per_turn
  MaxTokensPerTurn,  \* max_tokens_per_turn
  ClassResults,      \* max_budget_per_class: max_results of every class
  MaxChainDepth,     \* max_chain_depth
  MaxRequests,       \* bound on the requests issued
  MaxTurns,          \* bound on the turns
  MaxEdits           \* bound on the edits

\* No miner of class validator is there to register.
Classes == {"file_miner", "grep_miner", "ast_miner", "summarizer", "validator"}

TasksOf(class) ==
  CASE class = "file_miner" -> FileTasks
    [] class = "grep_miner" -> GrepTasks
    [] class = "ast_miner" -> AstTasks
    [] class = "summarizer" -> SummaryTasks
    [] OTHER -> {}

\* Of a request's Scope, scoped: its root starts with the workspace's; of its Budget, tokens
\* and limit (max_results); of its parameters, paths, valid: they are there and the pattern
\* is short enough, and compiles: a regular expression among them is one.
DispatchRequest ==
  [class: Classes, task: Tasks, scoped: BOOLEAN, valid: BOOLEAN, compiles: BOOLEAN,
   tokens: Nat, limit: Nat, paths: SUBSET Files]

RequestIds == 1..MaxRequests

ASSUME RefrlowAssumption ==
  /\ Contents \subseteq FileState \cup {None}
  /\ Requests \subseteq DispatchRequest
  /\ \A r \in Requests :  \* their parameter is one path
       r.valid /\ r.task \in {"signature_summary", "purpose_summary"} =>
         \E f \in Files : r.paths = {f}
  /\ Registered \subseteq Classes
  /\ {MaxDispatches, MaxTokensPerTurn, ClassResults, MaxChainDepth, MaxRequests, MaxTurns,
      MaxEdits} \subseteq Nat

VARIABLES
  workspace,   \* what every path holds
  turnCount,   \* _turn_dispatch_count
  turnTokens,  \* _turn_token_total
  chainDepths, \* _chain_depths; 0 where it has no entry
  run,         \* the dispatch in progress: its id and its search; None when there is none
  report,      \* the report just returned: id, status and the search behind it; or None
  parentOf,    \* history: per request issued, its parent_request_id
  executed,    \* history: the requests a miner has executed in this turn
  edited,      \* history: the files edited since the dispatch in progress began
  turns, edits \* counts for the bounds

refrlowVars ==
  <<workspace, turnCount, turnTokens, chainDepths, run, report, parentOf, executed, edited,
    turns, edits>>

policyVars == <<turnCount, turnTokens, chainDepths>>

Issued == DOMAIN parentOf
NoDepths == [id \in RequestIds |-> 0]

RefrlowInit ==
  /\ workspace \in [Files -> Contents]
  /\ turnCount = 0 /\ turnTokens = 0 /\ chainDepths = NoDepths
  /\ run = None /\ report = None
  /\ parentOf = <<>> /\ executed = {} /\ edited = {}
  /\ turns = 1 /\ edits = 0

\* begin_turn, called by the main agent.
BeginTurn ==
  /\ run = None /\ turns < MaxTurns
  /\ turnCount' = 0 /\ turnTokens' = 0 /\ chainDepths' = NoDepths
  /\ turns' = turns + 1 /\ executed' = {} /\ report' = None
  /\ UNCHANGED <<workspace, run, parentOf, edited, edits>>

\* Someone edits, writes or deletes a file while a miner runs; between two dispatches
\* nothing depends on the workspace, and every one is initial.
Edit ==
  /\ run # None /\ edits < MaxEdits
  /\ \E f \in Files, content \in Contents :
       /\ content # workspace[f]
       /\ workspace' = [workspace EXCEPT ![f] = content]
       /\ edited' = edited \cup {f}
  /\ edits' = edits + 1
  /\ UNCHANGED <<policyVars, run, report, parentOf, executed, turns>>

-----------------------------------------------------------------------------
\* Mutant: a request has its parent's depth.
NewDepthUncounted(parent) == IF parent = 0 \/ chainDepths[parent] = 0 THEN 1 ELSE chainDepths[parent]

NewDepth(parent) == IF parent = 0 THEN 1 ELSE chainDepths[parent] + 1

OverBudget(r) == turnCount >= MaxDispatches \/ turnTokens + r.tokens > MaxTokensPerTurn

Routed(r) == r.scoped /\ r.class \in Registered /\ r.task \in TasksOf(r.class)

DispatchReport(id, status, search) == [id |-> id, status |-> status, search |-> search]

\* _build_denial: no counter has changed, and nothing is audited.
Denied(id) == report' = DispatchReport(id, "denied", None)

\* The search as the miner begins it.  Parameters it cannot use raise; rg just finds nothing
\* for a pattern that does not compile, its return code is not looked at.
Begun(r, search) ==
  IF ~r.valid \/ (~r.compiles /\ r.task # "ripgrep") THEN Fails(search)
  ELSE IF ~r.compiles THEN Finish(search) ELSE search

\* The checks at the head of dispatch, in their order, and the start of the miner.  A
\* request denied for its depth leaves no depth behind.
Dispatch ==
  /\ run = None /\ Cardinality(Issued) < MaxRequests
  /\ \E r \in Requests, parent \in Issued \cup {0} :
       LET id == Cardinality(Issued) + 1
           limit == IF r.limit < ClassResults THEN r.limit ELSE ClassResults
           search == StartSearch(workspace, r.task, limit, r.paths)
           tooDeep == parent # 0 /\ NewDepth(parent) > MaxChainDepth
       IN /\ parentOf' = Append(parentOf, parent)
          /\ chainDepths' = IF OverBudget(r) \/ tooDeep THEN chainDepths
                            ELSE [chainDepths EXCEPT ![id] = NewDepth(parent)]
          /\ \/ /\ OverBudget(r) \/ tooDeep \/ ~Routed(r)
                /\ Denied(id)
                /\ UNCHANGED <<run, executed, edited>>
             \/ /\ ~OverBudget(r) /\ ~tooDeep /\ Routed(r)
                /\ run' = [id |-> id, search |-> Begun(r, search)]
                /\ executed' = executed \cup {id} /\ edited' = {}
                /\ report' = None
  /\ UNCHANGED <<workspace, turnCount, turnTokens, turns, edits>>

Searching == run # None /\ run.search.status = None

\* The miner visits the next file; the loop's end is part of its last visit.
VisitFile ==
  /\ Searching
  /\ \E f \in run.search.todo :
       LET after == Visit(run.search, f, workspace)
       IN run' = [run EXCEPT !.search =
                    IF after.status = None /\ after.todo = {} THEN Finish(after) ELSE after]
  /\ UNCHANGED <<workspace, policyVars, report, parentOf, executed, edited, turns, edits>>

\* enumerate_tree comes to a directory that is gone, or is one no more: iterdir raises, and
\* only a PermissionError is caught.  Directories are left out, so this may always be.
DirectoryGone ==
  /\ Searching /\ run.search.task = "enumerate_tree"
  /\ run' = [run EXCEPT !.search = Fails(@)]
  /\ UNCHANGED <<workspace, policyVars, report, parentOf, executed, edited, turns, edits>>

\* There is nothing to visit.
FinishEmpty ==
  /\ Searching /\ run.search.todo = {}
  /\ run' = [run EXCEPT !.search = Finish(run.search)]
  /\ UNCHANGED <<workspace, policyVars, report, parentOf, executed, edited, turns, edits>>

\* time.monotonic() > deadline, looked at before every file but not by the summarizer.
Deadline ==
  /\ Searching /\ run.search.todo # {} /\ run.search.task \notin SummaryTasks
  /\ run' = [run EXCEPT !.search = Late(run.search)]
  /\ UNCHANGED <<workspace, policyVars, report, parentOf, executed, edited, turns, edits>>

-----------------------------------------------------------------------------
\* validate_report: an ok report over the request's token budget is downgraded, one whose
\* text shows a secret is replaced by a quarantine notice.
Validated(search, oversized) ==
  IF search.leaks THEN "error"
  ELSE IF oversized /\ search.status = "ok" THEN "truncated" ELSE search.status

TokensUsed == 0

\* Mutant: ReportValidationError is not caught.
CompleteOrRaise ==
  /\ run # None /\ run.search.status # None
  /\ report' = IF run.search.leaks THEN None
               ELSE DispatchReport(run.id, run.search.status, run.search)
  /\ turnCount' = turnCount + 1
  /\ run' = None
  /\ UNCHANGED <<workspace, turnTokens, chainDepths, parentOf, executed, edited, turns, edits>>

\* The report is validated, accounted for and returned.
Complete ==
  /\ run # None /\ run.search.status # None
  /\ \E oversized \in BOOLEAN :
       report' = DispatchReport(run.id, Validated(run.search, oversized), run.search)
  /\ turnCount' = turnCount + 1
  /\ turnTokens' = turnTokens + TokensUsed
  /\ run' = None
  /\ UNCHANGED <<workspace, chainDepths, parentOf, executed, edited, turns, edits>>

Step == VisitFile \/ DirectoryGone \/ FinishEmpty \/ Deadline \/ Complete

RefrlowNext == BeginTurn \/ Edit \/ Dispatch \/ Step

\* dispatch() is a call in the main agent's own thread: once made, it goes on.
RefrlowSpec == RefrlowInit /\ [][RefrlowNext]_refrlowVars /\ WF_refrlowVars(Step)

-----------------------------------------------------------------------------
\* A report that says ok returns every hit of every file that the task listed and nobody
\* edited meanwhile, unless the loop is one of those that break at their deadline and
\* report as if they had not (PROTOCOLS.md has ok "only when the task completed in full").
\* About the counts, limits and errors of the miners' loops and the statuses they end with.
OkMeansComplete ==
  report # None /\ report.status = "ok" =>
    LET s == report.search
    IN s.late \/ s.task = "find_definition" \/
         \A f \in s.listed \ edited : s.found[f] = Due(s.task, f, workspace)

\* However requests name their parents, denied ones and those of other turns among them,
\* no more than max_chain_depth executed in one turn follow from one another.  About the
\* depths dispatch records, does not record for a denial, and forgets with the turn.
ChainBounded ==
  \A chain \in [0..MaxChainDepth -> executed] :
    \E n \in 1..MaxChainDepth : parentOf[chain[n]] # chain[n - 1]

\* Every dispatch a miner has begun is reported, whatever happens to the files it listed
\* and whenever its deadline passes.  About the exceptions execute() and dispatch catch and
\* the loops that leave early.
EveryDispatchReported ==
  \A id \in RequestIds : (run # None /\ run.id = id) ~> (report # None /\ report.id = id)
=============================================================================
