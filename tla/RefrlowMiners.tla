--------------------------- MODULE RefrlowMiners ---------------------------
(***************************************************************************)
(* The miners of claude-code-refrlow (skeleton/refrlow/miners/) and the    *)
(* sandbox they walk the workspace in (sandbox.py).                        *)
(*                                                                         *)
(* A task lists the files it may look at, then visits them one by one and, *)
(* but for the summarizer's, looks at its deadline before each.  What it   *)
(* finds in a file -- lines, calls, definitions, the file itself -- is the *)
(* number of hits there; what a hit says is left out, but for the secret   *)
(* or the injected instruction a text may hold.  The workspace changes     *)
(* under a search.  find_by_extension is find_by_glob with a pattern of    *)
(* its own, search_word and find_imports_of are search_text, "ripgrep" is  *)
(* search_text where rg is installed.                                      *)
(***************************************************************************)
EXTENDS Optional, Integers, FiniteSetsExt

CONSTANTS
  Files,       \* the paths of the workspace
  Contained,   \* those that resolve to a path under the scope's root
  Excluded,    \* those an exclude glob matches
  Included,    \* those an include glob matches
  Python,      \* those with suffix .py
  Named,       \* those whose name find_by_glob is asked for
  Shallow,     \* those enumerate_tree comes to before its max_depth
  MaxHits      \* bound on the hits in one file

ASSUME MinersAssumption ==
  /\ IsFiniteSet(Files)
  /\ {Contained, Excluded, Included, Python, Named, Shallow} \subseteq SUBSET Files
  /\ MaxHits \in Nat

\* A file: the hits in it, whether ast parses it ("parsed"), only open() reads it ("text")
\* or not even that ("sealed"), and what a scan of its text would flag.
FileState ==
  [hits: 0..MaxHits, form: {"parsed", "text", "sealed"}, holds: {"plain", "secret", "injection"}]

Status == {"ok", "truncated", "timeout", "denied", "error", "escalate", "no_results"}

ASSUME NoStatusAssumption == None \notin Status

FileTasks == {"find_by_glob", "find_recent", "find_large", "enumerate_tree"}
GrepTasks == {"search_text", "ripgrep", "count_matches"}
AstTasks == {"find_definition", "find_references", "find_callers_of", "extract_signatures"}
SummaryTasks == {"signature_summary", "module_overview", "purpose_summary"}
Tasks == FileTasks \cup GrepTasks \cup AstTasks \cup SummaryTasks

\* The tasks that take the paths to look at as a parameter.
PathTasks == SummaryTasks \cup {"extract_signatures"}

\* The loops that `break` at their deadline; the others return what they have.
BreakingTasks == {"find_recent", "find_large", "find_references", "find_callers_of",
                  "enumerate_tree"}

\* normalize_and_validate_path raises ScopeViolation on anything else.
Permitted(f) == f \in Contained /\ f \notin Excluded /\ f \in Included

Present(ws) == {f \in Files : ws[f] # None}
Opens(ws, f) == ws[f] # None /\ ws[f].form # "sealed"
Parses(ws, f) == f \in Python /\ ws[f] # None /\ ws[f].form = "parsed"
FlagsInjection(ws, f) == Opens(ws, f) /\ ws[f].holds = "injection"
ShowsSecret(ws, f) == Opens(ws, f) /\ ws[f].holds = "secret"

\* iter_scoped_files.
ScopedFiles(ws) == {f \in Present(ws) : Permitted(f)}

\* What a task lists: ripgrep is only given the exclude globs, the tree is read directory
\* by directory down to a depth, and the paths asked for are not held against the scope.
Listing(ws, task, paths) ==
  CASE task \in PathTasks -> paths
    [] task = "enumerate_tree" -> Present(ws) \cap Shallow
    [] task = "ripgrep" -> Present(ws) \ Excluded
    [] task \in AstTasks \ PathTasks -> ScopedFiles(ws) \cap Python
    [] OTHER -> ScopedFiles(ws)

-----------------------------------------------------------------------------
\* A search in progress: listed, the files it set out to visit; todo, those it still has to;
\* found, the hits returned per file; total, the hits counted; leaks, whether a hit shows a
\* secret; late, whether its deadline ended it; status when it has ended, None before.
Search ==
  [task: Tasks, limit: Nat, listed: SUBSET Files, todo: SUBSET Files,
   found: [Files -> Nat], total: Nat, leaks: BOOLEAN, late: BOOLEAN, status: Status \cup {None}]

Nothing == [f \in Files |-> 0]

StartSearch(ws, task, limit, paths) ==
  [task |-> task, limit |-> limit, listed |-> Listing(ws, task, paths),
   todo |-> Listing(ws, task, paths), found |-> Nothing, total |-> 0,
   leaks |-> FALSE, late |-> FALSE, status |-> None]

Returned(s) == MapThenSumSet(LAMBDA f : s.found[f], Files)

Ends(s, status) == [s EXCEPT !.status = status, !.todo = {}]

\* An exception reaches execute(), which answers with an error report of its own.
Fails(s) == [Ends(s, "error") EXCEPT !.found = Nothing, !.leaks = FALSE]

\* n hits in f, all of them returned.
Lists(s, f, n) == [s EXCEPT !.total = @ + n, !.found[f] = n]

\* n hits in f: all are counted, and returned while there is room.
Takes(s, f, n, secret) ==
  LET room == s.limit - Returned(s)
      kept == IF n < room THEN n ELSE room
  IN [s EXCEPT !.total = @ + n, !.found[f] = kept, !.leaks = @ \/ (secret /\ kept > 0)]

\* Mutant: whatever was returned is taken for everything.
StatusOfAny(s) == IF s.total = 0 \/ Returned(s) > 0 THEN "ok" ELSE "no_results"

\* The status most loops end with.
StatusOf(s) ==
  IF s.total = Returned(s) THEN "ok" ELSE IF Returned(s) > 0 THEN "truncated" ELSE "no_results"

\* rg counts the matches of one file at a time: the total is lost at the limit.
RipgrepStatus(s) ==
  IF Returned(s) >= s.limit THEN "truncated" ELSE IF Returned(s) > 0 THEN "ok" ELSE "no_results"

\* The end of the loop.
Finish(s) ==
  Ends(s,
    CASE s.task = "ripgrep" -> RipgrepStatus(s)
      [] s.task = "count_matches" -> IF s.total > 0 THEN "ok" ELSE "no_results"
      [] s.task = "find_definition" -> "no_results"
      [] s.task \in {"enumerate_tree", "extract_signatures", "module_overview"} -> "ok"
      [] OTHER -> StatusOf(s))

-----------------------------------------------------------------------------
\* The tree lists names.
VisitOfTree(s, f) == Lists(s, f, 1)

\* FileMiner: stat() raises when the file is gone since it was listed; find_by_glob calls it
\* only while there is room.
VisitOfFileMiner(s, f, ws) ==
  CASE s.task = "enumerate_tree" -> VisitOfTree(s, f)
    [] s.task = "find_by_glob" ->
         IF f \notin Named THEN s
         ELSE IF ws[f] = None /\ Returned(s) < s.limit THEN Fails(s)
         ELSE Takes(s, f, 1, FALSE)
    [] OTHER ->
         IF ws[f] = None THEN Fails(s) ELSE IF ws[f].hits > 0 THEN Takes(s, f, 1, FALSE) ELSE s

\* GrepMiner: a file it cannot open is passed over.
VisitOfGrepMiner(s, f, ws) ==
  IF ~Opens(ws, f) THEN s
  ELSE IF s.task = "count_matches" THEN Lists(s, f, ws[f].hits)
  ELSE Takes(s, f, ws[f].hits, ShowsSecret(ws, f))

\* AstMiner: references are lines, the others need a tree; the first definition ends it.
VisitOfAstMiner(s, f, ws) ==
  IF s.task = "find_references" THEN
    IF Opens(ws, f) THEN Takes(s, f, ws[f].hits, ShowsSecret(ws, f)) ELSE s
  ELSE IF ~Parses(ws, f) THEN s
  ELSE CASE s.task = "find_callers_of" -> Takes(s, f, ws[f].hits, FALSE)
         [] s.task = "extract_signatures" -> Lists(s, f, 1)
         [] OTHER ->
              IF ws[f].hits = 0 THEN s
              ELSE Ends([Lists(s, f, 1) EXCEPT !.leaks = ShowsSecret(ws, f)], "ok")

\* Summarizer: an overview keeps the files it can parse; the two others are of one file.
VisitOfSummarizer(s, f, ws) ==
  IF s.task = "module_overview" THEN IF Parses(ws, f) THEN Lists(s, f, 1) ELSE s
  ELSE IF ws[f] = None THEN Ends(s, "no_results")
  ELSE IF s.task = "signature_summary" THEN
    IF Parses(ws, f) THEN Ends(Lists(s, f, 1), "ok") ELSE Ends(s, "error")
  ELSE IF ~Opens(ws, f) THEN Fails(s)
  ELSE Ends(Lists(s, f, 1), IF FlagsInjection(ws, f) THEN "escalate" ELSE "ok")

Visit(s, f, ws) ==
  LET left == [s EXCEPT !.todo = @ \ {f}]
  IN CASE s.task \in FileTasks -> VisitOfFileMiner(left, f, ws)
       [] s.task \in GrepTasks -> VisitOfGrepMiner(left, f, ws)
       [] s.task \in AstTasks -> VisitOfAstMiner(left, f, ws)
       [] OTHER -> VisitOfSummarizer(left, f, ws)

\* The deadline has passed before the next file; rg is killed and what it wrote is lost.
Late(s) ==
  LET end ==
        CASE s.task \in BreakingTasks -> Finish(s)
          [] s.task = "search_text" -> Ends(s, IF Returned(s) > 0 THEN "timeout" ELSE "no_results")
          [] s.task = "ripgrep" ->
               Ends([s EXCEPT !.found = Nothing, !.total = 0, !.leaks = FALSE], "timeout")
          [] OTHER -> Ends(s, "timeout")
  IN [end EXCEPT !.late = TRUE]

-----------------------------------------------------------------------------
\* What a complete search returns of file f; find_definition stops at the first it finds.
Due(task, f, ws) ==
  CASE task = "find_by_glob" -> IF f \in Named THEN 1 ELSE 0
    [] task \in {"find_recent", "find_large"} -> IF ws[f].hits > 0 THEN 1 ELSE 0
    [] task = "enumerate_tree" -> 1
    [] task \in {"search_text", "ripgrep", "count_matches", "find_references"} ->
         IF Opens(ws, f) THEN ws[f].hits ELSE 0
    [] task = "find_callers_of" -> IF Parses(ws, f) THEN ws[f].hits ELSE 0
    [] task = "purpose_summary" -> IF Opens(ws, f) THEN 1 ELSE 0
    [] OTHER -> IF Parses(ws, f) THEN 1 ELSE 0
=============================================================================
