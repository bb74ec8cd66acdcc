---------------------------- MODULE MCRefrlow ----------------------------
(* Constants for model-checking Refrlow: a module and a text, a request for  *)
(* every task, a larger one where results are limited, and the requests that *)
(* are denied or whose parameters are wrong.                                 *)
EXTENDS Refrlow

CONSTANTS mod, note

MCContents ==
  {None, [hits |-> 2, form |-> "parsed", holds |-> "plain"],
   [hits |-> 1, form |-> "text", holds |-> "secret"]}

Asks(class, task, limit) ==
  [class |-> class, task |-> task, scoped |-> TRUE, valid |-> TRUE,
   compiles |-> TRUE, tokens |-> 1, limit |-> limit,
   paths |-> IF task \in {"signature_summary", "purpose_summary"} THEN {mod}
             ELSE IF task \in PathTasks THEN {mod, note} ELSE {}]

Search3 == Asks("grep_miner", "search_text", 3)

MCRequests ==
  UNION {{Asks(c, t, 1) : t \in TasksOf(c)} : c \in Registered}
  \cup {Asks("file_miner", t, 3) : t \in {"find_by_glob", "find_large"}}
  \cup {Asks("grep_miner", t, 3) : t \in {"search_text", "ripgrep"}}
  \cup {Asks("ast_miner", t, 3) : t \in {"find_references", "find_callers_of"}}
  \cup {[Search3 EXCEPT !.scoped = FALSE], [Search3 EXCEPT !.valid = FALSE],
        [Search3 EXCEPT !.compiles = FALSE],
        [Asks("grep_miner", "ripgrep", 3) EXCEPT !.compiles = FALSE],
        [Search3 EXCEPT !.tokens = 3], [Search3 EXCEPT !.class = "validator"]}
=============================================================================
