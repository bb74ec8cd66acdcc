--------------------------- MODULE RevocationLog ----------------------------
(***************************************************************************)
(* What the revocation index promises, with nothing of how: a log in which *)
(* each revocation happens at once, gets the next version number, and is   *)
(* never rewritten or taken back.  RevocationIndex.tla implements it.      *)
(***************************************************************************)
EXTENDS Naturals

CONSTANTS Ids, None

VARIABLES
  entries,  \* id -> its revocation, or None
  count     \* how many there are

logVars == <<entries, count>>

LogInit == entries = [i \in Ids |-> None] /\ count = 0

LogRevoke(id, derivative) ==
  /\ entries[id] = None
  /\ count' = count + 1
  /\ entries' = [entries EXCEPT ![id] = [version |-> count + 1, derivative |-> derivative]]

LogNext == \E id \in Ids, derivative \in BOOLEAN : LogRevoke(id, derivative)

LogSpec == LogInit /\ [][LogNext]_logVars
=============================================================================
