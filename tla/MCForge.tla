------------------------------- MODULE MCForge -------------------------------
(* Constants for model-checking Forge: the name of f's tombstone is itself a *)
(* path that a session may write.                                           *)
EXTENDS Forge, TLC

CONSTANTS f, g, c1, s1, s2

MCMarker == [p \in {f, g, "f.deleted"} |->
               IF p = f THEN "f.deleted" ELSE IF p = g THEN "g.deleted" ELSE "f.deleted.deleted"]
MCOriginal == [p \in {f, g, "f.deleted"} |-> IF p = g THEN c1 ELSE Absent]
MCCommits == SUBSET {f, g}
Symmetry == Permutations(Sessions)
=============================================================================
