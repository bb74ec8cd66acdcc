------------------------------ MODULE Cascade ------------------------------
(***************************************************************************)
(* RevocationCascade (cogtrust/revocation.py) over the lineage store and   *)
(* the revocation index.                                                   *)
(*                                                                         *)
(* revoke_with_cascade holds no lock of its own: it revokes the root,      *)
(* walks the store's children edges breadth-first, then revokes the        *)
(* descendants one at a time, while other threads append and revoke.       *)
(***************************************************************************)
EXTENDS Lineage, RevocationIndex

CONSTANT MaxCascades  \* bound on the calls of revoke_with_cascade

ASSUME MaxCascadesAssumption == MaxCascades \in Nat

VARIABLES
  cascade,   \* per revoker, the call of revoke_with_cascade in progress
  cascades   \* calls so far

\* pc: what the call does next --
\*   "revoke"  index.revoke(target)              "insert"  inside it, the second write
\*   "walk"    all_descendants, one vertex       "mark"    the loop over descendants
\* `promised` is a history field: what the call must revoke, whatever its walk finds.
CascadeState ==
  [pc: {"idle", "revoke", "insert", "walk", "mark"}, root: Ids \cup {None},
   target: Ids \cup {None}, frontier: SUBSET Ids, seen: SUBSET Ids, todo: SUBSET Ids,
   promised: SUBSET Ids]

NoCascade ==
  [pc |-> "idle", root |-> None, target |-> None, frontier |-> {}, seen |-> {}, todo |-> {},
   promised |-> {}]

CascadeInit ==
  /\ LineageInit
  /\ IndexInit
  /\ cascade = [t \in Revokers |-> NoCascade]
  /\ cascades = 0

\* What had been appended below `id`, completely, when the cascade begins.
LinkedDescendants(id) == {d \in DerivedFrom(id) : Linked(d) # {}}

CascadeStart(t, id) ==
  /\ cascade[t].pc = "idle" /\ cascades < MaxCascades
  /\ cascades' = cascades + 1
  /\ cascade' = [cascade EXCEPT ![t] = [NoCascade EXCEPT
                   !.pc = "revoke", !.root = id, !.target = id,
                   !.promised = LinkedDescendants(id)]]
  /\ UNCHANGED <<lineageVars, indexVars>>

\* index.revoke has returned: after the root the walk begins, after a descendant the
\* loop goes on.
AfterRevoke(t) ==
  IF cascade[t].target = cascade[t].root
  THEN [cascade[t] EXCEPT !.pc = "walk", !.frontier = {cascade[t].root}]
  ELSE [cascade[t] EXCEPT !.pc = "mark"]

\* Mutant: every revocation the cascade makes is derivative, the root's too.
CascadeRevokeAllDerivative(t) ==
  LET c == cascade[t]
  IN /\ c.pc = "revoke"
     /\ \/ /\ indexLock = None /\ c.target \in Revoked
           /\ cascade' = [cascade EXCEPT ![t] = AfterRevoke(t)]
           /\ UNCHANGED indexVars
        \/ /\ RevokeBump(t, c.target, TRUE)
           /\ cascade' = [cascade EXCEPT ![t].pc = "insert"]
     /\ UNCHANGED <<lineageVars, cascades>>

\* index.revoke(target): nothing to do when it is revoked already (by another cascade,
\* perhaps since is_revoked was asked), else its first write.
CascadeRevoke(t) ==
  LET c == cascade[t]
  IN /\ c.pc = "revoke"
     /\ \/ /\ indexLock = None /\ c.target \in Revoked
           /\ cascade' = [cascade EXCEPT ![t] = AfterRevoke(t)]
           /\ UNCHANGED indexVars
        \/ /\ RevokeBump(t, c.target, c.target # c.root)
           /\ cascade' = [cascade EXCEPT ![t].pc = "insert"]
     /\ UNCHANGED <<lineageVars, cascades>>

\* Its second write, and its return.
CascadeInsert(t) ==
  /\ cascade[t].pc = "insert"
  /\ RevokeInsert(t)
  /\ cascade' = [cascade EXCEPT ![t] = AfterRevoke(t)]
  /\ UNCHANGED <<lineageVars, cascades>>

\* Mutant: the walk stops at the root's direct children.
CascadeWalkShallow(t) ==
  LET c == cascade[t]
  IN /\ c.pc = "walk"
     /\ \/ /\ c.frontier = {}
           /\ cascade' = [cascade EXCEPT ![t].pc = "mark", ![t].todo = c.seen \ {c.root}]
        \/ \E x \in c.frontier :
             cascade' = [cascade EXCEPT
               ![t].seen = @ \cup {x},
               ![t].frontier = (@ \ {x}) \cup (IF x = c.root THEN children[x] ELSE {})]
     /\ UNCHANGED <<lineageVars, indexVars, cascades>>

\* all_descendants: take a vertex off the frontier; the first time, add its children.
\* (The code starts from the root's children; the root is its own first vertex here.)
CascadeWalk(t) ==
  LET c == cascade[t]
  IN /\ c.pc = "walk"
     /\ \/ /\ c.frontier = {}
           /\ cascade' = [cascade EXCEPT ![t].pc = "mark", ![t].todo = c.seen \ {c.root}]
        \/ \E x \in c.frontier :
             cascade' = [cascade EXCEPT
               ![t].seen = @ \cup {x},
               ![t].frontier = (@ \ {x}) \cup (IF x \in c.seen THEN {} ELSE children[x])]
     /\ UNCHANGED <<lineageVars, indexVars, cascades>>

\* The loop over the descendants: skip what is_revoked, asked without the lock, says
\* is revoked already.
CascadeMark(t) ==
  /\ cascade[t].pc = "mark"
  /\ \E d \in cascade[t].todo :
       cascade' = [cascade EXCEPT
         ![t].todo = @ \ {d},
         ![t].target = d,
         ![t].pc = IF d \in Revoked THEN "mark" ELSE "revoke"]
  /\ UNCHANGED <<lineageVars, indexVars, cascades>>

\* The loop has ended: the call returns its summary.
CascadeDone(t) == cascade[t].pc = "mark" /\ cascade[t].todo = {}

CascadeStep(t) == CascadeRevoke(t) \/ CascadeInsert(t) \/ CascadeWalk(t) \/ CascadeMark(t)

\* The synchronous use: callers run cascades to their end.
CascadeReturn(t) ==
  /\ CascadeDone(t)
  /\ cascade' = [cascade EXCEPT ![t] = NoCascade]
  /\ UNCHANGED <<lineageVars, indexVars, cascades>>

cascadeVars == <<lineageVars, indexVars, cascade, cascades>>

CascadeNext ==
  \/ \E t \in Revokers :
       CascadeStep(t) \/ CascadeReturn(t) \/ \E id \in Ids : CascadeStart(t, id)
  \/ LineageNext /\ UNCHANGED <<indexVars, cascade, cascades>>

CascadeSpec == CascadeInit /\ [][CascadeNext]_cascadeVars

-----------------------------------------------------------------------------
\* CT-I5: no cascade loses a derivative. Everything that was in the lineage below the
\* root when the cascade began is, once its walk has ended, revoked, or still on its
\* list, or what it is revoking now, whatever others append or revoke meanwhile
\* (revocation.py:88-113, lineage.py:110-120).
CascadeComplete ==
  \A t \in Revokers :
    LET c == cascade[t]
    IN c.pc = "mark" \/ (c.pc \in {"revoke", "insert"} /\ c.target # c.root) =>
         c.promised \subseteq Revoked \cup c.todo \cup {c.target}

\* No cascade over-reaches: an attestation is only marked as a derivative when
\* something it is derived from was revoked in its own right.
DerivativeHasRevokedOrigin ==
  \A d \in Revoked : entries[d].derivative =>
    \E a \in Lineal(d) \ {d} : a \in Revoked /\ ~entries[a].derivative
=============================================================================
