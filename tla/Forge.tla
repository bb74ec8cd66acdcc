-------------------------------- MODULE Forge --------------------------------
(***************************************************************************)
(* The sandboxed forge (infrastructure/sandboxed_forge/forge.py): sessions *)
(* stage writes and deletions in an overlay, which commit() copies into    *)
(* the workspace file by file and rollback() throws away.                  *)
(*                                                                         *)
(* All sessions of a forge share one overlay.  A session's operations do   *)
(* not overlap, but commit() touches many files, and any of its steps may  *)
(* fail or be its last.  A new process has a new forge with a temporary    *)
(* directory of its own.                                                   *)
(*                                                                         *)
(* A file "p.deleted" in the overlay is the tombstone of p, whoever has    *)
(* put it there; Marker gives that name.  Left out: directories, hashes,   *)
(* time, and the snapshots, which nothing reads.  The authorizer is        *)
(* external: a fixed policy over what a proposal names.  Torn is what a    *)
(* write or copy leaves of a file when it fails half way.                  *)
(* Bounds: MaxEntries journal entries a session.                           *)
(***************************************************************************)
EXTENDS Integers, FiniteSets, SequencesExt

CONSTANTS
    Sessions,
    Paths,             \* the paths that sessions name
    Marker,            \* Marker[p]: the overlay's name for the tombstone of p
    Contents,
    Original,          \* the workspace before the forge touched it
    PermittedWrites,   \* the paths whose write, deletion the authorizer permits,
    PermittedDeletes,
    PermittedCommits,  \* and the lists of files whose commit it permits
    Absent, Torn, None,
    MaxEntries

Tombstone == "deleted"
Markers == {Marker[p] : p \in Paths}
Names == Paths \cup Markers
Files == [Paths -> Contents \cup {Absent, Torn}]

ASSUME ForgeAssumption ==
    /\ Absent # Torn /\ Tombstone # Torn
    /\ Absent \notin Contents /\ Torn \notin Contents
    /\ None \notin Sessions
    /\ Original \in Files
    /\ \A p, q \in Paths : Marker[p] = Marker[q] => p = q
    /\ PermittedWrites \subseteq Paths
    /\ PermittedDeletes \subseteq Paths
    /\ PermittedCommits \subseteq SUBSET Paths
    /\ MaxEntries \in Nat

VARIABLES
    workspace,   \* the files under workspace_root
    overlay,     \* the files under overlay_root, a partial function of names
    journal,     \* the journal of each session
    op           \* the commit in progress

forgeVars == <<workspace, overlay, journal, op>>

Staged == DOMAIN overlay

(* list_changes: what is staged, but for names that end in ".deleted" *)
ListChanges == Staged \ Markers
Deleted(names) == {p \in Paths : Marker[p] \in names}

Entry ==
    [op : {"write"}, path : Paths, content : Contents]
    \cup [op : {"delete"}, path : Paths]
    \cup [op : {"rollback"}]
    \cup [op : {"commit"}, files : SUBSET Paths]

Op == [session : Sessions \cup {None}, step : {"idle", "copy", "delete"},
       todo : SUBSET Paths,        \* files to copy, then files to delete
       files : SUBSET Paths]       \* committed

Idle == [session |-> None, step |-> "idle", todo |-> {}, files |-> {}]

Put(f, n, x) == [m \in DOMAIN f \cup {n} |-> IF m = n THEN x ELSE f[m]]

Log(s, entry) ==
    /\ Len(journal[s]) < MaxEntries
    /\ journal' = [journal EXCEPT ![s] = Append(@, entry)]

ForgeInit ==
    /\ workspace = Original
    /\ overlay = <<>>
    /\ journal = [s \in Sessions |-> <<>>]
    /\ op = Idle

-----------------------------------------------------------------------------
(* Mutant: the mutation is staged whatever the authorizer says.            *)
WriteUnauthorized(s, p, c) ==
    /\ op = Idle
    /\ overlay' = Put(overlay, p, c)
    /\ Log(s, [op |-> "write", path |-> p, content |-> c])
    /\ UNCHANGED <<workspace, op>>

Write(s, p, c) ==
    /\ op = Idle
    /\ p \in PermittedWrites
    /\ overlay' = Put(overlay, p, c)
    /\ Log(s, [op |-> "write", path |-> p, content |-> c])
    /\ UNCHANGED <<workspace, op>>

(* write_text() raises while it writes: no entry, and half a file is staged. *)
WriteFails(p) ==
    /\ op = Idle
    /\ p \in PermittedWrites
    /\ overlay' = Put(overlay, p, Torn)
    /\ UNCHANGED <<workspace, journal, op>>

(* Mutant: the tombstone is not journaled.                                 *)
DeleteUnjournaled(s, p) ==
    /\ op = Idle
    /\ p \in PermittedDeletes
    /\ overlay' = Put(overlay, Marker[p], Tombstone)
    /\ UNCHANGED <<workspace, journal, op>>

(* The staged file, if any, stays beside its tombstone. *)
Delete(s, p) ==
    /\ op = Idle
    /\ p \in PermittedDeletes
    /\ overlay' = Put(overlay, Marker[p], Tombstone)
    /\ Log(s, [op |-> "delete", path |-> p])
    /\ UNCHANGED <<workspace, op>>

DeleteFails(p) ==
    /\ op = Idle
    /\ p \in PermittedDeletes
    /\ overlay' = Put(overlay, Marker[p], Torn)
    /\ UNCHANGED <<workspace, journal, op>>

Rollback(s) ==
    /\ op = Idle
    /\ overlay' = <<>>
    /\ Log(s, [op |-> "rollback"])
    /\ UNCHANGED <<workspace, op>>

(* rmtree() raises half way: some of the overlay is left, and no entry. *)
RollbackFails ==
    /\ op = Idle
    /\ \E left \in SUBSET Staged : overlay' = [n \in left |-> overlay[n]]
    /\ UNCHANGED <<workspace, journal, op>>

(* commit: the authorizer sees the files to copy, not those to delete *)
CommitStart(s) ==
    /\ op = Idle
    /\ ListChanges \in PermittedCommits
    /\ op' = [session |-> s, step |-> "copy", todo |-> ListChanges, files |-> {}]
    /\ UNCHANGED <<workspace, overlay, journal>>

CommitCopy(p) ==
    /\ op.step = "copy" /\ p \in op.todo
    /\ workspace' = [workspace EXCEPT ![p] = overlay[p]]
    /\ op' = [op EXCEPT !.todo = @ \ {p}, !.files = @ \cup {p}]
    /\ UNCHANGED <<overlay, journal>>

(* Mutant: deletions do not wait for the copies.                           *)
CommitTombstonesEarly ==
    /\ op.step = "copy"
    /\ op' = [op EXCEPT !.step = "delete", !.todo = Deleted(Staged)]
    /\ UNCHANGED <<workspace, overlay, journal>>

CommitTombstones ==
    /\ op.step = "copy" /\ op.todo = {}
    /\ op' = [op EXCEPT !.step = "delete", !.todo = Deleted(Staged)]
    /\ UNCHANGED <<workspace, overlay, journal>>

CommitDelete(p) ==
    /\ op.step = "delete" /\ p \in op.todo
    /\ workspace' = [workspace EXCEPT ![p] = Absent]
    /\ op' = [op EXCEPT !.todo = @ \ {p},
                        !.files = IF workspace[p] # Absent THEN @ \cup {p} ELSE @]
    /\ UNCHANGED <<overlay, journal>>

(* The overlay is left as it is: the next commit publishes it again. *)
CommitEnd ==
    /\ op.step = "delete" /\ op.todo = {}
    /\ Log(op.session, [op |-> "commit", files |-> op.files])
    /\ op' = Idle
    /\ UNCHANGED <<workspace, overlay>>

(* What a commit that stops here leaves: perhaps the next file half copied. *)
Aftermath ==
    {workspace} \cup
    {[workspace EXCEPT ![p] = Torn] : p \in {q \in op.todo : op.step = "copy"}}

(* A copy or an unlink raises OSError: commit() ends, with no entry. *)
CommitFails ==
    /\ op.todo # {}
    /\ workspace' \in Aftermath
    /\ op' = Idle
    /\ UNCHANGED <<overlay, journal>>

(* The process dies; the next one has an empty overlay and new sessions. *)
Crash ==
    /\ workspace' \in Aftermath
    /\ overlay' = <<>>
    /\ journal' = [s \in Sessions |-> <<>>]
    /\ op' = Idle

ForgeNext ==
    \/ \E s \in Sessions :
          \/ \E p \in Paths : Delete(s, p) \/ \E c \in Contents : Write(s, p, c)
          \/ Rollback(s)
          \/ CommitStart(s)
    \/ \E p \in Paths : WriteFails(p) \/ DeleteFails(p) \/ CommitCopy(p) \/ CommitDelete(p)
    \/ RollbackFails \/ CommitTombstones \/ CommitEnd \/ CommitFails
    \/ Crash

ForgeSpec == ForgeInit /\ [][ForgeNext]_forgeVars

-----------------------------------------------------------------------------
(* Types, and: a commit in progress works on what is staged.               *)
ForgeTypeOK ==
    /\ workspace \in Files
    /\ overlay \in [Staged -> Contents \cup {Tombstone, Torn}]
    /\ Staged \subseteq Names
    /\ journal \in [Sessions -> Seq(Entry)]
    /\ op \in Op
    /\ op.step = "copy" => op.todo \subseteq ListChanges
    /\ op.step = "delete" => op.todo \subseteq Deleted(Staged)

(* Whoever commits, and however often commits fail or processes die: a     *)
(* file is gone only if the authorizer permitted its tombstone, and differs *)
(* otherwise only if it permitted its write and a commit of it.            *)
OnlyPermittedChanges ==
    \A p \in Paths : workspace[p] # Original[p] =>
        IF workspace[p] = Absent
        THEN p \in PermittedDeletes \/ Marker[p] \in PermittedWrites
        ELSE p \in PermittedWrites /\ \E files \in PermittedCommits : p \in files

(* The entries that account for x being staged under the name n. *)
EntriesFor(n, x) ==
    {[op |-> "write", path |-> n, content |-> x]} \cup
    {[op |-> "delete", path |-> p] : p \in {q \in Paths : Marker[q] = n}}

Recorded(n, x) ==
    \E s \in Sessions : \E i \in DOMAIN journal[s] : journal[s][i] \in EntriesFor(n, x)

(* What is staged is on record: some session has journaled that write or   *)
(* deletion, unless writing it failed (forge.py:154, 178) before the entry. *)
StagedIsJournaled ==
    \A n \in Staged : overlay[n] # Torn => Recorded(n, overlay[n])

(* A commit that ends has published exactly the overlay, deletions last,   *)
(* and nothing but a commit changes a file, and only one that is staged.   *)
CommitPublishes ==
    [][/\ CommitEnd => \A p \in Paths :
             IF Marker[p] \in Staged THEN workspace[p] = Absent
             ELSE p \in ListChanges => workspace[p] = overlay[p]
       /\ \A p \in Paths : workspace'[p] # workspace[p] =>
             op.session # None /\ (p \in ListChanges \/ Marker[p] \in Staged)
      ]_forgeVars

=============================================================================
