--------------------------- MODULE RevocationIndex --------------------------
(***************************************************************************)
(* RevocationIndex (cogtrust/revocation.py): which attestations are        *)
(* revoked, and a version that counts the changes.                         *)
(*                                                                         *)
(* revoke() writes under the index's lock, first the version, then the     *)
(* entry; is_revoked(), entry() and version() read without the lock, so    *)
(* the two writes are two steps.                                           *)
(***************************************************************************)
EXTENDS Attestations

CONSTANT Revokers  \* the threads that revoke

VARIABLES
  entries,     \* _entries: id -> its revocation, or None
  version,     \* _version
  indexLock,   \* the thread inside `with self._lock`, or None
  revoking     \* per revoker, the call of revoke() past its first write

indexVars == <<entries, version, indexLock, revoking>>

Entry == [version: Nat, derivative: BOOLEAN]
RevokingState ==
  [pc: {"idle", "insert"}, id: Ids \cup {None}, derivative: BOOLEAN]

\* Python's None is neither a thread nor a revocation.
ASSUME RevokersAssumption == None \notin Revokers /\ None \notin Entry

NotRevoking == [pc |-> "idle", id |-> None, derivative |-> FALSE]

\* is_revoked
Revoked == {i \in Ids : entries[i] # None}

IndexInit ==
  /\ entries = [i \in Ids |-> None]
  /\ version = 0
  /\ indexLock = None
  /\ revoking = [t \in Revokers |-> NotRevoking]

\* Mutant: an existing entry is not looked for.
RevokeBumpAgain(t, id, derivative) ==
  /\ revoking[t].pc = "idle" /\ indexLock = None
  /\ indexLock' = t
  /\ version' = version + 1
  /\ revoking' = [revoking EXCEPT
                    ![t] = [pc |-> "insert", id |-> id, derivative |-> derivative]]
  /\ UNCHANGED entries

\* Mutant: the index is written without its lock.
RevokeBumpUnlocked(t, id, derivative) ==
  /\ revoking[t].pc = "idle"
  /\ id \notin Revoked
  /\ version' = version + 1
  /\ revoking' = [revoking EXCEPT
                    ![t] = [pc |-> "insert", id |-> id, derivative |-> derivative]]
  /\ UNCHANGED <<entries, indexLock>>

\* Take the lock; unless the id is revoked already, `self._version += 1`: readers see
\* the new version before the entry.
RevokeBump(t, id, derivative) ==
  /\ revoking[t].pc = "idle" /\ indexLock = None
  /\ id \notin Revoked
  /\ indexLock' = t
  /\ version' = version + 1
  /\ revoking' = [revoking EXCEPT
                    ![t] = [pc |-> "insert", id |-> id, derivative |-> derivative]]
  /\ UNCHANGED entries

\* `self._entries[id] = RevocationEntry(...)`, release the lock.
RevokeInsert(t) ==
  /\ revoking[t].pc = "insert"
  /\ entries' = [entries EXCEPT ![revoking[t].id] =
                   [version |-> version, derivative |-> revoking[t].derivative]]
  /\ indexLock' = None
  /\ revoking' = [revoking EXCEPT ![t] = NotRevoking]
  /\ UNCHANGED version

IndexNext ==
  \E t \in Revokers :
    \/ \E id \in Ids, derivative \in BOOLEAN : RevokeBump(t, id, derivative)
    \/ RevokeInsert(t)

IndexSpec == IndexInit /\ [][IndexNext]_indexVars

-----------------------------------------------------------------------------
IndexTypeOK ==
  /\ entries \in [Ids -> Entry \cup {None}]
  /\ version \in Nat
  /\ indexLock \in Revokers \cup {None}
  /\ revoking \in [Revokers -> RevokingState]

\* The version orders the revocations (revocation.py:46-58): it has counted every
\* stored entry plus the one being stored, and the stored ones are numbered without a
\* gap or a repetition.
VersionCountsEntries ==
  /\ version = Cardinality(Revoked) + (IF indexLock = None THEN 0 ELSE 1)
  /\ \A i \in Revoked : entries[i].version \in 1..Cardinality(Revoked)
  /\ \A i, j \in Revoked : entries[i].version = entries[j].version => i = j

\* revoke() is atomic to whoever asks the index what is revoked, and revocation is for
\* ever: the entries move as RevocationLog says -- each revocation once, under the next
\* version, none rewritten or removed -- although a revocation takes two writes.
Log == INSTANCE RevocationLog WITH count <- Cardinality(Revoked)
RevokeIsAtomic == Log!LogSpec
=============================================================================
