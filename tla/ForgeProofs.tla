----------------------------- MODULE ForgeProofs -----------------------------
(***************************************************************************)
(* Proofs about Forge, for any sessions, paths, policy and journals.       *)
(***************************************************************************)
EXTENDS Forge, TLAPS

\* Nothing is staged, and nothing is being committed, without permission.
StagedIsPermitted ==
  /\ \A n \in Staged : n \in PermittedWrites \/ \E p \in PermittedDeletes : n = Marker[p]
  /\ op.step = "copy" => \E files \in PermittedCommits : op.todo \subseteq files

\* How far the commit in progress has come.
CommitSoFar ==
  /\ op.step = "copy" => \A p \in ListChanges \ op.todo : workspace[p] = overlay[p]
  /\ op.step = "delete" => \A p \in Paths :
       IF Marker[p] \in Staged
       THEN p \notin op.todo => workspace[p] = Absent
       ELSE p \in ListChanges => workspace[p] = overlay[p]
  /\ op.step = "idle" => op = Idle
  /\ op.step # "idle" => op.session \in Sessions
  /\ \A n \in Staged : overlay[n] = Tombstone => n \in Markers \/ Tombstone \in Contents

ForgeInv ==
  /\ ForgeTypeOK /\ OnlyPermittedChanges /\ StagedIsJournaled
  /\ StagedIsPermitted /\ CommitSoFar

-----------------------------------------------------------------------------
LEMMA IdleType == Idle \in Op /\ Idle.step = "idle" /\ Idle.todo = {}
  BY DEF Idle, Op

LEMMA ForgeInvInit == ForgeInit => ForgeInv
<1> SUFFICES ASSUME ForgeInit PROVE ForgeInv
  OBVIOUS
<1>1. Staged = {} /\ op = Idle /\ workspace = Original
  BY DEF ForgeInit, Staged
<1>2. journal \in [Sessions -> Seq(Entry)]
  BY DEF ForgeInit
<1>3. overlay \in [Staged -> Contents \cup {Tombstone, Torn}]
  BY <1>1 DEF ForgeInit, Staged
<1>4. ForgeTypeOK
  BY <1>1, <1>2, <1>3, IdleType, ForgeAssumption DEF ForgeTypeOK
<1>5. OnlyPermittedChanges /\ StagedIsJournaled
  BY <1>1 DEF OnlyPermittedChanges, StagedIsJournaled
<1>6. StagedIsPermitted /\ CommitSoFar
  BY <1>1, IdleType DEF StagedIsPermitted, CommitSoFar
<1> QED  BY <1>4, <1>5, <1>6 DEF ForgeInv

\* A journal that grows still holds what it held.
LEMMA LogGrows ==
  ASSUME ForgeInv, NEW s \in Sessions, NEW entry \in Entry, Log(s, entry)
  PROVE  /\ journal' \in [Sessions -> Seq(Entry)]
         /\ \A t \in Sessions : \A i \in DOMAIN journal[t] :
              i \in DOMAIN journal'[t] /\ journal'[t][i] = journal[t][i]
         /\ \E i \in DOMAIN journal'[s] : journal'[s][i] = entry
<1>1. journal \in [Sessions -> Seq(Entry)] /\ journal' = [journal EXCEPT ![s] = Append(@, entry)]
  BY DEF ForgeInv, ForgeTypeOK, Log
<1>2. journal[s] \in Seq(Entry) /\ journal'[s] = Append(journal[s], entry)
      /\ \A t \in Sessions : t # s => journal'[t] = journal[t]
  BY <1>1
<1>3. /\ journal'[s] \in Seq(Entry)
      /\ Len(journal[s]) + 1 \in DOMAIN journal'[s] /\ journal'[s][Len(journal[s]) + 1] = entry
      /\ \A i \in DOMAIN journal[s] : i \in DOMAIN journal'[s] /\ journal'[s][i] = journal[s][i]
  BY <1>2
<1>4. journal' \in [Sessions -> Seq(Entry)]
  BY <1>1, <1>3
<1> QED  BY <1>2, <1>3, <1>4

\* Staging one more name, with or without an entry of its own.
LEMMA StagingKeepsInv ==
  ASSUME ForgeInv, op = Idle, UNCHANGED <<workspace, op>>,
         NEW n \in Names, NEW x \in Contents \cup {Tombstone, Torn},
         overlay' = Put(overlay, n, x),
         n \in PermittedWrites \/ \E p \in PermittedDeletes : n = Marker[p],
         x = Tombstone => n \in Markers \/ Tombstone \in Contents,
         journal' \in [Sessions -> Seq(Entry)],
         \A t \in Sessions : \A i \in DOMAIN journal[t] :
            i \in DOMAIN journal'[t] /\ journal'[t][i] = journal[t][i],
         x # Torn => Recorded(n, x)'
  PROVE  ForgeInv'
<1>1. /\ Staged' = Staged \cup {n}
      /\ overlay' \in [Staged' -> Contents \cup {Tombstone, Torn}]
      /\ overlay'[n] = x /\ \A m \in Staged : m # n => overlay'[m] = overlay[m]
  BY DEF ForgeInv, ForgeTypeOK, Put, Staged
<1>2. StagedIsJournaled'
  <2>1. ASSUME NEW m \in Staged, overlay[m] # Torn
        PROVE  \E t \in Sessions : \E i \in DOMAIN journal'[t] :
                 journal'[t][i] \in EntriesFor(m, overlay[m])
    <3>1. PICK t \in Sessions : \E i \in DOMAIN journal[t] :
            journal[t][i] \in EntriesFor(m, overlay[m])
      BY <2>1 DEF ForgeInv, StagedIsJournaled, Recorded
    <3>2. PICK i \in DOMAIN journal[t] : journal[t][i] \in EntriesFor(m, overlay[m])
      BY <3>1
    <3>3. i \in DOMAIN journal'[t] /\ journal'[t][i] = journal[t][i]
      OBVIOUS
    <3> QED  BY <3>2, <3>3
  <2>2. x # Torn => \E t \in Sessions : \E i \in DOMAIN journal'[t] :
                      journal'[t][i] \in EntriesFor(n, x)
    BY DEF Recorded
  <2>3. ASSUME NEW m \in Staged', overlay'[m] # Torn
        PROVE  \E t \in Sessions : \E i \in DOMAIN journal'[t] :
                 journal'[t][i] \in EntriesFor(m, overlay'[m])
    BY <2>1, <2>2, <2>3, <1>1
  <2> QED  BY <2>3 DEF StagedIsJournaled, Recorded
<1>3. ForgeTypeOK'
  BY <1>1, IdleType DEF ForgeInv, ForgeTypeOK
<1>4. OnlyPermittedChanges'
  BY DEF ForgeInv, OnlyPermittedChanges
<1>5. StagedIsPermitted'
  BY <1>1, IdleType DEF ForgeInv, StagedIsPermitted
<1>6. CommitSoFar'
  BY <1>1, IdleType DEF ForgeInv, CommitSoFar
<1> QED  BY <1>2, <1>3, <1>4, <1>5, <1>6 DEF ForgeInv

LEMMA WriteKeepsInv ==
  ASSUME ForgeInv, NEW s \in Sessions, NEW p \in Paths, NEW c \in Contents, Write(s, p, c)
  PROVE  ForgeInv'
<1> DEFINE entry == [op |-> "write", path |-> p, content |-> c]
<1>1. entry \in Entry /\ Log(s, entry)
  BY DEF Entry, Write
<1>2. /\ journal' \in [Sessions -> Seq(Entry)]
      /\ \A t \in Sessions : \A i \in DOMAIN journal[t] :
           i \in DOMAIN journal'[t] /\ journal'[t][i] = journal[t][i]
      /\ \E i \in DOMAIN journal'[s] : journal'[s][i] = entry
  BY <1>1, LogGrows
<1>3. Recorded(p, c)'
  BY <1>2 DEF Recorded, EntriesFor
<1>4. p \in Names /\ c \in Contents \cup {Tombstone, Torn}
      /\ (c = Tombstone => p \in Markers \/ Tombstone \in Contents)
  BY DEF Names
<1>5. /\ op = Idle /\ UNCHANGED <<workspace, op>>
      /\ overlay' = Put(overlay, p, c) /\ p \in PermittedWrites
  BY DEF Write
<1> HIDE DEF entry
<1> QED  BY <1>2, <1>3, <1>4, <1>5, StagingKeepsInv

LEMMA DeleteKeepsInv ==
  ASSUME ForgeInv, NEW s \in Sessions, NEW p \in Paths, Delete(s, p)
  PROVE  ForgeInv'
<1> DEFINE entry == [op |-> "delete", path |-> p]
<1>1. entry \in Entry /\ Log(s, entry)
  BY DEF Entry, Delete
<1>2. /\ journal' \in [Sessions -> Seq(Entry)]
      /\ \A t \in Sessions : \A i \in DOMAIN journal[t] :
           i \in DOMAIN journal'[t] /\ journal'[t][i] = journal[t][i]
      /\ \E i \in DOMAIN journal'[s] : journal'[s][i] = entry
  BY <1>1, LogGrows
<1>3. Recorded(Marker[p], Tombstone)'
  BY <1>2 DEF Recorded, EntriesFor
<1>4. Marker[p] \in Names /\ Marker[p] \in Markers
      /\ Tombstone \in Contents \cup {Tombstone, Torn}
  BY DEF Names, Markers
<1>5. /\ op = Idle /\ UNCHANGED <<workspace, op>>
      /\ overlay' = Put(overlay, Marker[p], Tombstone) /\ p \in PermittedDeletes
  BY DEF Delete
<1> HIDE DEF entry
<1> QED  BY <1>2, <1>3, <1>4, <1>5, StagingKeepsInv

\* A write or a deletion that fails half way stages a torn file.
LEMMA TornKeepsInv ==
  ASSUME ForgeInv, NEW p \in Paths, WriteFails(p) \/ DeleteFails(p)
  PROVE  ForgeInv'
<1>1. /\ journal' \in [Sessions -> Seq(Entry)]
      /\ \A t \in Sessions : \A i \in DOMAIN journal[t] :
           i \in DOMAIN journal'[t] /\ journal'[t][i] = journal[t][i]
  BY DEF ForgeInv, ForgeTypeOK, WriteFails, DeleteFails
<1>2. /\ op = Idle /\ UNCHANGED <<workspace, op>>
      /\ p \in Names /\ Marker[p] \in Names /\ Marker[p] \in Markers
      /\ Torn \in Contents \cup {Tombstone, Torn}
  BY DEF WriteFails, DeleteFails, Names, Markers
<1>3. CASE WriteFails(p)
  <2>1. p \in PermittedWrites /\ overlay' = Put(overlay, p, Torn)
    BY <1>3 DEF WriteFails
  <2> QED  BY <1>1, <1>2, <2>1, ForgeAssumption, StagingKeepsInv
<1>4. CASE DeleteFails(p)
  <2>1. p \in PermittedDeletes /\ overlay' = Put(overlay, Marker[p], Torn)
    BY <1>4 DEF DeleteFails
  <2> QED  BY <1>1, <1>2, <2>1, StagingKeepsInv
<1> QED  BY <1>3, <1>4

LEMMA RollbackKeepsInv ==
  ASSUME ForgeInv, (\E s \in Sessions : Rollback(s)) \/ RollbackFails
  PROVE  ForgeInv'
<1>1. op = Idle /\ UNCHANGED <<workspace, op>>
  BY DEF Rollback, RollbackFails
<1>2. /\ journal' \in [Sessions -> Seq(Entry)]
      /\ RollbackFails => journal' = journal
      /\ ~RollbackFails => Staged' = {}
  <2>1. CASE RollbackFails
    BY <2>1 DEF RollbackFails, ForgeInv, ForgeTypeOK
  <2>2. ASSUME ~RollbackFails, NEW s \in Sessions, Rollback(s)
        PROVE  journal' \in [Sessions -> Seq(Entry)] /\ Staged' = {}
    <3>1. [op |-> "rollback"] \in Entry /\ Log(s, [op |-> "rollback"])
      BY <2>2 DEF Rollback, Entry
    <3>2. Staged' = {}
      BY <2>2 DEF Rollback, Staged
    <3> QED  BY <3>1, <3>2, LogGrows
  <2> QED  BY <2>1, <2>2
<1>3. /\ Staged' \subseteq Staged /\ \A n \in Staged' : overlay'[n] = overlay[n]
      /\ overlay' \in [Staged' -> Contents \cup {Tombstone, Torn}]
  <2>1. CASE RollbackFails
    BY <2>1 DEF RollbackFails, ForgeInv, ForgeTypeOK, Staged
  <2>2. ASSUME NEW s \in Sessions, Rollback(s)
        PROVE  Staged' = {} /\ overlay' \in [Staged' -> Contents \cup {Tombstone, Torn}]
    BY <2>2 DEF Rollback, Staged
  <2> QED  BY <2>1, <2>2
<1>4. ForgeTypeOK'
  BY <1>1, <1>2, <1>3, IdleType DEF ForgeInv, ForgeTypeOK
<1>5. OnlyPermittedChanges'
  BY <1>1 DEF ForgeInv, OnlyPermittedChanges
<1>6. StagedIsJournaled'
  <2>1. CASE RollbackFails
    BY <2>1, <1>2, <1>3 DEF ForgeInv, StagedIsJournaled, Recorded
  <2> QED  BY <2>1, <1>2 DEF StagedIsJournaled
<1>7. StagedIsPermitted' /\ CommitSoFar'
  BY <1>1, <1>3, IdleType DEF ForgeInv, StagedIsPermitted, CommitSoFar
<1> QED  BY <1>4, <1>5, <1>6, <1>7 DEF ForgeInv

LEMMA CommitStartKeepsInv ==
  ASSUME ForgeInv, NEW s \in Sessions, CommitStart(s)
  PROVE  ForgeInv'
<1>1. /\ UNCHANGED <<workspace, overlay, journal>>
      /\ op'.session = s /\ op'.step = "copy" /\ op'.todo = ListChanges /\ op'.files = {}
      /\ op' = [session |-> s, step |-> "copy", todo |-> ListChanges, files |-> {}]
      /\ ListChanges \in PermittedCommits
  BY DEF CommitStart
<1>2. UNCHANGED <<Staged, ListChanges>> /\ ListChanges \subseteq Paths
  BY <1>1 DEF Staged, ListChanges, Names, Markers, ForgeInv, ForgeTypeOK
<1>3. op' \in Op
  BY <1>1, <1>2 DEF Op
<1>4. ForgeTypeOK'
  BY <1>1, <1>2, <1>3 DEF ForgeInv, ForgeTypeOK
<1>5. OnlyPermittedChanges' /\ StagedIsJournaled'
  BY <1>1, <1>2 DEF ForgeInv, OnlyPermittedChanges, StagedIsJournaled, Recorded
<1>6. StagedIsPermitted' /\ CommitSoFar'
  BY <1>1, <1>2 DEF ForgeInv, StagedIsPermitted, CommitSoFar
<1> QED  BY <1>4, <1>5, <1>6 DEF ForgeInv

\* What a commit is about to copy may be in the workspace, and so may its torn copy.
LEMMA CopyIsPermitted ==
  ASSUME ForgeInv, op.step = "copy", NEW p \in op.todo
  PROVE  /\ p \in Paths /\ p \in ListChanges /\ p \in Staged
         /\ overlay[p] \in Contents \cup {Torn} /\ overlay[p] # Absent
         /\ p \in PermittedWrites /\ \E files \in PermittedCommits : p \in files
<1>1. p \in ListChanges /\ p \in Staged /\ p \notin Markers /\ p \in Paths
  BY DEF ForgeInv, ForgeTypeOK, ListChanges, Names
<1>2. overlay[p] \in Contents \cup {Torn} /\ overlay[p] # Absent
  BY <1>1, ForgeAssumption DEF ForgeInv, ForgeTypeOK, CommitSoFar
<1>3. p \in PermittedWrites
  BY <1>1, ForgeAssumption DEF ForgeInv, StagedIsPermitted, Markers
<1>4. \E files \in PermittedCommits : p \in files
  BY DEF ForgeInv, StagedIsPermitted
<1> QED  BY <1>1, <1>2, <1>3, <1>4

LEMMA CommitCopyKeepsInv ==
  ASSUME ForgeInv, NEW p \in Paths, CommitCopy(p)
  PROVE  ForgeInv'
<1>1. /\ op.step = "copy" /\ p \in op.todo
      /\ workspace' = [workspace EXCEPT ![p] = overlay[p]]
      /\ op' = [op EXCEPT !.todo = @ \ {p}, !.files = @ \cup {p}]
      /\ UNCHANGED <<overlay, journal>> /\ UNCHANGED <<Staged, ListChanges>>
  BY DEF CommitCopy, Staged, ListChanges
<1>2. /\ op' \in Op /\ op'.step = "copy" /\ op'.todo = op.todo \ {p}
      /\ op'.session = op.session
  BY <1>1 DEF ForgeInv, ForgeTypeOK, Op
<1>3. /\ overlay[p] \in Contents \cup {Torn} /\ overlay[p] # Absent
      /\ p \in PermittedWrites /\ \E files \in PermittedCommits : p \in files
  BY <1>1, CopyIsPermitted
<1>4. /\ workspace' \in Files /\ workspace'[p] = overlay[p]
      /\ \A q \in Paths : q # p => workspace'[q] = workspace[q]
  BY <1>1, <1>3 DEF ForgeInv, ForgeTypeOK, Files
<1>5. ForgeTypeOK'
  BY <1>1, <1>2, <1>4 DEF ForgeInv, ForgeTypeOK
<1>6. OnlyPermittedChanges'
  BY <1>3, <1>4 DEF ForgeInv, OnlyPermittedChanges
<1>7. StagedIsJournaled'
  BY <1>1 DEF ForgeInv, StagedIsJournaled, Recorded
<1>8. StagedIsPermitted'
  BY <1>1, <1>2 DEF ForgeInv, StagedIsPermitted
<1>9. CommitSoFar'
  <2>1. ListChanges \subseteq Paths
    BY DEF ForgeInv, ForgeTypeOK, ListChanges, Names
  <2> QED  BY <1>1, <1>2, <1>4, <2>1 DEF ForgeInv, CommitSoFar
<1> QED  BY <1>5, <1>6, <1>7, <1>8, <1>9 DEF ForgeInv

LEMMA CommitTombstonesKeepsInv ==
  ASSUME ForgeInv, CommitTombstones
  PROVE  ForgeInv'
<1>1. /\ op.step = "copy" /\ op.todo = {}
      /\ op' = [op EXCEPT !.step = "delete", !.todo = Deleted(Staged)]
      /\ UNCHANGED <<workspace, overlay, journal>> /\ UNCHANGED <<Staged, ListChanges>>
  BY DEF CommitTombstones, Staged, ListChanges
<1>2. /\ op' \in Op /\ op'.step = "delete" /\ op'.todo = Deleted(Staged)
      /\ op'.session = op.session
  BY <1>1 DEF ForgeInv, ForgeTypeOK, Op, Deleted
<1>3. ForgeTypeOK'
  BY <1>1, <1>2 DEF ForgeInv, ForgeTypeOK
<1>4. OnlyPermittedChanges' /\ StagedIsJournaled'
  BY <1>1 DEF ForgeInv, OnlyPermittedChanges, StagedIsJournaled, Recorded
<1>5. StagedIsPermitted'
  BY <1>1, <1>2 DEF ForgeInv, StagedIsPermitted
<1>6. CommitSoFar'
  BY <1>1, <1>2 DEF ForgeInv, CommitSoFar, Deleted
<1> QED  BY <1>3, <1>4, <1>5, <1>6 DEF ForgeInv

LEMMA CommitDeleteKeepsInv ==
  ASSUME ForgeInv, NEW p \in Paths, CommitDelete(p)
  PROVE  ForgeInv'
<1>1. /\ op.step = "delete" /\ p \in op.todo
      /\ workspace' = [workspace EXCEPT ![p] = Absent]
      /\ UNCHANGED <<overlay, journal>> /\ UNCHANGED <<Staged, ListChanges>>
  BY DEF CommitDelete, Staged, ListChanges
<1>2. /\ op' \in Op /\ op'.step = "delete" /\ op'.todo = op.todo \ {p}
      /\ op'.session = op.session
  BY DEF ForgeInv, ForgeTypeOK, Op, CommitDelete
<1>3. Marker[p] \in Staged
  BY <1>1 DEF ForgeInv, ForgeTypeOK, Deleted
<1>4. p \in PermittedDeletes \/ Marker[p] \in PermittedWrites
  BY <1>3, ForgeAssumption DEF ForgeInv, StagedIsPermitted
<1>5. /\ workspace' \in Files /\ workspace'[p] = Absent
      /\ \A q \in Paths : q # p => workspace'[q] = workspace[q]
  BY <1>1 DEF ForgeInv, ForgeTypeOK, Files
<1>6. ForgeTypeOK'
  BY <1>1, <1>2, <1>5 DEF ForgeInv, ForgeTypeOK
<1>7. OnlyPermittedChanges'
  BY <1>4, <1>5 DEF ForgeInv, OnlyPermittedChanges
<1>8. StagedIsJournaled' /\ StagedIsPermitted'
  BY <1>1, <1>2 DEF ForgeInv, StagedIsJournaled, Recorded, StagedIsPermitted
<1>9. CommitSoFar'
  BY <1>1, <1>2, <1>3, <1>5 DEF ForgeInv, CommitSoFar
<1> QED  BY <1>6, <1>7, <1>8, <1>9 DEF ForgeInv

LEMMA CommitEndKeepsInv ==
  ASSUME ForgeInv, CommitEnd
  PROVE  ForgeInv'
<1>1. [op |-> "commit", files |-> op.files] \in Entry /\ op.session \in Sessions
  BY DEF CommitEnd, Entry, Op, ForgeInv, ForgeTypeOK, CommitSoFar
<1> DEFINE entry == [op |-> "commit", files |-> op.files]
<1>2. /\ Log(op.session, entry) /\ op' = Idle
      /\ UNCHANGED <<workspace, overlay>> /\ UNCHANGED <<Staged, ListChanges>>
  BY DEF CommitEnd, Staged, ListChanges
<1>3. entry \in Entry /\ op.session \in Sessions
  BY <1>1
<1> HIDE DEF entry
<1>4. /\ journal' \in [Sessions -> Seq(Entry)]
      /\ \A t \in Sessions : \A i \in DOMAIN journal[t] :
           i \in DOMAIN journal'[t] /\ journal'[t][i] = journal[t][i]
  BY <1>2, <1>3, LogGrows
<1>5. ForgeTypeOK'
  BY <1>2, <1>4, IdleType DEF ForgeInv, ForgeTypeOK
<1>6. OnlyPermittedChanges'
  BY <1>2 DEF ForgeInv, OnlyPermittedChanges
<1>7. StagedIsJournaled'
  <2>1. ASSUME NEW n \in Staged, overlay[n] # Torn
        PROVE  \E t \in Sessions : \E i \in DOMAIN journal'[t] :
                 journal'[t][i] \in EntriesFor(n, overlay[n])
    <3>1. PICK t \in Sessions : \E i \in DOMAIN journal[t] :
            journal[t][i] \in EntriesFor(n, overlay[n])
      BY <2>1 DEF ForgeInv, StagedIsJournaled, Recorded
    <3> QED  BY <3>1, <1>4
  <2> QED  BY <2>1, <1>2 DEF StagedIsJournaled, Recorded
<1>8. StagedIsPermitted' /\ CommitSoFar'
  BY <1>2, IdleType DEF ForgeInv, StagedIsPermitted, CommitSoFar
<1> QED  BY <1>5, <1>6, <1>7, <1>8 DEF ForgeInv

\* Stopping a commit anywhere leaves a workspace that the invariant allows.
LEMMA AftermathIsPermitted ==
  ASSUME ForgeInv, NEW ws \in Aftermath
  PROVE  /\ ws \in Files
         /\ \A p \in Paths : ws[p] # workspace[p] =>
              /\ op.step = "copy" /\ p \in op.todo /\ ws[p] = Torn
              /\ p \in PermittedWrites /\ \E files \in PermittedCommits : p \in files
<1>1. workspace \in Files
  BY DEF ForgeInv, ForgeTypeOK
<1>2. CASE ws = workspace
  BY <1>1, <1>2
<1>3. ASSUME NEW q \in op.todo, op.step = "copy", ws = [workspace EXCEPT ![q] = Torn]
      PROVE  /\ ws \in Files
             /\ \A p \in Paths : ws[p] # workspace[p] =>
                  /\ op.step = "copy" /\ p \in op.todo /\ ws[p] = Torn
                  /\ p \in PermittedWrites /\ \E files \in PermittedCommits : p \in files
  <2>1. q \in PermittedWrites /\ \E files \in PermittedCommits : q \in files
    BY <1>3, CopyIsPermitted
  <2>2. ws \in Files /\ ws[q] = Torn /\ \A p \in Paths : p # q => ws[p] = workspace[p]
    BY <1>1, <1>3, CopyIsPermitted DEF Files
  <2> QED  BY <1>3, <2>1, <2>2
<1> QED  BY <1>2, <1>3 DEF Aftermath

LEMMA StopKeepsInv ==
  ASSUME ForgeInv, CommitFails \/ Crash
  PROVE  ForgeInv'
<1>1. /\ workspace' \in Aftermath /\ op' = Idle
      /\ CommitFails => UNCHANGED <<overlay, journal>>
      /\ Crash => overlay' = <<>> /\ journal' = [s \in Sessions |-> <<>>]
  BY DEF CommitFails, Crash
<1>2. /\ workspace' \in Files
      /\ \A p \in Paths : workspace'[p] # workspace[p] =>
           /\ workspace'[p] = Torn /\ p \in PermittedWrites
           /\ \E files \in PermittedCommits : p \in files
  BY <1>1, AftermathIsPermitted
<1>3. OnlyPermittedChanges'
  BY <1>2, ForgeAssumption DEF ForgeInv, OnlyPermittedChanges
<1>4. CASE CommitFails
  <2>1. UNCHANGED <<overlay, journal>> /\ UNCHANGED <<Staged, ListChanges>>
    BY <1>1, <1>4 DEF Staged, ListChanges
  <2>2. ForgeTypeOK'
    BY <1>1, <1>2, <2>1, IdleType DEF ForgeInv, ForgeTypeOK
  <2>3. StagedIsJournaled'
    BY <2>1 DEF ForgeInv, StagedIsJournaled, Recorded
  <2>4. StagedIsPermitted' /\ CommitSoFar'
    BY <1>1, <2>1, IdleType DEF ForgeInv, StagedIsPermitted, CommitSoFar
  <2> QED  BY <1>3, <2>2, <2>3, <2>4 DEF ForgeInv
<1>5. CASE Crash
  <2>1. Staged' = {} /\ journal' \in [Sessions -> Seq(Entry)]
    <3>1. overlay' = <<>> /\ journal' = [s \in Sessions |-> <<>>]
      BY <1>5 DEF Crash
    <3>2. Staged' = {}
      BY <3>1 DEF Staged
    <3>3. journal' \in [Sessions -> Seq(Entry)]
      BY <3>1
    <3> QED  BY <1>2, <3>1, <3>2, <3>3
  <2>2. overlay' \in [Staged' -> Contents \cup {Tombstone, Torn}]
    BY <1>1, <1>5, <2>1 DEF Staged
  <2>3. ForgeTypeOK'
    BY <1>1, <1>2, <2>1, <2>2, IdleType DEF ForgeTypeOK
  <2>4. StagedIsJournaled' /\ StagedIsPermitted' /\ CommitSoFar'
    BY <1>1, <2>1, IdleType DEF StagedIsJournaled, StagedIsPermitted, CommitSoFar
  <2> QED  BY <1>3, <2>3, <2>4 DEF ForgeInv
<1> QED  BY <1>4, <1>5

LEMMA StutterKeepsForgeInv == ForgeInv /\ UNCHANGED forgeVars => ForgeInv'
<1> SUFFICES ASSUME ForgeInv, UNCHANGED forgeVars PROVE ForgeInv'
  OBVIOUS
<1>1. UNCHANGED <<workspace, overlay, journal, op>> /\ UNCHANGED <<Staged, ListChanges>>
  BY DEF forgeVars, Staged, ListChanges
<1>2. ForgeTypeOK' /\ OnlyPermittedChanges'
  BY <1>1 DEF ForgeInv, ForgeTypeOK, OnlyPermittedChanges
<1>3. StagedIsJournaled' /\ StagedIsPermitted' /\ CommitSoFar'
  BY <1>1 DEF ForgeInv, StagedIsJournaled, Recorded, StagedIsPermitted, CommitSoFar
<1> QED  BY <1>2, <1>3 DEF ForgeInv

LEMMA ForgeInvInvariant == ForgeSpec => []ForgeInv
<1>1. ForgeInv /\ [ForgeNext]_forgeVars => ForgeInv'
  <2> SUFFICES ASSUME ForgeInv, [ForgeNext]_forgeVars PROVE ForgeInv'
    OBVIOUS
  <2>1. ASSUME NEW s \in Sessions, NEW p \in Paths, Delete(s, p) PROVE ForgeInv'
    BY <2>1, DeleteKeepsInv
  <2>2. ASSUME NEW s \in Sessions, NEW p \in Paths, NEW c \in Contents, Write(s, p, c)
        PROVE  ForgeInv'
    BY <2>2, WriteKeepsInv
  <2>3. ASSUME NEW s \in Sessions, CommitStart(s) PROVE ForgeInv'
    BY <2>3, CommitStartKeepsInv
  <2>4. ASSUME NEW p \in Paths, WriteFails(p) \/ DeleteFails(p) PROVE ForgeInv'
    BY <2>4, TornKeepsInv
  <2>5. ASSUME NEW p \in Paths, CommitCopy(p) PROVE ForgeInv'
    BY <2>5, CommitCopyKeepsInv
  <2>6. ASSUME NEW p \in Paths, CommitDelete(p) PROVE ForgeInv'
    BY <2>6, CommitDeleteKeepsInv
  <2> QED  BY <2>1, <2>2, <2>3, <2>4, <2>5, <2>6, RollbackKeepsInv, CommitTombstonesKeepsInv,
              CommitEndKeepsInv, StopKeepsInv, StutterKeepsForgeInv DEF ForgeNext
<1> QED  BY <1>1, ForgeInvInit, PTL DEF ForgeSpec

-----------------------------------------------------------------------------
(* Every reachable state has its type, and a commit in progress only works *)
(* on what is staged (forge.py:222-243).                                   *)
THEOREM ForgeTypeCorrect == ForgeSpec => []ForgeTypeOK
<1>1. ForgeInv => ForgeTypeOK
  BY DEF ForgeInv
<1> QED  BY <1>1, ForgeInvInvariant, PTL

(* The workspace only ever changes as the authorizer permitted, whatever   *)
(* fails or dies in the middle of a write, commit or rollback.             *)
THEOREM ChangesWerePermitted == ForgeSpec => []OnlyPermittedChanges
<1>1. ForgeInv => OnlyPermittedChanges
  BY DEF ForgeInv
<1> QED  BY <1>1, ForgeInvInvariant, PTL

(* What is staged and whole is in some session's journal.                  *)
THEOREM StagedIsRecorded == ForgeSpec => []StagedIsJournaled
<1>1. ForgeInv => StagedIsJournaled
  BY DEF ForgeInv
<1> QED  BY <1>1, ForgeInvInvariant, PTL

(* A commit that ends has published the overlay, deletions last, and only  *)
(* a commit changes a file, and only one that is staged.                   *)
THEOREM CommitsPublish == ForgeSpec => CommitPublishes
<1> DEFINE Published ==
      CommitEnd => \A p \in Paths :
        IF Marker[p] \in Staged THEN workspace[p] = Absent
        ELSE p \in ListChanges => workspace[p] = overlay[p]
<1> DEFINE OnlyStagedChange ==
      \A p \in Paths : workspace'[p] # workspace[p] =>
        op.session # None /\ (p \in ListChanges \/ Marker[p] \in Staged)
<1>1. ForgeInv => Published
  BY DEF ForgeInv, CommitSoFar, CommitEnd
<1>2. ForgeInv /\ [ForgeNext]_forgeVars => OnlyStagedChange
  <2> SUFFICES ASSUME ForgeInv, [ForgeNext]_forgeVars, NEW p \in Paths,
                      workspace'[p] # workspace[p]
               PROVE  op.session # None /\ (p \in ListChanges \/ Marker[p] \in Staged)
    OBVIOUS
  <2>1. op.step # "idle" => op.session # None
    BY ForgeAssumption DEF ForgeInv, CommitSoFar
  <2>2. workspace \in Files
    BY DEF ForgeInv, ForgeTypeOK
  <2>3. ASSUME NEW q \in Paths, CommitCopy(q)
        PROVE  op.session # None /\ (p \in ListChanges \/ Marker[p] \in Staged)
    <3>1. op.step = "copy" /\ q \in op.todo /\ workspace' = [workspace EXCEPT ![q] = overlay[q]]
      BY <2>3 DEF CommitCopy
    <3>2. p = q
      BY <2>2, <3>1 DEF Files
    <3> QED  BY <2>1, <3>1, <3>2, CopyIsPermitted
  <2>4. ASSUME NEW q \in Paths, CommitDelete(q)
        PROVE  op.session # None /\ (p \in ListChanges \/ Marker[p] \in Staged)
    <3>1. op.step = "delete" /\ q \in op.todo /\ workspace' = [workspace EXCEPT ![q] = Absent]
      BY <2>4 DEF CommitDelete
    <3>2. p = q
      BY <2>2, <3>1 DEF Files
    <3> QED  BY <2>1, <3>1, <3>2 DEF ForgeInv, ForgeTypeOK, Deleted
  <2>5. ASSUME CommitFails \/ Crash
        PROVE  op.session # None /\ (p \in ListChanges \/ Marker[p] \in Staged)
    <3>1. workspace' \in Aftermath
      BY <2>5 DEF CommitFails, Crash
    <3>2. op.step = "copy" /\ p \in op.todo
      BY <3>1, AftermathIsPermitted
    <3> QED  BY <2>1, <3>2, CopyIsPermitted
  <2> QED  BY <2>3, <2>4, <2>5 DEF ForgeNext, forgeVars, Delete, Write, Rollback, CommitStart,
              WriteFails, DeleteFails, RollbackFails, CommitTombstones, CommitEnd
<1>3. ForgeInv /\ [ForgeNext]_forgeVars => [Published /\ OnlyStagedChange]_forgeVars
  BY <1>1, <1>2
<1> QED  BY <1>3, ForgeInvInvariant, PTL DEF ForgeSpec, CommitPublishes
=============================================================================
