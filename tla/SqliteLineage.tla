---------------------------- MODULE SqliteLineage ----------------------------
(***************************************************************************)
(* The lineage store on SQLite (cogtrust/stores/sqlite_lineage.py).        *)
(*                                                                         *)
(* A store is one connection to the database file, shared by the threads   *)
(* of its process; append() runs under the store's lock, in a transaction: *)
(*   AppendCheck   take the lock; the SELECTs, each on its own              *)
(*   AppendInsert  BEGIN and INSERT INTO attestations: the write lock       *)
(*   AppendEdges   INSERT INTO parent_edges                                 *)
(*   AppendLink    read the newest link, INSERT INTO hash_chain             *)
(*   AppendCommit  commit, release both locks                               *)
(* Queries take no lock: they run on the connection of the transaction and *)
(* see what it has inserted so far.  In WAL mode other connections see only *)
(* what is committed, and one of them writes at a time.                     *)
(***************************************************************************)
EXTENDS AttestationDag, Sequences

CONSTANTS
  Stores,   \* the stores, one per process
  Threads,  \* the threads that append
  StoreOf   \* the store a thread uses

ASSUME StoresAssumption ==
  None \notin Stores /\ None \notin Threads /\ StoreOf \in [Threads -> Stores]

VARIABLES
  chain,      \* the committed rows of hash_chain
  open,       \* per store, the rows its transaction has inserted
  writer,     \* the store whose transaction has SQLite's write lock, or None
  storeLock,  \* per store, the thread inside _txn(), or None
  appending   \* per thread, the append in progress, or what the last one came to

\* attestations (see AttestationDag) are the committed rows of that table.  Those of
\* parent_edges are committed with them, and hold for each its ParentsOf.
sqliteVars == <<attestations, chain, open, writer, storeLock, appending>>

Link == [id: Ids, hash: Seq(Ids)]

\* `rows`: attestations, `links`: rows of hash_chain.
Transaction == [rows: SUBSET (Ids \X Attestation), links: Seq(Link)]
NoTransaction == [rows |-> {}, links |-> <<>>]

\* "returned" and "raised" wait for the caller.  `twice`: predecessor_refs names an id
\* more than once.
AppendState ==
  [pc: {"idle", "returned", "raised"}] \cup
  [pc: {"insert", "edges", "link", "commit"}, id: Ids, att: Attestation, twice: BOOLEAN]
NoAppend == [pc |-> "idle"]

SqliteInit ==
  /\ DagInit
  /\ chain = <<>>
  /\ open = [s \in Stores |-> NoTransaction]
  /\ writer = None
  /\ storeLock = [s \in Stores |-> None]
  /\ appending = [t \in Threads |-> NoAppend]

InTransaction(t) == appending[t].pc \in {"insert", "edges", "link", "commit"}

\* get(), without the lock: the attestations a thread sees.
Seen(t) == Known \cup {r[1] : r \in open[StoreOf[t]].rows}
Read(t, id) ==
  IF id \in Known THEN attestations[id]
  ELSE CHOOSE a \in {r[2] : r \in {x \in open[StoreOf[t]].rows : x[1] = id}} : TRUE

\* The chain as a transaction sees it, and the hash of its newest link; GENESIS_HASH
\* covers nothing.
ChainIn(s) == chain \o open[s].links
HeadOf(c) == IF c = <<>> THEN <<>> ELSE c[Len(c)].hash

\* _txn() is left: the lock is released and the caller told.
Leave(t, how) ==
  /\ storeLock' = [storeLock EXCEPT ![StoreOf[t]] = None]
  /\ appending' = [appending EXCEPT ![t] = [pc |-> how]]

-----------------------------------------------------------------------------
\* append() up to the first INSERT.  The lock keeps the store's own appends away and
\* the others only add, so the SELECTs one by one and all at once accept the same.
AppendCheck(t, id, a, twice) ==
  /\ appending[t].pc = "idle" /\ storeLock[StoreOf[t]] = None
  /\ IF Accepts(id, a)
     THEN /\ storeLock' = [storeLock EXCEPT ![StoreOf[t]] = t]
          /\ appending' = [appending EXCEPT
               ![t] = [pc |-> "insert", id |-> id, att |-> a, twice |-> twice]]
     ELSE Leave(t, "raised")
  /\ UNCHANGED <<attestations, chain, open, writer>>

\* BEGIN waits for the other writers.  Ids are a primary key.
AppendInsert(t) ==
  LET s == StoreOf[t]
  IN /\ appending[t].pc = "insert"
     /\ writer \in {None, s}
     /\ appending[t].id \notin Seen(t)
     /\ writer' = s
     /\ open' = [open EXCEPT ![s].rows = @ \cup {<<appending[t].id, appending[t].att>>}]
     /\ appending' = [appending EXCEPT ![t].pc = "edges"]
     /\ UNCHANGED <<attestations, chain, storeLock>>

\* Mutant: the attestation is committed before its edges and its link.
AppendEdgesCommitting(t) ==
  /\ appending[t].pc = "edges" /\ ~appending[t].twice
  /\ attestations' = [attestations EXCEPT ![appending[t].id] = appending[t].att]
  /\ appending' = [appending EXCEPT ![t].pc = "link"]
  /\ UNCHANGED <<chain, open, writer, storeLock>>

\* One edge per parent and kind, to rows that exist.
AppendEdges(t) ==
  /\ appending[t].pc = "edges"
  /\ ~appending[t].twice
  /\ ParentsOf(appending[t].att) \subseteq Seen(t)
  /\ appending' = [appending EXCEPT ![t].pc = "link"]
  /\ UNCHANGED <<attestations, chain, open, writer, storeLock>>

AppendLink(t) ==
  LET s == StoreOf[t]
      id == appending[t].id
  IN /\ appending[t].pc = "link"
     /\ open' = [open EXCEPT ![s].links =
          Append(@, [id |-> id, hash |-> Append(HeadOf(ChainIn(s)), id)])]
     /\ appending' = [appending EXCEPT ![t].pc = "commit"]
     /\ UNCHANGED <<attestations, chain, writer, storeLock>>

\* What the transaction of a store leaves in the tables: triggers refuse UPDATE and DELETE.
Committed(s) ==
  [i \in Ids |->
     LET mine == {r[2] : r \in {x \in open[s].rows : x[1] = i}}
     IN IF mine = {} THEN attestations[i] ELSE CHOOSE a \in mine : TRUE]

AppendCommit(t) ==
  LET s == StoreOf[t]
  IN /\ appending[t].pc = "commit"
     /\ attestations' = Committed(s)
     /\ chain' = ChainIn(s)
     /\ open' = [open EXCEPT ![s] = NoTransaction]
     /\ writer' = None
     /\ Leave(t, "returned")

\* Mutant: the exception leaves _txn() without a rollback.
AppendRaiseOnly(t) ==
  /\ InTransaction(t)
  /\ Leave(t, "raised")
  /\ UNCHANGED <<attestations, chain, open, writer>>

\* A statement raises: another connection holds the write lock for longer than the
\* busy timeout, a key is there already, the disk is full.  Rollback.
AppendRaise(t) ==
  LET s == StoreOf[t]
  IN /\ InTransaction(t)
     /\ open' = [open EXCEPT ![s] = NoTransaction]
     /\ writer' = IF writer = s THEN None ELSE writer
     /\ Leave(t, "raised")
     /\ UNCHANGED <<attestations, chain>>

\* The caller goes on.
AppendOver(t) ==
  /\ appending[t].pc \in {"returned", "raised"}
  /\ appending' = [appending EXCEPT ![t] = NoAppend]
  /\ UNCHANGED <<attestations, chain, open, writer, storeLock>>

\* The process of a store is killed; SQLite rolls its transaction back.
StoreCrash(s) ==
  /\ open' = [open EXCEPT ![s] = NoTransaction]
  /\ writer' = IF writer = s THEN None ELSE writer
  /\ storeLock' = [storeLock EXCEPT ![s] = None]
  /\ appending' = [t \in Threads |-> IF StoreOf[t] = s THEN NoAppend ELSE appending[t]]
  /\ UNCHANGED <<attestations, chain>>

AppendStep(t) ==
  AppendInsert(t) \/ AppendEdges(t) \/ AppendLink(t) \/ AppendCommit(t) \/ AppendRaise(t)

\* validate_chain: every link is of a stored attestation and hashes its predecessor.
ValidateChain ==
  \A n \in 1..Len(chain) :
    /\ chain[n].id \in Known
    /\ chain[n].hash = Append(IF n = 1 THEN <<>> ELSE chain[n - 1].hash, chain[n].id)

-----------------------------------------------------------------------------
\* CT-I9 and CT-I11 on SQLite (sqlite_lineage.py:192-307): whatever transactions of
\* several processes raised, were rolled back or were killed, the committed hash chain
\* is one chain that links every committed attestation exactly once, after everything
\* it refers to, and validate_chain accepts it.
ChainLinksCommitted ==
  /\ ValidateChain
  /\ {chain[n].id : n \in 1..Len(chain)} = Known
  /\ \A m, n \in 1..Len(chain) : chain[m].id = chain[n].id => m = n
  /\ \A n \in 1..Len(chain) : \A p \in Upstream(chain[n].id) :
       \E m \in 1..(n - 1) : chain[m].id = p

\* The store is the lineage its readers were promised (AttestationDag): the committed
\* attestations start empty and change by one accepted attestation at a time, though
\* its checks, and those of the services that sign, read rows that may be rolled back.
CommitsOneAccepted ==
  DagInit /\ [][\E id \in Ids \ Known : attestations'[id] # None /\ Add(id, attestations'[id])]_attestations
=============================================================================
