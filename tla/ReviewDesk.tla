----------------------------- MODULE ReviewDesk -----------------------------
(***************************************************************************)
(* Reviewer sessions and the submission of reviews (cogtrust/reviewer_ui)  *)
(* over the SQLite lineage.                                                *)
(*                                                                         *)
(* Threads of a process submit reviews for its sessions; threads of any    *)
(* process issue intent roots and generations.  submit() looks at the      *)
(* session and at its target, then AttestationService.issue validates      *)
(* (without a lock), signs and appends, and only then the review is        *)
(* counted on the session.                                                 *)
(***************************************************************************)
EXTENDS SqliteLineage

CONSTANTS
  Sessions,     \* reviewer sessions
  SessionAt,    \* the store of the process a session lives in
  Tiers,        \* tiers of the artifacts under review
  FreshTiers,   \* those whose reviewer_auth_kind is "personal_fresh"
  ReviewLimit,  \* the review_count from which fatigue refuses (19)
  IdsFor,       \* the ids drawn for attestations of each type
  Requests      \* what the other components ask issue() to attest

ReviewedTypes == {"intent_root", "generation", "review"}

ASSUME DeskAssumption ==
  /\ None \notin Sessions
  /\ IsFiniteSet(Threads)
  /\ SessionAt \in [Sessions -> Stores]
  /\ FreshTiers \subseteq Tiers
  /\ ReviewLimit \in Nat \ {0}
  /\ IdsFor \in [ReviewedTypes -> SUBSET Ids]
  /\ Payload = [type: ReviewedTypes, tier: Tiers]
  /\ Requests \subseteq {a \in Attestation : a.payload.type # "review"}

VARIABLES
  sessions,  \* the ReviewerSession objects
  work,      \* per thread, the submission or issuance in progress
  drawn,     \* attestation ids drawn so far
  reviewsOf  \* history: per session object, the ids of the reviews it has signed

deskVars == <<sqliteVars, sessions, work, drawn, reviewsOf>>

\* `auth`: how long ago the reviewer authenticated: within the fresh-auth window,
\* within the session's time to live, or longer.
Session == [auth: {"fresh", "stale", "expired"}, count: Nat, revoked: BOOLEAN]
NewSession == [auth |-> "fresh", count |-> 0, revoked |-> FALSE]

\* A submission has a session.  A generation may name several predecessors, or one of
\* them more than once.
Idle == [pc |-> "idle"]
Work ==
  {Idle} \cup
  [pc: {"target"}, session: Sessions, target: Ids, tired: BOOLEAN] \cup
  [pc: {"issue"}, session: Sessions \cup {None}, att: Attestation, twice: BOOLEAN] \cup
  [pc: {"sign", "append", "store"}, session: Sessions \cup {None}, att: Attestation,
   twice: BOOLEAN, id: Ids]

DeskInit ==
  /\ SqliteInit
  /\ sessions = [s \in Sessions |-> NewSession]
  /\ work = [t \in Threads |-> Idle]
  /\ drawn = {}
  /\ reviewsOf = [s \in Sessions |-> {}]

Turn(t, w) == work' = [work EXCEPT ![t] = w]

\* Mutant: the limit is the last count that is accepted.
TiredLate(s) == sessions[s].count > ReviewLimit

\* fatigue_score() >= FATIGUE_REFUSAL_THRESHOLD by the number of reviews.  By their speed
\* it may be reached earlier: a submission may be refused at any count.
Tired(s) == sessions[s].count >= ReviewLimit

\* submit(): the fatigue score and the session's state; a refusal changes nothing.
Submit(t, s, target) ==
  /\ work[t] = Idle /\ SessionAt[s] = StoreOf[t]
  /\ ~sessions[s].revoked /\ sessions[s].auth # "expired"
  /\ Turn(t, [pc |-> "target", session |-> s, target |-> target, tired |-> Tired(s)])
  /\ UNCHANGED <<sqliteVars, sessions, drawn, reviewsOf>>

\* The target, whether the tier's authentication is recent, the score read before.
SubmitTarget(t) ==
  LET w == work[t]
      s == sessions[w.session]
      target == Read(t, w.target)
      refused == \/ w.target \notin Seen(t) \/ target.payload.type # "generation"
                 \/ target.payload.tier \in FreshTiers /\ (s.revoked \/ s.auth # "fresh")
                 \/ w.tired
  IN /\ w.pc = "target"
     /\ Turn(t, IF refused THEN Idle
                ELSE [pc |-> "issue", session |-> w.session, twice |-> FALSE,
                      att |-> [intent |-> target.intent, preds |-> {w.target},
                               payload |-> [type |-> "review", tier |-> target.payload.tier]]])
     /\ UNCHANGED <<sqliteVars, sessions, drawn, reviewsOf>>

\* AttestationService.issue is called for something else than a review.
Issue(t, a, twice) ==
  /\ work[t] = Idle
  /\ twice => a.preds # {}
  /\ Turn(t, [pc |-> "issue", session |-> None, att |-> a, twice |-> twice])
  /\ UNCHANGED <<sqliteVars, sessions, drawn, reviewsOf>>

\* issue() up to new_attestation_id(), or AttestationServiceError.
IssueCheck(t, id) ==
  LET w == work[t]
      rootId == w.att.intent
      valid == /\ w.att.payload.type # "intent_root" =>
                    rootId \in Seen(t) /\ Read(t, rootId).payload.type = "intent_root"
               /\ w.att.preds \subseteq Seen(t)
  IN /\ w.pc = "issue"
     /\ IF ~valid THEN Turn(t, Idle) /\ UNCHANGED <<drawn, reviewsOf>>
        ELSE /\ id \in IdsFor[w.att.payload.type] \ drawn
             /\ drawn' = drawn \cup {id}
             /\ reviewsOf' = IF w.session = None THEN reviewsOf
                             ELSE [reviewsOf EXCEPT ![w.session] = @ \cup {id}]
             /\ Turn(t, [pc |-> "sign", session |-> w.session, att |-> w.att,
                         twice |-> w.twice, id |-> id])
     /\ UNCHANGED <<sqliteVars, sessions>>

\* The signer, a KMS or a token, may raise.
IssueSign(t) ==
  /\ work[t].pc = "sign"
  /\ Turn(t, [work[t] EXCEPT !.pc = "append"]) \/ Turn(t, Idle)
  /\ UNCHANGED <<sqliteVars, sessions, drawn, reviewsOf>>

IssueAppend(t) ==
  /\ work[t].pc = "append"
  /\ AppendCheck(t, work[t].id, work[t].att, work[t].twice)
  /\ Turn(t, [work[t] EXCEPT !.pc = "store"])
  /\ UNCHANGED <<sessions, drawn, reviewsOf>>

IssueAppendStep(t) == AppendStep(t) /\ UNCHANGED <<sessions, work, drawn, reviewsOf>>

\* append() is over: record_review() counts the review, unless it raised, which submit()
\* passes on.
Conclude(t) ==
  LET w == work[t]
  IN /\ w.pc = "store"
     /\ AppendOver(t)
     /\ sessions' = IF w.session = None \/ appending[t].pc = "raised" THEN sessions
                    ELSE [sessions EXCEPT ![w.session].count = @ + 1]
     /\ Turn(t, Idle)
     /\ UNCHANGED <<drawn, reviewsOf>>

-----------------------------------------------------------------------------
RevokeSession(s) ==
  /\ sessions' = [sessions EXCEPT ![s].revoked = TRUE]
  /\ UNCHANGED <<sqliteVars, work, drawn, reviewsOf>>

\* A revoked session cannot.
Reauthenticate(s) ==
  /\ ~sessions[s].revoked
  /\ sessions' = [sessions EXCEPT ![s].auth = "fresh"]
  /\ UNCHANGED <<sqliteVars, work, drawn, reviewsOf>>

\* Time passes for a session.
Age(s) ==
  /\ \/ sessions[s].auth = "fresh" /\ sessions' = [sessions EXCEPT ![s].auth = "stale"]
     \/ sessions[s].auth = "stale" /\ sessions' = [sessions EXCEPT ![s].auth = "expired"]
  /\ UNCHANGED <<sqliteVars, work, drawn, reviewsOf>>

\* A process is killed; its sessions are objects in memory, and the reviewers who log in
\* again get new ones.
Crash(store) ==
  LET lost == {s \in Sessions : SessionAt[s] = store}
  IN /\ StoreCrash(store)
     /\ sessions' = [s \in Sessions |-> IF s \in lost THEN NewSession ELSE sessions[s]]
     /\ reviewsOf' = [s \in Sessions |-> IF s \in lost THEN {} ELSE reviewsOf[s]]
     /\ work' = [t \in Threads |-> IF StoreOf[t] = store THEN Idle ELSE work[t]]
     /\ UNCHANGED drawn

DeskStep(t) ==
  \/ \E s \in Sessions, target \in drawn : Submit(t, s, target)
  \/ \E a \in Requests, twice \in BOOLEAN : Issue(t, a, twice)
  \/ (\E id \in Ids : IssueCheck(t, id)) \/ SubmitTarget(t)
  \/ IssueSign(t) \/ IssueAppend(t) \/ IssueAppendStep(t) \/ Conclude(t)

DeskNext ==
  \/ \E t \in Threads : DeskStep(t)
  \/ \E s \in Sessions : RevokeSession(s) \/ Reauthenticate(s) \/ Age(s)
  \/ \E s \in Stores : Crash(s)

DeskSpec == DeskInit /\ [][DeskNext]_deskVars

-----------------------------------------------------------------------------
\* CT-T5 (submitter.py:95-192, session.py:79-103): though the count is read before the
\* review is signed and written after it is stored, and signing or storing may raise in
\* between, a session has counted exactly its stored reviews but those that threads are
\* about to count; and it never gets more reviews into the lineage than the limit
\* allows plus one for each other thread that was past the check.
FatigueBoundsReviews ==
  \A s \in Sessions :
    LET stored == reviewsOf[s] \cap Known
        mine == {t \in Threads : StoreOf[t] = SessionAt[s]}
        due == {t \in mine : work[t].pc = "store" /\ work[t].session = s
                               /\ appending[t].pc = "returned"}
    IN /\ Cardinality(stored) = sessions[s].count + Cardinality(due)
       /\ Cardinality(stored) <= ReviewLimit + Cardinality(mine) - 1
=============================================================================
