----------------------------- MODULE Issuance ------------------------------
(***************************************************************************)
(* AttestationService.issue (cogtrust/service.py) over the lineage store,  *)
(* with the tier registry's ceremony (cogtrust/tiers.py).                  *)
(*                                                                         *)
(* The service validates a request against the lineage WITHOUT a lock,     *)
(* stamps and signs the attestation, and only then, under its own lock,    *)
(* appends it.  Several services (the service key, each reviewer's         *)
(* personal key) share one lineage store, each with a lock of its own.     *)
(***************************************************************************)
EXTENDS Lineage, FiniteSets

CONSTANTS
  Services,   \* AttestationService instances
  Kind,       \* signer.kind of a service: "service" or "personal"
  People,     \* reviewer and approver identities
  Tiers,      \* the trust tiers artifact classes are registered at
  Ceremony,   \* TierRegistry._requirements: tier -> its requirements
  MaxClock    \* bound on the wall clock

\* What issue() asks of a tier; validations, windows and cool-downs are for others to ask.
TierRequirements ==
  [review: BOOLEAN, minReviewers: Nat, distinct: BOOLEAN, rootMaxAge: Nat,
   auth: {"session", "personal", "personal_fresh"}]

\* The default table; ages in seconds.
DefaultTierRequirements ==
  LET Requires(reviewers, distinct, age, auth) ==
        [review |-> reviewers > 0, minReviewers |-> reviewers, distinct |-> distinct,
         rootMaxAge |-> age, auth |-> auth]
  IN [tier \in 0..5 |->
        CASE tier = 0 -> Requires(0, FALSE, 1000000000, "session")
          [] tier \in {1, 2} -> Requires(0, FALSE, 8 * 3600, "session")
          [] tier = 3 -> Requires(1, FALSE, 3600, "session")
          [] tier = 4 -> Requires(1, TRUE, 1800, "personal")
          [] tier = 5 -> Requires(2, TRUE, 60, "personal_fresh")]

ASSUME CeremonyAssumption ==
  /\ Kind \in [Services -> {"service", "personal"}]
  /\ Ceremony \in [Tiers -> TierRequirements]
  /\ Tiers \subseteq Nat /\ MaxClock \in Nat

VARIABLES
  clock,        \* wall clock
  issuing,      \* per thread, the call of issue() in progress
  serviceLock   \* per service, the thread inside its `with self._lock`, or None

issuanceVars == <<lineageVars, clock, issuing, serviceLock>>

\* The other attestation types (retrieval, generation, validation, execution, ...)
\* take the same path through issue() and are "other".
Types == {"intent_root", "review", "approval", "other"}

\* AttestationRequest: only an intent root names no intent root (__post_init__), only
\* reviews and approvals carry a reviewer_id or approver_id.  predecessor_refs is a list:
\* `copies` is how often it names each of its ids, which only an approval can tell.
Request ==
  [type: {"intent_root"}, intent: {None}, preds: SUBSET Ids, copies: {1}, tier: Tiers,
   person: {None}] \cup
  [type: {"other"}, intent: Ids, preds: SUBSET Ids, copies: {1}, tier: Tiers,
   person: {None}] \cup
  [type: {"review"}, intent: Ids, preds: SUBSET Ids, copies: {1}, tier: Tiers,
   person: People] \cup
  [type: {"approval"}, intent: Ids, preds: SUBSET Ids, copies: {1, 2}, tier: Tiers,
   person: People]

IssuedPayload ==
  [type: Types, tier: Tiers, person: People \cup {None}, kind: {"service", "personal"},
   issuedAt: 0..MaxClock]

ASSUME PayloadAssumption == Payload = IssuedPayload

NotIssuing == [pc |-> "idle"]
IssueState == {NotIssuing} \cup
  [pc: {"checked", "signed", "appending"}, service: Services, id: Ids, att: Attestation]

IssuanceInit ==
  /\ LineageInit
  /\ clock = 0
  /\ issuing = [t \in Threads |-> NotIssuing]
  /\ serviceLock = [s \in Services |-> None]

TypeOf(id) == attestations[id].payload.type

Reviews(r) == {p \in r.preds : TypeOf(p) = "review"}

\* review_count, which counts a review as often as the list names it.
ReviewCount(r) == r.copies * Cardinality(Reviews(r))

\* The intent root exists, is one, and for tier 4 and above is fresh.
IntentRootOk(r) ==
  r.type # "intent_root" =>
    /\ r.intent \in Known
    /\ TypeOf(r.intent) = "intent_root"
    /\ r.tier >= 4 =>
         clock - attestations[r.intent].payload.issuedAt <= Ceremony[r.tier].rootMaxAge

\* Mutant: the approver is compared with the wrong field and may have reviewed.
CeremonyOkSelfApproval(s, r) ==
  r.type = "approval" /\ Ceremony[r.tier].review =>
    ReviewCount(r) >= Ceremony[r.tier].minReviewers

\* _validate_ceremony: counts review attestations, keeps the approver apart from the
\* reviewers, and wants a personal key behind a high-tier review.
CeremonyOk(s, r) ==
  LET tier == Ceremony[r.tier]
  IN /\ r.type = "approval" =>
          /\ tier.review => ReviewCount(r) >= tier.minReviewers
          /\ tier.distinct => r.person \notin {attestations[p].payload.person : p \in Reviews(r)}
     /\ r.type = "review" /\ tier.auth \in {"personal", "personal_fresh"} => Kind[s] = "personal"

\* new_attestation_id(): a uuid4 is never drawn twice.
FreshId(id) == id \notin Known /\ \A u \in Threads : issuing[u].pc # "idle" => issuing[u].id # id

\* The attestation of a request, issued at `now`.
Attest(s, r, now) ==
  [intent |-> r.intent, preds |-> r.preds,
   payload |-> [type |-> r.type, tier |-> r.tier, person |-> r.person, kind |-> Kind[s],
                issuedAt |-> now]]

\* Mutant: the predecessors are not looked up before signing.
IssueCheckUnchecked(t, s, r, id) ==
  /\ issuing[t].pc = "idle" /\ FreshId(id)
  /\ IntentRootOk(r)
  /\ issuing' = [issuing EXCEPT
       ![t] = [pc |-> "checked", service |-> s, id |-> id, att |-> Attest(s, r, 0)]]
  /\ UNCHANGED <<lineageVars, clock, serviceLock>>

\* issue() up to new_attestation_id(): every check reads the lineage without a lock. The
\* lineage only grows, so reading it bit by bit and reading it at once refuse the
\* same requests.  A refused request changes nothing.
IssueCheck(t, s, r, id) ==
  /\ issuing[t].pc = "idle" /\ FreshId(id)
  /\ IntentRootOk(r)
  /\ r.preds \subseteq Known
  /\ CeremonyOk(s, r)
  /\ issuing' = [issuing EXCEPT
       ![t] = [pc |-> "checked", service |-> s, id |-> id, att |-> Attest(s, r, 0)]]
  /\ UNCHANGED <<lineageVars, clock, serviceLock>>

\* issued_at reads the clock a second time; signer.sign() is a KMS call and may raise.
IssueSign(t) ==
  /\ issuing[t].pc = "checked"
  /\ \/ issuing' = [issuing EXCEPT ![t].pc = "signed", ![t].att.payload.issuedAt = clock]
     \/ issuing' = [issuing EXCEPT ![t] = NotIssuing]
  /\ UNCHANGED <<lineageVars, clock, serviceLock>>

\* `with self._lock: self._lineage.append(att)`: both locks are now held.
IssueAppend(t) ==
  LET call == issuing[t]
  IN /\ call.pc = "signed"
     /\ serviceLock[call.service] = None
     /\ AppendStore(t, call.id, call.att)
     /\ serviceLock' = [serviceLock EXCEPT ![call.service] = t]
     /\ issuing' = [issuing EXCEPT ![t].pc = "appending"]
     /\ UNCHANGED clock

IssueAppendStep(t) == AppendStep(t) /\ UNCHANGED <<clock, issuing, serviceLock>>

\* append() has returned: release the service's lock and return the attestation.
IssueReturn(t) ==
  /\ issuing[t].pc = "appending" /\ appending[t].pc = "idle"
  /\ serviceLock' = [serviceLock EXCEPT ![issuing[t].service] = None]
  /\ issuing' = [issuing EXCEPT ![t] = NotIssuing]
  /\ UNCHANGED <<lineageVars, clock>>

Tick ==
  /\ clock < MaxClock
  /\ clock' = clock + 1
  /\ UNCHANGED <<lineageVars, issuing, serviceLock>>

IssuanceNext ==
  \/ \E t \in Threads :
       \/ \E s \in Services, r \in Request, id \in Ids : IssueCheck(t, s, r, id)
       \/ IssueSign(t) \/ IssueAppend(t) \/ IssueAppendStep(t) \/ IssueReturn(t)
  \/ Tick

IssuanceSpec == IssuanceInit /\ [][IssuanceNext]_issuanceVars

-----------------------------------------------------------------------------
IssuanceTypeOK ==
  /\ LineageTypeOK
  /\ clock \in 0..MaxClock
  /\ issuing \in [Threads -> IssueState]
  /\ serviceLock \in [Services -> Threads \cup {None}]

\* No signature without a record: what issue() validated without a lock still holds
\* when the signed attestation reaches append() (service.py:64-161), however many
\* other calls append in between; so append() never raises LineageError there and no
\* signed attestation is left outside the lineage.
SignedNeverRefused ==
  \A t \in Threads : issuing[t].pc = "signed" => Accepts(issuing[t].id, issuing[t].att)

\* CT-I2, CT-I8: an attestation found in the lineage at any later time met its tier's
\* ceremony as the code reads it (service.py:64-77, 172-216): its intent root is one; an
\* approval at a tier that wants reviews has some, and none by the approver where the
\* tier keeps them apart; a high-tier review is signed with a personal key.
CeremonyMet ==
  \A i \in Known :
    LET a == attestations[i]
        tier == Ceremony[a.payload.tier]
        reviews == {p \in a.preds : TypeOf(p) = "review"}
    IN /\ a.payload.type # "intent_root" => a.intent \in Known /\ TypeOf(a.intent) = "intent_root"
       /\ a.payload.type = "approval" =>
            /\ tier.review /\ tier.minReviewers > 0 => reviews # {}
            /\ tier.distinct => \A p \in reviews : attestations[p].payload.person # a.payload.person
       /\ a.payload.type = "review" /\ tier.auth # "session" => a.payload.kind = "personal"

\* TRUST_TIERS.md section 2 wants the reviews of a tier-5 artifact from "2 people,
\* distinct": an approval has reviews by as many people as its tier asks for.
ReviewedByDistinctPeople ==
  \A i \in Known :
    LET a == attestations[i]
        reviewers == {attestations[p].payload.person : p \in {q \in a.preds : TypeOf(q) = "review"}}
    IN a.payload.type = "approval" =>
         Cardinality(reviewers) >= Ceremony[a.payload.tier].minReviewers
=============================================================================
