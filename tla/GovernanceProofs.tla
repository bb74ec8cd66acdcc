-------------------------- MODULE GovernanceProofs --------------------------
(***************************************************************************)
(* Proofs about Governance, and with it about Vault, Sentinel and          *)
(* TrustStore: for any processes, roots, tokens and paths, what was done   *)
(* was authorised, minted tokens verify, and the quota bounds a turn.      *)
(***************************************************************************)
EXTENDS Governance, TLAPS

\* A call whose root has been drawn, and is known to nobody else yet.
Unregistered(c) == c.kind \in Kinds /\ (c.pc = "register" \/ c.kind = "hook")

\* Its root is its process's, stored as the registry has it, and of this moment.
RootAtHand(p, r) ==
  /\ r \in DOMAIN registry[p] /\ registry[p][r] = intentRoots[r]
  /\ intentRoots[r] # None /\ intentRoots[r].issued = clock

\* How a call stands to its root ...
RootOk(p, c) ==
  /\ Unregistered(c) =>
       /\ c.kind \in {"mint", "run", "dispatch", "prompt", "hook"}
       /\ c.root \in issued /\ intentRoots[c.root] = None
       /\ \A q \in Processes : c.root \notin DOMAIN registry[q]
  /\ c.pc = "admit" => c.root \in Roots /\ intentRoots[c.root] # None
  /\ c.kind \in {"mint", "run", "dispatch"} /\ c.pc \in {"admit", "infer", "mint"}
       => RootAtHand(p, c.root)
  /\ c.kind = "hook" => c.pc = "mint"
  /\ c.pc = "mint" => c.kind \in {"mint", "run", "dispatch", "hook"}

\* ... to its token and action ...
WarrantOk(c) ==
  /\ c.kind \in {"evaluate", "patch"} \/ (c.kind \in {"run", "dispatch"} /\ c.pc \in {"evaluate", "act"})
       => c.token # None /\ tokens[c.token] # None
  /\ c.kind \in {"evaluate", "patch", "dispatch", "prompt"}
       \/ (c.kind = "run" /\ c.pc \in {"mint", "evaluate"})
       => c.action # None
  /\ c.kind = "patch" => c.action.root = c.root
  /\ c.kind = "mint" => c.pc \in {"register", "admit", "mint", "trace"}
  /\ c.kind = "replay" => c.pc = "trace"

Permit(c, a) == [action |-> a, token |-> c.token, permitted |-> TRUE]

\* ... and to what has been decided and done for it.
RecordOk(c) ==
  /\ c.kind # "prompt" /\ c.decision # None => c.decision \in decisions
  /\ c.kind = "dispatch" /\ c.pc = "act" => Permit(c, c.action) \in decisions
  /\ c.kind = "patch" /\ c.pc \in {"commit", "publish"} => Permit(c, c.action) \in decisions
  /\ c.kind = "patch" /\ c.pc = "publish" => Permit(c, CommitOf(c.root)) \in decisions
  /\ c.kind = "patch" /\ c.pc = "attest" =>
       \E e \in effects : e.kind = "patch" /\ e.action.root = c.root

CallOk(p, c) == c.kind \in Kinds => RootOk(p, c) /\ WarrantOk(c) /\ RecordOk(c)

CallsOk == \A p \in Processes : CallOk(p, call[p])

\* No two calls have drawn the same root.
RootsApart ==
  \A p, q \in Processes :
    Unregistered(call[p]) /\ Unregistered(call[q]) /\ call[p].root = call[q].root => p = q

RootsDrawn ==
  /\ \A r \in Roots : intentRoots[r] # None => r \in issued
  /\ \A p \in Processes : DOMAIN registry[p] \subseteq issued

\* A token was minted under a stored root, inside it and at its moment.
TokenRooted(row) ==
  /\ intentRoots[row.root] # None
  /\ <<row.scope, intentRoots[row.root].scope>> \in Within
  /\ row.issued = intentRoots[row.root].issued

TokensRooted == \A k \in Tokens : tokens[k] # None => TokenRooted(tokens[k])

\* What a permission rests on, whoever of the two deciders gave it.
DecisionSound(d) ==
  d.permitted =>
    /\ d.token # None /\ tokens[d.token] # None
    /\ tokens[d.token].root = d.action.root
    /\ <<d.action.scope, tokens[d.token].scope>> \in TextPrefix
    /\ d.action.type = "commit" /\ d.action.tier = 2 => tokens[d.token].ceiling >= 2

DecisionsSound == \A d \in decisions : DecisionSound(d)

PermitsCounted ==
  \A p \in Processes : turnPermits[p] <= dispatches[p] /\ turnPermits[p] <= MaxDispatches

GovernanceInv ==
  /\ GovernanceTypeOK
  /\ CallsOk /\ RootsApart /\ RootsDrawn /\ TokensRooted /\ DecisionsSound /\ PermitsCounted
  /\ EffectsAuthorised /\ AuditSupported

-----------------------------------------------------------------------------
\* A call that is over, or none, asks for nothing.
LEMMA NothingInProgress ==
  /\ NoCall \in Call /\ Over \in Call
  /\ NoCall.kind \notin Kinds /\ Over.kind \notin Kinds
  BY DEF NoCall, Over, Call, Kinds, Commands

LEMMA CallTyped ==
  ASSUME GovernanceTypeOK, NEW p \in Processes, call[p].kind \in Kinds
  PROVE  call[p] \in CallInProgress
  BY NothingInProgress DEF GovernanceTypeOK, Call

LEMMA CallFacts ==
  ASSUME GovernanceInv, NEW p \in Processes, call[p].kind \in Kinds
  PROVE  /\ call[p] \in CallInProgress
         /\ RootOk(p, call[p]) /\ WarrantOk(call[p]) /\ RecordOk(call[p])
  BY CallTyped DEF GovernanceInv, CallsOk, CallOk

LEMMA NoneIsNoRow ==
  /\ None \notin Roots /\ None \notin Tokens /\ None \notin RootRow /\ None \notin TokenRow
  /\ None \notin Action /\ None \notin Decision
  BY TrustStoreAssumption, RowsAssumption

\* An id that is known to a registry maps to a row; adding one keeps that.
LEMMA RememberTyped ==
  ASSUME NEW f \in Registry, NEW r \in Roots, NEW row \in RootRow
  PROVE  [q \in DOMAIN f \cup {r} |-> IF q = r THEN row ELSE f[q]] \in Registry
<1> DEFINE g == [q \in DOMAIN f \cup {r} |-> IF q = r THEN row ELSE f[q]]
<1>1. PICK rs \in SUBSET Roots : f \in [rs -> RootRow]
  BY DEF Registry
<1>2. g \in [rs \cup {r} -> RootRow]
  BY <1>1
<1>3. rs \cup {r} \in SUBSET Roots
  OBVIOUS
<1> QED  BY <1>2, <1>3 DEF Registry

LEMMA EmptyRegistryTyped == EmptyRegistry \in Registry /\ DOMAIN EmptyRegistry = {}
<1>1. EmptyRegistry \in [{} -> RootRow] /\ DOMAIN EmptyRegistry = {}
  BY DEF EmptyRegistry
<1> QED  BY <1>1 DEF Registry

-----------------------------------------------------------------------------
\* What was rooted, permitted or authorised stays so while the tables grow.
LEMMA TablesGrow ==
  ASSUME GovernanceInv,
         \A k \in Tokens : tokens[k] # None => tokens'[k] = tokens[k],
         \A r \in Roots : intentRoots[r] # None => intentRoots'[r] = intentRoots[r],
         decisions \subseteq decisions'
  PROVE  /\ \A e \in effects : Authorised(e)'
         /\ \A d \in decisions : DecisionSound(d)'
         /\ \A k \in Tokens : tokens[k] # None => TokenRooted(tokens[k])'
<1>1. \A d \in decisions : DecisionSound(d)'
  BY DEF GovernanceInv, GovernanceTypeOK, VaultTypeOK, TrustStoreTypeOK, Decision, DecisionsSound, DecisionSound
<1>2. ASSUME NEW k \in Tokens, tokens[k] # None  PROVE TokenRooted(tokens[k])'
  <2>1. TokenRooted(tokens[k]) /\ tokens[k].root \in Roots
    BY <1>2 DEF GovernanceInv, GovernanceTypeOK, VaultTypeOK, TrustStoreTypeOK, TokenRow, TokensRooted
  <2>2. tokens'[k] = tokens[k] /\ intentRoots'[tokens[k].root] = intentRoots[tokens[k].root]
    BY <1>2, <2>1 DEF TokenRooted
  <2> QED  BY <2>1, <2>2 DEF TokenRooted
<1>3. ASSUME NEW e \in effects  PROVE Authorised(e)'
  <2>1. e.token \in Tokens /\ Authorised(e)
    BY DEF GovernanceInv, GovernanceTypeOK, Effect, EffectsAuthorised
  <2>2. tokens'[e.token] = tokens[e.token] /\ tokens[e.token].root \in Roots
    BY <2>1 DEF Authorised, GovernanceInv, GovernanceTypeOK, VaultTypeOK, TrustStoreTypeOK, TokenRow
  <2>3. intentRoots'[tokens[e.token].root] = intentRoots[tokens[e.token].root]
    BY <2>1, <2>2 DEF Authorised
  <2>4. \A a : Permitted(a, e.token) => Permitted(a, e.token)'
    BY DEF Permitted
  <2> QED  BY <2>1, <2>2, <2>3, <2>4 DEF Authorised
<1> QED  BY <1>1, <1>2, <1>3

\* A step of p disturbs no other call: not what it has found stored, and not the root it
\* has drawn.
LEMMA OthersGoOn ==
  ASSUME GovernanceInv, NEW p \in Processes,
         \A q \in Processes \ {p} : call'[q] = call[q] /\ registry'[q] = registry[q],
         clock' = clock, issued \subseteq issued',
         \A k \in Tokens : tokens[k] # None => tokens'[k] = tokens[k],
         \A r \in Roots : intentRoots[r] # None => intentRoots'[r] = intentRoots[r],
         decisions \subseteq decisions', effects \subseteq effects',
         \A q \in Processes \ {p} : Unregistered(call[q]) =>
           /\ intentRoots'[call[q].root] = None
           /\ call[q].root \notin DOMAIN registry'[p],
         CallOk(p, call[p])',
         Unregistered(call'[p]) =>
           \A q \in Processes \ {p} : Unregistered(call[q]) => call[q].root # call'[p].root
  PROVE  CallsOk' /\ RootsApart'
<1>1. ASSUME NEW q \in Processes \ {p}, call[q].kind \in Kinds  PROVE CallOk(q, call[q])'
  <2> DEFINE c == call[q]
  <2>1. call'[q] = call[q] /\ registry'[q] = registry[q]
    OBVIOUS
  <2>2. /\ c \in CallInProgress /\ RootOk(q, c) /\ WarrantOk(c) /\ RecordOk(c)
    BY <1>1, CallFacts
  <2>3. c.root \in Roots \cup {None} /\ c.token \in Tokens \cup {None}
    BY <2>2 DEF CallInProgress
  <2>4. RootOk(q, call[q])'
    <3>1. Unregistered(c) =>
            /\ c.kind \in {"mint", "run", "dispatch", "prompt", "hook"}
            /\ c.root \in issued' /\ intentRoots'[c.root] = None
            /\ \A t \in Processes : c.root \notin DOMAIN registry'[t]
      BY <2>2 DEF RootOk
    <3>2. c.pc = "admit" => c.root \in Roots /\ intentRoots'[c.root] # None
      BY <2>2 DEF RootOk
    <3>3. c.kind \in {"mint", "run", "dispatch"} /\ c.pc \in {"admit", "infer", "mint"}
            => RootAtHand(q, c.root)'
      <4> SUFFICES ASSUME c.kind \in {"mint", "run", "dispatch"}, c.pc \in {"admit", "infer", "mint"}
                   PROVE  RootAtHand(q, c.root)'
        BY <2>1
      <4>1. RootAtHand(q, c.root)
        BY <2>2 DEF RootOk
      <4>2. c.root \in Roots
        BY <4>1, <2>2, <2>3 DEF RootAtHand, GovernanceInv, RootsDrawn, GovernanceTypeOK, VaultTypeOK
      <4> QED  BY <4>1, <4>2, <2>1 DEF RootAtHand
    <3> QED  BY <2>1, <2>2, <3>1, <3>2, <3>3 DEF RootOk, Unregistered
  <2>5. WarrantOk(call[q])'
    BY <2>1, <2>2, <2>3 DEF WarrantOk
  <2>6. RecordOk(call[q])'
    BY <2>1, <2>2 DEF RecordOk, Permit, CommitOf, Do
  <2> QED  BY <2>4, <2>5, <2>6 DEF CallOk
<1>2. ASSUME NEW q \in Processes  PROVE CallOk(q, call[q])'
  <2>1. CASE q = p
    BY <2>1
  <2>2. CASE q # p /\ call[q].kind \in Kinds
    BY <2>2, <1>1
  <2>3. CASE q # p /\ call[q].kind \notin Kinds
    BY <2>3 DEF CallOk
  <2> QED  BY <2>1, <2>2, <2>3
<1>3. CallsOk'
  BY <1>2 DEF CallsOk
<1>4. RootsApart'
  BY DEF RootsApart, GovernanceInv, Unregistered
<1> QED  BY <1>3, <1>4

-----------------------------------------------------------------------------
\* How a call ends, and where an exception takes it: nothing is left to be relied on.
LEMMA ReturnGoes ==
  ASSUME GovernanceTypeOK, NEW p \in Processes, Return(p)
  PROVE  /\ call' \in [Processes -> Call]
         /\ \A q \in Processes \ {p} : call'[q] = call[q]
         /\ CallOk(p, call[p])' /\ ~Unregistered(call'[p])
<1>1. call \in [Processes -> Call]
  BY DEF GovernanceTypeOK
<1>2. call'[p] \in {NoCall, Over} /\ call' = [call EXCEPT ![p] = call'[p]]
  BY <1>1 DEF Return, Goto
<1>3. call'[p].kind \notin Kinds
  BY <1>2, NothingInProgress
<1> QED  BY <1>1, <1>2, <1>3, NothingInProgress DEF CallOk, Unregistered

LEMMA RaiseGoes ==
  ASSUME GovernanceInv, NEW p \in Processes, call[p].kind \in Kinds, Raise(p),
         decisions \subseteq decisions'
  PROVE  /\ call' \in [Processes -> Call]
         /\ \A q \in Processes \ {p} : call'[q] = call[q]
         /\ CallOk(p, call[p])' /\ ~Unregistered(call'[p])
<1>1. CASE call[p].kind # "run"
  BY <1>1, ReturnGoes DEF Raise, GovernanceInv
<1>2. CASE call[p].kind = "run"
  <2>1. call \in [Processes -> Call] /\ call[p] \in CallInProgress /\ RecordOk(call[p])
    BY CallFacts DEF GovernanceInv, GovernanceTypeOK
  <2>2. call' = [call EXCEPT ![p] = [call[p] EXCEPT !.pc = "outcome"]]
    BY <1>2 DEF Raise, Goto
  <2>3. /\ call'[p] \in CallInProgress /\ call'[p].kind = "run" /\ call'[p].pc = "outcome"
        /\ call'[p].decision = call[p].decision
    BY <1>2, <2>1, <2>2 DEF CallInProgress, Steps
  <2>4. RootOk(p, call[p])' /\ WarrantOk(call[p])' /\ RecordOk(call[p])' /\ ~Unregistered(call'[p])
    BY <1>2, <2>1, <2>3 DEF RootOk, WarrantOk, RecordOk, Unregistered
  <2> QED  BY <2>1, <2>2, <2>3, <2>4 DEF CallOk, Call
<1> QED  BY <1>1, <1>2

LEMMA EngineStays ==
  ASSUME GovernanceInv, UNCHANGED sentinelVars
  PROVE  SentinelTypeOK' /\ PermitsCounted'
  BY DEF sentinelVars, GovernanceInv, GovernanceTypeOK, SentinelTypeOK, PermitsCounted

LEMMA TablesStay ==
  ASSUME GovernanceInv, UNCHANGED <<vaultVars, effects>>
  PROVE  /\ VaultTypeOK' /\ RootsDrawn' /\ TokensRooted' /\ DecisionsSound'
         /\ EffectsAuthorised' /\ AuditSupported'
<1>0. /\ UNCHANGED <<clock, intentRoots, tokens, revoked, decisions, traces, provenance>>
      /\ UNCHANGED <<registry, issued, effects>>
  BY DEF vaultVars, storeVars
<1>1. VaultTypeOK'
  BY <1>0 DEF GovernanceInv, GovernanceTypeOK, VaultTypeOK, TrustStoreTypeOK
<1>2. RootsDrawn' /\ AuditSupported'
  BY <1>0 DEF GovernanceInv, RootsDrawn, AuditSupported
<1>3. /\ \A e \in effects : Authorised(e)'
      /\ \A d \in decisions : DecisionSound(d)'
      /\ \A k \in Tokens : tokens[k] # None => TokenRooted(tokens[k])'
  BY <1>0, TablesGrow
<1> QED  BY <1>0, <1>1, <1>2, <1>3 DEF TokensRooted, DecisionsSound, EffectsAuthorised

\* A call moves on and the tables stay as they are.
LEMMA CallGoesOn ==
  ASSUME GovernanceInv, NEW p \in Processes,
         call' \in [Processes -> Call], \A q \in Processes \ {p} : call'[q] = call[q],
         CallOk(p, call[p])', ~Unregistered(call'[p]),
         UNCHANGED <<vaultVars, calls, effects>>, SentinelTypeOK', PermitsCounted'
  PROVE  GovernanceInv'
<1>1. /\ VaultTypeOK' /\ RootsDrawn' /\ TokensRooted' /\ DecisionsSound'
      /\ EffectsAuthorised' /\ AuditSupported'
  BY TablesStay
<1>2. GovernanceTypeOK'
  BY <1>1 DEF GovernanceInv, GovernanceTypeOK
<1>3. /\ UNCHANGED <<clock, intentRoots, tokens, decisions>>
      /\ UNCHANGED <<registry, issued, effects>>
  BY DEF vaultVars, storeVars
<1>4. \A q \in Processes \ {p} : Unregistered(call[q]) =>
        intentRoots[call[q].root] = None /\ call[q].root \notin DOMAIN registry[p]
  BY CallFacts DEF Unregistered, RootOk
<1>5. CallsOk' /\ RootsApart'
  BY <1>3, <1>4, OthersGoOn
<1> QED  BY <1>1, <1>2, <1>5 DEF GovernanceInv

\* An exception before anything is written.
LEMMA RaiseKeeps ==
  ASSUME GovernanceInv, NEW p \in Processes, call[p].kind \in Kinds, Raise(p),
         UNCHANGED <<vaultVars, calls, effects>>, SentinelTypeOK', PermitsCounted'
  PROVE  GovernanceInv'
<1>1. decisions' = decisions
  BY DEF vaultVars, storeVars
<1> QED  BY <1>1, RaiseGoes, CallGoesOn

-----------------------------------------------------------------------------
\* What the engine permits, it has counted.
LEMMA EngineCounts ==
  ASSUME GovernanceInv, NEW p \in Processes, NEW a, NEW k, NEW permitted \in BOOLEAN,
         PythonDecides(p, a, k, permitted), known' = known
  PROVE  SentinelTypeOK' /\ PermitsCounted'
<1>1. /\ known \in [Processes -> Registry] /\ known' = known
      /\ dispatches \in [Processes -> 0..MaxDispatches + 1] /\ turnPermits \in [Processes -> Nat]
      /\ MaxDispatches \in Nat
  BY SentinelAssumption DEF GovernanceInv, GovernanceTypeOK, SentinelTypeOK
<1> DEFINE n == CountDispatch(p)
           m == IF permitted THEN turnPermits[p] + 1 ELSE turnPermits[p]
<1>2. n \in 0..MaxDispatches + 1 /\ n >= dispatches[p] /\ (n <= MaxDispatches => n = dispatches[p] + 1)
  BY <1>1 DEF CountDispatch
<1>3. turnPermits[p] \in Nat /\ turnPermits[p] <= dispatches[p] /\ turnPermits[p] <= MaxDispatches
  BY <1>1 DEF GovernanceInv, PermitsCounted
<1>4. permitted => n <= MaxDispatches
  BY DEF PythonDecides
<1>5. \/ dispatches' = [dispatches EXCEPT ![p] = n]
      \/ ~permitted /\ dispatches' = dispatches
  <2>1. CASE LayersPass(p, a, k)
    BY <1>1, <2>1 DEF PythonDecides
  <2>2. CASE ~LayersPass(p, a, k)
    BY <1>1, <2>2 DEF PythonDecides
  <2> QED  BY <2>1, <2>2
<1>6. turnPermits' = [turnPermits EXCEPT ![p] = m]
  BY <1>1 DEF PythonDecides
<1>7. m \in Nat /\ m <= MaxDispatches /\ m <= dispatches'[p]
  <2>1. CASE permitted
    BY <1>1, <1>2, <1>3, <1>4, <1>5, <2>1
  <2>2. CASE ~permitted
    BY <1>1, <1>2, <1>3, <1>5, <2>2
  <2> QED  BY <2>1, <2>2
<1> HIDE DEF n, m
<1>8. SentinelTypeOK'
  BY <1>1, <1>2, <1>5, <1>6, <1>7 DEF SentinelTypeOK
<1>9. PermitsCounted'
  BY <1>1, <1>5, <1>6, <1>7 DEF PermitsCounted, GovernanceInv
<1> QED  BY <1>8, <1>9

\* Whoever decides, a permission rests on the stored token, and the engine counts.
LEMMA DecideSound ==
  ASSUME GovernanceInv, NEW p \in Processes, NEW a \in Action, NEW k \in Tokens,
         tokens[k] # None, NEW by, NEW permitted \in BOOLEAN, Decide(p, a, k, by, permitted)
  PROVE  /\ DecisionSound([action |-> a, token |-> k, permitted |-> permitted])
         /\ SentinelTypeOK' /\ PermitsCounted'
<1>1. tokens[k] \in TokenRow /\ k # None /\ Within \subseteq TextPrefix
  BY TrustStoreAssumption DEF GovernanceInv, GovernanceTypeOK, VaultTypeOK, TrustStoreTypeOK
<1>2. /\ known \in [Processes -> Registry] /\ known' = known
      /\ dispatches \in [Processes -> 0..MaxDispatches + 1] /\ turnPermits \in [Processes -> Nat]
      /\ MaxDispatches \in Nat
  BY SentinelAssumption DEF GovernanceInv, GovernanceTypeOK, SentinelTypeOK, Decide
<1>3. CASE OpaDecides(a, k, permitted)
  <2>1. permitted =>
          /\ tokens[k].root = a.root
          /\ <<a.scope, tokens[k].scope>> \in TextPrefix
          /\ a.tier <= tokens[k].ceiling
    BY <1>3 DEF OpaDecides
  <2>2. UNCHANGED <<dispatches, turnPermits>>
    BY <1>3 DEF OpaDecides
  <2> QED  BY <1>1, <1>2, <2>1, <2>2 DEF DecisionSound, SentinelTypeOK, PermitsCounted, GovernanceInv
<1>4. CASE PythonDecides(p, a, k, permitted)
  <2>1. AssignedTier["commit"] = 2
    BY DEF AssignedTier
  <2>2. permitted => LayersPass(p, a, k)
    BY <1>4 DEF PythonDecides
  <2>3. permitted =>
          /\ tokens[k].root = a.root
          /\ <<a.scope, tokens[k].scope>> \in Within
          /\ AssignedTier[a.type] <= tokens[k].ceiling
    BY <1>1, <2>2 DEF LayersPass, CapabilityOk
  <2>4. DecisionSound([action |-> a, token |-> k, permitted |-> permitted])
    BY <1>1, <2>1, <2>3 DEF DecisionSound
  <2>5. SentinelTypeOK' /\ PermitsCounted'
    BY <1>2, <1>4, EngineCounts
  <2> QED  BY <2>4, <2>5
<1> QED  BY <1>3, <1>4 DEF Decide

\* A sound decision is stored and the call moves on.
LEMMA DecisionKeeps ==
  ASSUME GovernanceInv, NEW p \in Processes, NEW d \in Decision, DecisionSound(d),
         StoreDecision(d), UNCHANGED <<registry, issued, calls, effects>>,
         call' \in [Processes -> Call], \A q \in Processes \ {p} : call'[q] = call[q],
         CallOk(p, call[p])', ~Unregistered(call'[p]), SentinelTypeOK', PermitsCounted'
  PROVE  GovernanceInv'
<1>1. /\ decisions' = decisions \cup {d}
      /\ UNCHANGED <<clock, intentRoots, tokens, revoked, traces, provenance>>
  BY DEF StoreDecision
<1>2. GovernanceTypeOK'
  BY <1>1 DEF GovernanceInv, GovernanceTypeOK, VaultTypeOK, TrustStoreTypeOK
<1>3. /\ \A e \in effects : Authorised(e)'
      /\ \A c \in decisions : DecisionSound(c)'
      /\ \A k \in Tokens : tokens[k] # None => TokenRooted(tokens[k])'
  BY <1>1, TablesGrow
<1>4. DecisionSound(d)'
  BY <1>1 DEF DecisionSound
<1>5. RootsDrawn' /\ AuditSupported'
  BY <1>1 DEF GovernanceInv, RootsDrawn, AuditSupported
<1>6. \A q \in Processes \ {p} : Unregistered(call[q]) =>
        intentRoots[call[q].root] = None /\ call[q].root \notin DOMAIN registry[p]
  BY CallFacts DEF Unregistered, RootOk
<1>7. CallsOk' /\ RootsApart'
  BY <1>1, <1>6, OthersGoOn
<1> QED
  BY <1>1, <1>2, <1>3, <1>4, <1>5, <1>7
  DEF GovernanceInv, TokensRooted, DecisionsSound, EffectsAuthorised

\* A refused decision, or one the store would not take.
LEMMA DecisionRaises ==
  ASSUME GovernanceInv, NEW p \in Processes, call[p].kind \in Kinds, NEW d \in Decision,
         DecisionSound(d), StoreDecision(d) \/ UNCHANGED storeVars, Raise(p),
         UNCHANGED <<registry, issued, calls, effects>>, SentinelTypeOK', PermitsCounted'
  PROVE  GovernanceInv'
<1>1. CASE StoreDecision(d)
  <2>1. decisions \subseteq decisions'
    BY <1>1 DEF StoreDecision
  <2> QED  BY <1>1, <2>1, RaiseGoes, DecisionKeeps
<1>2. CASE UNCHANGED storeVars
  BY <1>2, RaiseKeeps DEF vaultVars
<1> QED  BY <1>1, <1>2

LEMMA GotoGoes ==
  ASSUME GovernanceTypeOK, NEW p \in Processes, NEW c \in Call, Goto(p, c)
  PROVE  /\ call' \in [Processes -> Call] /\ call'[p] = c
         /\ \A q \in Processes \ {p} : call'[q] = call[q]
  BY DEF GovernanceTypeOK, Goto

\* What a call brings to its decision.
LEMMA AskedWithWarrant ==
  ASSUME GovernanceInv, NEW p \in Processes, call[p].kind \in Kinds,
         \/ call[p].kind \in {"evaluate", "patch"}
         \/ call[p].kind \in {"run", "dispatch"} /\ call[p].pc = "evaluate"
  PROVE  /\ call[p].action \in Action /\ call[p].token \in Tokens
         /\ tokens[call[p].token] # None
  BY CallFacts DEF WarrantOk, CallInProgress

\* forge.py writes only what the decision it has just stored permits.
LEMMA StageKeeps ==
  ASSUME GovernanceInv, NEW p \in Processes, Stage(p)
  PROVE  GovernanceInv'
<1> DEFINE c == call[p]
           D(permitted) == [action |-> c.action, token |-> c.token, permitted |-> permitted]
           next == IF "commit" \in c.types THEN "commit" ELSE "trace"
<1>1. c.kind = "patch" /\ c.pc = "stage" /\ c.kind \in Kinds
  BY DEF Stage, At, Kinds, Commands
<1>2. c \in CallInProgress /\ RootOk(p, c) /\ WarrantOk(c) /\ RecordOk(c)
  BY <1>1, CallFacts
<1>3. c.action \in Action /\ c.token \in Tokens /\ tokens[c.token] # None
  BY <1>1, AskedWithWarrant
<1>4. PICK by \in {"opa", "python"}, permitted \in BOOLEAN :
        /\ Decide(p, c.action, c.token, by, permitted)
        /\ \/ /\ StoreDecision(D(permitted))
              /\ IF permitted THEN Goto(p, [c EXCEPT !.pc = next]) ELSE Raise(p)
           \/ UNCHANGED storeVars /\ Raise(p)
        /\ UNCHANGED <<registry, issued, calls, effects>>
  BY DEF Stage, Evaluate
<1>5. DecisionSound(D(permitted)) /\ SentinelTypeOK' /\ PermitsCounted'
  BY <1>3, <1>4, DecideSound
<1>6. D(permitted) \in Decision
  BY <1>3 DEF Decision
<1>7. CASE Raise(p) /\ (StoreDecision(D(permitted)) \/ UNCHANGED storeVars)
  BY <1>1, <1>4, <1>5, <1>6, <1>7, DecisionRaises
<1>8. CASE StoreDecision(D(permitted)) /\ permitted /\ Goto(p, [c EXCEPT !.pc = next])
  <2>1. [c EXCEPT !.pc = next] \in CallInProgress
    BY <1>2 DEF CallInProgress, Steps
  <2>2. /\ call' \in [Processes -> Call] /\ \A q \in Processes \ {p} : call'[q] = call[q]
        /\ call'[p] = [c EXCEPT !.pc = next]
    BY <1>8, <2>1, GotoGoes DEF GovernanceInv, Call
  <2>3. /\ call'[p].kind = "patch" /\ call'[p].pc = next /\ call'[p].pc \in {"commit", "trace"}
        /\ call'[p].root = c.root /\ call'[p].token = c.token /\ call'[p].action = c.action
        /\ call'[p].decision = c.decision
    BY <1>1, <1>2, <2>2 DEF CallInProgress
  <2>4. decisions' = decisions \cup {D(TRUE)} /\ tokens' = tokens
    BY <1>8 DEF StoreDecision
  <2>5. RootOk(p, call[p])' /\ ~Unregistered(call'[p])
    BY <2>3 DEF RootOk, Unregistered
  <2>6. WarrantOk(call[p])'
    BY <1>1, <1>2, <2>3, <2>4 DEF WarrantOk
  <2>7. RecordOk(call[p])'
    BY <1>1, <1>2, <2>3, <2>4 DEF RecordOk, Permit
  <2> QED  BY <1>4, <1>5, <1>6, <1>8, <2>2, <2>5, <2>6, <2>7, DecisionKeeps DEF CallOk
<1> QED  BY <1>4, <1>7, <1>8

LEMMA CommitKeeps ==
  ASSUME GovernanceInv, NEW p \in Processes, Commit(p)
  PROVE  GovernanceInv'
<1> DEFINE c == call[p]
           a == CommitOf(c.root)
           D(permitted) == [action |-> a, token |-> c.token, permitted |-> permitted]
<1>1. c.kind = "patch" /\ c.pc = "commit" /\ c.kind \in Kinds
  BY DEF Commit, At, Kinds, Commands
<1>2. c \in CallInProgress /\ RootOk(p, c) /\ WarrantOk(c) /\ RecordOk(c)
  BY <1>1, CallFacts
<1>3. c.action \in Action /\ c.token \in Tokens /\ tokens[c.token] # None
  BY <1>1, AskedWithWarrant
<1>4. a \in Action
  <2>1. c.root \in Roots
    BY <1>1, <1>2, <1>3 DEF WarrantOk, Action
  <2> QED  BY <2>1, TrustStoreAssumption, GovernanceAssumption DEF CommitOf, Do, Action, Tiers
<1>5. PICK by \in {"opa", "python"}, permitted \in BOOLEAN :
        /\ Decide(p, a, c.token, by, permitted)
        /\ \/ /\ StoreDecision(D(permitted))
              /\ IF permitted THEN Goto(p, [c EXCEPT !.pc = "publish"]) ELSE Raise(p)
           \/ UNCHANGED storeVars /\ Raise(p)
        /\ UNCHANGED <<registry, issued, calls, effects>>
  BY DEF Commit, Evaluate
<1> HIDE DEF a
<1>6. DecisionSound(D(permitted)) /\ SentinelTypeOK' /\ PermitsCounted'
  BY <1>3, <1>4, <1>5, DecideSound
<1>7. D(permitted) \in Decision
  BY <1>3, <1>4 DEF Decision
<1>8. CASE Raise(p) /\ (StoreDecision(D(permitted)) \/ UNCHANGED storeVars)
  BY <1>1, <1>5, <1>6, <1>7, <1>8, DecisionRaises
<1>9. CASE StoreDecision(D(permitted)) /\ permitted /\ Goto(p, [c EXCEPT !.pc = "publish"])
  <2>1. [c EXCEPT !.pc = "publish"] \in CallInProgress
    BY <1>2 DEF CallInProgress, Steps
  <2>2. /\ call' \in [Processes -> Call] /\ \A q \in Processes \ {p} : call'[q] = call[q]
        /\ call'[p] = [c EXCEPT !.pc = "publish"]
    BY <1>9, <2>1, GotoGoes DEF GovernanceInv, Call
  <2>3. /\ call'[p].kind = "patch" /\ call'[p].pc = "publish"
        /\ call'[p].root = c.root /\ call'[p].token = c.token /\ call'[p].action = c.action
        /\ call'[p].decision = c.decision
    BY <1>1, <1>2, <2>2 DEF CallInProgress
  <2>4. decisions' = decisions \cup {D(TRUE)} /\ tokens' = tokens
    BY <1>9 DEF StoreDecision
  <2>5. RootOk(p, call[p])' /\ ~Unregistered(call'[p])
    BY <2>3 DEF RootOk, Unregistered
  <2>6. WarrantOk(call[p])'
    BY <1>1, <1>2, <2>3, <2>4 DEF WarrantOk
  <2>7. RecordOk(call[p])'
    BY <1>1, <1>2, <2>3, <2>4 DEF RecordOk, Permit, a
  <2> QED  BY <1>5, <1>6, <1>7, <1>9, <2>2, <2>5, <2>6, <2>7, DecisionKeeps DEF CallOk
<1> QED  BY <1>5, <1>8, <1>9

LEMMA EvaluateActionKeeps ==
  ASSUME GovernanceInv, NEW p \in Processes, EvaluateAction(p)
  PROVE  GovernanceInv'
<1> DEFINE c == call[p]
           D(permitted) == [action |-> c.action, token |-> c.token, permitted |-> permitted]
           then == CASE c.kind = "patch" -> "stage" [] c.kind = "dispatch" -> "act" [] OTHER -> "trace"
<1>1. c.kind \in Kinds \ {"prompt"} /\ c.pc = "evaluate"
  BY DEF EvaluateAction, At
<1>2. c \in CallInProgress /\ RootOk(p, c) /\ WarrantOk(c) /\ RecordOk(c)
  BY <1>1, CallFacts
<1>3. c.kind \in {"evaluate", "patch", "run", "dispatch"}
  BY <1>1, <1>2 DEF WarrantOk, RootOk, Kinds, Commands
<1>4. c.action \in Action /\ c.token \in Tokens /\ tokens[c.token] # None
  BY <1>1, <1>3, AskedWithWarrant
<1>5. PICK by \in {"opa", "python"}, permitted \in BOOLEAN :
        /\ Decide(p, c.action, c.token, by, permitted)
        /\ \/ /\ StoreDecision(D(permitted))
              /\ IF c.kind = "dispatch" /\ ~permitted THEN Return(p)
                 ELSE Goto(p, [c EXCEPT !.decision = D(permitted), !.pc = then])
           \/ UNCHANGED storeVars /\ Raise(p)
        /\ UNCHANGED <<registry, issued, calls, effects>>
  BY DEF EvaluateAction, Evaluate
<1>6. DecisionSound(D(permitted)) /\ SentinelTypeOK' /\ PermitsCounted'
  BY <1>4, <1>5, DecideSound
<1>7. D(permitted) \in Decision
  BY <1>4 DEF Decision
<1>8. CASE UNCHANGED storeVars /\ Raise(p)
  BY <1>1, <1>5, <1>6, <1>7, <1>8, DecisionRaises
<1>9. CASE StoreDecision(D(permitted)) /\ c.kind = "dispatch" /\ Return(p)
  BY <1>5, <1>6, <1>7, <1>9, ReturnGoes, DecisionKeeps DEF GovernanceInv
<1>10. CASE /\ StoreDecision(D(permitted)) /\ (c.kind = "dispatch" => permitted)
            /\ Goto(p, [c EXCEPT !.decision = D(permitted), !.pc = then])
  <2>1. then \in {"stage", "act", "trace"} /\ (then = "stage" => c.kind = "patch")
        /\ (then = "act" => c.kind = "dispatch") /\ (c.kind \in {"run", "evaluate"} => then = "trace")
    OBVIOUS
  <2> HIDE DEF then
  <2>2. [c EXCEPT !.decision = D(permitted), !.pc = then] \in CallInProgress
    BY <1>2, <1>7, <2>1 DEF CallInProgress, Steps
  <2>3. /\ call' \in [Processes -> Call] /\ \A q \in Processes \ {p} : call'[q] = call[q]
        /\ call'[p] = [c EXCEPT !.decision = D(permitted), !.pc = then]
    BY <1>10, <2>2, GotoGoes DEF GovernanceInv, Call
  <2>4. /\ call'[p].kind = c.kind /\ call'[p].pc = then
        /\ call'[p].root = c.root /\ call'[p].token = c.token /\ call'[p].action = c.action
        /\ call'[p].decision = D(permitted)
    BY <1>2, <2>3 DEF CallInProgress
  <2>5. decisions' = decisions \cup {D(permitted)} /\ tokens' = tokens
    BY <1>10 DEF StoreDecision
  <2>6. RootOk(p, call[p])' /\ ~Unregistered(call'[p])
    BY <1>2, <1>3, <2>1, <2>4 DEF RootOk, Unregistered
  <2>7. WarrantOk(call[p])'
    BY <1>1, <1>2, <1>3, <1>4, <2>1, <2>4, <2>5 DEF WarrantOk
  <2>8. RecordOk(call[p])'
    BY <1>1, <1>2, <1>3, <1>10, <2>1, <2>4, <2>5 DEF RecordOk, Permit
  <2> QED  BY <1>5, <1>6, <1>7, <1>10, <2>3, <2>6, <2>7, <2>8, DecisionKeeps DEF CallOk
<1> QED  BY <1>5, <1>8, <1>9, <1>10

\* The orchestrator's decision is kept in its call only: AuditSupported excepts its traces.
LEMMA EvaluatePromptKeeps ==
  ASSUME GovernanceInv, NEW p \in Processes, EvaluatePrompt(p)
  PROVE  GovernanceInv'
<1> DEFINE c == call[p]
           D(permitted) == [action |-> c.action, token |-> None, permitted |-> permitted]
<1>1. c.kind = "prompt" /\ c.pc = "evaluate" /\ c.kind \in Kinds
  BY DEF EvaluatePrompt, At, Kinds
<1>2. c \in CallInProgress /\ RootOk(p, c) /\ WarrantOk(c) /\ RecordOk(c)
  BY <1>1, CallFacts
<1>3. c.action \in Action
  BY <1>1, <1>2 DEF WarrantOk, CallInProgress
<1>4. PICK permitted \in BOOLEAN :
        /\ PythonDecides(p, c.action, None, permitted)
        /\ Goto(p, [c EXCEPT !.pc = "trace", !.decision = D(permitted)])
  BY DEF EvaluatePrompt
<1>5. UNCHANGED <<vaultVars, calls, effects>> /\ known' = known
  BY DEF EvaluatePrompt
<1>6. SentinelTypeOK' /\ PermitsCounted'
  BY <1>4, <1>5, EngineCounts
<1>7. [c EXCEPT !.pc = "trace", !.decision = D(permitted)] \in CallInProgress
  BY <1>2, <1>3 DEF CallInProgress, Steps, Decision
<1>8. /\ call' \in [Processes -> Call] /\ \A q \in Processes \ {p} : call'[q] = call[q]
      /\ call'[p] = [c EXCEPT !.pc = "trace", !.decision = D(permitted)]
  BY <1>4, <1>7, GotoGoes DEF GovernanceInv, Call
<1>9. /\ call'[p].kind = "prompt" /\ call'[p].pc = "trace" /\ call'[p].root = c.root
      /\ call'[p].token = c.token /\ call'[p].action = c.action
  BY <1>1, <1>2, <1>8 DEF CallInProgress
<1>10. CallOk(p, call[p])' /\ ~Unregistered(call'[p])
  BY <1>1, <1>2, <1>9 DEF CallOk, RootOk, WarrantOk, RecordOk, Unregistered
<1> QED  BY <1>5, <1>6, <1>8, <1>10, CallGoesOn

-----------------------------------------------------------------------------
LEMMA InferFailsKeeps ==
  ASSUME GovernanceInv, NEW p \in Processes, InferFails(p)
  PROVE  GovernanceInv'
<1> DEFINE c == call[p]
<1>1. c.kind = "run" /\ c.pc = "infer" /\ c.kind \in Kinds
  BY DEF InferFails, At, Kinds
<1>2. c \in CallInProgress /\ RootOk(p, c) /\ WarrantOk(c) /\ RecordOk(c)
  BY <1>1, CallFacts
<1>3. UNCHANGED <<vaultVars, calls, effects, sentinelVars>> /\ SentinelTypeOK' /\ PermitsCounted'
  BY EngineStays DEF InferFails
<1>4. CASE Raise(p)
  BY <1>1, <1>3, <1>4, RaiseKeeps
<1>5. CASE c.attempts + 1 < MaxAttempts /\ Goto(p, [c EXCEPT !.attempts = @ + 1])
  <2>1. [c EXCEPT !.attempts = @ + 1] \in CallInProgress
    BY <1>2, <1>5, GovernanceAssumption DEF CallInProgress
  <2>2. /\ call' \in [Processes -> Call] /\ \A q \in Processes \ {p} : call'[q] = call[q]
        /\ call'[p] = [c EXCEPT !.attempts = @ + 1]
    BY <1>5, <2>1, GotoGoes DEF GovernanceInv, Call
  <2>3. /\ call'[p].kind = "run" /\ call'[p].pc = "infer" /\ call'[p].root = c.root
        /\ call'[p].token = c.token /\ call'[p].action = c.action /\ call'[p].decision = c.decision
    BY <1>1, <1>2, <2>2 DEF CallInProgress
  <2>4. UNCHANGED <<clock, intentRoots, tokens, decisions, registry, issued, effects>>
    BY <1>3 DEF vaultVars, storeVars
  <2>5. RootOk(p, call[p])' /\ WarrantOk(call[p])' /\ RecordOk(call[p])' /\ ~Unregistered(call'[p])
    BY <1>1, <1>2, <2>3, <2>4 DEF RootOk, RootAtHand, WarrantOk, RecordOk, Unregistered
  <2> QED  BY <1>3, <2>2, <2>5, CallGoesOn DEF CallOk
<1> QED  BY <1>4, <1>5 DEF InferFails

\* What the model proposes becomes action and token; the root it needs is at hand.
LEMMA InferKeeps ==
  ASSUME GovernanceInv, NEW p \in Processes, NEW a \in Proposals, Infer(p, a)
  PROVE  GovernanceInv'
<1> DEFINE c == call[p]
           b == Parsed(c.root, a)
           d == [c EXCEPT !.pc = "mint", !.action = b, !.types = {b.type},
                          !.scope = b.scope, !.ceiling = b.tier]
<1>1. c.kind = "run" /\ c.pc = "infer" /\ c.kind \in Kinds
  BY DEF Infer, At, Kinds
<1>2. c \in CallInProgress /\ RootOk(p, c) /\ WarrantOk(c) /\ RecordOk(c)
  BY <1>1, CallFacts
<1>3. UNCHANGED <<vaultVars, calls, effects, sentinelVars>> /\ SentinelTypeOK' /\ PermitsCounted'
  BY EngineStays DEF Infer
<1>4. CASE Raise(p)
  BY <1>1, <1>3, <1>4, RaiseKeeps
<1>5. CASE Goto(p, d)
  <2>1. RootAtHand(p, c.root) /\ c.root \in Roots
    <3>1. RootAtHand(p, c.root)
      BY <1>1, <1>2 DEF RootOk
    <3> QED
      BY <3>1 DEF RootAtHand, GovernanceInv, RootsDrawn, GovernanceTypeOK, VaultTypeOK
  <2>2. b \in Action
    BY <2>1, GovernanceAssumption DEF Parsed, Do, Action, Tiers
  <2> HIDE DEF b
  <2>3. d \in CallInProgress
    BY <1>2, <2>2 DEF CallInProgress, Steps, Action
  <2>4. /\ call' \in [Processes -> Call] /\ \A q \in Processes \ {p} : call'[q] = call[q]
        /\ call'[p] = d
    BY <1>5, <2>3, GotoGoes DEF GovernanceInv, Call
  <2>5. /\ call'[p].kind = "run" /\ call'[p].pc = "mint" /\ call'[p].root = c.root
        /\ call'[p].action = b /\ call'[p].decision = c.decision
    BY <1>1, <1>2, <2>4 DEF CallInProgress
  <2>6. UNCHANGED <<clock, intentRoots, tokens, decisions, registry, issued, effects>>
    BY <1>3 DEF vaultVars, storeVars
  <2>7. RootOk(p, call[p])' /\ ~Unregistered(call'[p])
    BY <2>1, <2>5, <2>6 DEF RootOk, RootAtHand, Unregistered
  <2>8. WarrantOk(call[p])' /\ RecordOk(call[p])'
    BY <1>1, <1>2, <2>2, <2>5, <2>6, NoneIsNoRow DEF WarrantOk, RecordOk
  <2> QED  BY <1>3, <2>4, <2>7, <2>8, CallGoesOn DEF CallOk
<1> QED  BY <1>4, <1>5 DEF Infer

LEMMA MintFailsKeeps ==
  ASSUME GovernanceInv, NEW p \in Processes, MintFails(p)
  PROVE  GovernanceInv'
  BY EngineStays, RaiseKeeps DEF MintFails, At

LEMMA RecordOutcomeKeeps ==
  ASSUME GovernanceInv, NEW p \in Processes, RecordOutcome(p)
  PROVE  GovernanceInv'
  BY EngineStays, ReturnGoes, CallGoesOn DEF RecordOutcome, GovernanceInv

-----------------------------------------------------------------------------
\* The effect a call has was decided before: its permissions are stored and sound.
LEMMA ActKeeps ==
  ASSUME GovernanceInv, NEW p \in Processes, Act(p)
  PROVE  GovernanceInv'
<1> DEFINE c == call[p]
           then == IF c.kind = "patch" THEN "attest" ELSE "trace"
<1>0. PICK e : e = [kind |-> c.kind, action |-> c.action, token |-> c.token]
  OBVIOUS
<1>1. /\ (c.kind = "patch" /\ c.pc = "publish") \/ (c.kind = "dispatch" /\ c.pc = "act")
      /\ c.kind \in Kinds
  <2>1. At(p, {"patch"}, "publish") \/ At(p, {"dispatch"}, "act")
    BY DEF Act
  <2> QED  BY <2>1 DEF At, Kinds, Commands
<1>2. c \in CallInProgress /\ RootOk(p, c) /\ WarrantOk(c) /\ RecordOk(c)
  BY <1>1, CallFacts
<1>3. c.action \in Action /\ c.token \in Tokens /\ tokens[c.token] # None
  BY <1>1, <1>2 DEF WarrantOk, CallInProgress
<1>4. /\ effects' = effects \cup {e} /\ Goto(p, [c EXCEPT !.pc = then])
      /\ UNCHANGED <<vaultVars, calls, sentinelVars>>
  BY <1>0 DEF Act
<1>5. SentinelTypeOK' /\ PermitsCounted'
  BY <1>4, EngineStays
<1>6. /\ UNCHANGED <<clock, intentRoots, tokens, revoked, decisions, traces, provenance>>
      /\ UNCHANGED <<registry, issued>>
  BY <1>4 DEF vaultVars, storeVars
<1>7. [c EXCEPT !.pc = then] \in CallInProgress
  BY <1>2 DEF CallInProgress, Steps
<1>8. /\ call' \in [Processes -> Call] /\ \A q \in Processes \ {p} : call'[q] = call[q]
      /\ call'[p] = [c EXCEPT !.pc = then]
  BY <1>4, <1>7, GotoGoes DEF GovernanceInv, Call
<1>9. /\ call'[p].kind = c.kind /\ call'[p].pc = then /\ call'[p].root = c.root
      /\ call'[p].token = c.token /\ call'[p].action = c.action /\ call'[p].decision = c.decision
  BY <1>1, <1>2, <1>8 DEF CallInProgress
<1>10. e \in Effect
  BY <1>0, <1>1, <1>3 DEF Effect
<1>11. Authorised(e)
  <2> DEFINE k == c.token
  <2>1. Permit(c, c.action) \in decisions /\ (c.kind = "patch" => Permit(c, CommitOf(c.root)) \in decisions)
    BY <1>1, <1>2 DEF RecordOk
  <2>2. tokens[k] \in TokenRow /\ TokenRooted(tokens[k])
    BY <1>3 DEF GovernanceInv, GovernanceTypeOK, VaultTypeOK, TrustStoreTypeOK, TokensRooted
  <2>3. tokens[k].root = c.action.root /\ <<c.action.scope, tokens[k].scope>> \in TextPrefix
    <3>1. DecisionSound(Permit(c, c.action))
      BY <2>1 DEF GovernanceInv, DecisionsSound
    <3> QED  BY <3>1 DEF DecisionSound, Permit
  <2>4. c.kind = "patch" =>
          /\ <<Workspace, tokens[k].scope>> \in TextPrefix /\ tokens[k].ceiling >= 2
          /\ c.root = tokens[k].root
    <3> SUFFICES ASSUME c.kind = "patch"
                 PROVE  /\ <<Workspace, tokens[k].scope>> \in TextPrefix
                        /\ tokens[k].ceiling >= 2 /\ c.root = tokens[k].root
      OBVIOUS
    <3>1. DecisionSound(Permit(c, CommitOf(c.root)))
      BY <2>1 DEF GovernanceInv, DecisionsSound
    <3> QED  BY <3>1 DEF DecisionSound, Permit, CommitOf, Do
  <2>5. Permitted(c.action, k) /\ (c.kind = "patch" => Permitted(CommitOf(tokens[k].root), k))
    BY <2>1, <2>4 DEF Permitted, Permit
  <2> QED  BY <1>0, <1>3, <2>2, <2>3, <2>4, <2>5 DEF Authorised, TokenRooted
<1>12. /\ VaultTypeOK' /\ RootsDrawn' /\ (\A x \in effects : Authorised(x)') /\ DecisionsSound' /\ TokensRooted'
  <2>1. /\ \A x \in effects : Authorised(x)'
        /\ \A x \in decisions : DecisionSound(x)'
        /\ \A k \in Tokens : tokens[k] # None => TokenRooted(tokens[k])'
    BY <1>6, TablesGrow
  <2> QED
    BY <1>6, <2>1
    DEF GovernanceInv, GovernanceTypeOK, VaultTypeOK, TrustStoreTypeOK, RootsDrawn, DecisionsSound, TokensRooted
<1>13. EffectsAuthorised'
  <2>1. Authorised(e)'
    BY <1>6, <1>11 DEF Authorised, Permitted
  <2> QED  BY <1>4, <1>12, <2>1 DEF EffectsAuthorised
<1>14. AuditSupported' /\ GovernanceTypeOK'
  BY <1>4, <1>5, <1>6, <1>8, <1>10, <1>12 DEF GovernanceInv, AuditSupported, GovernanceTypeOK
<1>15. RootOk(p, call[p])' /\ ~Unregistered(call'[p])
  BY <1>1, <1>9 DEF RootOk, Unregistered
<1>16. WarrantOk(call[p])' /\ RecordOk(call[p])'
  BY <1>0, <1>1, <1>2, <1>3, <1>4, <1>6, <1>9 DEF WarrantOk, RecordOk
<1>17. \A q \in Processes \ {p} : Unregistered(call[q]) =>
         intentRoots[call[q].root] = None /\ call[q].root \notin DOMAIN registry[p]
  BY CallFacts DEF Unregistered, RootOk
<1>18. CallsOk' /\ RootsApart'
  BY <1>4, <1>6, <1>8, <1>15, <1>16, <1>17, OthersGoOn DEF CallOk
<1> QED  BY <1>5, <1>12, <1>13, <1>14, <1>18 DEF GovernanceInv

-----------------------------------------------------------------------------
\* A step that writes to the traces or to the provenance table only.
LEMMA LogsKeep ==
  ASSUME GovernanceInv, NEW p \in Processes,
         UNCHANGED <<clock, intentRoots, tokens, revoked, decisions>>,
         UNCHANGED <<registry, issued, calls, effects, sentinelVars>>,
         traces' \subseteq Trace, provenance' \subseteq Roots, AuditSupported',
         call' \in [Processes -> Call], \A q \in Processes \ {p} : call'[q] = call[q],
         CallOk(p, call[p])', ~Unregistered(call'[p])
  PROVE  GovernanceInv'
<1>1. SentinelTypeOK' /\ PermitsCounted'
  BY EngineStays
<1>2. GovernanceTypeOK'
  BY <1>1 DEF GovernanceInv, GovernanceTypeOK, VaultTypeOK, TrustStoreTypeOK
<1>3. /\ \A e \in effects : Authorised(e)'
      /\ \A c \in decisions : DecisionSound(c)'
      /\ \A k \in Tokens : tokens[k] # None => TokenRooted(tokens[k])'
  BY TablesGrow
<1>4. \A q \in Processes \ {p} : Unregistered(call[q]) =>
        intentRoots[call[q].root] = None /\ call[q].root \notin DOMAIN registry[p]
  BY CallFacts DEF Unregistered, RootOk
<1>5. CallsOk' /\ RootsApart'
  BY <1>4, OthersGoOn
<1>6. RootsDrawn'
  BY DEF GovernanceInv, RootsDrawn
<1> QED
  BY <1>1, <1>2, <1>3, <1>5, <1>6
  DEF GovernanceInv, TokensRooted, DecisionsSound, EffectsAuthorised

\* Provenance is written by a commit that was made.
LEMMA AttestProvenanceKeeps ==
  ASSUME GovernanceInv, NEW p \in Processes, AttestProvenance(p)
  PROVE  GovernanceInv'
<1> DEFINE c == call[p]
<1>1. c.kind = "patch" /\ c.pc = "attest" /\ c.kind \in Kinds
  BY DEF AttestProvenance, At, Kinds, Commands
<1>2. c \in CallInProgress /\ RootOk(p, c) /\ WarrantOk(c) /\ RecordOk(c)
  BY <1>1, CallFacts
<1>3. UNCHANGED <<registry, issued, calls, effects, sentinelVars>> /\ SentinelTypeOK' /\ PermitsCounted'
  BY EngineStays DEF AttestProvenance
<1>4. CASE UNCHANGED storeVars /\ Raise(p)
  BY <1>1, <1>3, <1>4, RaiseKeeps DEF vaultVars
<1>5. CASE StoreProvenance(c.root) /\ Goto(p, [c EXCEPT !.pc = "trace"])
  <2>1. [c EXCEPT !.pc = "trace"] \in CallInProgress
    BY <1>2 DEF CallInProgress, Steps
  <2>2. /\ call' \in [Processes -> Call] /\ \A q \in Processes \ {p} : call'[q] = call[q]
        /\ call'[p] = [c EXCEPT !.pc = "trace"]
    BY <1>5, <2>1, GotoGoes DEF GovernanceInv, Call
  <2>3. /\ call'[p].kind = "patch" /\ call'[p].pc = "trace" /\ call'[p].root = c.root
        /\ call'[p].token = c.token /\ call'[p].action = c.action /\ call'[p].decision = c.decision
    BY <1>1, <1>2, <2>2 DEF CallInProgress
  <2>4. /\ provenance' = provenance \cup {c.root}
        /\ UNCHANGED <<clock, intentRoots, tokens, revoked, decisions, traces>>
    BY <1>5 DEF StoreProvenance
  <2>5. c.root \in Roots
    BY <1>1, <1>2 DEF WarrantOk, CallInProgress, Action
  <2>6. AuditSupported' /\ traces' \subseteq Trace /\ provenance' \subseteq Roots
    <3>1. \E e \in effects : e.kind = "patch" /\ e.action.root = c.root
      BY <1>1, <1>2 DEF RecordOk
    <3> QED
      BY <1>3, <2>4, <2>5, <3>1
      DEF AuditSupported, GovernanceInv, GovernanceTypeOK, VaultTypeOK, TrustStoreTypeOK
  <2>7. RootOk(p, call[p])' /\ WarrantOk(call[p])' /\ RecordOk(call[p])' /\ ~Unregistered(call'[p])
    BY <1>1, <1>2, <1>3, <2>3, <2>4 DEF RootOk, WarrantOk, RecordOk, Unregistered
  <2> QED  BY <1>3, <2>2, <2>4, <2>6, <2>7, LogsKeep DEF CallOk
<1> QED  BY <1>4, <1>5 DEF AttestProvenance

\* A trace reports the decision its call has had stored.
LEMMA TraceCallKeeps ==
  ASSUME GovernanceInv, NEW p \in Processes, TraceCall(p)
  PROVE  GovernanceInv'
<1> DEFINE c == call[p]
           kind == IF c.kind = "evaluate" THEN "evaluation" ELSE c.kind
           t == [kind |-> kind, root |-> c.root, decision |-> c.decision]
<1>1. c.kind \in Kinds \ {"prompt"} /\ c.pc = "trace"
  BY DEF TraceCall, At
<1>2. c \in CallInProgress /\ RootOk(p, c) /\ WarrantOk(c) /\ RecordOk(c)
  BY <1>1, CallFacts
<1>3. UNCHANGED <<registry, issued, calls, effects, sentinelVars>> /\ SentinelTypeOK' /\ PermitsCounted'
  BY EngineStays DEF TraceCall, StoreTrace
<1>4. CASE UNCHANGED storeVars /\ Raise(p)
  BY <1>1, <1>3, <1>4, RaiseKeeps DEF vaultVars
<1>5. ASSUME StoreAuditTrace(t)
      PROVE  /\ UNCHANGED <<clock, intentRoots, tokens, revoked, decisions, provenance>>
             /\ AuditSupported' /\ traces' \subseteq Trace /\ provenance' \subseteq Roots
  <2>1. /\ traces' = traces \cup {t}
        /\ UNCHANGED <<clock, intentRoots, tokens, revoked, decisions, provenance>>
    BY <1>5 DEF StoreAuditTrace
  <2>2. t \in Trace
    BY <1>1, <1>2 DEF Trace, CallInProgress, RootOk, Kinds, Commands
  <2>3. t.decision # None => t.decision \in decisions
    BY <1>1, <1>2 DEF RecordOk
  <2> QED
    BY <1>3, <2>1, <2>2, <2>3
    DEF AuditSupported, GovernanceInv, GovernanceTypeOK, VaultTypeOK, TrustStoreTypeOK
<1>6. CASE StoreAuditTrace(t) /\ c.kind = "run" /\ Goto(p, [c EXCEPT !.pc = "outcome"])
  <2>1. [c EXCEPT !.pc = "outcome"] \in CallInProgress
    BY <1>2 DEF CallInProgress, Steps
  <2>2. /\ call' \in [Processes -> Call] /\ \A q \in Processes \ {p} : call'[q] = call[q]
        /\ call'[p] = [c EXCEPT !.pc = "outcome"]
    BY <1>6, <2>1, GotoGoes DEF GovernanceInv, Call
  <2>3. /\ call'[p].kind = "run" /\ call'[p].pc = "outcome" /\ call'[p].decision = c.decision
    BY <1>2, <1>6, <2>2 DEF CallInProgress
  <2>4. RootOk(p, call[p])' /\ WarrantOk(call[p])' /\ RecordOk(call[p])' /\ ~Unregistered(call'[p])
    BY <1>2, <1>5, <1>6, <2>3 DEF RootOk, WarrantOk, RecordOk, Unregistered
  <2> QED  BY <1>3, <1>5, <1>6, <2>2, <2>4, LogsKeep DEF CallOk
<1>7. CASE StoreAuditTrace(t) /\ Return(p)
  BY <1>3, <1>5, <1>7, ReturnGoes, LogsKeep DEF GovernanceInv
<1> QED
  <2>1. \/ StoreAuditTrace(t) /\ IF c.kind = "run" THEN Goto(p, [c EXCEPT !.pc = "outcome"]) ELSE Return(p)
        \/ UNCHANGED storeVars /\ Raise(p)
    BY DEF TraceCall, StoreTrace
  <2> QED  BY <1>4, <1>6, <1>7, <2>1

LEMMA TracePromptKeeps ==
  ASSUME GovernanceInv, NEW p \in Processes, TracePrompt(p)
  PROVE  GovernanceInv'
<1> DEFINE c == call[p]
           t == [kind |-> "prompt", root |-> c.root, decision |-> c.decision]
<1>1. c.kind = "prompt" /\ c.kind \in Kinds
  BY DEF TracePrompt, At, Kinds
<1>2. c \in CallInProgress
  BY <1>1, CallFacts
<1>3. UNCHANGED <<registry, issued, calls, effects, sentinelVars>> /\ SentinelTypeOK' /\ PermitsCounted'
  BY EngineStays DEF TracePrompt, StoreTrace
<1>4. CASE UNCHANGED storeVars /\ Raise(p)
  BY <1>1, <1>3, <1>4, RaiseKeeps DEF vaultVars
<1>5. CASE StoreAuditTrace(t) /\ Return(p)
  <2>1. /\ traces' = traces \cup {t}
        /\ UNCHANGED <<clock, intentRoots, tokens, revoked, decisions, provenance>>
    BY <1>5 DEF StoreAuditTrace
  <2>2. t \in Trace
    BY <1>2 DEF Trace, CallInProgress
  <2>3. AuditSupported' /\ traces' \subseteq Trace /\ provenance' \subseteq Roots
    BY <1>3, <2>1, <2>2
    DEF AuditSupported, GovernanceInv, GovernanceTypeOK, VaultTypeOK, TrustStoreTypeOK
  <2> QED  BY <1>3, <1>5, <2>1, <2>3, ReturnGoes, LogsKeep DEF GovernanceInv
<1> QED  BY <1>4, <1>5 DEF TracePrompt, StoreTrace

-----------------------------------------------------------------------------
\* A token is minted only in the call that has registered its root; a hook's root is in
\* nobody's registry.
LEMMA MintTokenKeeps ==
  ASSUME GovernanceInv, NEW p \in Processes, MintToken(p)
  PROVE  GovernanceInv'
<1> DEFINE c == call[p]
           then == IF c.kind = "mint" THEN "trace" ELSE "evaluate"
<1>1. c.kind \in Kinds /\ c.pc = "mint"
  BY DEF MintToken, At
<1>2. c \in CallInProgress /\ RootOk(p, c) /\ WarrantOk(c) /\ RecordOk(c)
  BY <1>1, CallFacts
<1>0. PICK row : row = TokenAskedFor(c)
  OBVIOUS
<1>3. PICK k \in Tokens : Mint(p, k, row) /\ Goto(p, [c EXCEPT !.token = k, !.pc = then])
  BY <1>0 DEF MintToken
<1>4. UNCHANGED <<calls, effects, sentinelVars>> /\ SentinelTypeOK' /\ PermitsCounted'
  BY EngineStays DEF MintToken
<1>5. /\ row.root = c.root /\ row.scope = c.scope /\ row.issued = clock
      /\ row = [root |-> c.root, scope |-> c.scope, types |-> c.types, ceiling |-> c.ceiling,
                issued |-> clock]
  BY <1>0 DEF TokenAskedFor
<1>6. /\ c.root \in DOMAIN registry[p] /\ <<c.scope, registry[p][c.root].scope>> \in Within
      /\ tokens[k] = None /\ tokens' = [tokens EXCEPT ![k] = row]
      /\ UNCHANGED <<clock, intentRoots, revoked, decisions, traces, provenance>>
      /\ UNCHANGED <<registry, issued>>
  BY <1>3, <1>5 DEF Mint, MayMint, StoreCapabilityToken
<1>7. c.kind \in {"mint", "run", "dispatch"} /\ RootAtHand(p, c.root)
  BY <1>1, <1>2, <1>6 DEF RootOk, Unregistered
<1>8. c.root \in Roots
  BY <1>6 DEF GovernanceInv, RootsDrawn, GovernanceTypeOK, VaultTypeOK
<1>9. row \in TokenRow /\ row # None
  <2>1. row \in TokenRow
    BY <1>2, <1>5, <1>8
    DEF TokenRow, CallInProgress, GovernanceInv, GovernanceTypeOK, VaultTypeOK, TrustStoreTypeOK
  <2> QED  BY <2>1, NoneIsNoRow
<1>10. tokens'[k] = row /\ \A x \in Tokens : x # k => tokens'[x] = tokens[x]
  BY <1>6 DEF GovernanceInv, GovernanceTypeOK, VaultTypeOK, TrustStoreTypeOK
<1>11. /\ \A e \in effects : Authorised(e)'
       /\ \A d \in decisions : DecisionSound(d)'
       /\ \A x \in Tokens : tokens[x] # None => TokenRooted(tokens[x])'
  BY <1>6, <1>10, TablesGrow
<1>12. TokensRooted'
  <2>1. TokenRooted(tokens[k])'
    BY <1>5, <1>6, <1>7, <1>10 DEF TokenRooted, RootAtHand
  <2> QED  BY <1>10, <1>11, <2>1 DEF TokensRooted
<1>13. [c EXCEPT !.token = k, !.pc = then] \in CallInProgress
  BY <1>2 DEF CallInProgress, Steps
<1>14. /\ call' \in [Processes -> Call] /\ \A q \in Processes \ {p} : call'[q] = call[q]
       /\ call'[p] = [c EXCEPT !.token = k, !.pc = then]
  BY <1>3, <1>13, GotoGoes DEF GovernanceInv, Call
<1>15. /\ call'[p].kind = c.kind /\ call'[p].pc = then /\ call'[p].root = c.root
       /\ call'[p].token = k /\ call'[p].action = c.action /\ call'[p].decision = c.decision
  BY <1>2, <1>14 DEF CallInProgress
<1>16. GovernanceTypeOK'
  BY <1>4, <1>6, <1>9, <1>14 DEF GovernanceInv, GovernanceTypeOK, VaultTypeOK, TrustStoreTypeOK
<1>17. RootOk(p, call[p])' /\ ~Unregistered(call'[p])
  BY <1>7, <1>15 DEF RootOk, Unregistered
<1>18. WarrantOk(call[p])' /\ RecordOk(call[p])'
  BY <1>1, <1>2, <1>6, <1>7, <1>9, <1>10, <1>15, NoneIsNoRow DEF WarrantOk, RecordOk
<1>19. \A q \in Processes \ {p} : Unregistered(call[q]) =>
         intentRoots[call[q].root] = None /\ call[q].root \notin DOMAIN registry[p]
  BY CallFacts DEF Unregistered, RootOk
<1>20. CallsOk' /\ RootsApart'
  BY <1>4, <1>6, <1>10, <1>14, <1>17, <1>18, <1>19, OthersGoOn DEF CallOk
<1>21. RootsDrawn' /\ AuditSupported'
  BY <1>4, <1>6 DEF GovernanceInv, RootsDrawn, AuditSupported
<1> QED
  BY <1>4, <1>6, <1>11, <1>12, <1>16, <1>20, <1>21
  DEF GovernanceInv, DecisionsSound, EffectsAuthorised

\* A root is registered once, by the call that drew it.
LEMMA RegisterKeeps ==
  ASSUME GovernanceInv, NEW p \in Processes, Register(p)
  PROVE  GovernanceInv'
<1> DEFINE c == call[p]
<1>1. c.kind \in Kinds /\ c.pc = "register" /\ Unregistered(c)
  BY DEF Register, At, Unregistered
<1>2. c \in CallInProgress /\ RootOk(p, c) /\ WarrantOk(c) /\ RecordOk(c)
  BY <1>1, CallFacts
<1>3. UNCHANGED <<calls, effects, sentinelVars>> /\ SentinelTypeOK' /\ PermitsCounted'
  BY EngineStays DEF Register
<1>4. PICK row : row = [scope |-> c.scope, issued |-> clock]
  OBVIOUS
<1>5. /\ c.kind \in {"mint", "run", "dispatch", "prompt"} /\ c.root \in issued
      /\ intentRoots[c.root] = None /\ \A q \in Processes : c.root \notin DOMAIN registry[q]
  BY <1>1, <1>2 DEF RootOk
<1>6. row \in RootRow /\ c.root \in Roots /\ row # None
  <2>1. row \in RootRow /\ c.root \in Roots
    BY <1>2, <1>4, <1>5
    DEF RootRow, CallInProgress, GovernanceInv, GovernanceTypeOK, VaultTypeOK, TrustStoreTypeOK
  <2> QED  BY <2>1, NoneIsNoRow
<1>7. Remember(p, c.root, row) /\ issued' = issued
  BY <1>4 DEF Register, RegisterRoot, RegisterRootFails
<1>8. /\ registry' \in [Processes -> Registry] /\ DOMAIN registry'[p] = DOMAIN registry[p] \cup {c.root}
      /\ registry'[p][c.root] = row
      /\ \A q \in Processes \ {p} : registry'[q] = registry[q]
  BY <1>6, <1>7, RememberTyped DEF Remember, GovernanceInv, GovernanceTypeOK, VaultTypeOK
<1>9. RootsDrawn => \A q \in Processes : DOMAIN registry'[q] \subseteq issued'
  BY <1>5, <1>7, <1>8 DEF RootsDrawn
<1>10. \A q \in Processes \ {p} : Unregistered(call[q]) =>
         /\ call[q].root # c.root /\ intentRoots[call[q].root] = None
         /\ call[q].root \notin DOMAIN registry'[p]
  <2> SUFFICES ASSUME NEW q \in Processes \ {p}, Unregistered(call[q])
               PROVE  /\ call[q].root # c.root /\ intentRoots[call[q].root] = None
                      /\ call[q].root \notin DOMAIN registry'[p]
    OBVIOUS
  <2>1. RootOk(q, call[q])
    BY CallFacts DEF Unregistered
  <2>2. call[q].root # c.root
    BY <1>1 DEF GovernanceInv, RootsApart
  <2> QED  BY <1>8, <2>1, <2>2 DEF RootOk
<1>11. CASE UNCHANGED storeVars /\ Raise(p)
  <2>1. UNCHANGED <<clock, intentRoots, tokens, revoked, decisions, traces, provenance>>
    BY <1>11 DEF storeVars
  <2>2. /\ call' \in [Processes -> Call] /\ \A q \in Processes \ {p} : call'[q] = call[q]
        /\ CallOk(p, call[p])' /\ ~Unregistered(call'[p])
    BY <1>1, <1>11, <2>1, RaiseGoes
  <2>3. /\ \A e \in effects : Authorised(e)'
        /\ \A d \in decisions : DecisionSound(d)'
        /\ \A x \in Tokens : tokens[x] # None => TokenRooted(tokens[x])'
    BY <2>1, TablesGrow
  <2>4. GovernanceTypeOK'
    BY <1>3, <1>7, <1>8, <2>1, <2>2 DEF GovernanceInv, GovernanceTypeOK, VaultTypeOK, TrustStoreTypeOK
  <2>5. CallsOk' /\ RootsApart'
    BY <1>3, <1>7, <1>8, <1>10, <2>1, <2>2, OthersGoOn
  <2>6. RootsDrawn' /\ AuditSupported'
    BY <1>3, <1>7, <1>9, <2>1 DEF GovernanceInv, RootsDrawn, AuditSupported
  <2> QED
    BY <1>3, <2>1, <2>3, <2>4, <2>5, <2>6
    DEF GovernanceInv, DecisionsSound, EffectsAuthorised, TokensRooted
<1>12. CASE StoreIntentRoot(c.root, row) /\ Goto(p, [c EXCEPT !.pc = "admit"])
  <2>1. /\ intentRoots' = [intentRoots EXCEPT ![c.root] = row]
        /\ UNCHANGED <<clock, tokens, revoked, decisions, traces, provenance>>
    BY <1>12 DEF StoreIntentRoot
  <2>2. intentRoots'[c.root] = row /\ \A r \in Roots : r # c.root => intentRoots'[r] = intentRoots[r]
    BY <1>6, <2>1 DEF GovernanceInv, GovernanceTypeOK, VaultTypeOK, TrustStoreTypeOK
  <2>3. /\ \A e \in effects : Authorised(e)'
        /\ \A d \in decisions : DecisionSound(d)'
        /\ \A x \in Tokens : tokens[x] # None => TokenRooted(tokens[x])'
    BY <1>5, <2>1, <2>2, TablesGrow
  <2>4. [c EXCEPT !.pc = "admit"] \in CallInProgress
    BY <1>2 DEF CallInProgress, Steps
  <2>5. /\ call' \in [Processes -> Call] /\ \A q \in Processes \ {p} : call'[q] = call[q]
        /\ call'[p] = [c EXCEPT !.pc = "admit"]
    BY <1>12, <2>4, GotoGoes DEF GovernanceInv, Call
  <2>6. /\ call'[p].kind = c.kind /\ call'[p].pc = "admit" /\ call'[p].root = c.root
        /\ call'[p].token = c.token /\ call'[p].action = c.action /\ call'[p].decision = c.decision
    BY <1>2, <2>5 DEF CallInProgress
  <2>7. GovernanceTypeOK'
    BY <1>3, <1>6, <1>7, <1>8, <2>1, <2>5 DEF GovernanceInv, GovernanceTypeOK, VaultTypeOK, TrustStoreTypeOK
  <2>8. RootOk(p, call[p])' /\ ~Unregistered(call'[p])
    BY <1>4, <1>5, <1>6, <1>8, <2>1, <2>2, <2>6 DEF RootOk, RootAtHand, Unregistered
  <2>9. WarrantOk(call[p])' /\ RecordOk(call[p])'
    BY <1>1, <1>2, <1>5, <2>1, <2>6 DEF WarrantOk, RecordOk
  <2>10. \A q \in Processes \ {p} : Unregistered(call[q]) => intentRoots'[call[q].root] = None
    <3> SUFFICES ASSUME NEW q \in Processes \ {p}, Unregistered(call[q])
                 PROVE  intentRoots'[call[q].root] = None
      OBVIOUS
    <3>1. call[q].root \in issued
      BY CallFacts DEF Unregistered, RootOk
    <3> QED  BY <1>10, <2>2, <3>1 DEF GovernanceInv, GovernanceTypeOK, VaultTypeOK
  <2>11. CallsOk' /\ RootsApart'
    BY <1>3, <1>5, <1>7, <1>8, <1>10, <2>1, <2>2, <2>5, <2>8, <2>9, <2>10, OthersGoOn DEF CallOk
  <2>12. RootsDrawn' /\ AuditSupported'
    BY <1>3, <1>5, <1>7, <1>9, <2>1, <2>2 DEF GovernanceInv, RootsDrawn, AuditSupported
  <2> QED
    BY <1>3, <2>1, <2>3, <2>7, <2>11, <2>12
    DEF GovernanceInv, DecisionsSound, EffectsAuthorised, TokensRooted
<1> QED  BY <1>4, <1>11, <1>12 DEF Register, RegisterRoot, RegisterRootFails

\* The engine learns the root of the call; its own copy only serves its decisions.
LEMMA AdmitRootKeeps ==
  ASSUME GovernanceInv, NEW p \in Processes, AdmitRoot(p)
  PROVE  GovernanceInv'
<1> DEFINE c == call[p]
           then == CASE c.kind \in {"mint", "dispatch"} -> "mint"
                     [] c.kind = "run" -> "infer" [] OTHER -> "evaluate"
<1>1. c.kind \in Kinds /\ c.pc = "admit"
  BY DEF AdmitRoot, At
<1>2. c \in CallInProgress /\ RootOk(p, c) /\ WarrantOk(c) /\ RecordOk(c)
  BY <1>1, CallFacts
<1>3. /\ UNCHANGED <<vaultVars, calls, effects>>
      /\ UNCHANGED <<clock, intentRoots, tokens, decisions, registry, issued>>
  BY DEF AdmitRoot, vaultVars, storeVars
<1>4. c.root \in Roots /\ intentRoots[c.root] \in RootRow
  BY <1>1, <1>2 DEF RootOk, GovernanceInv, GovernanceTypeOK, VaultTypeOK, TrustStoreTypeOK
<1>5. SentinelTypeOK' /\ PermitsCounted'
  <2>1. known[p] \in Registry /\ known \in [Processes -> Registry]
    BY DEF GovernanceInv, GovernanceTypeOK, SentinelTypeOK
  <2>2. PICK f \in Registry : known' = [known EXCEPT ![p] = f]
    BY <1>4, <2>1, RememberTyped DEF AdmitRoot, Admit
  <2>3. UNCHANGED <<dispatches, turnPermits>>
    BY DEF AdmitRoot, Admit
  <2> QED  BY <2>1, <2>2, <2>3 DEF GovernanceInv, GovernanceTypeOK, SentinelTypeOK, PermitsCounted
<1>6. CASE Raise(p)
  BY <1>1, <1>3, <1>5, <1>6, RaiseKeeps
<1>7. CASE Goto(p, [c EXCEPT !.pc = then])
  <2>1. /\ then \in {"mint", "infer", "evaluate"} /\ (then = "mint" => c.kind \in {"mint", "dispatch"})
        /\ (then = "infer" <=> c.kind = "run") /\ (c.kind \in {"mint", "dispatch"} => then = "mint")
    OBVIOUS
  <2> HIDE DEF then
  <2>2. [c EXCEPT !.pc = then] \in CallInProgress
    BY <1>2, <2>1 DEF CallInProgress, Steps
  <2>3. /\ call' \in [Processes -> Call] /\ \A q \in Processes \ {p} : call'[q] = call[q]
        /\ call'[p] = [c EXCEPT !.pc = then]
    BY <1>7, <2>2, GotoGoes DEF GovernanceInv, Call
  <2>4. /\ call'[p].kind = c.kind /\ call'[p].pc = then /\ call'[p].root = c.root
        /\ call'[p].token = c.token /\ call'[p].action = c.action /\ call'[p].decision = c.decision
    BY <1>2, <2>3 DEF CallInProgress
  <2>5. RootOk(p, call[p])' /\ ~Unregistered(call'[p])
    BY <1>1, <1>2, <1>3, <2>1, <2>4 DEF RootOk, RootAtHand, Unregistered
  <2>6. WarrantOk(call[p])' /\ RecordOk(call[p])'
    BY <1>1, <1>2, <1>3, <2>1, <2>4 DEF WarrantOk, RecordOk
  <2> QED  BY <1>3, <1>5, <2>3, <2>5, <2>6, CallGoesOn DEF CallOk
<1> QED  BY <1>6, <1>7 DEF AdmitRoot

LEMMA StepKeeps ==
  ASSUME GovernanceInv, NEW p \in Processes, Step(p)
  PROVE  GovernanceInv'
  BY RegisterKeeps, AdmitRootKeeps, InferFailsKeeps, InferKeeps, MintTokenKeeps, MintFailsKeeps,
     EvaluateActionKeeps, EvaluatePromptKeeps, StageKeeps, CommitKeeps, ActKeeps,
     AttestProvenanceKeeps, TraceCallKeeps, TracePromptKeeps, RecordOutcomeKeeps
  DEF Step

-----------------------------------------------------------------------------
\* A new call is put on record; the tables stay as they are.
LEMMA BeginKeeps ==
  ASSUME GovernanceInv, NEW p \in Processes, NEW c \in CallInProgress, Begin(p, c),
         issued \subseteq issued', issued' \subseteq Roots, SentinelTypeOK', PermitsCounted',
         CallOk(p, call[p])',
         Unregistered(c) =>
           \A q \in Processes : Unregistered(call[q]) => call[q].root # c.root
  PROVE  GovernanceInv'
<1>1. /\ call' = [call EXCEPT ![p] = c] /\ calls < MaxCalls /\ calls' = calls + 1
      /\ UNCHANGED <<clock, intentRoots, tokens, revoked, decisions, traces, provenance>>
      /\ UNCHANGED <<registry, effects>>
  BY DEF Begin, storeVars
<1>2. /\ call' \in [Processes -> Call] /\ call'[p] = c
      /\ \A q \in Processes \ {p} : call'[q] = call[q]
  BY <1>1 DEF GovernanceInv, GovernanceTypeOK, Call
<1>3. GovernanceTypeOK'
  BY <1>1, <1>2, GovernanceAssumption
  DEF GovernanceInv, GovernanceTypeOK, VaultTypeOK, TrustStoreTypeOK
<1>4. /\ \A e \in effects : Authorised(e)'
      /\ \A d \in decisions : DecisionSound(d)'
      /\ \A k \in Tokens : tokens[k] # None => TokenRooted(tokens[k])'
  BY <1>1, TablesGrow
<1>5. \A q \in Processes \ {p} : Unregistered(call[q]) =>
        intentRoots[call[q].root] = None /\ call[q].root \notin DOMAIN registry[p]
  BY CallFacts DEF Unregistered, RootOk
<1>6. CallsOk' /\ RootsApart'
  BY <1>1, <1>2, <1>5, OthersGoOn
<1>7. RootsDrawn' /\ AuditSupported'
  BY <1>1 DEF GovernanceInv, RootsDrawn, AuditSupported
<1> QED
  BY <1>1, <1>3, <1>4, <1>6, <1>7
  DEF GovernanceInv, DecisionsSound, EffectsAuthorised, TokensRooted

\* A root that has just been drawn is in no table, no registry and no other call.
LEMMA FreshRoot ==
  ASSUME GovernanceInv, NEW r \in Roots \ issued
  PROVE  /\ intentRoots[r] = None /\ \A q \in Processes : r \notin DOMAIN registry[q]
         /\ \A q \in Processes : Unregistered(call[q]) => call[q].root # r
<1>1. \A q \in Processes : Unregistered(call[q]) => call[q].root \in issued
  BY CallFacts DEF Unregistered, RootOk
<1> QED  BY <1>1 DEF GovernanceInv, RootsDrawn

\* A call that draws a root and has yet to register it, or, for a hook, to do without.
LEMMA DrawKeeps ==
  ASSUME GovernanceInv, NEW p \in Processes, NEW r \in Roots \ issued, NEW c \in CallInProgress,
         Begin(p, c), issued' = issued \cup {r}, SentinelTypeOK', PermitsCounted', c.root = r,
         \/ c.kind \in {"mint", "run", "dispatch", "prompt"} /\ c.pc = "register"
         \/ c.kind = "hook" /\ c.pc = "mint",
         c.kind \in {"dispatch", "prompt"} => c.action # None, c.decision = None
  PROVE  GovernanceInv'
<1>1. call'[p] = c /\ UNCHANGED <<storeVars, registry>>
  BY DEF Begin, GovernanceInv, GovernanceTypeOK
<1>2. issued' \subseteq Roots
  BY DEF GovernanceInv, GovernanceTypeOK, VaultTypeOK
<1>3. CallOk(p, call[p])'
  <2>1. RootOk(p, call[p])'
    BY <1>1, FreshRoot DEF RootOk, Unregistered, storeVars
  <2>2. WarrantOk(call[p])' /\ RecordOk(call[p])'
    BY <1>1 DEF WarrantOk, RecordOk
  <2> QED  BY <2>1, <2>2 DEF CallOk
<1> QED  BY <1>2, <1>3, FreshRoot, BeginKeeps

\* What a call looks like that has drawn its root r.
Drawn(kind, pc, r, scope, a, types, ceiling) ==
  [kind |-> kind, pc |-> pc, root |-> r, token |-> None, scope |-> scope,
   action |-> a, types |-> types, ceiling |-> ceiling, attempts |-> 0, decision |-> None]

LEMMA DrawnKeeps ==
  ASSUME GovernanceInv, NEW p \in Processes, NEW kind, NEW pc, NEW scope \in Scopes,
         NEW a \in Action \cup {None}, NEW types \in SUBSET Types, NEW ceiling \in Tiers,
         NEW r \in Roots \ issued, Begin(p, Drawn(kind, pc, r, scope, a, types, ceiling)),
         issued' = issued \cup {r}, SentinelTypeOK', PermitsCounted',
         \/ kind \in {"mint", "run", "dispatch", "prompt"} /\ pc = "register"
         \/ kind = "hook" /\ pc = "mint",
         kind \in {"dispatch", "prompt"} => a \in Action
  PROVE  GovernanceInv'
<1>1. Drawn(kind, pc, r, scope, a, types, ceiling) \in CallInProgress
  BY GovernanceAssumption DEF Drawn, CallInProgress, Kinds, Commands, Steps
<1> QED  BY <1>1, DrawKeeps, NoneIsNoRow DEF Drawn

Asking(c, types, ceiling) == [c EXCEPT !.types = types, !.ceiling = ceiling]
AskingFor(c, types, ceiling, a) ==
  [c EXCEPT !.types = types, !.ceiling = ceiling, !.action = a]

LEMMA AskedFields ==
  ASSUME NEW kind, NEW pc, NEW r, NEW scope, NEW types, NEW ceiling, NEW a
  PROVE  /\ Asking(Blank(kind, pc, r, scope), types, ceiling)
              = Drawn(kind, pc, r, scope, None, types, ceiling)
         /\ AskingFor(Blank(kind, pc, r, scope), types, ceiling, a)
              = Drawn(kind, pc, r, scope, a, types, ceiling)
<1>1. PICK b, c, d :
        /\ b = Blank(kind, pc, r, scope)
        /\ c = [b EXCEPT !.types = types] /\ d = [c EXCEPT !.ceiling = ceiling]
  OBVIOUS
<1>2. c = Drawn(kind, pc, r, scope, None, types, 0)
  BY <1>1 DEF Blank, Drawn
<1>3. d = Drawn(kind, pc, r, scope, None, types, ceiling)
  <2>1. [c EXCEPT !.ceiling = ceiling] = Drawn(kind, pc, r, scope, None, types, ceiling)
    BY <1>2 DEF Drawn
  <2> QED  BY <1>1, <2>1
<1>4. [d EXCEPT !.action = a] = Drawn(kind, pc, r, scope, a, types, ceiling)
  BY <1>3 DEF Drawn
<1>5. [b EXCEPT !.types = types, !.ceiling = ceiling] = d
  BY <1>1
<1>6. [b EXCEPT !.types = types, !.ceiling = ceiling, !.action = a] = [d EXCEPT !.action = a]
  BY <1>1
<1> QED  BY <1>1, <1>3, <1>4, <1>5, <1>6 DEF Asking, AskingFor

LEMMA ARootIsLeft ==
  ASSUME GovernanceInv, Roots # issued
  PROVE  (CHOOSE r \in Roots \ issued : TRUE) \in Roots \ issued
<1>1. \E r \in Roots \ issued : TRUE
  BY DEF GovernanceInv, GovernanceTypeOK, VaultTypeOK
<1> QED  BY <1>1

LEMMA DoTyped ==
  ASSUME NEW r \in Roots, NEW type \in Types, NEW scope \in Scopes, NEW tier \in Tiers
  PROVE  Do(r, type, scope, tier) \in Action
  BY DEF Do, Action

LEMMA MintCommandKeeps ==
  ASSUME GovernanceInv, NEW p \in Processes, NEW m \in MintRequests, MintCommand(p, m)
  PROVE  GovernanceInv'
<1> DEFINE Asked(r) == Asking(Blank("mint", "register", r, m.scope), m.types, m.ceiling)
           r == CHOOSE r \in Roots \ issued : TRUE
<1>1. Roots # issued /\ issued' = issued \cup {r} /\ Begin(p, Asked(r))
  BY DEF MintCommand, BeginWithRoot, Asking
<1>2. r \in Roots \ issued
  BY <1>1, ARootIsLeft
<1> HIDE DEF r
<1>3. Asked(r) = Drawn("mint", "register", r, m.scope, None, m.types, m.ceiling)
  BY AskedFields
<1> HIDE DEF Asked
<1>4. SentinelTypeOK' /\ PermitsCounted'
  BY EngineStays DEF MintCommand
<1>5. Begin(p, Drawn("mint", "register", r, m.scope, None, m.types, m.ceiling))
  BY <1>1, <1>3
<1>6. m.scope \in Scopes /\ m.types \in SUBSET Types /\ m.ceiling \in Tiers
  BY TrustStoreAssumption, GovernanceAssumption DEF Tiers
<1> QED
  BY <1>1, <1>2, <1>4, <1>5, <1>6, DrawnKeeps

LEMMA RunCommandKeeps ==
  ASSUME GovernanceInv, NEW p \in Processes, NEW scope \in Scopes, RunCommand(p, scope)
  PROVE  GovernanceInv'
<1> DEFINE Asked(r) == Blank("run", "register", r, scope)
           r == CHOOSE r \in Roots \ issued : TRUE
<1>1. Roots # issued /\ issued' = issued \cup {r} /\ Begin(p, Asked(r))
  BY DEF RunCommand, BeginWithRoot
<1>2. r \in Roots \ issued
  BY <1>1, ARootIsLeft
<1> HIDE DEF r
<1>3. Asked(r) = Drawn("run", "register", r, scope, None, {}, 0)
  BY DEF Blank, Drawn
<1> HIDE DEF Asked
<1>4. SentinelTypeOK' /\ PermitsCounted'
  BY EngineStays DEF RunCommand
<1>5. Begin(p, Drawn("run", "register", r, scope, None, {}, 0))
  BY <1>1, <1>3
<1>6. {} \in SUBSET Types /\ 0 \in Tiers /\ None \in Action \cup {None}
  BY DEF Tiers
<1> QED
  BY <1>1, <1>2, <1>4, <1>5, <1>6, DrawnKeeps

LEMMA DispatchToolKeeps ==
  ASSUME GovernanceInv, NEW p \in Processes, NEW type \in ToolTypes, DispatchTool(p, type)
  PROVE  GovernanceInv'
<1> DEFINE Asked(r) == AskingFor(Blank("dispatch", "register", r, Workspace), {type}, 1,
                               Do(r, type, Workspace, 1))
           r == CHOOSE r \in Roots \ issued : TRUE
<1>1. Roots # issued /\ issued' = issued \cup {r} /\ Begin(p, Asked(r))
  BY DEF DispatchTool, BeginWithRoot, AskingFor
<1>2. r \in Roots \ issued
  BY <1>1, ARootIsLeft
<1> HIDE DEF r
<1>3. Asked(r) = Drawn("dispatch", "register", r, Workspace, Do(r, type, Workspace, 1), {type}, 1)
  BY AskedFields
<1> HIDE DEF Asked
<1>4. SentinelTypeOK' /\ PermitsCounted'
  BY EngineStays DEF DispatchTool
<1>5. Do(r, type, Workspace, 1) \in Action
  BY <1>2, DoTyped, TrustStoreAssumption, GovernanceAssumption DEF Tiers
<1>6. Begin(p, Drawn("dispatch", "register", r, Workspace, Do(r, type, Workspace, 1), {type}, 1))
  BY <1>1, <1>3
<1>7. Workspace \in Scopes /\ {type} \in SUBSET Types /\ 1 \in Tiers
  BY TrustStoreAssumption, GovernanceAssumption DEF Tiers
<1> QED
  BY <1>1, <1>2, <1>4, <1>5, <1>6, <1>7, DrawnKeeps

\* begin_turn starts both counts over.
LEMMA PromptCommandKeeps ==
  ASSUME GovernanceInv, NEW p \in Processes, NEW type \in ToolTypes \ {"spawn"}, PromptCommand(p, type)
  PROVE  GovernanceInv'
<1> DEFINE Asked(r) == [Blank("prompt", "register", r, Workspace) EXCEPT
                         !.action = Do(r, type, Workspace, IF type = "read" THEN 0 ELSE 1)]
           r == CHOOSE r \in Roots \ issued : TRUE
<1>1. Roots # issued /\ issued' = issued \cup {r} /\ Begin(p, Asked(r))
  BY DEF PromptCommand, BeginWithRoot
<1>2. r \in Roots \ issued
  BY <1>1, ARootIsLeft
<1> HIDE DEF r
<1>3. Asked(r) = Drawn("prompt", "register", r, Workspace, Do(r, type, Workspace, IF type = "read" THEN 0 ELSE 1), {}, 0)
  BY DEF Blank, Drawn
<1> HIDE DEF Asked
<1>4. SentinelTypeOK' /\ PermitsCounted'
  BY SentinelAssumption
  DEF PromptCommand, BeginTurn, GovernanceInv, GovernanceTypeOK, SentinelTypeOK, PermitsCounted
<1>5. Do(r, type, Workspace, IF type = "read" THEN 0 ELSE 1) \in Action
  BY <1>2, DoTyped, TrustStoreAssumption, GovernanceAssumption DEF Tiers
<1>6. Begin(p, Drawn("prompt", "register", r, Workspace, Do(r, type, Workspace, IF type = "read" THEN 0 ELSE 1), {}, 0))
  BY <1>1, <1>3
<1>7. Workspace \in Scopes /\ {} \in SUBSET Types /\ 0 \in Tiers
  BY TrustStoreAssumption, GovernanceAssumption DEF Tiers
<1> QED
  BY <1>1, <1>2, <1>4, <1>5, <1>6, <1>7, DrawnKeeps

\* Hooks draw a root too, and leave it unregistered.
LEMMA HookCallKeeps ==
  ASSUME GovernanceInv, NEW p \in Processes, HookCall(p)
  PROVE  GovernanceInv'
<1> DEFINE Asked(r) == Asking(Blank("hook", "mint", r, Workspace), {"spawn"}, 2)
           r == CHOOSE r \in Roots \ issued : TRUE
<1>1. Roots # issued /\ issued' = issued \cup {r} /\ Begin(p, Asked(r))
  BY DEF HookCall, BeginWithRoot, Asking
<1>2. r \in Roots \ issued
  BY <1>1, ARootIsLeft
<1> HIDE DEF r
<1>3. Asked(r) = Drawn("hook", "mint", r, Workspace, None, {"spawn"}, 2)
  BY AskedFields
<1> HIDE DEF Asked
<1>4. SentinelTypeOK' /\ PermitsCounted'
  BY EngineStays DEF HookCall
<1>5. Begin(p, Drawn("hook", "mint", r, Workspace, None, {"spawn"}, 2))
  BY <1>1, <1>3
<1>6. Workspace \in Scopes /\ {"spawn"} \in SUBSET Types /\ 2 \in Tiers
  BY TrustStoreAssumption, GovernanceAssumption DEF Tiers
<1> QED
  BY <1>1, <1>2, <1>4, <1>5, <1>6, DrawnKeeps

LEMMA GovernedAgentCallKeeps ==
  ASSUME GovernanceInv, NEW p \in Processes, NEW type \in ToolTypes, GovernedAgentCall(p, type)
  PROVE  GovernanceInv'
<1> DEFINE Asked(r) == AskingFor(Blank("hook", "mint", r, Workspace), {type}, 2,
                               Do(r, type, Workspace, 2))
           r == CHOOSE r \in Roots \ issued : TRUE
<1>1. Roots # issued /\ issued' = issued \cup {r} /\ Begin(p, Asked(r))
  BY DEF GovernedAgentCall, BeginWithRoot, AskingFor
<1>2. r \in Roots \ issued
  BY <1>1, ARootIsLeft
<1> HIDE DEF r
<1>3. Asked(r) = Drawn("hook", "mint", r, Workspace, Do(r, type, Workspace, 2), {type}, 2)
  BY AskedFields
<1> HIDE DEF Asked
<1>4. SentinelTypeOK' /\ PermitsCounted'
  BY EngineStays DEF GovernedAgentCall
<1>5. Do(r, type, Workspace, 2) \in Action
  BY <1>2, DoTyped, TrustStoreAssumption, GovernanceAssumption DEF Tiers
<1>6. Begin(p, Drawn("hook", "mint", r, Workspace, Do(r, type, Workspace, 2), {type}, 2))
  BY <1>1, <1>3
<1>7. Workspace \in Scopes /\ {type} \in SUBSET Types /\ 2 \in Tiers
  BY TrustStoreAssumption, GovernanceAssumption DEF Tiers
<1> QED
  BY <1>1, <1>2, <1>4, <1>5, <1>6, <1>7, DrawnKeeps

\* evaluate and patch start from a token and a root that they have loaded.
LEMMA LoadedKeeps ==
  ASSUME GovernanceInv, NEW p \in Processes, NEW k \in Tokens, NEW c \in CallInProgress,
         TokenLoads(k), RootLoads(tokens[k].root), Begin(p, c), UNCHANGED <<issued, sentinelVars>>,
         c.kind \in {"evaluate", "patch"}, c.pc = "admit", c.root = tokens[k].root, c.token = k,
         c.action \in Action, c.action.root = c.root, c.decision = None
  PROVE  GovernanceInv'
<1>1. call'[p] = c /\ UNCHANGED <<clock, intentRoots, tokens, registry, decisions, effects>>
  BY DEF Begin, storeVars, GovernanceInv, GovernanceTypeOK
<1>2. tokens[k] # None /\ intentRoots[c.root] # None /\ c.root \in Roots
  BY DEF TokenLoads, RootLoads, Action
<1>3. RootOk(p, call[p])' /\ ~Unregistered(c)
  BY <1>1, <1>2 DEF RootOk, Unregistered
<1>4. WarrantOk(call[p])' /\ RecordOk(call[p])'
  BY <1>1, <1>2, NoneIsNoRow DEF WarrantOk, RecordOk
<1>5. issued' \subseteq Roots /\ issued \subseteq issued'
  BY DEF GovernanceInv, GovernanceTypeOK, VaultTypeOK
<1> QED  BY <1>3, <1>4, <1>5, EngineStays, BeginKeeps DEF CallOk

LEMMA BlankTyped ==
  ASSUME NEW kind \in Kinds, NEW pc \in Steps, NEW r \in Roots \cup {None}, NEW scope \in Scopes
  PROVE  /\ Blank(kind, pc, r, scope) \in CallInProgress
         /\ Blank(kind, pc, r, scope).kind = kind /\ Blank(kind, pc, r, scope).pc = pc
         /\ Blank(kind, pc, r, scope).root = r /\ Blank(kind, pc, r, scope).decision = None
  BY GovernanceAssumption DEF Blank, CallInProgress, Tiers

LEMMA EvaluateCommandKeeps ==
  ASSUME GovernanceInv, NEW p \in Processes, NEW k \in Tokens, NEW a \in Proposals,
         EvaluateCommand(p, k, a)
  PROVE  GovernanceInv'
<1> DEFINE r == tokens[k].root
<1>1. PICK b, c :
        /\ b = Blank("evaluate", "admit", r, a.scope)
        /\ c = [b EXCEPT !.token = k, !.action = Do(r, a.type, a.scope, a.tier)]
        /\ Begin(p, c)
  BY DEF EvaluateCommand
<1>2. TokenLoads(k) /\ RootLoads(r) /\ UNCHANGED <<issued, sentinelVars>> /\ a.tier # None
  BY DEF EvaluateCommand
<1>3. r \in Roots
  BY <1>2 DEF TokenLoads, TokenRow, GovernanceInv, GovernanceTypeOK, VaultTypeOK, TrustStoreTypeOK
<1>4. Do(r, a.type, a.scope, a.tier) \in Action /\ Do(r, a.type, a.scope, a.tier).root = r
  BY <1>2, <1>3, GovernanceAssumption DEF Do, Action
<1>5. "evaluate" \in Kinds /\ "admit" \in Steps /\ a.scope \in Scopes
  BY GovernanceAssumption DEF Kinds, Commands, Steps
<1>6. b \in CallInProgress /\ b.kind = "evaluate" /\ b.pc = "admit" /\ b.root = r /\ b.decision = None
  BY <1>1, <1>3, <1>5, BlankTyped
<1>7. /\ c \in CallInProgress /\ c.kind = "evaluate" /\ c.pc = "admit" /\ c.root = r /\ c.token = k
      /\ c.action = Do(r, a.type, a.scope, a.tier) /\ c.decision = None
  BY <1>1, <1>4, <1>6 DEF CallInProgress
<1> QED  BY <1>1, <1>2, <1>4, <1>7, LoadedKeeps

LEMMA PatchCommandKeeps ==
  ASSUME GovernanceInv, NEW p \in Processes, NEW k \in Tokens,
         NEW target \in Scopes \ {Workspace}, NEW commit \in BOOLEAN,
         PatchCommand(p, k, target, commit)
  PROVE  GovernanceInv'
<1> DEFINE r == tokens[k].root
           types == IF commit THEN {"write", "commit"} ELSE {"write"}
<1>1. PICK b, c :
        /\ b = Blank("patch", "admit", r, target)
        /\ c = [b EXCEPT !.token = k, !.action = Do(r, "write", target, 1), !.types = types]
        /\ Begin(p, c)
  BY DEF PatchCommand
<1>2. TokenLoads(k) /\ RootLoads(r) /\ UNCHANGED <<issued, sentinelVars>>
  BY DEF PatchCommand
<1>3. r \in Roots
  BY <1>2 DEF TokenLoads, TokenRow, GovernanceInv, GovernanceTypeOK, VaultTypeOK, TrustStoreTypeOK
<1>4. Do(r, "write", target, 1) \in Action /\ Do(r, "write", target, 1).root = r
  BY <1>3, GovernanceAssumption DEF Do, Action, Tiers
<1>5. "patch" \in Kinds /\ "admit" \in Steps /\ types \in SUBSET Types
  BY GovernanceAssumption DEF Kinds, Commands, Steps
<1> HIDE DEF types
<1>6. b \in CallInProgress /\ b.kind = "patch" /\ b.pc = "admit" /\ b.root = r /\ b.decision = None
  BY <1>1, <1>3, <1>5, BlankTyped
<1>7. /\ c \in CallInProgress /\ c.kind = "patch" /\ c.pc = "admit" /\ c.root = r /\ c.token = k
      /\ c.action = Do(r, "write", target, 1) /\ c.decision = None
  BY <1>1, <1>4, <1>5, <1>6 DEF CallInProgress
<1> QED  BY <1>1, <1>2, <1>4, <1>7, LoadedKeeps

LEMMA ReplayCommandKeeps ==
  ASSUME GovernanceInv, NEW p \in Processes, ReplayCommand(p)
  PROVE  GovernanceInv'
<1>1. PICK c : c = Blank("replay", "trace", None, Workspace) /\ Begin(p, c)
  BY DEF ReplayCommand
<1>2. "replay" \in Kinds /\ "trace" \in Steps /\ Workspace \in Scopes
  BY TrustStoreAssumption DEF Kinds, Commands, Steps
<1>3. c \in CallInProgress /\ c.kind = "replay" /\ c.pc = "trace" /\ c.decision = None
  BY <1>1, <1>2, BlankTyped
<1>4. call'[p] = c
  BY <1>1 DEF Begin, GovernanceInv, GovernanceTypeOK
<1>5. CallOk(p, call[p])' /\ ~Unregistered(c)
  BY <1>3, <1>4 DEF CallOk, RootOk, WarrantOk, RecordOk, Unregistered
<1>6. UNCHANGED <<issued, sentinelVars>> /\ issued' \subseteq Roots
  BY DEF ReplayCommand, GovernanceInv, GovernanceTypeOK, VaultTypeOK
<1> QED  BY <1>1, <1>3, <1>5, <1>6, EngineStays, BeginKeeps

LEMMA NewCallKeeps ==
  ASSUME GovernanceInv, NEW p \in Processes, NewCall(p)
  PROVE  GovernanceInv'
  BY MintCommandKeeps, RunCommandKeeps, DispatchToolKeeps, PromptCommandKeeps, HookCallKeeps,
     GovernedAgentCallKeeps, EvaluateCommandKeeps, PatchCommandKeeps, ReplayCommandKeeps
  DEF NewCall

-----------------------------------------------------------------------------
\* A process that goes takes its call and its memory with it; the store keeps the rest.
LEMMA ExitKeeps ==
  ASSUME GovernanceInv, NEW p \in Processes, Exit(p)
  PROVE  GovernanceInv'
<1>1. /\ call' = [call EXCEPT ![p] = NoCall]
      /\ registry' = [registry EXCEPT ![p] = EmptyRegistry]
      /\ known' = [known EXCEPT ![p] = EmptyRegistry]
      /\ dispatches' = [dispatches EXCEPT ![p] = 0] /\ turnPermits' = [turnPermits EXCEPT ![p] = 0]
      /\ UNCHANGED <<clock, intentRoots, tokens, revoked, decisions, traces, provenance>>
      /\ UNCHANGED <<issued, calls, effects>>
  BY DEF Exit, Goto, storeVars
<1>2. /\ call' \in [Processes -> Call] /\ call'[p] = NoCall
      /\ registry' \in [Processes -> Registry] /\ registry'[p] = EmptyRegistry
      /\ \A q \in Processes \ {p} : call'[q] = call[q] /\ registry'[q] = registry[q]
  BY <1>1, NothingInProgress, EmptyRegistryTyped DEF GovernanceInv, GovernanceTypeOK, VaultTypeOK
<1>3. SentinelTypeOK' /\ PermitsCounted'
  BY <1>1, EmptyRegistryTyped, SentinelAssumption
  DEF GovernanceInv, GovernanceTypeOK, SentinelTypeOK, PermitsCounted
<1>4. GovernanceTypeOK'
  BY <1>1, <1>2, <1>3 DEF GovernanceInv, GovernanceTypeOK, VaultTypeOK, TrustStoreTypeOK
<1>5. /\ \A e \in effects : Authorised(e)'
      /\ \A d \in decisions : DecisionSound(d)'
      /\ \A k \in Tokens : tokens[k] # None => TokenRooted(tokens[k])'
  BY <1>1, TablesGrow
<1>6. CallOk(p, call[p])' /\ ~Unregistered(call'[p])
  BY <1>2, NothingInProgress DEF CallOk, Unregistered
<1>7. \A q \in Processes \ {p} : Unregistered(call[q]) =>
        intentRoots[call[q].root] = None /\ call[q].root \notin DOMAIN registry'[p]
  BY <1>2, CallFacts, EmptyRegistryTyped DEF Unregistered, RootOk
<1>8. CallsOk' /\ RootsApart'
  BY <1>1, <1>2, <1>6, <1>7, OthersGoOn
<1>9. RootsDrawn' /\ AuditSupported'
  BY <1>1, <1>2, EmptyRegistryTyped DEF GovernanceInv, RootsDrawn, AuditSupported
<1> QED
  BY <1>1, <1>3, <1>4, <1>5, <1>8, <1>9
  DEF GovernanceInv, DecisionsSound, EffectsAuthorised, TokensRooted

\* Nothing that was authorised or rooted becomes otherwise by revoking or by waiting.
LEMMA RevokeKeeps ==
  ASSUME GovernanceInv, NEW k \in Tokens, Revoke(k)
  PROVE  GovernanceInv'
<1>1. /\ revoked' = IF tokens[k] = None THEN revoked ELSE revoked \cup {k}
      /\ UNCHANGED <<clock, intentRoots, tokens, decisions, traces, provenance, registry, issued>>
      /\ UNCHANGED <<sentinelVars, call, calls, effects>>
  BY DEF Revoke, RevokeToken, RevokeCapabilityToken
<1>2. SentinelTypeOK' /\ PermitsCounted'
  BY <1>1, EngineStays
<1>3. revoked' \subseteq {x \in Tokens : tokens[x] # None}
  BY <1>1 DEF GovernanceInv, GovernanceTypeOK, VaultTypeOK, TrustStoreTypeOK
<1>4. GovernanceTypeOK'
  BY <1>1, <1>2, <1>3 DEF GovernanceInv, GovernanceTypeOK, VaultTypeOK, TrustStoreTypeOK
<1>5. /\ \A e \in effects : Authorised(e)'
      /\ \A d \in decisions : DecisionSound(d)'
      /\ \A x \in Tokens : tokens[x] # None => TokenRooted(tokens[x])'
  BY <1>1, TablesGrow
<1>6. CallsOk' /\ RootsApart'
  BY <1>1
  DEF GovernanceInv, CallsOk, CallOk, RootOk, RootAtHand, WarrantOk, RecordOk, RootsApart, Permit
<1>7. RootsDrawn' /\ AuditSupported'
  BY <1>1 DEF GovernanceInv, RootsDrawn, AuditSupported
<1> QED
  BY <1>1, <1>2, <1>4, <1>5, <1>6, <1>7
  DEF GovernanceInv, DecisionsSound, EffectsAuthorised, TokensRooted

LEMMA TickKeeps ==
  ASSUME GovernanceInv, Tick
  PROVE  GovernanceInv'
<1>1. /\ clock < MaxClock /\ clock' = clock + 1 /\ \A p \in Processes : call[p].kind \notin Kinds
      /\ UNCHANGED <<intentRoots, tokens, revoked, decisions, traces, provenance, registry, issued>>
      /\ UNCHANGED <<sentinelVars, call, calls, effects>>
  BY DEF Tick
<1>2. SentinelTypeOK' /\ PermitsCounted'
  BY <1>1, EngineStays
<1>3. GovernanceTypeOK'
  BY <1>1, <1>2, TrustStoreAssumption DEF GovernanceInv, GovernanceTypeOK, VaultTypeOK, TrustStoreTypeOK
<1>4. /\ \A e \in effects : Authorised(e)'
      /\ \A d \in decisions : DecisionSound(d)'
      /\ \A x \in Tokens : tokens[x] # None => TokenRooted(tokens[x])'
  BY <1>1, TablesGrow
<1>5. CallsOk' /\ RootsApart'
  BY <1>1 DEF CallsOk, CallOk, RootsApart, Unregistered
<1>6. RootsDrawn' /\ AuditSupported'
  BY <1>1 DEF GovernanceInv, RootsDrawn, AuditSupported
<1> QED
  BY <1>1, <1>2, <1>3, <1>4, <1>5, <1>6
  DEF GovernanceInv, DecisionsSound, EffectsAuthorised, TokensRooted

LEMMA NothingHappens ==
  ASSUME GovernanceInv, UNCHANGED governanceVars
  PROVE  GovernanceInv'
<1>1. UNCHANGED <<vaultVars, sentinelVars, call, calls, effects>>
  BY DEF governanceVars
<1>2. UNCHANGED <<clock, intentRoots, tokens, decisions, registry, issued>>
  BY <1>1 DEF vaultVars, storeVars
<1>3. SentinelTypeOK' /\ PermitsCounted'
  BY <1>1, EngineStays
<1>4. /\ VaultTypeOK' /\ RootsDrawn' /\ TokensRooted' /\ DecisionsSound'
      /\ EffectsAuthorised' /\ AuditSupported'
  BY <1>1, TablesStay
<1>5. CallsOk' /\ RootsApart'
  BY <1>1, <1>2
  DEF GovernanceInv, CallsOk, CallOk, RootOk, RootAtHand, WarrantOk, RecordOk, RootsApart, Permit
<1>6. GovernanceTypeOK'
  BY <1>1, <1>3, <1>4 DEF GovernanceInv, GovernanceTypeOK
<1> QED  BY <1>3, <1>4, <1>5, <1>6 DEF GovernanceInv

-----------------------------------------------------------------------------
\* At the start the tables are empty and nothing has been asked for.
LEMMA GovernanceInvInit == GovernanceInit => GovernanceInv
<1> SUFFICES ASSUME GovernanceInit PROVE GovernanceInv
  OBVIOUS
<1>1. /\ clock = 0 /\ intentRoots = [r \in Roots |-> None] /\ tokens = [k \in Tokens |-> None]
      /\ revoked = {} /\ decisions = {} /\ traces = {} /\ provenance = {} /\ issued = {}
      /\ registry = [p \in Processes |-> EmptyRegistry] /\ known = [p \in Processes |-> EmptyRegistry]
      /\ dispatches = [p \in Processes |-> 0] /\ turnPermits = [p \in Processes |-> 0]
      /\ call = [p \in Processes |-> NoCall] /\ calls = 0 /\ effects = {}
  BY DEF GovernanceInit, VaultInit, TrustStoreInit, SentinelInit
<1>2. VaultTypeOK
  BY <1>1, EmptyRegistryTyped, TrustStoreAssumption DEF VaultTypeOK, TrustStoreTypeOK
<1>3. SentinelTypeOK /\ PermitsCounted
  BY <1>1, EmptyRegistryTyped, SentinelAssumption DEF SentinelTypeOK, PermitsCounted
<1>4. GovernanceTypeOK
  BY <1>1, <1>2, <1>3, NothingInProgress, GovernanceAssumption DEF GovernanceTypeOK
<1>5. CallsOk /\ RootsApart
  BY <1>1, NothingInProgress DEF CallsOk, CallOk, RootsApart, Unregistered
<1>6. RootsDrawn /\ TokensRooted /\ DecisionsSound /\ EffectsAuthorised /\ AuditSupported
  BY <1>1, EmptyRegistryTyped
  DEF RootsDrawn, TokensRooted, DecisionsSound, EffectsAuthorised, AuditSupported
<1> QED  BY <1>3, <1>4, <1>5, <1>6 DEF GovernanceInv

LEMMA GovernanceInvStep == GovernanceInv /\ [GovernanceNext]_governanceVars => GovernanceInv'
  BY StepKeeps, NewCallKeeps, ExitKeeps, RevokeKeeps, TickKeeps, NothingHappens DEF GovernanceNext

\* For any processes, roots, tokens and paths, in every reachable state.
THEOREM GovernanceInvariant == GovernanceSpec => []GovernanceInv
  BY GovernanceInvInit, GovernanceInvStep, PTL DEF GovernanceSpec

\* Every variable keeps to its type: tables, registries, calls in progress and effects.
THEOREM GovernanceTypeCorrect == GovernanceSpec => []GovernanceTypeOK
  BY GovernanceInvariant, PTL DEF GovernanceInv

\* Whatever was committed or run had a stored permission under a stored token and root
\* (forge.py:222-230, governed_dispatch.py:25-84).
THEOREM EffectsAreAuthorised == GovernanceSpec => []EffectsAuthorised
  BY GovernanceInvariant, PTL DEF GovernanceInv

\* The tables support each other, after any crash and any failed write.
THEOREM AuditIsSupported == GovernanceSpec => []AuditSupported
  BY GovernanceInvariant, PTL DEF GovernanceInv

\* A token that is neither expired nor revoked verifies in a process that knows nothing
\* yet: its root was stored with it, contains it and, living longer, still loads.
THEOREM MintedTokensDoVerify == GovernanceSpec => []MintedTokensVerify
<1>1. GovernanceInv => MintedTokensVerify
  <2> SUFFICES ASSUME GovernanceInv, NEW k \in Tokens, tokens[k] # None, k \notin revoked,
                      clock < tokens[k].issued + TokenTtl
               PROVE  VerifiesAfterRestart(k)
    BY DEF MintedTokensVerify
  <2>1. /\ tokens[k] \in TokenRow /\ TokenRooted(tokens[k]) /\ clock \in Nat
        /\ TokenTtl \in Nat /\ RootTtl \in Nat /\ TokenTtl <= RootTtl
    BY TrustStoreAssumption
    DEF GovernanceInv, GovernanceTypeOK, VaultTypeOK, TrustStoreTypeOK, TokensRooted
  <2>2. tokens[k].issued \in Nat
    BY <2>1 DEF TokenRow
  <2> QED  BY <2>1, <2>2 DEF VerifiesAfterRestart, TokenLoads, RootLoads, TokenRooted
<1> QED  BY <1>1, GovernanceInvariant, PTL

\* However many calls share a turn, and whatever opa permits besides, the engine stops at
\* its limit (engine.py:252-266).
THEOREM TurnsAreBounded == GovernanceSpec => []QuotaBoundsPermits
<1>1. GovernanceInv => QuotaBoundsPermits
  BY DEF GovernanceInv, PermitsCounted, QuotaBoundsPermits
<1> QED  BY <1>1, GovernanceInvariant, PTL
=============================================================================
