----------------------- MODULE EvidenceRefreshProofs ------------------------
(***************************************************************************)
(* Theorems about the refresh contracts and the read model, for any number *)
(* of targets, envelopes, intents, responses and readers.                  *)
(*                                                                         *)
(* A hand-off checks no more than the times and names the three messages   *)
(* carry.  That this keeps old evidence out rests on two facts that no     *)
(* validation sees: a new envelope has a new id, and nothing that existed  *)
(* when Mesh asked was observed later than that (Earlier).                 *)
(*                                                                         *)
(* The answers of the read model are exact by the invariant of its loops   *)
(* (Looping): what was visited comes before what is left, so a bucket that *)
(* has an envelope never meets a newer one.                                *)
(***************************************************************************)
EXTENDS SubjectView, FiniteSetTheorems, TLAPS

RefreshType ==
    /\ now \in Nat
    /\ \A e \in made : e.observedAt \in Nat /\ e.validUntil \in Nat
    /\ \A i \in intents : i.requestedAt \in Nat
    /\ \A r \in responses : r.respondedAt \in Nat

\* The envelopes that an intent lists exist.
BeforeMade == \A i \in intents : i.before \subseteq {e.id : e \in made}

\* Nothing was observed in the future, and what existed when Mesh asked was
\* observed by then.
Earlier == ~back =>
    /\ \A e \in made : e.observedAt <= now
    /\ \A i \in intents, e \in made : e.id \in i.before => e.observedAt <= i.requestedAt

\* A hand-off is about messages that were sent, about the intent the response
\* refers to, and about evidence observed after it.
Bound ==
    \A h \in handoffs :
        /\ h.intent \in intents /\ h.response \in responses /\ h.evidence \in made
        /\ h.response.intent = Reference(h.intent)
        /\ h.response.target = h.intent.target
        /\ h.intent.requestedAt <= h.evidence.observedAt

IndInv ==
    /\ RefreshType /\ BeforeMade /\ Earlier /\ Bound
    /\ RepeatedHandoffStands

\* The registry holds envelopes that were made, in normal form; they are
\* finitely many.
Registry ==
    /\ made \subseteq EvidenceEnvelope /\ IsFiniteSet(made)
    /\ \A e \in made : e.form = "normal"
    /\ stored \in [EnvelopeIds -> made \cup {NoEnvelope}]

\* What a loop has visited, what of it was asked for, and the parts of that.
Visited(v)    == v.all \ v.left
Chosen(v)     == {e \in Visited(v) : Selected(v.ask, e, v.at)}
Fresh(v)      == {e \in Chosen(v) : FreshAt(e, v.at)}
GroupOf(v, k) == {e \in Chosen(v) : AssertionKey(e) = k}
Scoped(v)     == {e \in Chosen(v) : e.content.subject.scope # ""}

\* e comes before the rest of S; best is that envelope if there is one.
IsNewest(e, S)  == e \in S /\ \A f \in S \ {e} : Before(e, f)
BestOf(best, S) == IF S = {} THEN best = NoEnvelope ELSE IsNewest(best, S)

\* The bucket of an assertion is about its group.
IsItem(item, group, at) ==
    /\ item = [latest |-> item.latest, latestCurrent |-> item.latestCurrent,
               count |-> Cardinality(group)]
    /\ BestOf(item.latest, group)
    /\ BestOf(item.latestCurrent, {e \in group : FreshAt(e, at)})

Grouped(v) ==
    /\ DOMAIN v.items = {AssertionKey(e) : e \in Chosen(v)}
    /\ \A k \in DOMAIN v.items : IsItem(v.items[k], GroupOf(v, k), v.at)
    /\ IF v.ask.scope # "" \/ Scoped(v) = {} THEN v.scope = v.ask.scope
       ELSE \E e \in Scoped(v) : IsNewest(e, Scoped(v)) /\ v.scope = e.content.subject.scope

\* What was read of the registry.
Snapshot(v) == /\ v.all \subseteq EvidenceEnvelope \ {NoEnvelope} /\ IsFiniteSet(v.all)
               /\ v.left \subseteq v.all

\* The loop invariant.
Looping(v) ==
    /\ v.ask \in Queries /\ v.at \in Nat \ {0} /\ Snapshot(v)
    /\ \A e \in Visited(v), f \in v.left : Before(e, f)
    /\ v.current = Cardinality(Fresh(v))
    /\ v.stale = Cardinality(Chosen(v) \ Fresh(v))
    /\ v.ask.kind = "view" => Grouped(v)

QueryFields == DOMAIN NoQuery

\* Before the loop nothing is counted.
Fetching(v) ==
    /\ v.ask \in Queries /\ v.current = 0 /\ v.stale = 0 /\ DOMAIN v.items = {}
    /\ v.phase = "listed" => v.ask.kind = "view" /\ Snapshot(v) /\ v.left = v.all
    /\ v.phase = "timed" => v.ask.kind = "list" /\ v.at \in Nat \ {0}

ViewInv ==
    /\ DOMAIN query = Readers
    /\ \A r \in Readers :
         LET v == query[r]
         IN  /\ DOMAIN v = QueryFields /\ v.phase \in {"idle", "listed", "timed", "loop"}
             /\ v.phase \in {"listed", "timed"} => Fetching(v)
             /\ v.phase = "loop" => Looping(v)

-----------------------------------------------------------------------------
(* Facts about the validations.                                            *)

\* A hand-off that was accepted is accepted later, while the evidence is valid.
LEMMA AcceptedLater ==
    ASSUME NEW r, NEW i, NEW e, NEW t1 \in Nat, NEW t2 \in Nat, t1 <= t2,
           HandoffAccepted(r, i, e, t1), t2 <= e.validUntil,
           i.requestedAt \in Nat, r.respondedAt \in Nat, e.observedAt \in Nat
    PROVE  HandoffAccepted(r, i, e, t2)
<1>1. i.requestedAt <= t2 /\ r.respondedAt <= t2 /\ e.observedAt <= t2
  BY DEF HandoffAccepted, ResponseForIntent, IntentAccepted, ResponseAccepted,
     NormalizeSucceeds
<1>2. r.intent.requestedAt = i.requestedAt
  BY DEF HandoffAccepted, ResponseForIntent, Reference
<1>3. ResponseForIntent(r, i, t2)
  BY <1>1, <1>2 DEF HandoffAccepted, ResponseForIntent, IntentAccepted, ResponseAccepted
<1>4. NormalizeSucceeds(e, t2, TRUE)
  BY <1>1 DEF HandoffAccepted, NormalizeSucceeds
<1>5. QED
  BY <1>3, <1>4 DEF HandoffAccepted

\* While nothing is sent or set back, hand-offs stand.
LEMMA HandoffsStand ==
    ASSUME IndInv, RefreshType', handoffs' \subseteq handoffs,
           ~back' => ~back /\ now <= now'
    PROVE  RepeatedHandoffStands'
<1> SUFFICES ASSUME NEW h \in handoffs, ~back', now' <= h.evidence.validUntil
             PROVE  HandoffAccepted(h.response, h.intent, h.evidence, now')
  BY DEF RepeatedHandoffStands
<1>1. /\ now \in Nat /\ now' \in Nat /\ now <= now' /\ ~back
      /\ h.evidence.observedAt \in Nat /\ h.evidence.validUntil \in Nat
      /\ h.intent.requestedAt \in Nat /\ h.response.respondedAt \in Nat
  BY DEF IndInv, RefreshType, Bound
<1>2. now <= h.evidence.validUntil
  BY <1>1
<1>3. HandoffAccepted(h.response, h.intent, h.evidence, now)
  BY <1>1, <1>2 DEF IndInv, RepeatedHandoffStands
<1>4. QED
  BY <1>1, <1>3, AcceptedLater

-----------------------------------------------------------------------------
\* What is stored when the model starts was observed by then.
LEMMA IndInvInit == Init => IndInv
<1> SUFFICES ASSUME Init PROVE IndInv
  OBVIOUS
<1>1. made \subseteq EvidenceEnvelope /\ \A e \in made : e.observedAt <= 1
  BY StoredType DEF Init
<1>2. \A e \in made : e.observedAt \in Nat /\ e.validUntil \in Nat
  BY <1>1 DEF EvidenceEnvelope
<1>3. RefreshType /\ BeforeMade /\ Earlier /\ Bound /\ RepeatedHandoffStands
  BY <1>1, <1>2 DEF Init, RefreshType, BeforeMade, Earlier, Bound, RepeatedHandoffStands
<1>4. QED
  BY <1>3 DEF IndInv

\* The clock runs on, or is set back and no longer looked at.
LEMMA ClockInv ==
    ASSUME IndInv, Tick \/ StepBack
    PROVE  IndInv'
<1>1. /\ UNCHANGED <<made, stored, intents, responses, handoffs>>
      /\ now' \in Nat /\ (~back' => ~back /\ now <= now')
  BY DEF Tick, StepBack, IndInv, RefreshType
<1>2. RefreshType' /\ BeforeMade' /\ Bound'
  BY <1>1 DEF IndInv, RefreshType, BeforeMade, Bound
<1>3. Earlier'
  BY <1>1 DEF IndInv, RefreshType, Earlier
<1>4. RepeatedHandoffStands'
  BY <1>1, <1>2, HandoffsStand
<1>5. QED
  BY <1>2, <1>3, <1>4 DEF IndInv

\* A new envelope has a new id, which no intent lists.
LEMMA ObserveInv ==
    ASSUME IndInv, Observe
    PROVE  IndInv'
<1>1. UNCHANGED <<now, back, stored, intents, responses, handoffs>>
  BY DEF Observe
<1>2. PICK id \in NewIds, c \in Contents, t \in Targets, l \in Lifetimes :
        LET e == [id |-> id, content |-> c, system |-> t.system,
                  repository |-> evidenceProducerRepositories[t.system],
                  contract |-> CHOOSE k \in evidenceProducerContracts[t.system] : TRUE,
                  domain |-> t.domain, observedAt |-> now, validUntil |-> now + l,
                  wellFormed |-> TRUE, minimized |-> TRUE, form |-> "normal"]
        IN  /\ \A m \in made : m.id # id
            /\ made' = made \cup {e}
  BY DEF Observe
<1> DEFINE e == [id |-> id, content |-> c, system |-> t.system,
                  repository |-> evidenceProducerRepositories[t.system],
                  contract |-> CHOOSE k \in evidenceProducerContracts[t.system] : TRUE,
                  domain |-> t.domain, observedAt |-> now, validUntil |-> now + l,
                  wellFormed |-> TRUE, minimized |-> TRUE, form |-> "normal"]
<1>3. e.id = id /\ e.observedAt = now /\ e.validUntil = now + l
  OBVIOUS
<1>4. made' = made \cup {e} /\ \A m \in made : m.id # id
  BY <1>2
<1> HIDE DEF e
<1>5. now \in Nat /\ now + l \in Nat /\ now <= now
  BY BoundsType DEF IndInv, RefreshType
<1>6. RefreshType'
  BY <1>1, <1>3, <1>4, <1>5 DEF IndInv, RefreshType
<1>7. BeforeMade' /\ Bound'
  BY <1>1, <1>3, <1>4 DEF IndInv, BeforeMade, Bound
<1>8. \A i \in intents : id \notin i.before
  BY <1>4 DEF IndInv, BeforeMade
<1>9. Earlier'
  BY <1>1, <1>3, <1>4, <1>5, <1>8 DEF IndInv, Earlier
<1>10. RepeatedHandoffStands'
  BY <1>1, <1>5, <1>6, HandoffsStand
<1>11. QED
  BY <1>6, <1>7, <1>9, <1>10 DEF IndInv

\* Mesh asks now, and everything that exists was observed by now.
LEMMA RequestInv ==
    ASSUME IndInv, Request
    PROVE  IndInv'
<1>1. UNCHANGED <<now, back, made, stored, responses, handoffs>>
  BY DEF Request
<1>2. PICK i : /\ intents' = intents \cup {i}
               /\ i.requestedAt = now /\ i.before = {e.id : e \in made}
  <2> DEFINE seen(t)   == {e.observedAt : e \in {h \in Held : TargetOf(h) = t}}
             i(t, id) == [id |-> id, revision |-> "r", target |-> t, reason |-> ReasonNow(t),
                   requestedAt |-> now,
                   latestObservedAt |-> IF ReasonNow(t) = "stale" THEN
                       CHOOSE o \in seen(t) : \A p \in seen(t) : p <= o ELSE NoTime,
                   wellFormed |-> TRUE, bounded |-> TRUE,
                   before |-> {e.id : e \in made}]
  <2>1. PICK t \in Targets, id \in IntentIds : intents' = intents \cup {i(t, id)}
    BY DEF Request
  <2>2. i(t, id).requestedAt = now /\ i(t, id).before = {e.id : e \in made}
    OBVIOUS
  <2>3. QED
    BY <2>1, <2>2
<1>3. now \in Nat /\ now <= now
  BY DEF IndInv, RefreshType
<1>4. RefreshType'
  BY <1>1, <1>2, <1>3 DEF IndInv, RefreshType
<1>5. BeforeMade' /\ Bound'
  BY <1>1, <1>2 DEF IndInv, BeforeMade, Bound
<1>6. Earlier'
  BY <1>1, <1>2 DEF IndInv, Earlier
<1>7. RepeatedHandoffStands'
  BY <1>1, <1>3, <1>4, HandoffsStand
<1>8. QED
  BY <1>4, <1>5, <1>6, <1>7 DEF IndInv

\* A producer answers, or an envelope is stored: no hand-off is disturbed.
LEMMA RespondInv ==
    ASSUME IndInv, Respond \/ Deliver
    PROVE  IndInv'
<1>1. UNCHANGED <<now, back, made, intents, handoffs>>
  BY DEF Respond, Deliver
<1>2. /\ responses \subseteq responses'
      /\ \A r \in responses' : r \in responses \/ r.respondedAt = now
  <2>1. CASE Respond
    <3>1. PICK i \in intents, t \in Targets, status \in {"completed", "declined"},
            evidence \in EnvelopeIds \cup {NoEnvelope} :
              responses' = responses \cup
                {[intent |-> Reference(i), target |-> t, revision |-> "r",
                  repository |-> evidenceProducerRepositories[t.system],
                  status |-> status, respondedAt |-> now,
                  produced |-> evidence # NoEnvelope, evidence |-> evidence,
                  wellFormed |-> TRUE, bounded |-> TRUE]}
      BY <2>1 DEF Respond
    <3>2. QED
      BY <3>1
  <2>2. CASE Deliver
    BY <2>2 DEF Deliver
  <2>3. QED
    BY <2>1, <2>2
<1>3. now \in Nat /\ now <= now
  BY DEF IndInv, RefreshType
<1>4. RefreshType'
  BY <1>1, <1>2, <1>3 DEF IndInv, RefreshType
<1>5. BeforeMade' /\ Earlier' /\ Bound'
  BY <1>1, <1>2 DEF IndInv, BeforeMade, Earlier, Bound
<1>6. RepeatedHandoffStands'
  BY <1>1, <1>3, <1>4, HandoffsStand
<1>7. QED
  BY <1>4, <1>5, <1>6 DEF IndInv

\* The hand-off that is established now is accepted now.
LEMMA HandoffInv ==
    ASSUME IndInv, Handoff
    PROVE  IndInv'
<1>1. UNCHANGED <<now, back, made, stored, intents, responses>>
  BY DEF Handoff
<1>2. PICK r \in responses, i \in intents, e \in made :
        /\ HandoffAccepted(r, i, e, now)
        /\ handoffs' = handoffs \cup {[response |-> r, intent |-> i, evidence |-> e]}
  BY DEF Handoff
<1>3. /\ r.intent = Reference(i) /\ r.target = i.target /\ i.requestedAt <= e.observedAt
  BY <1>2 DEF HandoffAccepted, ResponseForIntent
<1>4. RefreshType' /\ BeforeMade' /\ Earlier'
  BY <1>1 DEF IndInv, RefreshType, BeforeMade, Earlier
<1>5. Bound'
  BY <1>1, <1>2, <1>3 DEF IndInv, Bound
<1>6. RepeatedHandoffStands'
  BY <1>1, <1>2 DEF IndInv, RepeatedHandoffStands
<1>7. QED
  BY <1>4, <1>5, <1>6 DEF IndInv

\* Every step preserves the invariant.
LEMMA IndInvNext == IndInv /\ [Next]_vars => IndInv'
<1> SUFFICES ASSUME IndInv, [Next]_vars PROVE IndInv'
  OBVIOUS
<1>1. CASE Tick \/ StepBack
  BY <1>1, ClockInv
<1>2. CASE Observe
  BY <1>2, ObserveInv
<1>3. CASE Respond \/ Deliver
  BY <1>3, RespondInv
<1>4. CASE Request
  BY <1>4, RequestInv
<1>5. CASE Handoff
  BY <1>5, HandoffInv
<1>6. CASE UNCHANGED vars
  BY <1>6 DEF vars, IndInv, RefreshType, BeforeMade, Earlier, Bound,
     RepeatedHandoffStands
<1>7. QED
  BY <1>1, <1>2, <1>3, <1>4, <1>5, <1>6 DEF Next

-----------------------------------------------------------------------------
\* Nothing that existed when Mesh asked was observed later, and a hand-off is
\* about the intent its response refers to.
THEOREM Invariance == Spec => []IndInv
  BY IndInvInit, IndInvNext, PTL DEF Spec

\* An envelope that existed when Mesh asked is not established as its answer,
\* unless it was observed in that instant: NewEvidenceEstablished.
THEOREM NewEvidence == Spec => []NewEvidenceEstablished
<1>1. IndInv => NewEvidenceEstablished
  <2> SUFFICES ASSUME IndInv, NEW h \in handoffs, ~back, h.evidence.id \in h.intent.before
               PROVE  h.evidence.observedAt = h.intent.requestedAt
    BY DEF NewEvidenceEstablished
  <2>1. /\ h.intent \in intents /\ h.evidence \in made
        /\ h.intent.requestedAt <= h.evidence.observedAt
    BY DEF IndInv, Bound
  <2>2. h.evidence.observedAt <= h.intent.requestedAt
    BY <2>1 DEF IndInv, Earlier
  <2>3. QED
    BY <2>1, <2>2 DEF IndInv, RefreshType
<1>2. QED
  BY <1>1, Invariance, PTL

\* A response never settles two requests, however often it is delivered and
\* whichever intents reuse its id: OneRequestPerResponse.
THEOREM OneRequest == Spec => []OneRequestPerResponse
<1>1. IndInv => OneRequestPerResponse
  BY DEF IndInv, Bound, OneRequestPerResponse
<1>2. QED
  BY <1>1, Invariance, PTL

\* A hand-off evaluated again gives the same answer until the evidence
\* expires: RepeatedHandoffStands.
THEOREM RepeatedHandoffs == Spec => []RepeatedHandoffStands
<1>1. IndInv => RepeatedHandoffStands
  BY DEF IndInv
<1>2. QED
  BY <1>1, Invariance, PTL

-----------------------------------------------------------------------------
(* The registry.                                                           *)

\* The stored envelopes are among those made.
LEMMA HeldMade ==
    ASSUME Registry
    PROVE  Held \subseteq made /\ IsFiniteSet(Held) /\ NoEnvelope \notin Held
<1>1. Held \subseteq made /\ NoEnvelope \notin Held
  BY DEF Registry, Held
<1>2. IsFiniteSet(Held)
  BY <1>1, FS_Subset DEF Registry
<1>3. QED
  BY <1>1, <1>2

\* Every producer has contracts.
LEMMA HasContract ==
    ASSUME NEW p \in Producers
    PROVE  (CHOOSE k \in evidenceProducerContracts[p] : TRUE) \in evidenceProducerContracts[p]
<1>1. p \in {"goreecloud-mesh", "goreecloud-identity", "glaze-ui",
             "wardveil-security", "privacy-shield", "everkeep"}
  BY DEF Producers, evidenceProducerRepositories
<1>2. evidenceProducerContracts[p] # {}
  BY <1>1 DEF evidenceProducerContracts
<1>3. QED
  BY <1>2

\* A producer makes envelopes of the envelopes' type.
LEMMA ObservedType ==
    ASSUME NEW id \in NewIds, NEW c \in Contents, NEW t \in Targets,
           NEW l \in Lifetimes, now \in Nat
    PROVE  [id |-> id, content |-> c, system |-> t.system,
            repository |-> evidenceProducerRepositories[t.system],
            contract |-> CHOOSE k \in evidenceProducerContracts[t.system] : TRUE,
            domain |-> t.domain, observedAt |-> now, validUntil |-> now + l,
            wellFormed |-> TRUE, minimized |-> TRUE, form |-> "normal"]
             \in EvidenceEnvelope
<1>1. id \in EnvelopeIds /\ now + l \in Nat
  BY StoredType, BoundsType
<1>2. /\ t.system \in STRING /\ t.domain \in STRING
      /\ evidenceProducerRepositories[t.system] \in STRING
      /\ (CHOOSE k \in evidenceProducerContracts[t.system] : TRUE) \in STRING
  BY TargetsType, HasContract
<1>3. QED
  BY <1>1, <1>2 DEF EvidenceEnvelope

\* The registry is empty but for what it starts with.
LEMMA RegistryInit == Init => Registry /\ TypeOK
<1> SUFFICES ASSUME Init PROVE Registry /\ TypeOK
  OBVIOUS
<1>1. Registry
  BY StoredType DEF Init, Registry
<1>2. Held \subseteq made /\ made \subseteq EvidenceEnvelope
  BY <1>1, HeldMade DEF Registry
<1>3. now \in 1..MaxTime
  BY BoundsType DEF Init
<1>4. TypeOK
  BY <1>2, <1>3 DEF Init, TypeOK
<1>5. QED
  BY <1>1, <1>4

\* Every step preserves the types: an envelope is made in normal form, so what
\* is stored of it is what was made.
LEMMA RegistryNext ==
    ASSUME Registry, TypeOK, [Next]_vars
    PROVE  Registry' /\ TypeOK'
<1>1. SUFFICES Registry' /\ (Held' \subseteq made' => TypeOK')
  BY HeldMade DEF Registry, Held
<1>2. CASE Tick \/ StepBack \/ UNCHANGED vars
  <2>1. UNCHANGED <<made, stored, intents, responses, handoffs>>
    BY <1>2 DEF Tick, StepBack, vars
  <2>2. now' \in 1..MaxTime
    BY <1>2, BoundsType DEF Tick, StepBack, vars, TypeOK
  <2>3. back' \in BOOLEAN
    BY <1>2 DEF Tick, StepBack, vars, TypeOK
  <2>4. QED
    BY <2>1, <2>2, <2>3 DEF Registry, TypeOK
<1>3. CASE Observe
  <2>1. UNCHANGED <<now, back, stored, intents, responses, handoffs>>
    BY <1>3 DEF Observe
  <2>2. PICK e \in EvidenceEnvelope : e.form = "normal" /\ made' = made \cup {e}
    <3>1. PICK id \in NewIds, c \in Contents, t \in Targets, l \in Lifetimes :
            made' = made \cup
              {[id |-> id, content |-> c, system |-> t.system,
                repository |-> evidenceProducerRepositories[t.system],
                contract |-> CHOOSE k \in evidenceProducerContracts[t.system] : TRUE,
                domain |-> t.domain, observedAt |-> now, validUntil |-> now + l,
                wellFormed |-> TRUE, minimized |-> TRUE, form |-> "normal"]}
      BY <1>3 DEF Observe
    <3>2. now \in Nat
      BY BoundsType DEF TypeOK
    <3>3. QED
      BY <3>1, <3>2, ObservedType
  <2>3. IsFiniteSet(made')
    BY <2>2, FS_AddElement DEF Registry
  <2>4. Registry'
    BY <2>1, <2>2, <2>3 DEF Registry
  <2>5. QED
    BY <2>1, <2>2, <2>4 DEF TypeOK
<1>4. CASE Deliver
  <2>1. UNCHANGED <<now, back, made, intents, responses, handoffs>>
    BY <1>4 DEF Deliver
  <2>2. PICK e \in made : stored' = [stored EXCEPT ![Normal(e).id] = Normal(e)]
    BY <1>4 DEF Deliver, Store!Bind
  <2>3. Normal(e) = e
    BY DEF Normal, Registry, EvidenceEnvelope
  <2>4. stored' \in [EnvelopeIds -> made \cup {NoEnvelope}]
    BY <2>2, <2>3 DEF Registry
  <2>5. QED
    BY <2>1, <2>4 DEF Registry, TypeOK
<1>5. CASE Request
  <2>1. UNCHANGED <<now, back, made, stored, responses, handoffs>>
    BY <1>5 DEF Request
  <2>2. PICK i : intents' = intents \cup {i} /\ IntentAccepted(i, now)
    BY <1>5, Zenon DEF Request
  <2>3. i.target.system # "goreecloud-mesh"
    BY <2>2 DEF IntentAccepted, TargetAllowed
  <2>4. QED
    BY <2>1, <2>2, <2>3 DEF Registry, TypeOK
<1>6. CASE Respond
  <2>1. UNCHANGED <<now, back, made, stored, intents, handoffs>>
    BY <1>6 DEF Respond
  <2>2. responses \subseteq responses'
    BY <1>6, Zenon DEF Respond
  <2>3. QED
    BY <2>1, <2>2 DEF Registry, TypeOK
<1>7. CASE Handoff
  <2>1. UNCHANGED <<now, back, made, stored, intents, responses>>
    BY <1>7 DEF Handoff
  <2>2. PICK r \in responses, i \in intents, e \in made :
          handoffs' = handoffs \cup {[response |-> r, intent |-> i, evidence |-> e]}
    BY <1>7 DEF Handoff
  <2>3. QED
    BY <2>1, <2>2 DEF Registry, TypeOK
<1>8. QED
  BY <1>2, <1>3, <1>4, <1>5, <1>6, <1>7 DEF Next

-----------------------------------------------------------------------------
(* The order of the envelopes, and the best of a set.                      *)

\* Envelopes are ordered by numbers.
LEMMA BeforeFacts ==
    ASSUME NEW e \in EvidenceEnvelope, NEW f \in EvidenceEnvelope, Before(e, f)
    PROVE  ~Before(f, e) /\ e.observedAt >= f.observedAt /\ ~(f.observedAt > e.observedAt)
<1>1. /\ e.observedAt \in Nat /\ f.observedAt \in Nat /\ e.id \in Nat /\ f.id \in Nat
  BY IdsOrdered DEF EvidenceEnvelope
<1>2. QED
  BY <1>1 DEF Before

\* The envelope that comes before the rest is the newest.
LEMMA NewestIs ==
    ASSUME NEW S \in SUBSET EvidenceEnvelope, NEW best, BestOf(best, S)
    PROVE  Newest(S) = best
<1>1. CASE S = {}
  BY <1>1 DEF BestOf, Newest
<1>2. CASE S # {}
  <2>1. best \in S /\ \A f \in S \ {best} : Before(best, f)
    BY <1>2 DEF BestOf, IsNewest
  <2>2. ASSUME NEW e \in S, \A f \in S \ {e} : Before(e, f), e # best
        PROVE  FALSE
    <3>1. Before(e, best) /\ Before(best, e)
      BY <2>1, <2>2
    <3>2. QED
      BY <2>1, <3>1, BeforeFacts
  <2> DEFINE P(e) == \A f \in S \ {e} : Before(e, f)
  <2>3. P(best) /\ \A e \in S : P(e) => e = best
    BY <2>1, <2>2
  <2> HIDE DEF P
  <2>4. (CHOOSE e \in S : P(e)) = best
    BY <2>1, <2>3
  <2>5. QED
    BY <1>2, <2>4 DEF Newest, P
<1>3. QED
  BY <1>1, <1>2

\* After an envelope that the others come before, the best is what it was; the
\* test of the loop finds the bucket taken.
LEMMA BestNext ==
    ASSUME NEW S \in SUBSET (EvidenceEnvelope \ {NoEnvelope}),
           NEW e \in EvidenceEnvelope \ {NoEnvelope}, NEW best, BestOf(best, S),
           \A f \in S : Before(f, e)
    PROVE  BestOf(IF Newer(e, best) THEN e ELSE best, S \cup {e})
<1>1. CASE S = {}
  BY <1>1 DEF BestOf, IsNewest, Newer
<1>2. CASE S # {}
  <2>1. best \in S /\ \A f \in S \ {best} : Before(best, f)
    BY <1>2 DEF BestOf, IsNewest
  <2>2. ~Newer(e, best)
    BY <2>1, BeforeFacts DEF Newer
  <2>3. IsNewest(best, S \cup {e})
    BY <2>1 DEF IsNewest
  <2>4. QED
    BY <2>2, <2>3 DEF BestOf
<1>3. QED
  BY <1>1, <1>2

\* The bucket of an assertion after an envelope of its group.
LEMMA ItemNext ==
    ASSUME NEW S \in SUBSET (EvidenceEnvelope \ {NoEnvelope}), IsFiniteSet(S),
           NEW e \in EvidenceEnvelope \ {NoEnvelope}, e \notin S,
           \A f \in S : Before(f, e), NEW at, NEW item, IsItem(item, S, at)
    PROVE  IsItem(Updated(item, e, FreshAt(e, at)), S \cup {e}, at)
<1> DEFINE new == Updated(item, e, FreshAt(e, at))
           F == {f \in S : FreshAt(f, at)}
           G == {f \in S \cup {e} : FreshAt(f, at)}
<1>1. item.count = Cardinality(S)
  BY DEF IsItem
<1>2. /\ new.latest = IF Newer(e, item.latest) THEN e ELSE item.latest
      /\ new.latestCurrent = IF FreshAt(e, at) /\ Newer(e, item.latestCurrent) THEN e
                             ELSE item.latestCurrent
      /\ new.count = item.count + 1
      /\ new = [latest |-> new.latest, latestCurrent |-> new.latestCurrent,
                count |-> new.count]
  BY DEF Updated
<1>3. new.count = Cardinality(S \cup {e})
  BY <1>1, <1>2, FS_AddElement
<1> HIDE DEF new
<1>4. BestOf(new.latest, S \cup {e})
  BY <1>2, BestNext DEF IsItem
<1>5. BestOf(new.latestCurrent, G)
  <2>1. CASE FreshAt(e, at)
    <3>1. G = F \cup {e}
      BY <2>1
    <3>2. BestOf(item.latestCurrent, F)
      BY DEF IsItem
    <3>3. F \in SUBSET (EvidenceEnvelope \ {NoEnvelope}) /\ \A f \in F : Before(f, e)
      OBVIOUS
    <3> HIDE DEF F, G
    <3>4. QED
      BY <1>2, <2>1, <3>1, <3>2, <3>3, BestNext
  <2>2. CASE ~FreshAt(e, at)
    <3>1. G = F
      BY <2>2
    <3>2. QED
      BY <1>2, <2>2, <3>1 DEF IsItem
  <2>3. QED
    BY <2>1, <2>2
<1>6. QED
  BY <1>2, <1>3, <1>4, <1>5 DEF IsItem, new

\* A subset of a finite set, with and without one more element.
LEMMA CountNext ==
    ASSUME NEW S, IsFiniteSet(S), NEW T \in SUBSET S, NEW e, e \notin T
    PROVE  /\ Cardinality(T) \in Nat
           /\ Cardinality(T \cup {e}) = Cardinality(T) + 1
  BY FS_Subset, FS_AddElement, FS_CardinalityType

-----------------------------------------------------------------------------
(* The loops.                                                              *)

\* What one turn does to each field.
LEMMA VisitFields ==
    ASSUME NEW v, DOMAIN v = QueryFields, NEW e
    PROVE  LET n   == Visit(v, e)
               sel == Selected(v.ask, e, v.at)
               key == AssertionKey(e)
           IN  /\ DOMAIN n = QueryFields
               /\ n.phase = v.phase /\ n.ask = v.ask /\ n.at = v.at /\ n.all = v.all
               /\ n.left = v.left \ {e}
               /\ n.current = IF sel /\ FreshAt(e, v.at) THEN v.current + 1 ELSE v.current
               /\ n.stale = IF sel /\ ~FreshAt(e, v.at) THEN v.stale + 1 ELSE v.stale
               /\ n.scope = IF sel /\ v.ask.kind # "list" /\ v.scope = ""
                            THEN e.content.subject.scope ELSE v.scope
               /\ n.items = IF sel /\ v.ask.kind # "list"
                            THEN [k \in DOMAIN v.items \cup {key} |->
                                    IF k = key THEN Updated(ItemOf(v, key), e, FreshAt(e, v.at))
                                    ELSE v.items[k]]
                            ELSE v.items
<1>1. QueryFields = {"phase", "ask", "at", "all", "left", "current", "stale",
                     "scope", "items"}
  BY DEF QueryFields, NoQuery
<1> DEFINE sel == Selected(v.ask, e, v.at)
           fresh == FreshAt(e, v.at)
           rest == [v EXCEPT !.left = v.left \ {e}]
           count == Count(rest, e)
<1>2. /\ DOMAIN rest = QueryFields
      /\ rest.phase = v.phase /\ rest.ask = v.ask /\ rest.at = v.at /\ rest.all = v.all
      /\ rest.left = v.left \ {e} /\ rest.current = v.current /\ rest.stale = v.stale
      /\ rest.scope = v.scope /\ rest.items = v.items
  BY <1>1
<1> HIDE DEF rest
<1>3. /\ DOMAIN count = QueryFields
      /\ count.phase = v.phase /\ count.ask = v.ask /\ count.at = v.at /\ count.all = v.all
      /\ count.left = v.left \ {e}
      /\ count.current = IF fresh THEN v.current + 1 ELSE v.current
      /\ count.stale = IF fresh THEN v.stale ELSE v.stale + 1
      /\ count.scope = v.scope /\ count.items = v.items
  BY <1>1, <1>2 DEF Count
<1> HIDE DEF count
<1> DEFINE group == Group(count, e)
           key == AssertionKey(e)
<1>4. ItemOf(count, key) = ItemOf(v, key)
  BY <1>3 DEF ItemOf
<1>5. group = [count EXCEPT
                 !.scope = IF v.scope = "" THEN e.content.subject.scope ELSE v.scope,
                 !.items = [k \in DOMAIN v.items \cup {key} |->
                              IF k = key THEN Updated(ItemOf(v, key), e, FreshAt(e, v.at))
                              ELSE v.items[k]]]
  BY <1>3, <1>4, Zenon DEF Group
<1>6. /\ DOMAIN group = QueryFields
      /\ group.phase = v.phase /\ group.ask = v.ask /\ group.at = v.at /\ group.all = v.all
      /\ group.left = v.left \ {e}
      /\ group.current = count.current /\ group.stale = count.stale
      /\ group.scope = IF v.scope = "" THEN e.content.subject.scope ELSE v.scope
      /\ group.items = [k \in DOMAIN v.items \cup {key} |->
                          IF k = key THEN Updated(ItemOf(v, key), e, FreshAt(e, v.at))
                          ELSE v.items[k]]
  BY <1>1, <1>3, <1>5
<1> HIDE DEF group
<1>7. Visit(v, e) = IF ~sel THEN rest ELSE IF v.ask.kind = "list" THEN count ELSE group
  BY DEF Visit, rest, count, group
<1>8. QED
  BY <1>2, <1>3, <1>6, <1>7

\* A turn over an envelope that was asked for keeps the buckets.
LEMMA GroupedNext ==
    ASSUME NEW v, NEW n, NEW e \in EvidenceEnvelope \ {NoEnvelope},
           Chosen(v) \subseteq EvidenceEnvelope \ {NoEnvelope}, IsFiniteSet(Chosen(v)),
           e \notin Chosen(v), \A f \in Chosen(v) : Before(f, e),
           Selected(v.ask, e, v.at), Grouped(v),
           n.ask = v.ask, n.at = v.at, Chosen(n) = Chosen(v) \cup {e},
           n.scope = IF v.scope = "" THEN e.content.subject.scope ELSE v.scope,
           n.items = [k \in DOMAIN v.items \cup {AssertionKey(e)} |->
                         IF k = AssertionKey(e)
                         THEN Updated(ItemOf(v, AssertionKey(e)), e, FreshAt(e, v.at))
                         ELSE v.items[k]]
    PROVE  Grouped(n)
<1> DEFINE key == AssertionKey(e)
<1>1. DOMAIN n.items = {AssertionKey(f) : f \in Chosen(n)}
  BY DEF Grouped
<1>2. ASSUME NEW k \in DOMAIN n.items, k # key
      PROVE  IsItem(n.items[k], GroupOf(n, k), n.at)
  <2>1. GroupOf(n, k) = GroupOf(v, k)
    BY <1>2 DEF GroupOf
  <2>2. k \in DOMAIN v.items /\ n.items[k] = v.items[k]
    BY <1>2
  <2>3. QED
    BY <2>1, <2>2 DEF Grouped
<1>3. IsItem(n.items[key], GroupOf(n, key), n.at)
  <2> DEFINE S == GroupOf(v, key)
             item == ItemOf(v, key)
  <2>1. GroupOf(n, key) = S \cup {e}
    BY DEF GroupOf
  <2>2. /\ S \in SUBSET (EvidenceEnvelope \ {NoEnvelope}) /\ S \subseteq Chosen(v)
        /\ e \notin S /\ \A f \in S : Before(f, e)
    BY DEF GroupOf
  <2>3. IsFiniteSet(S)
    BY <2>2, FS_Subset
  <2>4. IsItem(item, S, v.at)
    <3>1. CASE key \in DOMAIN v.items
      BY <3>1 DEF ItemOf, Grouped
    <3>2. CASE key \notin DOMAIN v.items
      <4>1. S = {} /\ {f \in S : FreshAt(f, v.at)} = {}
        BY <3>2 DEF Grouped, GroupOf
      <4>2. item = NoItem
        BY <3>2 DEF ItemOf
      <4> HIDE DEF S, item
      <4>3. QED
        BY <4>1, <4>2, FS_EmptySet DEF IsItem, NoItem, BestOf
    <3>3. QED
      BY <3>1, <3>2
  <2>5. n.items[key] = Updated(item, e, FreshAt(e, v.at))
    OBVIOUS
  <2> HIDE DEF S, item
  <2>6. IsItem(Updated(item, e, FreshAt(e, v.at)), S \cup {e}, v.at)
    BY <2>2, <2>3, <2>4, ItemNext
  <2>7. QED
    BY <2>1, <2>5, <2>6
<1>4. IF n.ask.scope # "" \/ Scoped(n) = {} THEN n.scope = n.ask.scope
      ELSE \E f \in Scoped(n) : IsNewest(f, Scoped(n)) /\ n.scope = f.content.subject.scope
  <2>1. CASE v.ask.scope # ""
    BY <2>1 DEF Grouped
  <2>2. CASE v.ask.scope = "" /\ Scoped(v) # {}
    <3>1. PICK f \in Scoped(v) : IsNewest(f, Scoped(v)) /\ v.scope = f.content.subject.scope
      BY <2>2 DEF Grouped
    <3>2. n.scope = v.scope
      BY <3>1 DEF Scoped
    <3>3. Scoped(n) \subseteq Scoped(v) \cup {e} /\ Scoped(v) \subseteq Scoped(n)
      BY DEF Scoped
    <3>4. IsNewest(f, Scoped(n))
      BY <3>1, <3>3 DEF IsNewest, Scoped
    <3>5. QED
      BY <2>2, <3>1, <3>2, <3>3, <3>4
  <2>3. CASE v.ask.scope = "" /\ Scoped(v) = {}
    <3>1. v.scope = "" /\ n.scope = e.content.subject.scope
      BY <2>3 DEF Grouped
    <3>2. CASE e.content.subject.scope = ""
      <4>1. Scoped(n) = {}
        BY <2>3, <3>2 DEF Scoped
      <4>2. QED
        BY <2>3, <3>1, <3>2, <4>1
    <3>3. CASE e.content.subject.scope # ""
      <4>1. Scoped(n) = {e}
        BY <2>3, <3>3 DEF Scoped
      <4>2. QED
        BY <2>3, <3>1, <4>1 DEF IsNewest
    <3>4. QED
      BY <3>2, <3>3
  <2>4. QED
    BY <2>1, <2>2, <2>3
<1>5. QED
  BY <1>1, <1>2, <1>3, <1>4 DEF Grouped

\* A turn of the loop keeps the loop invariant.
LEMMA LoopNext ==
    ASSUME NEW v, DOMAIN v = QueryFields, Looping(v),
           NEW e \in v.left, \A f \in v.left \ {e} : Before(e, f)
    PROVE  Looping(Visit(v, e))
<1> DEFINE n   == Visit(v, e)
           sel == Selected(v.ask, e, v.at)
<1>1. /\ n.ask = v.ask /\ n.at = v.at /\ n.all = v.all /\ n.left = v.left \ {e}
      /\ n.current = IF sel /\ FreshAt(e, v.at) THEN v.current + 1 ELSE v.current
      /\ n.stale = IF sel /\ ~FreshAt(e, v.at) THEN v.stale + 1 ELSE v.stale
      /\ n.scope = IF sel /\ v.ask.kind # "list" /\ v.scope = ""
                   THEN e.content.subject.scope ELSE v.scope
      /\ n.items = IF sel /\ v.ask.kind # "list"
                   THEN [k \in DOMAIN v.items \cup {AssertionKey(e)} |->
                           IF k = AssertionKey(e)
                           THEN Updated(ItemOf(v, AssertionKey(e)), e, FreshAt(e, v.at))
                           ELSE v.items[k]]
                   ELSE v.items
  BY VisitFields
<1> HIDE DEF n
<1>2. /\ e \in EvidenceEnvelope \ {NoEnvelope} /\ e \in v.all /\ e \notin Visited(v)
      /\ Visited(n) = Visited(v) \cup {e}
      /\ Visited(v) \subseteq v.all /\ v.all \subseteq EvidenceEnvelope \ {NoEnvelope}
  BY <1>1 DEF Visited, Looping, Snapshot
<1>3. n.ask \in Queries /\ n.at \in Nat \ {0} /\ Snapshot(n)
  BY <1>1 DEF Looping, Snapshot
<1>4. \A f \in Visited(n), g \in n.left : Before(f, g)
  BY <1>1, <1>2 DEF Looping
<1>5. CASE ~sel
  <2>1. Chosen(n) = Chosen(v)
    BY <1>1, <1>2, <1>5 DEF Chosen
  <2>2. /\ Fresh(n) = Fresh(v) /\ Scoped(n) = Scoped(v)
        /\ \A k : GroupOf(n, k) = GroupOf(v, k)
    BY <1>1, <2>1 DEF Fresh, Scoped, GroupOf
  <2>3. n.current = v.current /\ n.stale = v.stale /\ n.scope = v.scope /\ n.items = v.items
    BY <1>1, <1>5
  <2>4. Grouped(v) => Grouped(n)
    BY <1>1, <2>1, <2>2, <2>3 DEF Grouped
  <2>5. Looping(n)
    BY <1>1, <1>3, <1>4, <2>1, <2>2, <2>3, <2>4 DEF Looping
  <2>6. QED
    BY <2>5 DEF n
<1>6. CASE sel
  <2>1. Chosen(n) = Chosen(v) \cup {e} /\ e \notin Chosen(v)
    BY <1>1, <1>2, <1>6 DEF Chosen
  <2>2. /\ Chosen(v) \subseteq EvidenceEnvelope \ {NoEnvelope}
        /\ Chosen(v) \in SUBSET v.all /\ IsFiniteSet(v.all)
        /\ \A f \in Chosen(v) : Before(f, e)
    BY <1>2 DEF Chosen, Looping, Snapshot
  <2>3. IsFiniteSet(Chosen(v))
    BY <2>2, FS_Subset
  <2>4. Fresh(n) = IF FreshAt(e, v.at) THEN Fresh(v) \cup {e} ELSE Fresh(v)
    BY <1>1, <2>1 DEF Fresh
  <2>5. Chosen(n) \ Fresh(n) = IF FreshAt(e, v.at) THEN Chosen(v) \ Fresh(v)
                               ELSE (Chosen(v) \ Fresh(v)) \cup {e}
    BY <2>1, <2>4 DEF Fresh
  <2>6. Fresh(v) \in SUBSET Chosen(v) /\ Chosen(v) \ Fresh(v) \in SUBSET Chosen(v)
    BY DEF Fresh
  <2>7. /\ Cardinality(Fresh(v) \cup {e}) = Cardinality(Fresh(v)) + 1
        /\ Cardinality((Chosen(v) \ Fresh(v)) \cup {e}) = Cardinality(Chosen(v) \ Fresh(v)) + 1
    BY <2>1, <2>3, <2>6, CountNext
  <2>8. n.current = Cardinality(Fresh(n)) /\ n.stale = Cardinality(Chosen(n) \ Fresh(n))
    BY <1>1, <1>6, <2>4, <2>5, <2>7 DEF Looping
  <2>9. v.ask.kind = "view" => Grouped(n)
    <3>1. SUFFICES ASSUME v.ask.kind = "view" PROVE Grouped(n)
      OBVIOUS
    <3>2. Grouped(v)
      BY <3>1 DEF Looping
    <3>3. /\ n.scope = IF v.scope = "" THEN e.content.subject.scope ELSE v.scope
          /\ n.items = [k \in DOMAIN v.items \cup {AssertionKey(e)} |->
                         IF k = AssertionKey(e)
                         THEN Updated(ItemOf(v, AssertionKey(e)), e, FreshAt(e, v.at))
                         ELSE v.items[k]]
      BY <1>1, <1>6, <3>1
    <3>4. QED
      BY <1>1, <1>2, <1>6, <2>1, <2>2, <2>3, <3>2, <3>3, GroupedNext
  <2>10. Looping(n)
    BY <1>1, <1>3, <1>4, <2>8, <2>9 DEF Looping
  <2>11. QED
    BY <2>10 DEF n
<1>7. QED
  BY <1>5, <1>6 DEF n

\* Before its first turn the loop has counted what it visited: nothing.
LEMMA LoopStart ==
    ASSUME NEW v, v.ask \in Queries, v.at \in Nat \ {0}, Snapshot(v), v.left = v.all,
           v.current = 0, v.stale = 0, DOMAIN v.items = {},
           v.ask.kind = "view" => v.scope = v.ask.scope
    PROVE  Looping(v)
<1>1. Visited(v) = {} /\ Chosen(v) = {} /\ Fresh(v) = {} /\ Scoped(v) = {}
  BY DEF Visited, Chosen, Fresh, Scoped
<1>2. Cardinality(Fresh(v)) = 0 /\ Cardinality(Chosen(v) \ Fresh(v)) = 0
  BY <1>1, FS_EmptySet
<1>3. v.ask.kind = "view" => Grouped(v)
  BY <1>1 DEF Grouped
<1>4. QED
  BY <1>1, <1>2, <1>3 DEF Looping

-----------------------------------------------------------------------------
(* The readers.                                                            *)

\* A step of one reader.
LEMMA ReadInv ==
    ASSUME Registry, TypeOK, ViewInv, NEW r \in Readers, Read(r)
    PROVE  ViewInv'
<1>1. QueryFields = {"phase", "ask", "at", "all", "left", "current", "stale",
                     "scope", "items"}
  BY DEF QueryFields, NoQuery
<1> DEFINE v == query[r]
<1>2. /\ DOMAIN v = QueryFields
      /\ v.phase \in {"listed", "timed"} => Fetching(v)
      /\ v.phase = "loop" => Looping(v)
  BY DEF ViewInv
<1>3. SUFFICES \E n : /\ query' = [query EXCEPT ![r] = n] /\ DOMAIN n = QueryFields
                      /\ n.phase \in {"idle", "listed", "timed", "loop"}
                      /\ n.phase \in {"listed", "timed"} => Fetching(n)
                      /\ n.phase = "loop" => Looping(n)
  <2>1. PICK n : /\ query' = [query EXCEPT ![r] = n] /\ DOMAIN n = QueryFields
                 /\ n.phase \in {"idle", "listed", "timed", "loop"}
                 /\ n.phase \in {"listed", "timed"} => Fetching(n)
                 /\ n.phase = "loop" => Looping(n)
    BY <1>3
  <2>2. \A x \in Readers : query'[x] = IF x = r THEN n ELSE query[x]
    BY <2>1 DEF ViewInv
  <2>3. DOMAIN query' = Readers
    BY <2>1 DEF ViewInv
  <2>4. QED
    BY <2>1, <2>2, <2>3 DEF ViewInv
<1>4. now \in Nat \ {0}
  BY BoundsType DEF TypeOK
<1>5. /\ Held \subseteq EvidenceEnvelope \ {NoEnvelope} /\ IsFiniteSet(Held)
  BY HeldMade DEF Registry
<1>6. /\ DOMAIN NoQuery = QueryFields /\ NoQuery.phase = "idle"
      /\ NoQuery.current = 0 /\ NoQuery.stale = 0 /\ DOMAIN NoQuery.items = {}
  BY DEF QueryFields, NoQuery
<1>7. CASE SubjectList(r)
  <2>1. PICK q \in Queries : q.kind = "view" /\ query' = [query EXCEPT ![r] =
          [NoQuery EXCEPT !.phase = "listed", !.ask = q, !.all = Held, !.left = Held]]
    BY <1>7 DEF SubjectList
  <2> DEFINE n == [NoQuery EXCEPT !.phase = "listed", !.ask = q, !.all = Held, !.left = Held]
  <2>2. /\ DOMAIN n = QueryFields /\ n.phase = "listed" /\ n.ask = q
        /\ n.all = Held /\ n.left = Held
        /\ n.current = 0 /\ n.stale = 0 /\ DOMAIN n.items = {}
    BY <1>1, <1>6
  <2> HIDE DEF n
  <2>3. Fetching(n)
    BY <1>5, <2>1, <2>2 DEF Fetching, Snapshot
  <2>4. QED
    BY <2>1, <2>2, <2>3 DEF n
<1>8. CASE SubjectClock(r)
  <2> DEFINE n == [v EXCEPT !.phase = "loop", !.at = now, !.scope = v.ask.scope]
  <2>1. v.phase = "listed" /\ query' = [query EXCEPT ![r] = n]
    BY <1>8 DEF SubjectClock
  <2>2. Fetching(v) /\ v.ask.kind = "view" /\ Snapshot(v) /\ v.left = v.all
    BY <1>2, <2>1 DEF Fetching
  <2> HIDE DEF v
  <2>3. /\ DOMAIN n = QueryFields /\ n.phase = "loop" /\ n.ask = v.ask /\ n.at = now
        /\ n.all = v.all /\ n.left = v.left /\ n.scope = v.ask.scope
        /\ n.current = v.current /\ n.stale = v.stale /\ n.items = v.items
    BY <1>1, <1>2
  <2> HIDE DEF n
  <2>4. Snapshot(n)
    BY <2>2, <2>3 DEF Snapshot
  <2>5. Looping(n)
    BY <1>4, <2>2, <2>3, <2>4, LoopStart DEF Fetching
  <2>6. QED
    BY <2>1, <2>3, <2>5
<1>9. CASE EnvelopesClock(r)
  <2>1. PICK q \in Queries : q.kind = "list" /\ query' = [query EXCEPT ![r] =
          [NoQuery EXCEPT !.phase = "timed", !.ask = q, !.at = now]]
    BY <1>9 DEF EnvelopesClock
  <2> DEFINE n == [NoQuery EXCEPT !.phase = "timed", !.ask = q, !.at = now]
  <2>2. /\ DOMAIN n = QueryFields /\ n.phase = "timed" /\ n.ask = q /\ n.at = now
        /\ n.current = 0 /\ n.stale = 0 /\ DOMAIN n.items = {}
    BY <1>1, <1>6
  <2> HIDE DEF n
  <2>3. Fetching(n)
    BY <1>4, <2>1, <2>2 DEF Fetching
  <2>4. QED
    BY <2>1, <2>2, <2>3 DEF n
<1>10. CASE EnvelopesList(r)
  <2> DEFINE n == [v EXCEPT !.phase = "loop", !.all = Held, !.left = Held]
  <2>1. v.phase = "timed" /\ query' = [query EXCEPT ![r] = n]
    BY <1>10 DEF EnvelopesList
  <2>2. Fetching(v) /\ v.ask.kind = "list" /\ v.at \in Nat \ {0}
    BY <1>2, <2>1 DEF Fetching
  <2> HIDE DEF v
  <2>3. /\ DOMAIN n = QueryFields /\ n.phase = "loop" /\ n.ask = v.ask /\ n.at = v.at
        /\ n.all = Held /\ n.left = Held
        /\ n.current = v.current /\ n.stale = v.stale /\ n.items = v.items
    BY <1>1, <1>2
  <2> HIDE DEF n
  <2>4. Snapshot(n)
    BY <1>5, <2>3 DEF Snapshot
  <2>5. Looping(n)
    BY <2>2, <2>3, <2>4, LoopStart DEF Fetching
  <2>6. QED
    BY <2>1, <2>3, <2>5
<1>11. CASE Turn(r)
  <2>1. PICK e \in v.left : /\ \A f \in v.left \ {e} : Before(e, f)
                            /\ query' = [query EXCEPT ![r] = Visit(v, e)]
    BY <1>11 DEF Turn
  <2>2. v.phase = "loop" /\ Looping(v)
    BY <1>2, <1>11 DEF Turn
  <2> HIDE DEF v
  <2>3. DOMAIN Visit(v, e) = QueryFields /\ Visit(v, e).phase = "loop"
    BY <1>2, <2>2, VisitFields
  <2>4. Looping(Visit(v, e))
    BY <1>2, <2>1, <2>2, LoopNext
  <2>5. QED
    BY <2>1, <2>3, <2>4
<1>12. CASE Answer(r)
  BY <1>6, <1>12 DEF Answer
<1>13. QED
  BY <1>7, <1>8, <1>9, <1>10, <1>11, <1>12 DEF Read

\* Every step preserves what is known of the readers; the steps of the
\* contracts leave them alone.
LEMMA ViewInvNext ==
    ASSUME Registry, TypeOK, ViewInv, [ViewNext]_viewVars
    PROVE  ViewInv'
<1>1. CASE UNCHANGED query
  BY <1>1 DEF ViewInv
<1>2. CASE \E r \in Readers : Read(r)
  BY <1>2, ReadInv
<1>3. QED
  BY <1>1, <1>2 DEF ViewNext, viewVars

\* Readers disturb nothing: to the contracts each of their steps is a stutter.
LEMMA ViewNextRefines == [ViewNext]_viewVars => [Next]_vars
<1>1. \A r \in Readers : Read(r) => UNCHANGED vars
  BY DEF Read, SubjectList, SubjectClock, EnvelopesClock, EnvelopesList, Turn, Answer
<1>2. UNCHANGED viewVars => UNCHANGED vars
  BY DEF viewVars
<1>3. QED
  BY <1>1, <1>2, Zenon DEF ViewNext

\* The contracts with readers implement the contracts: what is proved of Spec
\* above holds beside the readers, too.
THEOREM ReadersDisturbNothing == ViewSpec => Spec
  BY ViewNextRefines, PTL DEF ViewSpec, ViewInit, Spec

\* Types of the contracts, and a registry of finitely many envelopes in normal
\* form that were made.
THEOREM RefreshTypes == Spec => [](Registry /\ TypeOK)
<1>1. Registry /\ TypeOK /\ [Next]_vars => Registry' /\ TypeOK'
  BY RegistryNext
<1>2. QED
  BY <1>1, RegistryInit, PTL DEF Spec

\* The invariant of the readers and their loops.
THEOREM ViewInvariance == ViewSpec => []ViewInv
<1>1. ViewInit => ViewInv
  <2>1. NoQuery.phase = "idle" /\ DOMAIN NoQuery = QueryFields
    BY DEF NoQuery, QueryFields
  <2>2. QED
    BY <2>1 DEF ViewInit, ViewInv
<1>2. Registry /\ TypeOK /\ ViewInv /\ [ViewNext]_viewVars => ViewInv'
  BY ViewInvNext
<1>3. QED
  BY <1>1, <1>2, ReadersDisturbNothing, RefreshTypes, PTL DEF ViewSpec

\* The answers of the list and the subject view are exact for what they read
\* of the registry and the clock, whatever arrives while they are computed.
THEOREM ViewsExact == ViewSpec => []ViewExact
<1>1. ViewInv => ViewExact
  <2> SUFFICES ASSUME ViewInv, NEW r \in Readers, Answering(r)
               PROVE  LET v      == query[r]
                          chosen == {e \in v.all : Selected(v.ask, e, v.at)}
                          fresh  == {e \in chosen : FreshAt(e, v.at)}
                          scoped == {e \in chosen : e.content.subject.scope # ""}
                      IN  /\ v.current = Cardinality(fresh)
                          /\ v.stale = Cardinality(chosen \ fresh)
                          /\ v.ask.kind = "view" =>
                               /\ DOMAIN v.items = {AssertionKey(e) : e \in chosen}
                               /\ \A k \in DOMAIN v.items :
                                    LET group == {e \in chosen : AssertionKey(e) = k}
                                    IN  v.items[k] = [latest |-> Newest(group),
                                           latestCurrent |-> Newest(group \cap fresh),
                                           count |-> Cardinality(group)]
                               /\ v.scope = IF v.ask.scope # "" \/ scoped = {} THEN v.ask.scope
                                            ELSE Newest(scoped).content.subject.scope
    BY DEF ViewExact
  <2> DEFINE v      == query[r]
             chosen == {e \in v.all : Selected(v.ask, e, v.at)}
             fresh  == {e \in chosen : FreshAt(e, v.at)}
             scoped == {e \in chosen : e.content.subject.scope # ""}
  <2>1. Looping(v) /\ v.left = {}
    BY DEF ViewInv, Answering
  <2> HIDE DEF v
  <2>2. Chosen(v) = chosen /\ Fresh(v) = fresh /\ Scoped(v) = scoped
    BY <2>1 DEF Chosen, Fresh, Scoped, Visited
  <2>3. chosen \subseteq EvidenceEnvelope
    BY <2>1 DEF Looping, Snapshot
  <2>4. v.current = Cardinality(fresh) /\ v.stale = Cardinality(chosen \ fresh)
    BY <2>1, <2>2 DEF Looping
  <2>5. ASSUME v.ask.kind = "view"
        PROVE  DOMAIN v.items = {AssertionKey(e) : e \in chosen}
    BY <2>1, <2>2, <2>5 DEF Looping, Grouped
  <2>6. ASSUME v.ask.kind = "view", NEW k \in DOMAIN v.items
        PROVE  LET group == {e \in chosen : AssertionKey(e) = k}
               IN  v.items[k] = [latest |-> Newest(group),
                                 latestCurrent |-> Newest(group \cap fresh),
                                 count |-> Cardinality(group)]
    <3> DEFINE group == {e \in chosen : AssertionKey(e) = k}
    <3>1. GroupOf(v, k) = group
      BY <2>2 DEF GroupOf
    <3>2. IsItem(v.items[k], group, v.at)
      BY <2>1, <2>6, <3>1 DEF Looping, Grouped
    <3>3. {e \in group : FreshAt(e, v.at)} = group \cap fresh
      OBVIOUS
    <3>4. group \in SUBSET EvidenceEnvelope /\ group \cap fresh \in SUBSET EvidenceEnvelope
      BY <2>3
    <3> HIDE DEF group, fresh
    <3>5. BestOf(v.items[k].latest, group) /\ BestOf(v.items[k].latestCurrent, group \cap fresh)
      BY <3>2, <3>3 DEF IsItem
    <3>6. v.items[k].latest = Newest(group) /\ v.items[k].latestCurrent = Newest(group \cap fresh)
      BY <3>4, <3>5, NewestIs
    <3>7. v.items[k] = [latest |-> Newest(group), latestCurrent |-> Newest(group \cap fresh),
                        count |-> Cardinality(group)]
      BY <3>2, <3>6 DEF IsItem
    <3>8. QED
      BY <3>7 DEF group
  <2>7. ASSUME v.ask.kind = "view"
        PROVE  v.scope = IF v.ask.scope # "" \/ scoped = {} THEN v.ask.scope
                         ELSE Newest(scoped).content.subject.scope
    <3>1. IF v.ask.scope # "" \/ scoped = {} THEN v.scope = v.ask.scope
          ELSE \E e \in scoped : IsNewest(e, scoped) /\ v.scope = e.content.subject.scope
      BY <2>1, <2>2, <2>7 DEF Looping, Grouped
    <3>2. scoped \in SUBSET EvidenceEnvelope
      BY <2>3
    <3> HIDE DEF scoped
    <3>3. \A e \in scoped : IsNewest(e, scoped) => Newest(scoped) = e
      BY <3>2, NewestIs DEF BestOf
    <3>4. QED
      BY <3>1, <3>3
  <2>8. QED
    BY <2>4, <2>5, <2>6, <2>7 DEF v
<1>2. QED
  BY <1>1, ViewInvariance, PTL

\* What a hand-off established is in every view of its subject that finds it in
\* the registry: until it expires, the view says current and shows it or a
\* newer observation.
THEOREM EstablishedShown == ViewSpec => []EstablishedIsShown
<1>1. ViewInv => EstablishedIsShown
  <2> SUFFICES ASSUME ViewInv, NEW r \in Readers, NEW h \in handoffs,
                      Answering(r), query[r].ask.kind = "view",
                      h.evidence \in query[r].all,
                      Selected(query[r].ask, h.evidence, query[r].at),
                      query[r].at <= h.evidence.validUntil
               PROVE  LET v    == query[r]
                          e    == h.evidence
                          best == v.items[AssertionKey(e)].latestCurrent
                      IN  /\ evidenceTransportLifecycle(v.current, v.stale) = "current"
                          /\ AssertionKey(e) \in DOMAIN v.items
                          /\ best # NoEnvelope /\ best.observedAt >= e.observedAt
    BY DEF EstablishedIsShown
  <2> DEFINE v   == query[r]
             e   == h.evidence
             key == AssertionKey(e)
             F   == {f \in GroupOf(v, key) : FreshAt(f, v.at)}
  <2>1. Looping(v) /\ v.left = {}
    BY DEF ViewInv, Answering
  <2>2. /\ v.ask.kind = "view" /\ e \in v.all /\ Selected(v.ask, e, v.at)
        /\ v.at <= e.validUntil
    OBVIOUS
  <2> HIDE DEF v, e
  <2>3. Snapshot(v) /\ v.at \in Nat \ {0} /\ e \in EvidenceEnvelope \ {NoEnvelope}
    BY <2>1, <2>2 DEF Looping, Snapshot
  <2>4. FreshAt(e, v.at)
    BY <2>2, <2>3 DEF FreshAt, EvidenceEnvelope
  <2>5. e \in Chosen(v) /\ e \in Fresh(v)
    BY <2>1, <2>2, <2>4 DEF Chosen, Fresh, Visited
  <2>6. evidenceTransportLifecycle(v.current, v.stale) = "current"
    <3>1. Fresh(v) \in SUBSET v.all /\ IsFiniteSet(v.all)
      BY <2>3 DEF Fresh, Chosen, Visited, Snapshot
    <3>2. IsFiniteSet(Fresh(v))
      BY <3>1, FS_Subset
    <3>3. Cardinality(Fresh(v)) \in Nat /\ Cardinality(Fresh(v)) # 0
      BY <2>5, <3>2, FS_CardinalityType, FS_EmptySet
    <3>4. v.current > 0
      BY <2>1, <3>3 DEF Looping
    <3>5. QED
      BY <3>4 DEF evidenceTransportLifecycle
  <2>7. Grouped(v) /\ key \in DOMAIN v.items
    BY <2>1, <2>2, <2>5 DEF Looping, Grouped
  <2>8. BestOf(v.items[key].latestCurrent, F) /\ e \in F /\ F \subseteq v.all
    <3>1. IsItem(v.items[key], GroupOf(v, key), v.at)
      BY <2>7 DEF Grouped
    <3>2. e \in F /\ F \subseteq v.all
      BY <2>4, <2>5 DEF GroupOf, Chosen, Visited
    <3>3. QED
      BY <3>1, <3>2 DEF IsItem
  <2> DEFINE best == v.items[key].latestCurrent
  <2> HIDE DEF F, best, key
  <2>9. best \in F /\ \A f \in F \ {best} : Before(best, f)
    BY <2>8 DEF BestOf, IsNewest, best
  <2>10. best \in EvidenceEnvelope \ {NoEnvelope}
    BY <2>3, <2>8, <2>9 DEF Snapshot
  <2>11. best.observedAt >= e.observedAt
    <3>1. CASE best = e
      BY <2>3, <3>1 DEF EvidenceEnvelope
    <3>2. CASE best # e
      BY <2>3, <2>8, <2>9, <2>10, <3>2, BeforeFacts
    <3>3. QED
      BY <3>1, <3>2
  <2>12. QED
    BY <2>6, <2>7, <2>10, <2>11 DEF v, e, best, key
<1>2. QED
  BY <1>1, ViewInvariance, PTL
=============================================================================
