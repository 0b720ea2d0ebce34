-------------------------- MODULE EvidenceRefresh ---------------------------
(***************************************************************************)
(* The evidence refresh contracts of internal/contracts/evidence_refresh.go *)
(* and evidence_refresh_handoff.go: Mesh asks a producer for new evidence  *)
(* (intent), the producer answers with a handling receipt (response) and,  *)
(* separately, evidence; the hand-off checks that the three belong         *)
(* together.                                                               *)
(*                                                                         *)
(* The validations are the repository's; it has no code yet that carries   *)
(* the messages, so sending is external: whatever was sent may be lost,    *)
(* repeated, delayed and reordered, a producer may answer for the wrong    *)
(* target or name the wrong envelope, and intent ids are reused.  Evidence *)
(* is stored in the write-once map that EnvelopeRegistry implements.       *)
(***************************************************************************)
EXTENDS EvidenceEnvelope, Integers, FiniteSets

CONSTANTS Targets,      \* [system, domain, subject, assertion] asked about
          IntentIds,    \* ids of intents
          NoEnvelope,   \* marks an envelope id that is not stored
          AtStart,      \* sets of envelopes stored when the model starts
          NewIds,       \* envelope ids that producers use afterwards
          Lifetimes,    \* how long producers declare evidence valid
          MaxTime,      \* bound on the clock
          MaxIntents,   \* bound on the intents sent
          MaxResponses  \* bound on the responses sent

ASSUME BoundsType == MaxTime \in Nat \ {0} /\ {MaxIntents, MaxResponses} \subseteq Nat
                     /\ Lifetimes \subseteq Nat \ {0}
\* What is stored when the model starts, at time 1, was observed by then and
\* is in normal form.
ASSUME StoredType ==
    /\ \A E \in AtStart : /\ E \subseteq EvidenceEnvelope /\ IsFiniteSet(E)
                          /\ \A e \in E : e.observedAt <= 1 /\ e.form = "normal"
    /\ NewIds \subseteq EnvelopeIds
\* Targets name producers.  The names in the authority tables are strings, which
\* the provers do not know of a literal.
ASSUME TargetsType ==
    \A t \in Targets :
        /\ t.system \in Producers
        /\ {t.system, t.domain, evidenceProducerRepositories[t.system]} \subseteq STRING
        /\ evidenceProducerContracts[t.system] \subseteq STRING

VARIABLES
    now,        \* the clock of Mesh and the producers
    back,       \* history: the clock was set back
    made,       \* envelopes that producers made
    stored,     \* the envelope registry
    intents,    \* intents sent, with the envelopes that existed then (before)
    responses,  \* responses sent
    handoffs    \* hand-offs established

vars == <<now, back, made, stored, intents, responses, handoffs>>

Store == INSTANCE ImmutableStore WITH
    Ids <- EnvelopeIds, Values <- EvidenceEnvelope, NoValue <- NoEnvelope,
    bound <- stored, receipts <- {}

Held == {stored[id] : id \in EnvelopeIds} \ {NoEnvelope}

TargetOf(e) == [system |-> e.system, domain |-> e.domain,
                subject |-> e.content.subject, assertion |-> e.content.assertion]

-----------------------------------------------------------------------------
(* Validation.  wellFormed stands for the syntactic checks (versions, ids, *)
(* lengths, revisions, the coordinator's identity), bounded for the checks *)
(* that no content, secret, authority or execution is passed on.           *)

Reasons  == {"stale", "empty", "manual"}
Statuses == {"received", "completed", "declined", "unavailable"}
NoTime   == 0

\* A producer other than Mesh, within its own authority.
TargetAllowed(t) ==
    /\ t.system \in Producers \ {"goreecloud-mesh"}
    /\ t.domain \in evidenceAuthorityDomains[t.system]

\* normalizeEvidenceRefreshIntentAt returns no error.
IntentAccepted(i, evaluatedAt) ==
    /\ i.wellFormed /\ TargetAllowed(i.target)
    /\ i.reason \in Reasons
    /\ i.requestedAt # NoTime /\ i.requestedAt <= evaluatedAt
    /\ i.latestObservedAt <= i.requestedAt
    /\ i.reason = "stale" => i.latestObservedAt # NoTime
    /\ i.reason = "empty" => i.latestObservedAt = NoTime
    /\ i.bounded

\* normalizeEvidenceRefreshResponseAt returns no error.
ResponseAccepted(r, evaluatedAt) ==
    /\ r.wellFormed /\ TargetAllowed(r.target)
    /\ r.intent.reason \in Reasons
    /\ r.intent.requestedAt # NoTime /\ r.intent.requestedAt <= evaluatedAt
    /\ r.repository = evidenceProducerRepositories[r.target.system]
    /\ r.status \in Statuses
    /\ r.intent.requestedAt <= r.respondedAt /\ r.respondedAt <= evaluatedAt
    /\ r.produced => r.status = "completed"
    /\ r.produced <=> r.evidence # NoEnvelope
    /\ r.bounded

\* The reference to an intent that a response carries.
Reference(i) == [id |-> i.id, revision |-> i.revision, reason |-> i.reason,
                 requestedAt |-> i.requestedAt]

\* Mutant: the intent is bound by its id.
ResponseForIntentById(r, i, evaluatedAt) ==
    /\ IntentAccepted(i, evaluatedAt) /\ ResponseAccepted(r, evaluatedAt)
    /\ r.intent.id = i.id
    /\ r.target = i.target

\* normalizeEvidenceRefreshResponseForIntentAt returns no error.
ResponseForIntent(r, i, evaluatedAt) ==
    /\ IntentAccepted(i, evaluatedAt) /\ ResponseAccepted(r, evaluatedAt)
    /\ r.intent = Reference(i)
    /\ r.target = i.target

\* Mutant: any observation will do.
HandoffAcceptedAnyAge(r, i, e, evaluatedAt) ==
    /\ ResponseForIntent(r, i, evaluatedAt)
    /\ r.status = "completed" /\ r.produced
    /\ NormalizeSucceeds(e, evaluatedAt, TRUE)
    /\ e.id = r.evidence
    /\ e.repository = r.repository /\ e.content.revision = r.revision
    /\ TargetOf(e) = r.target
    /\ e.observedAt <= r.respondedAt

\* normalizeEvidenceRefreshHandoffAt returns no error.
HandoffAccepted(r, i, e, evaluatedAt) ==
    /\ ResponseForIntent(r, i, evaluatedAt)
    /\ r.status = "completed" /\ r.produced
    /\ NormalizeSucceeds(e, evaluatedAt, TRUE)
    /\ e.id = r.evidence
    /\ e.repository = r.repository /\ e.content.revision = r.revision
    /\ TargetOf(e) = r.target
    /\ i.requestedAt <= e.observedAt /\ e.observedAt <= r.respondedAt

-----------------------------------------------------------------------------
Init ==
    /\ now = 1 /\ back = FALSE
    /\ made \in AtStart
    /\ stored = [id \in EnvelopeIds |->
          IF \E e \in made : e.id = id THEN CHOOSE e \in made : e.id = id
          ELSE NoEnvelope]
    /\ intents = {} /\ responses = {} /\ handoffs = {}

Tick ==
    /\ now < MaxTime
    /\ now' = now + 1
    /\ UNCHANGED <<back, made, stored, intents, responses, handoffs>>

StepBack ==
    /\ ~back /\ now > 1
    /\ now' = now - 1 /\ back' = TRUE
    /\ UNCHANGED <<made, stored, intents, responses, handoffs>>

\* A producer makes an envelope now.
Observe ==
    /\ \E id \in NewIds, c \in Contents, t \in Targets, l \in Lifetimes :
         LET e == [id |-> id, content |-> c, system |-> t.system,
                   repository |-> evidenceProducerRepositories[t.system],
                   contract |-> CHOOSE k \in evidenceProducerContracts[t.system] : TRUE,
                   domain |-> t.domain, observedAt |-> now, validUntil |-> now + l,
                   wellFormed |-> TRUE, minimized |-> TRUE, form |-> "normal"]
         IN  /\ \A m \in made : m.id # id
             /\ TargetOf(e) = t
             /\ made' = made \cup {e}
    /\ UNCHANGED <<now, back, stored, intents, responses, handoffs>>

\* The envelope reaches Mesh: RecordWithResult of a new envelope.
Deliver ==
    /\ \E e \in made : NormalizeSucceeds(e, now, TRUE) /\ Store!Bind(Normal(e))
    /\ UNCHANGED <<now, back, made, intents, responses, handoffs>>

\* What Mesh holds about a target says why it asks: it has nothing, nothing
\* fresh, or was told to ask although it has.
ReasonNow(t) ==
    LET held == {e \in Held : TargetOf(e) = t}
    IN  IF held = {} THEN "empty"
        ELSE IF \A e \in held : ~FreshAt(e, now) THEN "stale" ELSE "manual"

\* Mesh asks.
Request ==
    /\ \E t \in Targets, id \in IntentIds :
         LET reason == ReasonNow(t)
             seen == {e.observedAt : e \in {h \in Held : TargetOf(h) = t}}
             i == [id |-> id, revision |-> "r", target |-> t, reason |-> reason,
                   requestedAt |-> now,
                   latestObservedAt |-> IF reason = "stale" THEN
                       CHOOSE o \in seen : \A p \in seen : p <= o ELSE NoTime,
                   wellFormed |-> TRUE, bounded |-> TRUE,
                   before |-> {e.id : e \in made}]
         IN  /\ IntentAccepted(i, now)
             /\ intents' = intents \cup {i}
    /\ Cardinality(intents') <= MaxIntents
    /\ UNCHANGED <<now, back, made, stored, responses, handoffs>>

\* A producer answers an intent that reached it, rightly or wrongly.
Respond ==
    /\ \E i \in intents, t \in Targets, status \in {"completed", "declined"},
         evidence \in EnvelopeIds \cup {NoEnvelope} :
           LET r == [intent |-> Reference(i), target |-> t, revision |-> "r",
                     repository |-> evidenceProducerRepositories[t.system],
                     status |-> status, respondedAt |-> now,
                     produced |-> evidence # NoEnvelope, evidence |-> evidence,
                     wellFormed |-> TRUE, bounded |-> TRUE]
           IN  ResponseAccepted(r, now) /\ responses' = responses \cup {r}
    /\ Cardinality(responses') <= MaxResponses
    /\ UNCHANGED <<now, back, made, stored, intents, handoffs>>

\* Mesh evaluates a hand-off of messages that reached it, in any order and
\* any number of times.
Handoff ==
    /\ \E r \in responses, i \in intents, e \in made :
         /\ HandoffAccepted(r, i, e, now)
         /\ handoffs' = handoffs \cup {[response |-> r, intent |-> i, evidence |-> e]}
    /\ UNCHANGED <<now, back, made, stored, intents, responses>>

Next == \/ Tick \/ StepBack \/ Observe \/ Deliver
        \/ Request \/ Respond \/ Handoff

Spec == Init /\ [][Next]_vars

-----------------------------------------------------------------------------
\* What is asked about belongs to a producer other than Mesh, and what is
\* established was asked for and made.
TypeOK ==
    /\ now \in 1..MaxTime /\ back \in BOOLEAN
    /\ made \subseteq EvidenceEnvelope /\ Held \subseteq made
    /\ \A i \in intents : i.target.system # "goreecloud-mesh"
    /\ \A h \in handoffs : /\ h.intent \in intents /\ h.response \in responses
                           /\ h.evidence \in made

\* A refresh brings new evidence: an envelope that existed when Mesh asked,
\* however fresh, is not established, unless it was observed in that very
\* instant or the clock was set back.
NewEvidenceEstablished ==
    \A h \in handoffs : ~back /\ h.evidence.id \in h.intent.before =>
        h.evidence.observedAt = h.intent.requestedAt

\* A response settles one request: repeated, delayed or set against every
\* intent that reuses its id, it never establishes two of them.
OneRequestPerResponse ==
    \A h, g \in handoffs : h.response = g.response =>
        /\ Reference(h.intent) = Reference(g.intent)
        /\ h.intent.target = g.intent.target

\* Evaluating a hand-off again, with the same three messages, gives the same
\* answer until the evidence expires, unless the clock is set back.
RepeatedHandoffStands ==
    \A h \in handoffs : ~back /\ now <= h.evidence.validUntil =>
        HandoffAccepted(h.response, h.intent, h.evidence, now)
=============================================================================
