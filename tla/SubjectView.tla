---------------------------- MODULE SubjectView -----------------------------
(***************************************************************************)
(* The read model of the evidence registry: GET /v1/evidence/envelopes and *)
(* GET /v1/evidence/subjects/{kind}/{id} (internal/api/server.go,          *)
(* evidence_delivery.go), served while the envelopes of EvidenceRefresh    *)
(* arrive and the clock runs.  A request reads the registry and the clock, *)
(* the one before the other, and loops over what it read, one action per   *)
(* turn.  A subject is the pair of kind and id (of) with a scope, "" when  *)
(* it has none.                                                            *)
(***************************************************************************)
EXTENDS EvidenceRefresh

CONSTANTS Readers,   \* handlers of requests
          Queries    \* what they are asked for; a blank field asks for all

\* The list has no parameter for the scope, the view none for freshness.
ASSUME QueriesType == \A q \in Queries :
    \/ q.kind = "list" /\ q.scope = "" /\ q.current \in {"", "true", "false"}
    \/ q.kind = "view" /\ q.of # "" /\ q.current = ""
\* Ids are numbered in the order of their strings.
ASSUME IdsOrdered == EnvelopeIds \subseteq Nat

VARIABLE query    \* progress of each reader's request

viewVars == <<vars, query>>

NoItem == [latest |-> NoEnvelope, latestCurrent |-> NoEnvelope, count |-> 0]

\* all is what the registry held when it was read, left what the loop has not
\* visited yet.
NoQuery == [phase |-> "idle", ask |-> NoEnvelope, at |-> 0, all |-> {}, left |-> {},
            current |-> 0, stale |-> 0, scope |-> "", items |-> [k \in {} |-> NoItem]]

-----------------------------------------------------------------------------
\* The order of EvidenceEnvelopeRegistry.List: newest first, then by id.
Before(e, f) == \/ e.observedAt > f.observedAt
                \/ e.observedAt = f.observedAt /\ e.id < f.id

\* The conditions under which the loops do not continue with the next envelope.
Selected(q, e, at) ==
    /\ q.of \in {"", e.content.subject.of}
    /\ q.scope \in {"", e.content.subject.scope}
    /\ q.current = "" \/ (q.current = "true" <=> FreshAt(e, at))

\* current++ or stale++, in both loops.
Count(v, e) ==
    IF FreshAt(e, v.at) THEN [v EXCEPT !.current = v.current + 1]
    ELSE [v EXCEPT !.stale = v.stale + 1]

AssertionKey(e) == <<e.system, e.domain, e.content.assertion>>

\* item.latest == nil || envelope.ObservedAt.After(item.latest.ObservedAt)
Newer(e, best) == best = NoEnvelope \/ e.observedAt > best.observedAt

ItemOf(v, key) == IF key \in DOMAIN v.items THEN v.items[key] ELSE NoItem

\* Mutant: the envelope visited last is the latest.
UpdatedLast(item, e, fresh) ==
    [latest |-> e, latestCurrent |-> IF fresh THEN e ELSE item.latestCurrent,
     count |-> item.count + 1]

\* The assertion's bucket after the envelope.
Updated(item, e, fresh) ==
    [latest |-> IF Newer(e, item.latest) THEN e ELSE item.latest,
     latestCurrent |-> IF fresh /\ Newer(e, item.latestCurrent) THEN e
                       ELSE item.latestCurrent,
     count |-> item.count + 1]

\* What buildEvidenceSubjectView keeps besides the counts.
Group(v, e) ==
    LET key == AssertionKey(e)
        new == Updated(ItemOf(v, key), e, FreshAt(e, v.at))
    IN  [v EXCEPT !.scope = IF v.scope = "" THEN e.content.subject.scope ELSE v.scope,
                  !.items = [k \in DOMAIN v.items \cup {key} |->
                                IF k = key THEN new ELSE v.items[k]]]

\* One turn of the loop over e.
Visit(v, e) ==
    LET rest == [v EXCEPT !.left = v.left \ {e}]
    IN  IF ~Selected(v.ask, e, v.at) THEN rest
        ELSE IF v.ask.kind = "list" THEN Count(rest, e)
        ELSE Group(Count(rest, e), e)

evidenceTransportLifecycle(current, stale) ==
    CASE current > 0 -> "current" [] current = 0 /\ stale > 0 -> "stale-only"
      [] OTHER -> "empty"

-----------------------------------------------------------------------------
ViewInit == Init /\ query = [r \in Readers |-> NoQuery]

\* evidenceSubject: the registry is read...
SubjectList(r) ==
    /\ query[r].phase = "idle"
    /\ \E q \in Queries : q.kind = "view" /\ query' = [query EXCEPT ![r] =
         [NoQuery EXCEPT !.phase = "listed", !.ask = q, !.all = Held, !.left = Held]]
    /\ UNCHANGED vars

\* ...and then the clock.
SubjectClock(r) ==
    /\ query[r].phase = "listed"
    /\ query' = [query EXCEPT ![r] = [query[r] EXCEPT
         !.phase = "loop", !.at = now, !.scope = query[r].ask.scope]]
    /\ UNCHANGED vars

\* evidenceEnvelopesList: the clock is read...
EnvelopesClock(r) ==
    /\ query[r].phase = "idle"
    /\ \E q \in Queries : q.kind = "list" /\ query' = [query EXCEPT ![r] =
         [NoQuery EXCEPT !.phase = "timed", !.ask = q, !.at = now]]
    /\ UNCHANGED vars

\* ...and then the registry.
EnvelopesList(r) ==
    /\ query[r].phase = "timed"
    /\ query' = [query EXCEPT ![r] = [query[r] EXCEPT
         !.phase = "loop", !.all = Held, !.left = Held]]
    /\ UNCHANGED vars

\* The loops take the envelopes in List's order.
Turn(r) ==
    /\ query[r].phase = "loop"
    /\ \E e \in query[r].left :
         /\ \A f \in query[r].left \ {e} : Before(e, f)
         /\ query' = [query EXCEPT ![r] = Visit(query[r], e)]
    /\ UNCHANGED vars

\* The answer is written.  Sorting the groups of a view is left out.
Answer(r) ==
    /\ query[r].phase = "loop" /\ query[r].left = {}
    /\ query' = [query EXCEPT ![r] = NoQuery]
    /\ UNCHANGED vars

Read(r) == \/ SubjectList(r) \/ SubjectClock(r) \/ EnvelopesClock(r)
           \/ EnvelopesList(r) \/ Turn(r) \/ Answer(r)

ViewNext == \/ Next /\ UNCHANGED query
            \/ \E r \in Readers : Read(r)

ViewSpec == ViewInit /\ [][ViewNext]_viewVars

-----------------------------------------------------------------------------
(* Properties of the answers that are about to be written.                 *)

Answering(r) == query[r].phase = "loop" /\ query[r].left = {}

\* The newest of a set of envelopes, the least id among equals.
Newest(S) == IF S = {} THEN NoEnvelope
             ELSE CHOOSE e \in S : \A f \in S \ {e} : Before(e, f)

\* The loops compute what their answers are read as: counts of the fresh and
\* of the expired envelopes asked for, and in a view, per producer, authority
\* domain and assertion, the newest and the newest fresh envelope.  A view not
\* asked for a scope reports that of the newest envelope that has one.
ViewExact ==
    \A r \in Readers : Answering(r) =>
        LET v      == query[r]
            chosen == {e \in v.all : Selected(v.ask, e, v.at)}
            fresh  == {e \in chosen : FreshAt(e, v.at)}
            scoped == {e \in chosen : e.content.subject.scope # ""}
        IN  /\ v.current = Cardinality(fresh)
            /\ v.stale = Cardinality(chosen \ fresh)
            /\ v.ask.kind = "view" =>
                 /\ DOMAIN v.items = {AssertionKey(e) : e \in chosen}
                 /\ \A k \in DOMAIN v.items :
                      LET group == {e \in chosen : AssertionKey(e) = k}
                      IN  v.items[k] = [latest |-> Newest(group),
                                        latestCurrent |-> Newest(group \cap fresh),
                                        count |-> Cardinality(group)]
                 /\ v.scope = IF v.ask.scope # "" \/ scoped = {} THEN v.ask.scope
                              ELSE Newest(scoped).content.subject.scope

\* Evidence that a hand-off established and the registry held is in every view
\* that covers its subject: until it expires by the clock of the view, the view
\* says current and shows it, or a newer observation, as the latest current one
\* of its assertion.
EstablishedIsShown ==
    \A r \in Readers, h \in handoffs :
        LET v    == query[r]
            e    == h.evidence
            best == v.items[AssertionKey(e)].latestCurrent
        IN  /\ Answering(r) /\ v.ask.kind = "view"
            /\ e \in v.all /\ Selected(v.ask, e, v.at) /\ v.at <= e.validUntil
            => /\ evidenceTransportLifecycle(v.current, v.stale) = "current"
               /\ AssertionKey(e) \in DOMAIN v.items
               /\ best # NoEnvelope /\ best.observedAt >= e.observedAt
=============================================================================
