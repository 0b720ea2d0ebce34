----------------------------- MODULE MeshQueries -----------------------------
(***************************************************************************)
(* The queries over the Mesh store, beside the writers, the policy         *)
(* evaluations and the crashes of MeshStore.                               *)
(*                                                                         *)
(* Discovery, GET /v1/capabilities/{capability}: a client asks which       *)
(* services offer a capability, and then has the policy evaluator decide   *)
(* about them any number of times.  Discover reads one snapshot and trims  *)
(* the capability; Evaluate reads the store three times and takes the      *)
(* capability as sent.                                                     *)
(*                                                                         *)
(* Impact analysis, GET /v1/graph/impact: a breadth-first search over the  *)
(* reversed dependencies of one snapshot, one action per turn of its loop. *)
(* A dependency may name a service that is not registered, and nothing     *)
(* keeps dependencies and relationships from forming cycles.               *)
(***************************************************************************)
EXTENDS MeshStore, FiniteSets

CONSTANTS Capabilities,  \* capabilities that clients ask discovery for
          Nothing        \* a client that has no answer

VARIABLES
    known,     \* what the client of each handler last learned from discovery
    impact     \* progress of each handler's impact analysis

queryVars == <<vars, known, impact>>

Answers == [capability : Capabilities, found : SUBSET ServiceIds]

ASSUME NothingNew == Nothing \notin Answers

NoImpact == [phase |-> "idle", id |-> None,
             reverse |-> [c \in ServiceIds |-> {}], seen |-> {},
             queue |-> {}, out |-> {}, turns |-> 0, want |-> {}]

RegisteredIn(d) == {s \in ServiceIds : d.services[s] # None}

-----------------------------------------------------------------------------
\* Mutant: the capability is compared as it was sent.
DiscoverAsSent(d, capability) ==
    {s \in ServiceIds : /\ Registered(d, s)
                        /\ d.services[s].health # "unavailable"
                        /\ capability \in d.services[s].capabilities}

\* Discover: the services that advertise the capability and are not
\* unavailable.
Discover(d, capability) ==
    {s \in ServiceIds : /\ Registered(d, s)
                        /\ d.services[s].health # "unavailable"
                        /\ TrimSpace(capability) \in d.services[s].capabilities}

\* A client asks, and learns what the store holds.
Ask(e) ==
    /\ status = "up" /\ lock = Free
    /\ eval[e].phase = "idle" /\ impact[e].phase = "idle"
    /\ \E c \in Capabilities :
         known' = [known EXCEPT ![e] = [capability |-> c, found |-> Discover(data, c)]]
    /\ UNCHANGED <<vars, impact>>

\* Clients outlive the server.  known is a history variable in that an answer
\* is forgotten in a step that changes what the store holds.
Forgetting(changed) ==
    known' = [e \in Evaluators |-> IF changed THEN Nothing ELSE known[e]]

-----------------------------------------------------------------------------
\* The entry of Impact's reverse map for c: the services that list c among
\* their dependencies, and the sources of its enabled required relationships.
\* The order of the entry is that of two Go map iterations, so a set.
ReverseOf(d, c) ==
    {s \in RegisteredIn(d) : c \in d.services[s].dependencies}
      \cup {d.relationships[i].from : i \in
              {r \in RelationshipIds : /\ d.relationships[r] # None
                                       /\ d.relationships[r].enabled
                                       /\ d.relationships[r].required
                                       /\ d.relationships[r].to = c}}

\* Mutant: dependents seen before are put out and queued again.
TurnRepeating(v, current) ==
    LET found == v.reverse[current]
    IN  [v EXCEPT !.seen = v.seen \cup found, !.out = v.out \cup found,
                  !.queue = (v.queue \ {current}) \cup found, !.turns = v.turns + 1]

\* One turn of Impact's loop: a service leaves the queue, and those of its
\* dependents that were not seen yet are marked, put out and queued.
Turn(v, current) ==
    LET found == v.reverse[current] \ v.seen
    IN  [v EXCEPT !.seen = v.seen \cup found, !.out = v.out \cup found,
                  !.queue = (v.queue \ {current}) \cup found, !.turns = v.turns + 1]

-----------------------------------------------------------------------------
(* Reference: a depends on b directly, and the services a failure reaches. *)

DependsOn(d, a, b) ==
    \/ a \in RegisteredIn(d) /\ b \in d.services[a].dependencies
    \/ \E i \in RelationshipIds :
          LET r == d.relationships[i]
          IN  r # None /\ r.enabled /\ r.required /\ r.from = a /\ r.to = b

\* The least set with id that has every dependent of a member, without id.
Affected(d, id) ==
    LET Closed(S) == \A a \in ServiceIds, b \in S : DependsOn(d, a, b) => a \in S
        Around    == {S \in SUBSET ServiceIds : id \in S /\ Closed(S)}
    IN  {s \in ServiceIds \ {id} : \A S \in Around : s \in S}

-----------------------------------------------------------------------------
QueryInit ==
    /\ Init
    /\ known = [e \in Evaluators |-> Nothing]
    /\ impact = [e \in Evaluators |-> NoImpact]

\* The handler looks the service up by the trimmed id, s; an id that is blank
\* or not registered is answered with 400 or 404 and leaves no trace.  The
\* request is that of another client, which has not asked discovery.
ImpactLookup(e) ==
    /\ status = "up" /\ lock = Free
    /\ eval[e].phase = "idle" /\ impact[e].phase = "idle"
    /\ \E s \in ServiceIds :
         /\ Registered(data, s)
         /\ impact' = [impact EXCEPT ![e] = [NoImpact EXCEPT !.phase = "found", !.id = s]]
    /\ known' = [known EXCEPT ![e] = Nothing]
    /\ UNCHANGED vars

\* Impact reads the store a second time and reverses what it read.  want and
\* turns are history variables: what it should find, and its turns so far.
ImpactSnapshot(e) ==
    /\ impact[e].phase = "found" /\ lock = Free
    /\ LET id == impact[e].id
       IN  impact' = [impact EXCEPT ![e] =
              [phase |-> "search", id |-> id,
               reverse |-> [c \in ServiceIds |-> ReverseOf(data, c)],
               seen |-> {id}, queue |-> {id}, out |-> {},
               turns |-> 0, want |-> Affected(data, id)]]
    /\ UNCHANGED <<vars, known>>

\* The order of the queue is that of Go's map iterations but for the level of
\* the search; here any member may be next.
ImpactTurn(e) ==
    /\ impact[e].phase = "search"
    /\ \E current \in impact[e].queue :
         impact' = [impact EXCEPT ![e] = Turn(impact[e], current)]
    /\ UNCHANGED <<vars, known>>

ImpactReply(e) ==
    /\ impact[e].phase = "search" /\ impact[e].queue = {}
    /\ impact' = [impact EXCEPT ![e] = NoImpact]
    /\ UNCHANGED <<vars, known>>

Impact(e) == ImpactLookup(e) \/ ImpactSnapshot(e) \/ ImpactTurn(e) \/ ImpactReply(e)

-----------------------------------------------------------------------------
\* A restart changes the store when memory held what the file does not, the
\* trace of a write that failed or was under way.
QueryNext ==
    \/ \E w \in Writers : /\ Write(w)
                          /\ Forgetting(data' # data) /\ UNCHANGED impact
    \/ \E e \in Evaluators : /\ impact[e].phase = "idle"
                             /\ Evaluate(e) /\ UNCHANGED <<known, impact>>
    \/ \E e \in Evaluators : Ask(e)
    \/ \E e \in Evaluators : Impact(e)
    \/ /\ Crash
       /\ Forgetting(file # data)
       /\ impact' = [e \in Evaluators |-> NoImpact]
    \/ Start /\ UNCHANGED <<known, impact>>

QuerySpec == QueryInit /\ [][QueryNext]_queryVars

-----------------------------------------------------------------------------
(* Properties.                                                             *)

\* Until the store's content changes, and across restarts that bring it back,
\* a client can rely on what it discovered, though Evaluate reads the store
\* three times: it allows a request for that capability exactly when the target
\* was among the services found, the source is registered and a relationship
\* authorizes it.
DiscoveryForetells ==
    \A e \in Evaluators :
        LET q == eval[e].request
            k == known[e]
        IN  /\ eval[e].phase = "done"
            /\ k # Nothing
            /\ q.capability = TrimSpace(k.capability)
            => eval[e].allowed = (/\ q.target \in k.found
                                  /\ Registered(data, q.source)
                                  /\ Related(data, q))

\* Discover and Evaluate disagree about a capability with white space around
\* it: whatever discovery finds under that text, Evaluate, which compares the
\* text as sent, allows nothing, not even where a relationship was stored with
\* the same text, since no service can be registered with it.
PaddedIsRefused ==
    \A e \in Evaluators :
        eval[e].phase = "done" /\ eval[e].request.capability \in DOMAIN Padded
            => ~eval[e].allowed

\* Impact names exactly the services that directly or transitively depend on
\* the one asked about, never that service itself though dependencies run in
\* circles, and only registered ones although dependencies may name others;
\* its loop ends, after at most one turn per registered service.
ImpactExact ==
    \A e \in Evaluators : impact[e].phase = "search" =>
        /\ impact[e].turns <= Cardinality(RegisteredIn(data))
        /\ impact[e].queue = {} => /\ impact[e].out = impact[e].want
                                  /\ impact[e].out \subseteq RegisteredIn(data)
=============================================================================
