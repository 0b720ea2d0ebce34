------------------------------ MODULE MeshStore ------------------------------
(***************************************************************************)
(* The Mesh registry of services and relationships and the policy          *)
(* evaluator over it (internal/mesh/mesh.go, internal/store/store.go), as  *)
(* driven by POST /v1/services, /v1/relationships and /v1/evaluate, under  *)
(* concurrent handlers, failing writes, crashes and restarts.              *)
(*                                                                         *)
(* The store is one structure behind one mutex, written as a whole to one  *)
(* file.  Unlike the evidence registries it does not take back a change it *)
(* could not persist: the request is refused, the change stays in memory   *)
(* and the next successful write carries it to disk.  AddRelationship and  *)
(* Evaluate read the store several times, each time under the mutex of its *)
(* own.  Publishing the lifecycle event, which happens after the store's   *)
(* mutex is released and touches nothing of the store, is MeshEvents.      *)
(***************************************************************************)
EXTENDS Access

CONSTANTS ServiceIds, RelationshipIds,
          Services,        \* bodies of POST /v1/services
          Relationships,   \* bodies of POST /v1/relationships
          PolicyRequests,  \* bodies of POST /v1/evaluate
          Principals,      \* what the verifier makes of a bearer token
          Writers,         \* concurrent handlers of the two writing routes
          Evaluators,      \* concurrent handlers of /v1/evaluate
          Padded,          \* the texts with white space around them, each with
                           \* the text inside, which is "" for a blank one
          None,            \* absent map entry, or no request in progress
          Free,            \* the mutex is not held
          Torn             \* a partially written file

ASSUME IdsDisjoint == ServiceIds \cap RelationshipIds = {}

VARIABLES
    status,    \* the process: "up", "down" or "refused"
    data,      \* Store.data
    lock,      \* the writer holding Store.mu, or Free
    file,      \* the file at the store's path
    tmp,       \* the file at the store's path plus ".tmp"
    pc,        \* progress of each writer
    op,        \* the normalised service or relationship a writer stores
    code,      \* the status a writer is about to answer, 0 before that
    eval,      \* progress of each evaluation
    acked      \* ids of the services and relationships answered with 201

disk     == <<file, tmp>>
requests == <<pc, op, code>>
vars     == <<status, data, lock, disk, requests, eval, acked>>

ScopeServicesWrite      == "mesh.services.write"
ScopeRelationshipsWrite == "mesh.relationships.write"
ScopePolicyEvaluate     == "mesh.policy.evaluate"

Empty == [services |-> [s \in ServiceIds |-> None],
          relationships |-> [r \in RelationshipIds |-> None]]

NoEval == [phase |-> "idle", request |-> None, allowed |-> FALSE,
           available |-> FALSE, related |-> FALSE]

-----------------------------------------------------------------------------
(* Validation and normalisation of the bodies.                             *)

\* strings.TrimSpace.
TrimSpace(text) == IF text \in DOMAIN Padded THEN Padded[text] ELSE text

ASSUME PaddedTrims ==
    /\ "" \notin DOMAIN Padded
    /\ \A t \in DOMAIN Padded : Padded[t] \notin DOMAIN Padded

HealthStates == {"unknown", "healthy", "degraded", "unavailable"}

\* Mutant: blanks are dropped, but nothing is trimmed.
UniqueUntrimmed(list) == {list[i] : i \in DOMAIN list} \ {""}

\* unique: trimmed, without blanks and duplicates; sorted, so a set will do.
Unique(list) == {TrimSpace(list[i]) : i \in DOMAIN list} \ {""}

\* RegisterService up to the call of PutService: the body is accepted...
ServiceAccepted(v) ==
    TrimSpace(v.id) # "" /\ v.named /\ v.health \in HealthStates \cup {""}

\* ...and stored in this form.
StoredService(v) ==
    [id |-> TrimSpace(v.id),
     health |-> IF v.health = "" THEN "unknown" ELSE v.health,
     capabilities |-> Unique(v.capabilities),
     dependencies |-> Unique(v.dependencies)]

\* AddRelationship trims the id and the two ends, not the capability...
StoredRelationship(r) ==
    [r EXCEPT !.id = TrimSpace(@), !.from = TrimSpace(@), !.to = TrimSpace(@)]

\* ...and refuses what is then incomplete or points at itself, before it looks
\* at the store.
RelationshipAccepted(r) ==
    r.id # "" /\ r.from # "" /\ r.to # "" /\ r.typed /\ r.from # r.to

Registered(d, s) == s \in ServiceIds /\ d.services[s] # None

\* Evaluate trims the names of source and target, not the capability.
LookedUp(q) == [q EXCEPT !.source = TrimSpace(@), !.target = TrimSpace(@)]

\* Shapes of stored services, and of a store's content.
StoredServices ==
    [id : ServiceIds, health : HealthStates,
     capabilities : SUBSET UNION {Unique(v.capabilities) : v \in Services},
     dependencies : SUBSET UNION {Unique(v.dependencies) : v \in Services}]

StoredRelationships == {StoredRelationship(r) : r \in Relationships}

Contents == [services : [ServiceIds -> StoredServices \cup {None}],
             relationships : [RelationshipIds -> StoredRelationships \cup {None}]]

ASSUME ServicesType ==
    \A v \in Services : ServiceAccepted(v) => TrimSpace(v.id) \in ServiceIds
ASSUME RelationshipsType ==
    \A r \in StoredRelationships :
        /\ "health" \notin DOMAIN r
        /\ RelationshipAccepted(r) => r.id \in RelationshipIds
ASSUME NoneNew == None \notin StoredServices \cup StoredRelationships
ASSUME FreeNew == Free \notin Writers
ASSUME TornNew == Torn \notin Contents

Questions == {LookedUp(q) : q \in PolicyRequests}

-----------------------------------------------------------------------------
(* The parts of the policy.                                                *)

\* The target is registered, not unavailable, and advertises the capability.
TargetOffers(d, q) ==
    /\ Registered(d, q.target)
    /\ d.services[q.target].health # "unavailable"
    /\ q.capability # ""
    /\ q.capability \in d.services[q.target].capabilities

\* An enabled relationship authorizes the capability.
Related(d, q) ==
    \E i \in RelationshipIds :
        LET r == d.relationships[i]
        IN  /\ r # None
            /\ r.enabled
            /\ r.from = q.source /\ r.to = q.target
            /\ r.capability \in {"", q.capability}

\* What Evaluate would decide if it read the store once.
Allows(d, q) == Registered(d, q.source) /\ TargetOffers(d, q) /\ Related(d, q)

-----------------------------------------------------------------------------
Init ==
    /\ status = "up"
    /\ data = Empty
    /\ lock = Free
    /\ file = Empty /\ tmp = Empty     \* no file yet
    /\ pc = [w \in Writers |-> "idle"]
    /\ op = [w \in Writers |-> None]
    /\ code = [w \in Writers |-> 0]
    /\ eval = [e \in Evaluators |-> NoEval]
    /\ acked = {}

Answer(w, c) ==
    /\ pc' = [pc EXCEPT ![w] = "reply"]
    /\ code' = [code EXCEPT ![w] = c]

\* POST /v1/services up to the store.  A body that does not decode is a
\* body that is not accepted.
ReceiveService(w) ==
    /\ status = "up" /\ pc[w] = "idle"
    /\ \E p \in Principals, v \in Services :
         LET gate == RequireScope(p, ScopeServicesWrite)
         IN  \/ /\ gate # Pass
                /\ Answer(w, gate) /\ UNCHANGED op
             \/ /\ gate = Pass /\ ~ServiceAccepted(v)
                /\ Answer(w, BadRequest) /\ UNCHANGED op
             \/ /\ gate = Pass /\ ServiceAccepted(v)
                /\ op' = [op EXCEPT ![w] = StoredService(v)]
                /\ pc' = [pc EXCEPT ![w] = "put"]
                /\ UNCHANGED code
    /\ UNCHANGED <<status, data, lock, disk, eval, acked>>

\* POST /v1/relationships up to its first read of the store; r is the body,
\* trimmed.
ReceiveRelationship(w) ==
    /\ status = "up" /\ pc[w] = "idle"
    /\ \E p \in Principals, r \in StoredRelationships :
         LET gate == RequireScope(p, ScopeRelationshipsWrite)
         IN  \/ /\ gate # Pass
                /\ Answer(w, gate) /\ UNCHANGED op
             \/ /\ gate = Pass /\ ~RelationshipAccepted(r)
                /\ Answer(w, BadRequest) /\ UNCHANGED op
             \/ /\ gate = Pass /\ RelationshipAccepted(r)
                /\ op' = [op EXCEPT ![w] = r]
                /\ pc' = [pc EXCEPT ![w] = "from"]
                /\ UNCHANGED code
    /\ UNCHANGED <<status, data, lock, disk, eval, acked>>

\* AddRelationship reads the store for the source...
CheckFrom(w) ==
    /\ pc[w] = "from" /\ lock = Free
    /\ \/ /\ Registered(data, op[w].from)
          /\ pc' = [pc EXCEPT ![w] = "to"]
          /\ UNCHANGED code
       \/ /\ ~Registered(data, op[w].from)
          /\ Answer(w, BadRequest)
    /\ UNCHANGED <<status, data, lock, disk, op, eval, acked>>

\* Mutant: the target is not looked up.
CheckNoTarget(w) ==
    /\ pc[w] = "to" /\ lock = Free
    /\ pc' = [pc EXCEPT ![w] = "put"]
    /\ UNCHANGED <<status, data, lock, disk, op, code, eval, acked>>

\* ...and again for the target.
CheckTo(w) ==
    /\ pc[w] = "to" /\ lock = Free
    /\ \/ /\ Registered(data, op[w].to)
          /\ pc' = [pc EXCEPT ![w] = "put"]
          /\ UNCHANGED code
       \/ /\ ~Registered(data, op[w].to)
          /\ Answer(w, BadRequest)
    /\ UNCHANGED <<status, data, lock, disk, op, eval, acked>>

IsService(v) == "health" \in DOMAIN v

\* History of the running evaluations: after a step in which the store's
\* visible content becomes d.
Witness(d) ==
    eval' = [e \in Evaluators |->
        IF eval[e].phase \notin {"target", "snapshot"} THEN eval[e]
        ELSE LET q == eval[e].request
             IN  [eval[e] EXCEPT !.available = @ \/ TargetOffers(d, q),
                                 !.related = @ \/ Related(d, q)]]

\* PutService and PutRelationship: the mutex is taken and the map changed.
\* It becomes visible when the mutex is released, whatever comes of persisting.
Put(w) ==
    /\ pc[w] = "put" /\ lock = Free
    /\ lock' = w
    /\ data' = IF IsService(op[w])
               THEN [data EXCEPT !.services[op[w].id] = op[w]]
               ELSE [data EXCEPT !.relationships[op[w].id] = op[w]]
    /\ pc' = [pc EXCEPT ![w] = "open"]
    /\ Witness(data')
    /\ UNCHANGED <<status, disk, op, code, acked>>

\* Mutant: the store's own file is written in place.
TruncateInPlace(w) ==
    /\ pc[w] = "open"
    /\ file' = Torn
    /\ pc' = [pc EXCEPT ![w] = "write"]
    /\ UNCHANGED <<status, data, lock, tmp, op, code, eval, acked>>

\* persistLocked: os.WriteFile truncates the temporary file...
OpenTmp(w) ==
    /\ pc[w] = "open"
    /\ tmp' = Torn
    /\ pc' = [pc EXCEPT ![w] = "write"]
    /\ UNCHANGED <<status, data, lock, file, op, code, eval, acked>>

\* ...and completes it with both maps.
WriteTmp(w) ==
    /\ pc[w] = "write"
    /\ tmp' = data
    /\ pc' = [pc EXCEPT ![w] = "rename"]
    /\ UNCHANGED <<status, data, lock, file, op, code, eval, acked>>

\* os.Rename replaces the file; the mutex is released.
Rename(w) ==
    /\ pc[w] = "rename"
    /\ file' = tmp
    /\ tmp' = Empty
    /\ lock' = Free
    /\ Answer(w, Created)
    /\ UNCHANGED <<status, data, op, eval, acked>>

\* Mutant: the error is ignored.
PersistFailsUnreported(w) ==
    /\ pc[w] \in {"open", "write", "rename"}
    /\ lock' = Free
    /\ Answer(w, Created)
    /\ UNCHANGED <<status, data, disk, op, eval, acked>>

\* Any call of persistLocked may return an error: the request is refused and
\* the change stays in memory.
PersistFails(w) ==
    /\ pc[w] \in {"open", "write", "rename"}
    /\ lock' = Free
    /\ Answer(w, BadRequest)
    /\ UNCHANGED <<status, data, disk, op, eval, acked>>

\* The handler publishes the event of a successful write and responds.
Reply(w) ==
    /\ pc[w] = "reply"
    /\ acked' = IF code[w] = Created THEN acked \cup {op[w].id} ELSE acked
    /\ pc' = [pc EXCEPT ![w] = "idle"]
    /\ op' = [op EXCEPT ![w] = None]
    /\ code' = [code EXCEPT ![w] = 0]
    /\ UNCHANGED <<status, data, lock, disk, eval>>

-----------------------------------------------------------------------------
(* POST /v1/evaluate: Evaluate reads the source, the target and then a     *)
(* snapshot with the relationships, and decides on the three together.     *)

Decide(e, allowed) ==
    eval' = [eval EXCEPT ![e].phase = "done", ![e].allowed = allowed]

\* The source.  A request the gate refuses reads nothing.
EvalSource(e) ==
    /\ status = "up" /\ lock = Free
    /\ eval[e].phase = "idle"
    /\ \E p \in Principals, q \in Questions :
         /\ RequireScope(p, ScopePolicyEvaluate) = Pass
         /\ eval' = [eval EXCEPT ![e] =
              [phase |-> IF Registered(data, q.source) THEN "target" ELSE "done",
               request |-> q, allowed |-> FALSE,
               available |-> TargetOffers(data, q), related |-> Related(data, q)]]
    /\ UNCHANGED <<status, data, lock, disk, requests, acked>>

\* The target, its health and its capabilities.
EvalTarget(e) ==
    /\ eval[e].phase = "target" /\ lock = Free
    /\ IF TargetOffers(data, eval[e].request)
       THEN eval' = [eval EXCEPT ![e].phase = "snapshot"]
       ELSE Decide(e, FALSE)
    /\ UNCHANGED <<status, data, lock, disk, requests, acked>>

\* Mutant: a disabled relationship authorizes, too.
EvalSnapshotAny(e) ==
    /\ eval[e].phase = "snapshot" /\ lock = Free
    /\ Decide(e, \E i \in RelationshipIds :
                    /\ data.relationships[i] # None
                    /\ data.relationships[i].from = eval[e].request.source
                    /\ data.relationships[i].to = eval[e].request.target)
    /\ UNCHANGED <<status, data, lock, disk, requests, acked>>

\* The relationships.
EvalSnapshot(e) ==
    /\ eval[e].phase = "snapshot" /\ lock = Free
    /\ Decide(e, Related(data, eval[e].request))
    /\ UNCHANGED <<status, data, lock, disk, requests, acked>>

\* The decision is sent.
EvalReply(e) ==
    /\ eval[e].phase = "done"
    /\ eval' = [eval EXCEPT ![e] = NoEval]
    /\ UNCHANGED <<status, data, lock, disk, requests, acked>>

-----------------------------------------------------------------------------
(* The process.                                                            *)

Crash ==
    /\ status = "up"
    /\ status' = "down"
    /\ data' = Empty
    /\ lock' = Free
    /\ pc' = [w \in Writers |-> "idle"]
    /\ op' = [w \in Writers |-> None]
    /\ code' = [w \in Writers |-> 0]
    /\ eval' = [e \in Evaluators |-> NoEval]
    /\ UNCHANGED <<disk, acked>>

\* store.New reads the file back without validating what is in it.
Start ==
    /\ status \in {"down", "refused"}
    /\ status' = IF file = Torn THEN "refused" ELSE "up"
    /\ data' = IF file = Torn THEN data ELSE file
    /\ UNCHANGED <<lock, disk, requests, eval, acked>>

-----------------------------------------------------------------------------
Write(w) ==
    \/ ReceiveService(w) \/ ReceiveRelationship(w) \/ CheckFrom(w) \/ CheckTo(w)
    \/ Put(w) \/ OpenTmp(w) \/ WriteTmp(w) \/ Rename(w) \/ PersistFails(w) \/ Reply(w)

Evaluate(e) == EvalSource(e) \/ EvalTarget(e) \/ EvalSnapshot(e) \/ EvalReply(e)

Next ==
    \/ \E w \in Writers : Write(w)
    \/ \E e \in Evaluators : Evaluate(e)
    \/ Crash
    \/ Start

Spec == Init /\ [][Next]_vars

-----------------------------------------------------------------------------
(* Properties.                                                             *)

\* Types; what is stored is normalised, and the file under the store's path
\* is always a complete one.
TypeOK ==
    /\ status \in {"up", "down", "refused"}
    /\ data \in Contents /\ file \in Contents
    /\ tmp \in Contents \cup {Torn}
    /\ lock \in Writers \cup {Free}
    /\ pc \in [Writers -> {"idle", "from", "to", "put", "open", "write", "rename", "reply"}]
    /\ op \in [Writers -> StoredServices \cup StoredRelationships \cup {None}]
    /\ code \in [Writers -> {0, Created, BadRequest, Unauthorized, Forbidden}]
    /\ eval \in [Evaluators ->
           [phase : {"idle", "target", "snapshot", "done"},
            request : Questions \cup {None}, allowed : BOOLEAN,
            available : BOOLEAN, related : BOOLEAN]]
    /\ acked \subseteq ServiceIds \cup RelationshipIds

\* Both ends of every relationship in d are registered in d.
Anchored(d) ==
    \A i \in RelationshipIds : d.relationships[i] # None =>
        /\ Registered(d, d.relationships[i].from)
        /\ Registered(d, d.relationships[i].to)

\* References to unknown services are rejected, and stay out: in the running
\* store and in the file, also after failed writes and crashes, no
\* relationship has an end that is not registered.
AlwaysAnchored == Anchored(data) /\ (file # Torn => Anchored(file))

\* The ids a complete file holds.
Held(f) ==
    IF f = Torn THEN {}
    ELSE {s \in ServiceIds : f.services[s] # None}
         \cup {r \in RelationshipIds : f.relationships[r] # None}

\* What was answered with 201 is in the file from then on, also when a later
\* write fails or the process dies between any two steps.
AckedRegistered == acked \subseteq Held(file)

\* A service or relationship that reached the disk, acknowledged or not, is
\* never lost from it by a later write, not even while that is under way.
NothingUnregistered == [][Held(file) \subseteq Held(file')]_vars

\* Whatever is written meanwhile, a request is allowed only if its source is
\* registered and, at moments of the evaluation, the target was available
\* with the capability and a relationship authorizing it was enabled.
AllowedOnGrounds ==
    \A e \in Evaluators : (eval[e].phase = "done" /\ eval[e].allowed) =>
        /\ Registered(data, eval[e].request.source)
        /\ eval[e].available /\ eval[e].related
=============================================================================
