-------------------------- MODULE MeshStoreProofs --------------------------
(***************************************************************************)
(* Theorems about the service store, the policy evaluator, discovery and   *)
(* impact analysis, for every set of services, relationships and requests  *)
(* and every number of handlers.                                           *)
(*                                                                         *)
(* Two facts carry the store's part.  While the process runs, a service or *)
(* relationship never leaves memory (PutFacts), so what AddRelationship    *)
(* found registered before it took the mutex still is when it writes; and  *)
(* memory holds all that the file holds, so that a rename loses nothing.   *)
(* EvalInv says what an evaluation knows between its reads, ImpactInv what *)
(* an impact analysis knows between the turns of its loop, KnownInv what a *)
(* client knows of the store from its last discovery.                      *)
(***************************************************************************)
EXTENDS MeshQueries, FiniteSetTheorems, TLAPS

\* The states of a writer between Put and the end of persistLocked.
Writing == {"open", "write", "rename"}

\* The mutex is held by the writer that persists and by no other.
LockOwner == \A w \in Writers : lock = w <=> pc[w] \in Writing

\* A process that is not running serves no request.
DownIdle == status # "up" => \A w \in Writers : pc[w] = "idle"

\* A writer that renames has written all of memory.
TmpComplete == \A w \in Writers : pc[w] = "rename" => tmp = data

\* A writer past the checks of its handler has something to store...
Vetted ==
    \A w \in Writers : pc[w] \in {"put"} \cup Writing =>
        \/ op[w] \in StoredServices
        \/ op[w] \in StoredRelationships /\ op[w].id \in RelationshipIds

\* ...and one that adds a relationship has found its ends in memory.
EndsFound ==
    \A w \in Writers :
        /\ pc[w] \in {"from", "to"} => op[w] \in StoredRelationships /\ RelationshipAccepted(op[w])
        /\ pc[w] = "to" => Registered(data, op[w].from)
        /\ pc[w] = "put" /\ op[w] \in StoredRelationships =>
             Registered(data, op[w].from) /\ Registered(data, op[w].to)

\* Memory has all that the file has.
FileBehind == status = "up" => Held(file) \subseteq Held(data)

\* A change that is being persisted is in memory; one whose 201 is due is in
\* the file.
InFlight ==
    \A w \in Writers :
        /\ pc[w] \in Writing => op[w].id \in Held(data)
        /\ pc[w] = "reply" /\ code[w] = Created => op[w].id \in Held(file)

StoreInv ==
    /\ TypeOK /\ LockOwner /\ DownIdle /\ TmpComplete /\ Vetted /\ EndsFound
    /\ FileBehind /\ InFlight /\ AlwaysAnchored /\ AckedRegistered

\* What an evaluation knows between its reads.
Underway(v) ==
    /\ status = "up"
    /\ Registered(data, v.request.source)
    /\ TargetOffers(data, v.request) => v.available
    /\ Related(data, v.request) => v.related
    /\ v.phase = "snapshot" => v.available

\* What its decision rests on.
Decided(v) ==
    /\ status = "up"
    /\ v.allowed => Registered(data, v.request.source) /\ v.available /\ v.related

EvalInv ==
    \A e \in Evaluators :
        /\ eval[e].phase \in {"target", "snapshot"} => Underway(eval[e])
        /\ eval[e].phase = "done" => Decided(eval[e])

IndInv == StoreInv /\ EvalInv

\* The progress of an impact analysis.
ImpactType == [phase : {"idle", "found", "search"}, id : ServiceIds \cup {None},
               reverse : [ServiceIds -> SUBSET ServiceIds],
               seen : SUBSET ServiceIds, queue : SUBSET ServiceIds,
               out : SUBSET ServiceIds, turns : Nat, want : SUBSET ServiceIds]

\* S has, with each of its members, the dependents of that member.
ClosedUnder(reverse, S) == \A c \in S : reverse[c] \subseteq S

\* What is wanted, with the service asked about, is the least closed set around
\* that service.
WantLeast(v) ==
    /\ v.id \notin v.want
    /\ ClosedUnder(v.reverse, v.want \cup {v.id})
    /\ \A S \in SUBSET ServiceIds :
         v.id \in S /\ ClosedUnder(v.reverse, S) => v.want \subseteq S

\* The loop invariant: what was seen is wanted, the dependents of what left the
\* queue were seen, and each service left it once.
Searching(v) ==
    /\ v.id \in v.seen /\ v.queue \subseteq v.seen
    /\ v.reverse \in [ServiceIds -> SUBSET RegisteredIn(data)]
    /\ v.seen \subseteq RegisteredIn(data)
    /\ v.out = v.seen \ {v.id}
    /\ v.seen \subseteq v.want \cup {v.id}
    /\ \A c \in v.seen \ v.queue : v.reverse[c] \subseteq v.seen
    /\ v.turns = Cardinality(v.seen \ v.queue)
    /\ WantLeast(v)

ImpactInv ==
    /\ IsFiniteSet(RegisteredIn(data)) /\ IsFiniteSet(RegisteredIn(file))
    /\ impact \in [Evaluators -> ImpactType]
    /\ \A e \in Evaluators :
         /\ impact[e].phase # "idle" => status = "up" /\ Registered(data, impact[e].id)
         /\ impact[e].phase = "search" => Searching(impact[e])

\* What clients that hold an answer know of the store: discovery would give the
\* same again, from memory or, after a crash, from the file; the target that an
\* evaluation found is still on offer; and a decision is what the store justifies.
Informed(e) ==
    /\ known[e].found = Discover(IF status = "up" THEN data ELSE file, known[e].capability)
    /\ eval[e].phase = "snapshot" => TargetOffers(data, eval[e].request)
    /\ eval[e].phase = "done" => eval[e].allowed = Allows(data, eval[e].request)

KnownInv ==
    /\ known \in [Evaluators -> Answers \cup {Nothing}]
    /\ \A e \in Evaluators : known[e] # Nothing => Informed(e)

\* A target was only ever on offer under a trimmed capability.
OfferedTrimmed ==
    \A e \in Evaluators : eval[e].available => eval[e].request.capability \notin DOMAIN Padded

-----------------------------------------------------------------------------
(* Facts about the operators.                                              *)

\* A complete file holds what its two maps hold.
LEMMA HeldFacts ==
    ASSUME NEW f \in Contents
    PROVE  /\ f # Torn
           /\ \A x : x \in Held(f) <=> \/ x \in ServiceIds /\ f.services[x] # None
                                       \/ x \in RelationshipIds /\ f.relationships[x] # None
  BY TornNew DEF Held

\* The empty store is a content.
LEMMA EmptyContent == Empty \in Contents
  BY DEF Empty, Contents

\* What a writer may store is a service or a relationship, never both.
LEMMA OneKind ==
    /\ \A v \in StoredServices : IsService(v) /\ v # None /\ v.id \in ServiceIds
    /\ \A v \in StoredRelationships : ~IsService(v) /\ v # None /\ v \notin StoredServices
<1>1. \A v \in StoredServices : IsService(v) /\ v # None /\ v.id \in ServiceIds
  BY NoneNew DEF StoredServices, IsService
<1>2. \A v \in StoredRelationships : ~IsService(v) /\ v # None
  BY NoneNew, RelationshipsType DEF IsService
<1>3. QED
  BY <1>1, <1>2

\* RegisterService normalises what it accepts.
LEMMA StoredServiceType ==
    ASSUME NEW v \in Services, ServiceAccepted(v)
    PROVE  StoredService(v) \in StoredServices
<1>1. TrimSpace(v.id) \in ServiceIds
  BY ServicesType
<1>2. (IF v.health = "" THEN "unknown" ELSE v.health) \in HealthStates
  BY DEF ServiceAccepted, HealthStates
<1>3. Unique(v.capabilities) \in SUBSET UNION {Unique(x.capabilities) : x \in Services}
  OBVIOUS
<1>4. Unique(v.dependencies) \in SUBSET UNION {Unique(x.dependencies) : x \in Services}
  OBVIOUS
<1>5. QED
  BY <1>1, <1>2, <1>3, <1>4 DEF StoredService, StoredServices

\* The gate's answers.
LEMMA GateCodes ==
    ASSUME NEW p \in Principals, NEW s
    PROVE  RequireScope(p, s) \in {Pass, Unauthorized, Forbidden}
  BY DEF RequireScope

\* Put changes one entry of one map, and that to what the writer stores.
LEMMA PutFacts ==
    ASSUME StoreInv, NEW w \in Writers, Put(w)
    PROVE  /\ data' \in Contents
           /\ \A s \in ServiceIds : data.services[s] # None => data'.services[s] # None
           /\ \A s \in ServiceIds : s # op[w].id => data'.services[s] = data.services[s]
           /\ \A i \in RelationshipIds :
                \/ data'.relationships[i] = data.relationships[i]
                \/ /\ data'.relationships[i] = op[w] /\ op[w] \in StoredRelationships
                   /\ op[w] # None
           /\ Held(data) \subseteq Held(data') /\ op[w].id \in Held(data')
<1>1. data \in Contents /\ pc[w] = "put"
  BY DEF StoreInv, TypeOK, Put
<1>2. /\ data.services \in [ServiceIds -> StoredServices \cup {None}]
      /\ data.relationships \in [RelationshipIds -> StoredRelationships \cup {None}]
  BY <1>1 DEF Contents
<1>3. CASE op[w] \in StoredServices
  <2>1. data' = [data EXCEPT !.services[op[w].id] = op[w]]
    BY <1>3, OneKind DEF Put
  <2>2. /\ data'.services = [data.services EXCEPT ![op[w].id] = op[w]]
        /\ data'.relationships = data.relationships
        /\ data' \in Contents
    BY <1>1, <1>3, <2>1, OneKind DEF Contents
  <2>3. \A s \in ServiceIds :
          /\ data.services[s] # None => data'.services[s] # None
          /\ s # op[w].id => data'.services[s] = data.services[s]
    BY <1>2, <1>3, <2>2, OneKind
  <2>4. op[w].id \in ServiceIds /\ data'.services[op[w].id] # None
    BY <1>2, <1>3, <2>2, OneKind
  <2>5. QED
    BY <1>1, <2>2, <2>3, <2>4, HeldFacts
<1>4. CASE op[w] \in StoredRelationships /\ op[w].id \in RelationshipIds
  <2>1. data' = [data EXCEPT !.relationships[op[w].id] = op[w]]
    BY <1>4, OneKind DEF Put
  <2>2. /\ data'.relationships = [data.relationships EXCEPT ![op[w].id] = op[w]]
        /\ data'.services = data.services
        /\ data' \in Contents
    BY <1>1, <1>4, <2>1 DEF Contents
  <2>3. \A i \in RelationshipIds :
          \/ data'.relationships[i] = data.relationships[i]
          \/ data'.relationships[i] = op[w] /\ op[w] \in StoredRelationships /\ op[w] # None
    BY <1>2, <1>4, <2>2, OneKind
  <2>4. data'.relationships[op[w].id] # None
    BY <1>2, <1>4, <2>2, OneKind
  <2>5. QED
    BY <1>1, <1>4, <2>2, <2>3, <2>4, HeldFacts
<1>5. QED
  BY <1>1, <1>3, <1>4 DEF StoreInv, Vetted

\* Registration is for the life of the process.
LEMMA StaysRegistered ==
    ASSUME StoreInv, NEW w \in Writers, Put(w), NEW s, Registered(data, s)
    PROVE  Registered(data, s)'
  BY PutFacts DEF Registered

-----------------------------------------------------------------------------
(* The store's part of the invariant.                                      *)

\* The empty store.
LEMMA StoreInitInv == Init => StoreInv /\ EvalInv
<1> SUFFICES ASSUME Init PROVE StoreInv /\ EvalInv
  OBVIOUS
<1>1. TypeOK
  BY EmptyContent DEF Init, TypeOK, NoEval
<1>2. LockOwner /\ DownIdle /\ TmpComplete /\ Vetted /\ EndsFound
  BY FreeNew DEF Init, LockOwner, DownIdle, TmpComplete, Vetted, EndsFound, Writing
<1>3. FileBehind /\ InFlight /\ AckedRegistered
  BY DEF Init, FileBehind, InFlight, AckedRegistered, Writing
<1>4. AlwaysAnchored
  BY DEF Init, AlwaysAnchored, Anchored, Empty
<1>5. EvalInv
  BY DEF Init, EvalInv, NoEval
<1>6. QED
  BY <1>1, <1>2, <1>3, <1>4, <1>5 DEF StoreInv

\* The handlers up to the store: what a writer is given has passed the checks
\* of its route.
LEMMA ReceiveInv ==
    ASSUME StoreInv, NEW w \in Writers,
           ReceiveService(w) \/ ReceiveRelationship(w) \/ CheckFrom(w) \/ CheckTo(w)
    PROVE  StoreInv'
<1>1. /\ UNCHANGED <<status, data, lock, file, tmp, eval, acked>>
      /\ pc[w] \in {"idle", "from", "to"}
      /\ status = "up"
  <2>1. pc[w] # "idle" => status = "up"
    BY DEF StoreInv, DownIdle
  <2>2. QED
    BY <2>1 DEF ReceiveService, ReceiveRelationship, CheckFrom, CheckTo, disk
<1>2. \E c \in {BadRequest, Unauthorized, Forbidden}, v \in {"from", "to", "put"} :
        \/ /\ pc' = [pc EXCEPT ![w] = "reply"] /\ code' = [code EXCEPT ![w] = c]
           /\ op' = op
        \/ /\ pc' = [pc EXCEPT ![w] = v] /\ code' = code
           /\ \/ v = "put" /\ \E s \in StoredServices : op' = [op EXCEPT ![w] = s]
              \/ /\ v = "from"
                 /\ \E r \in StoredRelationships :
                      RelationshipAccepted(r) /\ op' = [op EXCEPT ![w] = r]
              \/ /\ v = "to" /\ pc[w] = "from" /\ op' = op
                 /\ Registered(data, op[w].from)
              \/ /\ v = "put" /\ pc[w] = "to" /\ op' = op
                 /\ Registered(data, op[w].to)
  <2>1. CASE ReceiveService(w)
    <3>1. PICK p \in Principals, v \in Services :
             LET gate == RequireScope(p, ScopeServicesWrite)
             IN  \/ /\ gate # Pass
                    /\ Answer(w, gate) /\ UNCHANGED op
                 \/ /\ gate = Pass /\ ~ServiceAccepted(v)
                    /\ Answer(w, BadRequest) /\ UNCHANGED op
                 \/ /\ gate = Pass /\ ServiceAccepted(v)
                    /\ op' = [op EXCEPT ![w] = StoredService(v)]
                    /\ pc' = [pc EXCEPT ![w] = "put"]
                    /\ UNCHANGED code
      BY <2>1 DEF ReceiveService
    <3>2. RequireScope(p, ScopeServicesWrite) \in {Pass, Unauthorized, Forbidden}
      BY GateCodes
    <3>3. QED
      BY <3>1, <3>2, StoredServiceType DEF Answer
  <2>2. CASE ReceiveRelationship(w)
    <3>1. PICK p \in Principals, r \in StoredRelationships :
             LET gate == RequireScope(p, ScopeRelationshipsWrite)
             IN  \/ /\ gate # Pass
                    /\ Answer(w, gate) /\ UNCHANGED op
                 \/ /\ gate = Pass /\ ~RelationshipAccepted(r)
                    /\ Answer(w, BadRequest) /\ UNCHANGED op
                 \/ /\ gate = Pass /\ RelationshipAccepted(r)
                    /\ op' = [op EXCEPT ![w] = r]
                    /\ pc' = [pc EXCEPT ![w] = "from"]
                    /\ UNCHANGED code
      BY <2>2 DEF ReceiveRelationship
    <3>2. RequireScope(p, ScopeRelationshipsWrite) \in {Pass, Unauthorized, Forbidden}
      BY GateCodes
    <3>3. QED
      BY <3>1, <3>2 DEF Answer
  <2>3. CASE CheckFrom(w)
    BY <2>3 DEF CheckFrom, Answer
  <2>4. CASE CheckTo(w)
    BY <2>4 DEF CheckTo, Answer
  <2>5. QED
    BY <2>1, <2>2, <2>3, <2>4
<1>3. TypeOK'
  BY <1>1, <1>2 DEF StoreInv, TypeOK
<1>4. LockOwner' /\ DownIdle' /\ TmpComplete'
  BY <1>1, <1>2 DEF StoreInv, TypeOK, LockOwner, DownIdle, TmpComplete, Writing
<1>5. FileBehind' /\ AlwaysAnchored' /\ AckedRegistered'
  BY <1>1 DEF StoreInv, FileBehind, AlwaysAnchored, Anchored, Registered,
     AckedRegistered, Held
<1>6. \A x \in Writers : x # w => pc'[x] = pc[x] /\ op'[x] = op[x] /\ code'[x] = code[x]
  BY <1>2 DEF StoreInv, TypeOK
<1>7. Vetted'
  <2>1. ASSUME pc'[w] \in {"put"} \cup Writing
        PROVE  \/ op'[w] \in StoredServices
               \/ op'[w] \in StoredRelationships /\ op'[w].id \in RelationshipIds
    BY <1>1, <1>2, <2>1, RelationshipsType DEF StoreInv, TypeOK, EndsFound, Writing
  <2>2. QED
    BY <1>6, <2>1 DEF StoreInv, Vetted
<1>8. EndsFound'
  <2>1. /\ pc'[w] \in {"from", "to"} =>
             op'[w] \in StoredRelationships /\ RelationshipAccepted(op'[w])
        /\ pc'[w] = "to" => Registered(data, op'[w].from)
        /\ pc'[w] = "put" /\ op'[w] \in StoredRelationships =>
             Registered(data, op'[w].from) /\ Registered(data, op'[w].to)
    BY <1>1, <1>2, OneKind DEF StoreInv, TypeOK, EndsFound
  <2>2. QED
    BY <1>1, <1>6, <2>1 DEF StoreInv, EndsFound, Registered
<1>9. InFlight'
  <2>1. pc'[w] \notin Writing /\ ~(pc'[w] = "reply" /\ code'[w] = Created)
    BY <1>2 DEF StoreInv, TypeOK, Writing, Created, BadRequest, Unauthorized, Forbidden
  <2>2. QED
    BY <1>1, <1>6, <2>1 DEF StoreInv, InFlight, Held
<1>10. QED
  BY <1>3, <1>4, <1>5, <1>7, <1>8, <1>9 DEF StoreInv

\* The history of the evaluations is of the evaluations' type.
LEMMA WitnessType ==
    ASSUME StoreInv, NEW d, Witness(d)
    PROVE  /\ eval' \in [Evaluators ->
                [phase : {"idle", "target", "snapshot", "done"},
                 request : Questions \cup {None}, allowed : BOOLEAN,
                 available : BOOLEAN, related : BOOLEAN]]
<1> DEFINE T == [phase : {"idle", "target", "snapshot", "done"},
                 request : Questions \cup {None}, allowed : BOOLEAN,
                 available : BOOLEAN, related : BOOLEAN]
<1>1. eval \in [Evaluators -> T]
  BY DEF StoreInv, TypeOK
<1>2. ASSUME NEW e \in Evaluators, NEW b \in BOOLEAN, NEW c \in BOOLEAN
      PROVE  [eval[e] EXCEPT !.available = b, !.related = c] \in T
  BY <1>1, <1>2
<1>3. ASSUME NEW e \in Evaluators PROVE eval'[e] \in T
  <2>1. CASE eval[e].phase \notin {"target", "snapshot"}
    BY <1>1, <2>1 DEF Witness
  <2>2. CASE eval[e].phase \in {"target", "snapshot"}
    <3> DEFINE b == eval[e].available \/ TargetOffers(d, eval[e].request)
               c == eval[e].related \/ Related(d, eval[e].request)
    <3>1. eval'[e] = [eval[e] EXCEPT !.available = b, !.related = c]
      BY <2>2 DEF Witness
    <3>2. b \in BOOLEAN /\ c \in BOOLEAN
      OBVIOUS
    <3> HIDE DEF b, c, T
    <3>3. QED
      BY <1>2, <3>1, <3>2
  <2>3. QED
    BY <2>1, <2>2
<1>4. QED
  BY <1>3 DEF Witness

\* Put: memory grows; the ends of a relationship that is added are there.
LEMMA PutInv ==
    ASSUME StoreInv, NEW w \in Writers, Put(w)
    PROVE  StoreInv'
<1>1. /\ pc[w] = "put" /\ lock = Free /\ lock' = w
      /\ pc' = [pc EXCEPT ![w] = "open"]
      /\ UNCHANGED <<status, file, tmp, op, code, acked>>
      /\ Witness(data')
  BY DEF Put, disk
<1>2. \A x \in Writers : pc[x] \notin Writing
  BY <1>1, FreeNew DEF StoreInv, LockOwner
<1>3. TypeOK'
  <2>1. data' \in Contents
    BY PutFacts
  <2>2. QED
    BY <1>1, <2>1, WitnessType DEF StoreInv, TypeOK
<1>4. LockOwner' /\ DownIdle' /\ TmpComplete' /\ Vetted'
  <2>1. status = "up"
    BY <1>1 DEF StoreInv, DownIdle
  <2>2. QED
    BY <1>1, <1>2, <2>1 DEF StoreInv, TypeOK, LockOwner, DownIdle, TmpComplete, Vetted,
       Writing
<1>5. EndsFound'
  <2>1. \A s : Registered(data, s) => Registered(data, s)'
    BY StaysRegistered
  <2>2. \A x \in Writers : /\ op'[x] = op[x]
                           /\ pc'[x] \in {"from", "to", "put"} => pc'[x] = pc[x]
    BY <1>1 DEF StoreInv, TypeOK
  <2>3. QED
    BY <2>1, <2>2 DEF StoreInv, EndsFound, RelationshipAccepted
<1>6. FileBehind' /\ InFlight' /\ AckedRegistered'
  <2>1. Held(data) \subseteq Held(data') /\ op[w].id \in Held(data') /\ Held(file') = Held(file)
    BY <1>1, PutFacts
  <2>2. FileBehind' /\ AckedRegistered'
    BY <1>1, <2>1 DEF StoreInv, FileBehind, AckedRegistered
  <2>3. InFlight'
    BY <1>1, <1>2, <2>1 DEF StoreInv, TypeOK, InFlight, Writing
  <2>4. QED
    BY <2>2, <2>3
<1>7. AlwaysAnchored'
  <2>1. (file # Torn => Anchored(file))'
    BY <1>1 DEF StoreInv, AlwaysAnchored, Anchored, Registered
  <2>2. \A s : Registered(data, s) => Registered(data, s)'
    BY StaysRegistered
  <2>3. ASSUME NEW i \in RelationshipIds, data'.relationships[i] # None
        PROVE  /\ Registered(data, data'.relationships[i].from)
               /\ Registered(data, data'.relationships[i].to)
    BY <1>1, <2>3, PutFacts DEF StoreInv, AlwaysAnchored, Anchored, EndsFound
  <2>4. Anchored(data)'
    BY <2>2, <2>3 DEF Anchored
  <2>5. QED
    BY <2>1, <2>4 DEF AlwaysAnchored
<1>8. QED
  BY <1>3, <1>4, <1>5, <1>6, <1>7 DEF StoreInv

\* OpenTmp and WriteTmp touch the temporary file only.
LEMMA WriteTmpInv ==
    ASSUME StoreInv, NEW w \in Writers, OpenTmp(w) \/ WriteTmp(w)
    PROVE  StoreInv'
<1>1. /\ UNCHANGED <<status, data, lock, file, op, code, eval, acked>>
      /\ \/ pc[w] = "open" /\ tmp' = Torn /\ pc' = [pc EXCEPT ![w] = "write"]
         \/ pc[w] = "write" /\ tmp' = data /\ pc' = [pc EXCEPT ![w] = "rename"]
  BY DEF OpenTmp, WriteTmp
<1>2. lock = w /\ pc[w] \in Writing /\ \A x \in Writers : x # w => pc[x] \notin Writing
  BY <1>1 DEF StoreInv, LockOwner, Writing
<1>3. TypeOK'
  BY <1>1 DEF StoreInv, TypeOK
<1>4. LockOwner' /\ DownIdle' /\ TmpComplete' /\ Vetted'
  BY <1>1, <1>2 DEF StoreInv, TypeOK, LockOwner, DownIdle, TmpComplete, Vetted, Writing
<1>5. EndsFound' /\ FileBehind' /\ InFlight'
  <2>1. \A x \in Writers : /\ pc'[x] \in {"from", "to", "put", "reply"} => pc'[x] = pc[x]
                           /\ pc'[x] \in Writing <=> pc[x] \in Writing
    BY <1>1 DEF StoreInv, TypeOK, Writing
  <2>2. EndsFound'
    BY <1>1, <2>1 DEF StoreInv, EndsFound, Registered, RelationshipAccepted
  <2>3. FileBehind' /\ InFlight'
    BY <1>1, <2>1 DEF StoreInv, FileBehind, InFlight, Held
  <2>4. QED
    BY <2>2, <2>3
<1>6. AlwaysAnchored' /\ AckedRegistered'
  BY <1>1 DEF StoreInv, AlwaysAnchored, Anchored, Registered, AckedRegistered, Held
<1>7. QED
  BY <1>3, <1>4, <1>5, <1>6 DEF StoreInv

\* A rename makes the file what memory is, which has all that the file had.
LEMMA RenameFacts ==
    ASSUME StoreInv, NEW w \in Writers, Rename(w)
    PROVE  file' = data /\ Held(file) \subseteq Held(file') /\ op[w].id \in Held(file')
<1>1. pc[w] = "rename" /\ file' = tmp
  BY DEF Rename
<1>2. tmp = data /\ status = "up"
  BY <1>1 DEF StoreInv, TmpComplete, DownIdle
<1>3. op[w].id \in Held(data) /\ Held(file) \subseteq Held(data)
  BY <1>1, <1>2 DEF StoreInv, InFlight, FileBehind, Writing
<1>4. QED
  BY <1>1, <1>2, <1>3

\* Rename, and a write that fails: the mutex is released, and the file is what
\* memory is, or stays behind it.
LEMMA EndOfWriteInv ==
    ASSUME StoreInv, NEW w \in Writers, Rename(w) \/ PersistFails(w)
    PROVE  StoreInv'
<1>1. /\ UNCHANGED <<status, data, op, eval, acked>> /\ lock' = Free
      /\ pc[w] \in Writing /\ pc' = [pc EXCEPT ![w] = "reply"]
  BY DEF Rename, PersistFails, Answer, Writing
<1>2. \/ Rename(w) /\ code' = [code EXCEPT ![w] = Created] /\ tmp' = Empty
      \/ file' = file /\ code' = [code EXCEPT ![w] = BadRequest] /\ tmp' = tmp
  BY DEF Rename, PersistFails, Answer, disk
<1>3. lock = w /\ \A x \in Writers : x # w => pc[x] \notin Writing
  BY <1>1 DEF StoreInv, LockOwner
<1>4. /\ file' = data \/ file' = file
      /\ Held(file) \subseteq Held(file')
      /\ code'[w] = Created => op[w].id \in Held(file')
  <2>1. BadRequest # Created
    BY DEF BadRequest, Created
  <2>2. QED
    BY <1>2, <2>1, RenameFacts DEF StoreInv, TypeOK
<1>5. TypeOK'
  BY <1>1, <1>2, <1>4, EmptyContent DEF StoreInv, TypeOK
<1>6. LockOwner' /\ DownIdle' /\ TmpComplete' /\ Vetted'
  BY <1>1, <1>3, FreeNew DEF StoreInv, TypeOK, LockOwner, DownIdle, TmpComplete, Vetted,
     Writing
<1>7. EndsFound'
  BY <1>1 DEF StoreInv, TypeOK, EndsFound, Registered, RelationshipAccepted
<1>8. FileBehind'
  BY <1>1, <1>4 DEF StoreInv, FileBehind
<1>9. InFlight'
  <2>1. /\ \A x \in Writers : pc'[x] \notin Writing
        /\ \A x \in Writers : x # w => pc'[x] = pc[x] /\ code'[x] = code[x]
        /\ pc'[w] = "reply"
    BY <1>1, <1>2, <1>3 DEF StoreInv, TypeOK, Writing
  <2>2. QED
    BY <1>1, <1>4, <2>1 DEF StoreInv, InFlight
<1>10. AlwaysAnchored'
  BY <1>1, <1>4 DEF StoreInv, AlwaysAnchored, Anchored, Registered
<1>11. AckedRegistered'
  BY <1>1, <1>4 DEF StoreInv, AckedRegistered
<1>12. QED
  BY <1>5, <1>6, <1>7, <1>8, <1>9, <1>10, <1>11 DEF StoreInv

\* Reply acknowledges what the file holds.
LEMMA ReplyInv ==
    ASSUME StoreInv, NEW w \in Writers, Reply(w)
    PROVE  StoreInv'
<1>1. /\ pc[w] = "reply" /\ pc' = [pc EXCEPT ![w] = "idle"]
      /\ op' = [op EXCEPT ![w] = None] /\ code' = [code EXCEPT ![w] = 0]
      /\ UNCHANGED <<status, data, lock, file, tmp, eval>>
      /\ acked' = IF code[w] = Created THEN acked \cup {op[w].id} ELSE acked
  BY DEF Reply, disk
<1>2. acked' \subseteq Held(file)
  BY <1>1 DEF StoreInv, AckedRegistered, InFlight
<1>3. TypeOK'
  <2>1. Held(file) \subseteq ServiceIds \cup RelationshipIds
    BY HeldFacts DEF StoreInv, TypeOK
  <2>2. QED
    BY <1>1, <1>2, <2>1 DEF StoreInv, TypeOK
<1>4. LockOwner' /\ DownIdle' /\ TmpComplete' /\ Vetted'
  BY <1>1 DEF StoreInv, TypeOK, LockOwner, DownIdle, TmpComplete, Vetted, Writing
<1>5. EndsFound' /\ FileBehind' /\ InFlight'
  BY <1>1 DEF StoreInv, TypeOK, EndsFound, Registered, RelationshipAccepted, FileBehind,
     InFlight, Held, Writing
<1>6. AlwaysAnchored' /\ AckedRegistered'
  BY <1>1, <1>2 DEF StoreInv, AlwaysAnchored, Anchored, Registered, AckedRegistered, Held
<1>7. QED
  BY <1>3, <1>4, <1>5, <1>6 DEF StoreInv

\* Crash and Start: memory is lost and read back from the file.
LEMMA ProcessInv ==
    ASSUME StoreInv, Crash \/ Start
    PROVE  StoreInv'
<1>1. UNCHANGED <<file, tmp, acked>>
  BY DEF Crash, Start, disk
<1>2. file # Torn /\ file \in Contents
  BY TornNew DEF StoreInv, TypeOK
<1>3. AckedRegistered'
  BY <1>1 DEF StoreInv, AckedRegistered, Held
<1>4. CASE Crash
  <2>1. TypeOK'
    BY <1>1, <1>4, EmptyContent DEF Crash, StoreInv, TypeOK, NoEval
  <2>2. LockOwner' /\ DownIdle' /\ TmpComplete' /\ Vetted' /\ EndsFound'
        /\ FileBehind' /\ InFlight'
    BY <1>4, FreeNew DEF Crash, LockOwner, DownIdle, TmpComplete, Vetted, EndsFound,
       FileBehind, InFlight, Writing
  <2>3. AlwaysAnchored'
    BY <1>1, <1>4 DEF Crash, StoreInv, AlwaysAnchored, Anchored, Registered, Empty
  <2>4. QED
    BY <1>3, <2>1, <2>2, <2>3 DEF StoreInv
<1>5. CASE Start
  <2>1. /\ status # "up" /\ status' = "up" /\ data' = file
        /\ UNCHANGED <<lock, pc, op, code, eval>>
    BY <1>2, <1>5 DEF Start, requests
  <2>2. \A w \in Writers : pc[w] = "idle"
    BY <2>1 DEF StoreInv, DownIdle
  <2>3. TypeOK'
    BY <1>1, <1>2, <2>1 DEF StoreInv, TypeOK
  <2>4. LockOwner' /\ DownIdle' /\ TmpComplete' /\ Vetted' /\ EndsFound' /\ InFlight'
    BY <2>1, <2>2 DEF StoreInv, LockOwner, DownIdle, TmpComplete, Vetted, EndsFound,
       InFlight, Writing
  <2>5. FileBehind'
    BY <1>1, <2>1 DEF FileBehind, Held
  <2>6. AlwaysAnchored'
    BY <1>1, <1>2, <2>1 DEF StoreInv, AlwaysAnchored, Anchored, Registered
  <2>7. QED
    BY <1>3, <2>3, <2>4, <2>5, <2>6 DEF StoreInv
<1>6. QED
  BY <1>4, <1>5

-----------------------------------------------------------------------------
(* The evaluations' part of the invariant.                                 *)

\* A step that changes neither memory nor an evaluation.
LEMMA EvalUnchanged ==
    ASSUME EvalInv, UNCHANGED <<status, data, eval>>
    PROVE  EvalInv'
  BY DEF EvalInv, Underway, Decided, TargetOffers, Related, Registered

\* A write while evaluations run: what it makes true is remembered.
LEMMA EvalPut ==
    ASSUME StoreInv, EvalInv, NEW w \in Writers, Put(w)
    PROVE  EvalInv'
<1>1. Witness(data') /\ status' = status
  BY DEF Put
<1>2. \A s : Registered(data, s) => Registered(data, s)'
  BY StaysRegistered
<1>3. ASSUME NEW e \in Evaluators, eval[e].phase \in {"target", "snapshot"}
      PROVE  eval'[e].phase = eval[e].phase /\ Underway(eval[e])'
  <2> DEFINE o == eval[e]
             n == eval'[e]
  <2>1. n = [o EXCEPT !.available = o.available \/ TargetOffers(data', o.request),
                      !.related = o.related \/ Related(data', o.request)]
    BY <1>1, <1>3 DEF Witness
  <2>2. o \in [phase : {"idle", "target", "snapshot", "done"},
               request : Questions \cup {None}, allowed : BOOLEAN,
               available : BOOLEAN, related : BOOLEAN]
    BY DEF StoreInv, TypeOK
  <2>3. /\ n.phase = o.phase /\ n.request = o.request
        /\ n.available = (o.available \/ TargetOffers(data', o.request))
        /\ n.related = (o.related \/ Related(data', o.request))
    BY <2>1, <2>2
  <2>4. Underway(o)
    BY <1>3 DEF EvalInv
  <2> HIDE DEF n
  <2>5. /\ status' = "up"
        /\ Registered(data', n.request.source)
        /\ TargetOffers(data', n.request) => n.available
        /\ Related(data', n.request) => n.related
    BY <1>1, <1>2, <2>3, <2>4 DEF Underway, Registered
  <2>6. n.phase = "snapshot" => n.available
    BY <2>3, <2>4 DEF Underway
  <2>7. QED
    BY <2>3, <2>5, <2>6 DEF n, Underway, TargetOffers, Related, Registered
<1>4. ASSUME NEW e \in Evaluators, eval[e].phase \notin {"target", "snapshot"}
      PROVE  eval'[e] = eval[e]
  BY <1>1, <1>4 DEF Witness
<1>5. \A e \in Evaluators : eval[e].phase = "done" => Decided(eval[e])'
  BY <1>1, <1>2, <1>4 DEF EvalInv, Decided
<1>6. QED
  BY <1>3, <1>4, <1>5 DEF EvalInv

\* The steps of an evaluation, each under the mutex.
LEMMA EvaluateInv ==
    ASSUME StoreInv, EvalInv, NEW e \in Evaluators, Evaluate(e)
    PROVE  StoreInv' /\ EvalInv'
<1> DEFINE T == [phase : {"idle", "target", "snapshot", "done"},
                 request : Questions \cup {None}, allowed : BOOLEAN,
                 available : BOOLEAN, related : BOOLEAN]
<1>1. UNCHANGED <<status, data, lock, file, tmp, pc, op, code, acked>>
  BY DEF Evaluate, EvalSource, EvalTarget, EvalSnapshot, EvalReply, disk, requests
<1>2. eval \in [Evaluators -> T]
  BY DEF StoreInv, TypeOK
<1>3. SUFFICES \E v \in T : /\ eval' = [eval EXCEPT ![e] = v]
                            /\ v.phase \in {"target", "snapshot"} => Underway(v)
                            /\ v.phase = "done" => Decided(v)
  <2>1. PICK v \in T : /\ eval' = [eval EXCEPT ![e] = v]
                       /\ v.phase \in {"target", "snapshot"} => Underway(v)
                       /\ v.phase = "done" => Decided(v)
    BY <1>3
  <2>2. eval' \in [Evaluators -> T]
    BY <1>2, <2>1
  <2>3. TypeOK'
    BY <1>1, <2>2 DEF StoreInv, TypeOK
  <2>4. StoreInv'
    BY <1>1, <2>3 DEF StoreInv, LockOwner, DownIdle, TmpComplete, Vetted, EndsFound,
       Registered, RelationshipAccepted, FileBehind, InFlight, Held, AlwaysAnchored,
       Anchored, AckedRegistered
  <2>5. \A x \in Evaluators : eval'[x] = IF x = e THEN v ELSE eval[x]
    BY <1>2, <2>1
  <2>6. \A x \in Evaluators :
          /\ eval'[x].phase \in {"target", "snapshot"} => Underway(eval'[x])
          /\ eval'[x].phase = "done" => Decided(eval'[x])
    <3> HIDE DEF T
    <3>1. QED
      BY <2>1, <2>5 DEF EvalInv
  <2>7. \A x \in Evaluators : /\ Underway(eval'[x]) <=> Underway(eval[x])'
                              /\ Decided(eval'[x]) <=> Decided(eval[x])'
    <3>1. \A q : /\ TargetOffers(data, q)' = TargetOffers(data, q)
                 /\ Related(data, q)' = Related(data, q)
                 /\ Registered(data, q)' = Registered(data, q)
      BY <1>1 DEF TargetOffers, Related, Registered
    <3>2. QED
      BY <1>1, <3>1, Zenon DEF Underway, Decided
  <2>8. EvalInv'
    BY <2>6, <2>7 DEF EvalInv
  <2>9. QED
    BY <2>4, <2>8
<1>4. CASE EvalSource(e)
  <2>1. PICK q \in Questions : eval' = [eval EXCEPT ![e] =
              [phase |-> IF Registered(data, q.source) THEN "target" ELSE "done",
               request |-> q, allowed |-> FALSE,
               available |-> TargetOffers(data, q), related |-> Related(data, q)]]
    BY <1>4 DEF EvalSource
  <2> DEFINE v == [phase |-> IF Registered(data, q.source) THEN "target" ELSE "done",
                   request |-> q, allowed |-> FALSE,
                   available |-> TargetOffers(data, q), related |-> Related(data, q)]
  <2>2. TargetOffers(data, q) \in BOOLEAN /\ Related(data, q) \in BOOLEAN
    BY DEF TargetOffers, Related
  <2>3. v \in T
    BY <2>2
  <2>4. /\ v.phase = (IF Registered(data, q.source) THEN "target" ELSE "done")
        /\ v.request = q /\ v.allowed = FALSE
        /\ v.available = TargetOffers(data, q) /\ v.related = Related(data, q)
    OBVIOUS
  <2>5. status = "up"
    BY <1>4 DEF EvalSource
  <2>6. eval' = [eval EXCEPT ![e] = v]
    BY <2>1
  <2> HIDE DEF v, T
  <2>7. v.phase \in {"target", "snapshot"} => Underway(v)
    BY <2>4, <2>5 DEF Underway
  <2>8. v.phase = "done" => Decided(v)
    BY <2>4, <2>5 DEF Decided
  <2>9. QED
    BY <2>3, <2>6, <2>7, <2>8
<1>5. ASSUME NEW a \in BOOLEAN, eval[e].phase \in {"target", "snapshot"}, Decide(e, a),
             Decided([eval[e] EXCEPT !.phase = "done", !.allowed = a])
      PROVE  \E v \in T : /\ eval' = [eval EXCEPT ![e] = v]
                          /\ v.phase \in {"target", "snapshot"} => Underway(v)
                          /\ v.phase = "done" => Decided(v)
  <2> DEFINE v == [eval[e] EXCEPT !.phase = "done", !.allowed = a]
  <2>1. v \in T /\ v.phase = "done"
    BY <1>2
  <2>2. eval' = [eval EXCEPT ![e] = v]
    BY <1>2, <1>5 DEF Decide
  <2>3. QED
    BY <1>5, <2>1, <2>2
<1>6. CASE EvalTarget(e)
  <2>1. eval[e].phase = "target" /\ Underway(eval[e]) /\ eval[e] \in T
    BY <1>2, <1>6 DEF EvalTarget, EvalInv
  <2>2. CASE TargetOffers(data, eval[e].request)
    <3> DEFINE v == [eval[e] EXCEPT !.phase = "snapshot"]
    <3>1. eval' = [eval EXCEPT ![e] = v]
      BY <1>2, <1>6, <2>2 DEF EvalTarget
    <3>2. /\ v \in T /\ v.phase = "snapshot" /\ v.request = eval[e].request
          /\ v.available = eval[e].available /\ v.related = eval[e].related
      BY <2>1
    <3> HIDE DEF v, T
    <3>3. Underway(v)
      BY <2>1, <2>2, <3>2 DEF Underway
    <3>4. QED
      BY <3>1, <3>2, <3>3
  <2>3. CASE ~TargetOffers(data, eval[e].request)
    <3> DEFINE v == [eval[e] EXCEPT !.phase = "done", !.allowed = FALSE]
    <3>1. Decide(e, FALSE)
      BY <1>6, <2>3 DEF EvalTarget
    <3>2. v.allowed = FALSE
      BY <2>1
    <3>3. Decided(v)
      <4> HIDE DEF v
      <4>1. QED
        BY <2>1, <3>2 DEF Underway, Decided
    <3>4. QED
      BY <1>5, <2>1, <3>1, <3>3
  <2>4. QED
    BY <2>2, <2>3
<1>7. CASE EvalSnapshot(e)
  <2> DEFINE a == Related(data, eval[e].request)
             v == [eval[e] EXCEPT !.phase = "done", !.allowed = a]
  <2>1. eval[e].phase = "snapshot" /\ Underway(eval[e]) /\ eval[e] \in T
    BY <1>2, <1>7 DEF EvalSnapshot, EvalInv
  <2>2. Decide(e, a) /\ a \in BOOLEAN
    BY <1>7 DEF EvalSnapshot, Related
  <2>3. /\ v.allowed = a /\ v.available = eval[e].available
        /\ v.related = eval[e].related /\ v.request = eval[e].request
    BY <2>1
  <2>4. a => eval[e].related
    BY <2>1 DEF Underway
  <2> HIDE DEF a
  <2>5. Decided(v)
    <3> HIDE DEF v
    <3>1. QED
      BY <2>1, <2>3, <2>4 DEF Underway, Decided
  <2>6. QED
    BY <1>5, <2>1, <2>2, <2>5
<1>8. CASE EvalReply(e)
  <2>1. NoEval \in T /\ NoEval.phase = "idle" /\ eval' = [eval EXCEPT ![e] = NoEval]
    BY <1>8 DEF EvalReply, NoEval
  <2>2. QED
    BY <2>1
<1>9. QED
  BY <1>4, <1>6, <1>7, <1>8 DEF Evaluate

-----------------------------------------------------------------------------
(* The impact analyses' part of the invariant.                             *)

\* The services of the store are finitely many, for it starts empty and each
\* write adds at most one; while the process runs, none leaves it.
LEMMA RegisteredFinite ==
    ASSUME StoreInv, ImpactInv, NEW w \in Writers, Write(w)
    PROVE  /\ RegisteredIn(data) \subseteq RegisteredIn(data')
           /\ IsFiniteSet(RegisteredIn(data')) /\ IsFiniteSet(RegisteredIn(file'))
<1>1. IsFiniteSet(RegisteredIn(data)) /\ IsFiniteSet(RegisteredIn(file))
  BY DEF ImpactInv
<1>2. CASE Put(w)
  <2>1. RegisteredIn(data) \subseteq RegisteredIn(data')
    BY <1>2, PutFacts DEF RegisteredIn
  <2>2. RegisteredIn(data') \subseteq RegisteredIn(data) \cup {op[w].id}
    BY <1>2, PutFacts DEF RegisteredIn
  <2>3. IsFiniteSet(RegisteredIn(data) \cup {op[w].id})
    BY <1>1, FS_AddElement
  <2>4. IsFiniteSet(RegisteredIn(data'))
    BY <2>2, <2>3, FS_Subset
  <2>5. file' = file
    BY <1>2 DEF Put, disk
  <2>6. QED
    BY <1>1, <2>1, <2>4, <2>5
<1>3. CASE Rename(w)
  <2>1. file' = data /\ data' = data
    BY <1>3 DEF Rename, StoreInv, TmpComplete
  <2>2. QED
    BY <1>1, <2>1
<1>4. CASE ~Put(w) /\ ~Rename(w)
  <2>1. file' = file /\ data' = data
    BY <1>4 DEF Write, ReceiveService, ReceiveRelationship, CheckFrom, CheckTo,
       OpenTmp, WriteTmp, PersistFails, Reply, disk
  <2>2. QED
    BY <1>1, <2>1
<1>5. QED
  BY <1>2, <1>3, <1>4

\* A write does not disturb a search: the search reads its own snapshot.
LEMMA ImpactUnchanged ==
    ASSUME ImpactInv, UNCHANGED <<status, impact>>,
           RegisteredIn(data) \subseteq RegisteredIn(data'),
           IsFiniteSet(RegisteredIn(data')), IsFiniteSet(RegisteredIn(file'))
    PROVE  ImpactInv'
<1>1. impact' \in [Evaluators -> ImpactType]
  BY DEF ImpactInv
<1>2. ASSUME NEW e \in Evaluators, impact[e].phase # "idle"
      PROVE  status' = "up" /\ Registered(data', impact[e].id)
  BY <1>2 DEF ImpactInv, Registered, RegisteredIn
<1>3. ASSUME NEW v, Searching(v) PROVE Searching(v)'
  BY <1>3 DEF Searching, WantLeast, ClosedUnder
<1>4. QED
  BY <1>1, <1>2, <1>3 DEF ImpactInv, Registered, RegisteredIn

\* A step of the search of e that leaves the store alone.
LEMMA ImpactStep ==
    ASSUME ImpactInv, UNCHANGED vars, NEW e \in Evaluators, NEW v \in ImpactType,
           impact' = [impact EXCEPT ![e] = v],
           v.phase # "idle" => status = "up" /\ Registered(data, v.id),
           v.phase = "search" => Searching(v)
    PROVE  ImpactInv'
<1>1. UNCHANGED <<status, data, file>>
  BY DEF vars, disk
<1>2. impact \in [Evaluators -> ImpactType]
  BY DEF ImpactInv
<1>3. \A x \in Evaluators : impact'[x] = IF x = e THEN v ELSE impact[x]
  BY <1>2
<1>4. impact' \in [Evaluators -> ImpactType]
  BY <1>2
<1>5. \A x \in Evaluators :
        /\ impact'[x].phase # "idle" => status = "up" /\ Registered(data, impact'[x].id)
        /\ impact'[x].phase = "search" => Searching(impact'[x])
  BY <1>3 DEF ImpactInv
<1>6. ASSUME NEW u, Searching(u) PROVE Searching(u)'
  BY <1>1, <1>6 DEF Searching, WantLeast, ClosedUnder, RegisteredIn
<1>7. ASSUME NEW x \in Evaluators, impact'[x].phase = "search"
      PROVE  Searching(impact[x])'
  <2>1. Searching(impact'[x])
    BY <1>5, <1>7
  <2>2. QED
    BY <1>1, <2>1 DEF Searching, WantLeast, ClosedUnder, RegisteredIn
<1>8. QED
  BY <1>1, <1>4, <1>5, <1>7 DEF ImpactInv, Registered, RegisteredIn

\* Impact's reverse map lists the direct dependents, which are registered: a
\* service that depends is, and so is the source of a relationship.
LEMMA ReverseFacts ==
    ASSUME StoreInv, NEW c \in ServiceIds
    PROVE  /\ ReverseOf(data, c) \subseteq RegisteredIn(data)
           /\ \A a \in ServiceIds : a \in ReverseOf(data, c) <=> DependsOn(data, a, c)
<1>1. Anchored(data)
  BY DEF StoreInv, AlwaysAnchored
<1>2. \A i \in RelationshipIds : data.relationships[i] # None =>
        data.relationships[i].from \in RegisteredIn(data)
  BY <1>1 DEF Anchored, Registered, RegisteredIn
<1>3. QED
  BY <1>2 DEF ReverseOf, DependsOn, RegisteredIn

\* What the search wants is the least closed set around the service.
LEMMA AffectedLeast ==
    ASSUME StoreInv, NEW id \in ServiceIds, NEW v,
           v.id = id, v.want = Affected(data, id),
           v.reverse = [c \in ServiceIds |-> ReverseOf(data, c)]
    PROVE  WantLeast(v) /\ v.want \subseteq ServiceIds
<1> DEFINE Closed(S) == \A a \in ServiceIds, b \in S : DependsOn(data, a, b) => a \in S
           Around == {S \in SUBSET ServiceIds : id \in S /\ Closed(S)}
<1>1. Affected(data, id) = {s \in ServiceIds \ {id} : \A S \in Around : s \in S}
  BY DEF Affected
<1>2. ASSUME NEW S \in SUBSET ServiceIds
      PROVE  ClosedUnder(v.reverse, S) <=> Closed(S)
  <2>1. \A c \in S : v.reverse[c] = ReverseOf(data, c)
    OBVIOUS
  <2>2. \A c \in S : ReverseOf(data, c) \subseteq ServiceIds
    BY ReverseFacts DEF RegisteredIn
  <2>3. QED
    BY <2>1, <2>2, ReverseFacts DEF ClosedUnder
<1>3. v.id \notin v.want /\ v.want \subseteq ServiceIds
  BY <1>1
<1>4. ASSUME NEW S \in SUBSET ServiceIds, v.id \in S, ClosedUnder(v.reverse, S)
      PROVE  v.want \subseteq S
  <2>1. S \in Around
    BY <1>2, <1>4
  <2>2. QED
    BY <1>1, <2>1
<1>5. ClosedUnder(v.reverse, v.want \cup {v.id})
  <2>1. SUFFICES Closed(v.want \cup {id})
    BY <1>2, <1>3
  <2>2. SUFFICES ASSUME NEW a \in ServiceIds, NEW b \in v.want \cup {id},
                        DependsOn(data, a, b), a # id, NEW S \in Around
                 PROVE  a \in S
    BY <1>1
  <2>3. b \in S
    BY <1>1
  <2>4. QED
    BY <2>2, <2>3
<1>6. QED
  BY <1>3, <1>4, <1>5 DEF WantLeast

\* A turn of the loop.
LEMMA TurnFacts ==
    ASSUME NEW v \in ImpactType, Searching(v), NEW current \in v.queue,
           IsFiniteSet(RegisteredIn(data))
    PROVE  /\ Turn(v, current) \in ImpactType /\ Searching(Turn(v, current))
           /\ Turn(v, current).phase = v.phase /\ Turn(v, current).id = v.id
<1> DEFINE found == v.reverse[current] \ v.seen
           n == Turn(v, current)
<1>1. /\ n.phase = v.phase /\ n.id = v.id /\ n.reverse = v.reverse /\ n.want = v.want
      /\ n.seen = v.seen \cup found /\ n.out = v.out \cup found
      /\ n.queue = (v.queue \ {current}) \cup found /\ n.turns = v.turns + 1
  BY DEF Turn, ImpactType
<1>2. /\ current \in v.seen /\ current \in ServiceIds
      /\ found \subseteq RegisteredIn(data) /\ found \subseteq ServiceIds
  BY DEF Searching, RegisteredIn
<1>3. n \in ImpactType
  <2>1. n = [v EXCEPT !.seen = v.seen \cup found, !.out = v.out \cup found,
                      !.queue = (v.queue \ {current}) \cup found, !.turns = v.turns + 1]
    BY DEF Turn
  <2>2. /\ v.seen \cup found \in SUBSET ServiceIds /\ v.out \cup found \in SUBSET ServiceIds
        /\ (v.queue \ {current}) \cup found \in SUBSET ServiceIds /\ v.turns + 1 \in Nat
    BY <1>2 DEF ImpactType
  <2> HIDE DEF n, found
  <2>3. QED
    BY <2>1, <2>2 DEF ImpactType
<1>4. found \subseteq v.want \cup {v.id}
  BY <1>2 DEF Searching, WantLeast, ClosedUnder
<1>5. n.seen \ n.queue = (v.seen \ v.queue) \cup {current}
  BY <1>1, <1>2 DEF Searching
<1>6. n.turns = Cardinality(n.seen \ n.queue)
  <2>1. v.seen \ v.queue \in SUBSET RegisteredIn(data)
    BY DEF Searching
  <2>2. IsFiniteSet(v.seen \ v.queue)
    BY <2>1, FS_Subset
  <2>3. Cardinality((v.seen \ v.queue) \cup {current}) = Cardinality(v.seen \ v.queue) + 1
    BY <2>2, FS_AddElement
  <2>4. QED
    BY <1>1, <1>5, <2>3 DEF Searching
<1>7. \A c \in n.seen \ n.queue : n.reverse[c] \subseteq n.seen
  BY <1>1, <1>5 DEF Searching
<1>8. WantLeast(n)
  BY <1>1 DEF Searching, WantLeast
<1>9. /\ n.id \in n.seen /\ n.queue \subseteq n.seen
      /\ n.reverse \in [ServiceIds -> SUBSET RegisteredIn(data)]
      /\ n.seen \subseteq RegisteredIn(data)
      /\ n.out = n.seen \ {n.id}
      /\ n.seen \subseteq n.want \cup {n.id}
  BY <1>1, <1>2, <1>4 DEF Searching
<1> HIDE DEF n
<1>10. Searching(n)
  BY <1>6, <1>7, <1>8, <1>9 DEF Searching
<1>11. QED
  BY <1>1, <1>3, <1>10 DEF n

\* The steps of an impact analysis.
LEMMA ImpactStepsInv ==
    ASSUME StoreInv, ImpactInv, NEW e \in Evaluators, Impact(e)
    PROVE  ImpactInv'
<1>1. /\ IsFiniteSet(RegisteredIn(data)) /\ impact[e] \in ImpactType
      /\ impact[e].phase # "idle" => status = "up" /\ Registered(data, impact[e].id)
      /\ impact[e].phase = "search" => Searching(impact[e])
  BY DEF ImpactInv
<1>2. NoImpact \in ImpactType /\ NoImpact.phase = "idle"
  BY DEF NoImpact, ImpactType
<1>3. CASE ImpactLookup(e)
  <2>1. PICK s \in ServiceIds :
           /\ Registered(data, s)
           /\ impact' = [impact EXCEPT ![e] = [NoImpact EXCEPT !.phase = "found", !.id = s]]
    BY <1>3 DEF ImpactLookup
  <2> DEFINE v == [NoImpact EXCEPT !.phase = "found", !.id = s]
  <2>2. v \in ImpactType /\ v.phase = "found" /\ v.id = s
    BY <1>2 DEF ImpactType
  <2>3. status = "up" /\ UNCHANGED vars
    BY <1>3 DEF ImpactLookup
  <2> HIDE DEF v
  <2>4. QED
    BY <2>1, <2>2, <2>3, ImpactStep DEF v
<1>4. CASE ImpactSnapshot(e)
  <2> DEFINE id == impact[e].id
             v == [phase |-> "search", id |-> id,
                   reverse |-> [c \in ServiceIds |-> ReverseOf(data, c)],
                   seen |-> {id}, queue |-> {id}, out |-> {},
                   turns |-> 0, want |-> Affected(data, id)]
  <2>1. impact' = [impact EXCEPT ![e] = v] /\ UNCHANGED vars
    BY <1>4 DEF ImpactSnapshot
  <2>2. status = "up" /\ Registered(data, id) /\ id \in ServiceIds
    BY <1>1, <1>4 DEF ImpactSnapshot, Registered
  <2>3. /\ v.phase = "search" /\ v.id = id /\ v.seen = {id} /\ v.queue = {id}
        /\ v.out = {} /\ v.turns = 0 /\ v.want = Affected(data, id)
        /\ v.reverse = [c \in ServiceIds |-> ReverseOf(data, c)]
    OBVIOUS
  <2>4. v.reverse \in [ServiceIds -> SUBSET RegisteredIn(data)]
    BY <2>3, ReverseFacts
  <2>5. v \in ImpactType
    <3>1. Affected(data, id) \in SUBSET ServiceIds
      BY DEF Affected
    <3>2. [c \in ServiceIds |-> ReverseOf(data, c)] \in [ServiceIds -> SUBSET ServiceIds]
      BY ReverseFacts DEF RegisteredIn
    <3>3. QED
      BY <2>2, <3>1, <3>2 DEF ImpactType
  <2> HIDE DEF v
  <2>6. WantLeast(v)
    BY <2>2, <2>3, AffectedLeast
  <2>7. v.turns = Cardinality(v.seen \ v.queue)
    BY <2>3, FS_EmptySet
  <2>8. Searching(v)
    BY <2>2, <2>3, <2>4, <2>6, <2>7 DEF Searching, Registered, RegisteredIn
  <2>9. QED
    BY <2>1, <2>2, <2>3, <2>5, <2>8, ImpactStep
<1>5. CASE ImpactTurn(e)
  <2>1. PICK current \in impact[e].queue :
           impact' = [impact EXCEPT ![e] = Turn(impact[e], current)]
    BY <1>5 DEF ImpactTurn
  <2>2. impact[e].phase = "search" /\ UNCHANGED vars
    BY <1>5 DEF ImpactTurn
  <2> DEFINE v == Turn(impact[e], current)
  <2>3. /\ v \in ImpactType /\ Searching(v)
        /\ v.phase = impact[e].phase /\ v.id = impact[e].id
    BY <1>1, <2>2, TurnFacts
  <2> HIDE DEF v
  <2>4. QED
    BY <1>1, <2>1, <2>2, <2>3, ImpactStep DEF v
<1>6. CASE ImpactReply(e)
  BY <1>2, <1>6, ImpactStep DEF ImpactReply
<1>7. QED
  BY <1>3, <1>4, <1>5, <1>6 DEF Impact

-----------------------------------------------------------------------------
(* The theorems.                                                           *)

\* An impact analysis changes nothing that others see.
LEMMA ImpactReads == \A e \in Evaluators : Impact(e) => UNCHANGED vars
  BY DEF Impact, ImpactLookup, ImpactSnapshot, ImpactTurn, ImpactReply

\* The steps beside the queries are steps of the store.
LEMMA StoreSteps == [QueryNext]_queryVars => [Next]_vars
  BY ImpactReads DEF QueryNext, queryVars, Next, Ask

\* Every step of a writer, an evaluation or the process preserves the invariant.
LEMMA IndInvNext == IndInv /\ [Next]_vars => IndInv'
<1> SUFFICES ASSUME IndInv, [Next]_vars PROVE IndInv'
  OBVIOUS
<1>1. StoreInv /\ EvalInv
  BY DEF IndInv
<1>2. ASSUME NEW w \in Writers, Write(w) PROVE IndInv'
  <2>1. CASE Put(w)
    BY <1>1, <2>1, PutInv, EvalPut DEF IndInv
  <2>2. CASE ReceiveService(w) \/ ReceiveRelationship(w) \/ CheckFrom(w) \/ CheckTo(w)
    <3>1. UNCHANGED <<status, data, eval>>
      BY <2>2 DEF ReceiveService, ReceiveRelationship, CheckFrom, CheckTo
    <3>2. QED
      BY <1>1, <2>2, <3>1, ReceiveInv, EvalUnchanged DEF IndInv
  <2>3. CASE OpenTmp(w) \/ WriteTmp(w) \/ Rename(w) \/ PersistFails(w) \/ Reply(w)
    <3>1. UNCHANGED <<status, data, eval>>
      BY <2>3 DEF OpenTmp, WriteTmp, Rename, PersistFails, Reply
    <3>2. QED
      BY <1>1, <2>3, <3>1, WriteTmpInv, EndOfWriteInv, ReplyInv, EvalUnchanged DEF IndInv
  <2>4. QED
    BY <1>2, <2>1, <2>2, <2>3 DEF Write
<1>3. CASE Crash \/ Start
  <2>1. EvalInv'
    <3>1. CASE Crash
      BY <3>1 DEF Crash, EvalInv, NoEval
    <3>2. CASE Start
      <4>1. \A e \in Evaluators : eval[e].phase \notin {"target", "snapshot", "done"}
        BY <1>1, <3>2 DEF Start, EvalInv, Underway, Decided
      <4>2. eval' = eval
        BY <3>2 DEF Start
      <4>3. QED
        BY <4>1, <4>2 DEF EvalInv
    <3>3. QED
      BY <1>3, <3>1, <3>2
  <2>2. QED
    BY <1>1, <1>3, <2>1, ProcessInv DEF IndInv
<1>4. ASSUME UNCHANGED vars PROVE IndInv'
  <2>1. UNCHANGED <<status, data, lock, file, tmp, pc, op, code, eval, acked>>
    BY <1>4 DEF vars, disk, requests
  <2>2. StoreInv'
    BY <1>1, <2>1 DEF StoreInv, TypeOK, LockOwner, DownIdle, TmpComplete, Vetted,
       EndsFound, Registered, RelationshipAccepted, FileBehind, InFlight, Held,
       AlwaysAnchored, Anchored, AckedRegistered
  <2>3. QED
    BY <1>1, <2>1, <2>2, EvalUnchanged DEF IndInv
<1>5. QED
  BY <1>1, <1>2, <1>3, <1>4, EvaluateInv, Zenon DEF Next, IndInv

\* The invariant of the store, its writers and the evaluations; a part of it
\* is that the file is always complete and what is stored is normalised.
THEOREM Invariance == QuerySpec => []IndInv
<1>1. QueryInit => IndInv
  BY StoreInitInv DEF QueryInit, IndInv
<1>2. QED
  BY <1>1, IndInvNext, StoreSteps, PTL DEF QuerySpec

\* No relationship has an end that is not registered, although AddRelationship
\* checks its ends before it takes the mutex it writes under.
THEOREM RelationshipsAnchored == QuerySpec => []AlwaysAnchored
<1>1. IndInv => AlwaysAnchored
  BY DEF IndInv, StoreInv
<1>2. QED
  BY <1>1, Invariance, PTL

\* What was answered with 201 is in the file from then on, although the store
\* does not take back what it failed to persist.
THEOREM RegistrationsDurable == QuerySpec => []AckedRegistered
<1>1. IndInv => AckedRegistered
  BY DEF IndInv, StoreInv
<1>2. QED
  BY <1>1, Invariance, PTL

\* Nothing that reached the disk is lost from it.
THEOREM RegistrationsStay == QuerySpec => NothingUnregistered
<1>1. ASSUME IndInv, [QueryNext]_queryVars
      PROVE  Held(file) \subseteq Held(file')
  <2>1. CASE file' = file
    BY <2>1
  <2>2. CASE file' # file
    <3>1. UNCHANGED vars => file' = file
      BY DEF vars, disk
    <3>2. Crash \/ Start => file' = file
      BY DEF Crash, Start, disk
    <3>3. \A w \in Writers : Write(w) => Rename(w) \/ file' = file
      BY DEF Write, ReceiveService, ReceiveRelationship, CheckFrom, CheckTo, Put,
         OpenTmp, WriteTmp, PersistFails, Reply, disk
    <3>4. \A e \in Evaluators : Evaluate(e) => file' = file
      BY DEF Evaluate, EvalSource, EvalTarget, EvalSnapshot, EvalReply, disk
    <3>5. \A e \in Evaluators : Impact(e) \/ Ask(e) => UNCHANGED vars
      BY ImpactReads DEF Ask
    <3>6. PICK w \in Writers : Rename(w)
      BY <1>1, <2>2, <3>1, <3>2, <3>3, <3>4, <3>5, Zenon DEF QueryNext, queryVars
    <3>7. QED
      BY <1>1, <3>6, RenameFacts DEF IndInv
  <2>3. QED
    BY <2>1, <2>2
<1>2. IndInv /\ [QueryNext]_queryVars => [Held(file) \subseteq Held(file')]_vars
  BY <1>1
<1>3. QED
  BY <1>2, Invariance, PTL DEF QuerySpec, NothingUnregistered

\* Whatever is written meanwhile, a request is allowed only on grounds that
\* held: source registered, target on offer, relationship enabled.
THEOREM GroundedDecisions == QuerySpec => []AllowedOnGrounds
<1>1. IndInv => AllowedOnGrounds
  BY DEF IndInv, EvalInv, Decided, AllowedOnGrounds
<1>2. QED
  BY <1>1, Invariance, PTL

\* Every step preserves what is known of the impact analyses.
LEMMA ImpactInvNext ==
    ASSUME StoreInv, ImpactInv, [QueryNext]_queryVars
    PROVE  ImpactInv'
<1>1. CASE \E w \in Writers : Write(w) /\ UNCHANGED impact
  <2>1. PICK w \in Writers : Write(w) /\ UNCHANGED impact
    BY <1>1
  <2>2. status' = status
    BY <2>1 DEF Write, ReceiveService, ReceiveRelationship, CheckFrom, CheckTo, Put,
       OpenTmp, WriteTmp, Rename, PersistFails, Reply
  <2>3. QED
    BY <2>1, <2>2, RegisteredFinite, ImpactUnchanged
<1>2. CASE UNCHANGED <<status, data, file, impact>>
  BY <1>2, ImpactUnchanged DEF ImpactInv
<1>3. CASE Crash /\ impact' = [e \in Evaluators |-> NoImpact]
  <2>1. NoImpact \in ImpactType /\ NoImpact.phase = "idle"
    BY DEF NoImpact, ImpactType
  <2>2. RegisteredIn(data') = {}
    BY <1>3 DEF Crash, Empty, RegisteredIn
  <2>3. file' = file
    BY <1>3 DEF Crash, disk
  <2>4. IsFiniteSet(RegisteredIn(data')) /\ IsFiniteSet(RegisteredIn(file'))
    BY <2>2, <2>3, FS_EmptySet DEF ImpactInv
  <2>5. impact' \in [Evaluators -> ImpactType] /\ \A e \in Evaluators : impact'[e].phase = "idle"
    BY <1>3, <2>1
  <2>6. QED
    BY <2>4, <2>5 DEF ImpactInv, RegisteredIn
<1>4. CASE Start /\ UNCHANGED impact
  <2>1. /\ file' = file /\ (data' = data \/ data' = file) /\ impact' = impact
        /\ status # "up"
    BY <1>4 DEF Start, disk
  <2>2. \A e \in Evaluators : impact[e].phase = "idle"
    BY <2>1 DEF ImpactInv
  <2>3. IsFiniteSet(RegisteredIn(data')) /\ IsFiniteSet(RegisteredIn(file'))
    BY <2>1 DEF ImpactInv
  <2>4. QED
    BY <2>1, <2>2, <2>3 DEF ImpactInv, RegisteredIn
<1>5. CASE \E e \in Evaluators : Impact(e)
  BY <1>5, ImpactStepsInv
<1>6. ASSUME NEW e \in Evaluators, (Evaluate(e) /\ UNCHANGED impact) \/ Ask(e)
      PROVE  UNCHANGED <<status, data, file, impact>>
  BY <1>6 DEF Ask, vars, Evaluate, EvalSource, EvalTarget, EvalSnapshot, EvalReply, disk
<1>7. UNCHANGED queryVars => UNCHANGED <<status, data, file, impact>>
  BY DEF queryVars, vars, disk
<1>8. QED
  BY <1>1, <1>2, <1>3, <1>4, <1>5, <1>6, <1>7, Zenon DEF QueryNext

\* Impact finds exactly the registered services that directly or transitively
\* depend on the one asked about, in at most one turn of its loop per
\* registered service, whatever cycles the dependencies form.
THEOREM ImpactFound == QuerySpec => []ImpactExact
<1>1. QueryInit => IndInv /\ ImpactInv
  <2> SUFFICES ASSUME QueryInit PROVE IndInv /\ ImpactInv
    OBVIOUS
  <2>1. IndInv
    BY StoreInitInv DEF QueryInit, IndInv
  <2>2. RegisteredIn(data) = {} /\ RegisteredIn(file) = {}
    BY DEF QueryInit, Init, Empty, RegisteredIn
  <2>3. NoImpact \in ImpactType /\ NoImpact.phase = "idle"
    BY DEF NoImpact, ImpactType
  <2>4. ImpactInv
    BY <2>2, <2>3, FS_EmptySet DEF QueryInit, ImpactInv
  <2>5. QED
    BY <2>1, <2>4
<1>2. IndInv /\ ImpactInv /\ [QueryNext]_queryVars => IndInv' /\ ImpactInv'
  BY IndInvNext, ImpactInvNext, StoreSteps DEF IndInv
<1>3. ImpactInv => ImpactExact
  <2>1. SUFFICES ASSUME ImpactInv, NEW e \in Evaluators, impact[e].phase = "search"
                 PROVE  /\ impact[e].turns <= Cardinality(RegisteredIn(data))
                        /\ impact[e].queue = {} =>
                             /\ impact[e].out = impact[e].want
                             /\ impact[e].out \subseteq RegisteredIn(data)
    BY DEF ImpactExact
  <2> DEFINE v == impact[e]
  <2>2. Searching(v) /\ IsFiniteSet(RegisteredIn(data)) /\ v \in ImpactType
    BY <2>1 DEF ImpactInv
  <2>3. v.turns <= Cardinality(RegisteredIn(data))
    <3>1. v.seen \ v.queue \in SUBSET RegisteredIn(data)
      BY <2>2 DEF Searching
    <3>2. QED
      BY <2>2, <3>1, FS_Subset DEF Searching
  <2>4. ASSUME v.queue = {} PROVE v.out = v.want
    <3>1. v.seen \in SUBSET ServiceIds /\ ClosedUnder(v.reverse, v.seen)
      BY <2>2, <2>4 DEF Searching, ClosedUnder, ImpactType
    <3>2. v.want \subseteq v.seen
      BY <2>2, <3>1 DEF Searching, WantLeast
    <3>3. QED
      BY <2>2, <3>2 DEF Searching, WantLeast
  <2>5. v.out \subseteq RegisteredIn(data)
    BY <2>2 DEF Searching
  <2>6. QED
    BY <2>3, <2>4, <2>5
<1>4. QED
  BY <1>1, <1>2, <1>3, PTL DEF QuerySpec

-----------------------------------------------------------------------------
(* Discovery.                                                              *)

\* Capabilities are stored trimmed and none of them is blank.
LEMMA StoredTrimmed ==
    ASSUME NEW v \in StoredServices, NEW c \in v.capabilities
    PROVE  c # "" /\ c \notin DOMAIN Padded
<1>1. PICK x \in Services : c \in Unique(x.capabilities)
  BY DEF StoredServices
<1>2. PICK t \in {x.capabilities[i] : i \in DOMAIN x.capabilities} : c = TrimSpace(t) /\ c # ""
  BY <1>1 DEF Unique
<1>3. QED
  BY <1>2, PaddedTrims DEF TrimSpace

\* In a store that only holds what RegisterService lets in, no target is on
\* offer under a padded text, and Discover finds the targets on offer.
LEMMA OffersFacts ==
    ASSUME NEW d \in Contents, NEW q, TargetOffers(d, q)
    PROVE  q.capability \notin DOMAIN Padded
  BY StoredTrimmed DEF TargetOffers, Registered, Contents

LEMMA DiscoverFacts ==
    ASSUME NEW d \in Contents, NEW c, NEW q, q.capability = TrimSpace(c)
    PROVE  q.target \in Discover(d, c) <=> TargetOffers(d, q)
<1>1. \A s \in ServiceIds : d.services[s] # None =>
        \A x \in d.services[s].capabilities : x # ""
  BY StoredTrimmed DEF Contents
<1>2. QED
  BY <1>1 DEF Discover, TargetOffers, Registered

\* A writer's step that leaves memory as it is leaves the evaluations as they
\* are, but for what they remember; none of them moves on.
LEMMA WriteFacts ==
    ASSUME StoreInv, NEW w \in Writers, Write(w)
    PROVE  /\ status = "up" /\ status' = "up"
           /\ \A e \in Evaluators : /\ eval'[e].phase = eval[e].phase
                                    /\ eval'[e].allowed = eval[e].allowed
                                    /\ eval'[e].request = eval[e].request
<1>1. status = "up"
  BY DEF Write, ReceiveService, ReceiveRelationship, CheckFrom, CheckTo, Put, OpenTmp,
     WriteTmp, Rename, PersistFails, Reply, StoreInv, DownIdle
<1>2. status' = status /\ (eval' = eval \/ Witness(data'))
  BY DEF Write, ReceiveService, ReceiveRelationship, CheckFrom, CheckTo, Put, OpenTmp,
     WriteTmp, Rename, PersistFails, Reply
<1>3. ASSUME NEW e \in Evaluators, Witness(data')
      PROVE  /\ eval'[e].phase = eval[e].phase
             /\ eval'[e].allowed = eval[e].allowed
             /\ eval'[e].request = eval[e].request
  <2>1. CASE eval[e].phase \notin {"target", "snapshot"}
    BY <1>3, <2>1 DEF Witness
  <2>2. CASE eval[e].phase \in {"target", "snapshot"}
    <3> DEFINE o == eval[e]
               a == o.available \/ TargetOffers(data', o.request)
               r == o.related \/ Related(data', o.request)
    <3>1. eval'[e] = [o EXCEPT !.available = a, !.related = r]
      BY <1>3, <2>2 DEF Witness
    <3>2. o \in [phase : {"idle", "target", "snapshot", "done"},
                 request : Questions \cup {None}, allowed : BOOLEAN,
                 available : BOOLEAN, related : BOOLEAN]
      BY DEF StoreInv, TypeOK
    <3> HIDE DEF a, r
    <3>3. QED
      BY <3>1, <3>2
  <2>3. QED
    BY <2>1, <2>2
<1>4. QED
  BY <1>1, <1>2, <1>3

\* After a step that may change the store, a client holds an answer only if it
\* held it before and the store is what it was.
LEMMA ForgettingFacts ==
    ASSUME KnownInv, NEW changed \in BOOLEAN, Forgetting(changed)
    PROVE  /\ known' \in [Evaluators -> Answers \cup {Nothing}]
           /\ \A e \in Evaluators : known'[e] # Nothing =>
                known[e] # Nothing /\ ~changed /\ known'[e] = known[e]
  BY DEF Forgetting, KnownInv

\* A policy evaluation decides, for a client that holds an answer, what the
\* store justifies.
LEMMA EvaluateInformed ==
    ASSUME IndInv, KnownInv, NEW e \in Evaluators, Evaluate(e), UNCHANGED known
    PROVE  KnownInv'
<1> DEFINE T == [phase : {"idle", "target", "snapshot", "done"},
                 request : Questions \cup {None}, allowed : BOOLEAN,
                 available : BOOLEAN, related : BOOLEAN]
<1>1. UNCHANGED <<status, data, file>>
  BY DEF Evaluate, EvalSource, EvalTarget, EvalSnapshot, EvalReply, disk
<1>2. eval \in [Evaluators -> T]
  BY DEF IndInv, StoreInv, TypeOK
<1>3. \A x \in Evaluators : x # e => eval'[x] = eval[x]
  BY <1>2 DEF Evaluate, EvalSource, EvalTarget, EvalSnapshot, EvalReply, Decide
<1>4. ASSUME known[e] # Nothing
      PROVE  /\ eval'[e].phase = "snapshot" => TargetOffers(data, eval'[e].request)
             /\ eval'[e].phase = "done" => eval'[e].allowed = Allows(data, eval'[e].request)
  <2>1. Informed(e)
    BY <1>4 DEF KnownInv
  <2>2. CASE EvalSource(e)
    <3>1. PICK q \in Questions : eval' = [eval EXCEPT ![e] =
                [phase |-> IF Registered(data, q.source) THEN "target" ELSE "done",
                 request |-> q, allowed |-> FALSE,
                 available |-> TargetOffers(data, q), related |-> Related(data, q)]]
      BY <2>2 DEF EvalSource
    <3>2. /\ eval'[e].phase = (IF Registered(data, q.source) THEN "target" ELSE "done")
          /\ eval'[e].request = q /\ eval'[e].allowed = FALSE
      BY <1>2, <3>1
    <3>3. ~Registered(data, q.source) => Allows(data, q) = FALSE
      BY DEF Allows
    <3>4. QED
      BY <3>2, <3>3
  <2>3. CASE EvalTarget(e)
    <3>1. CASE TargetOffers(data, eval[e].request)
      <4>1. eval'[e].phase = "snapshot" /\ eval'[e].request = eval[e].request
        BY <1>2, <2>3, <3>1 DEF EvalTarget
      <4>2. QED
        BY <3>1, <4>1
    <3>2. CASE ~TargetOffers(data, eval[e].request)
      <4>1. /\ eval'[e].phase = "done" /\ eval'[e].request = eval[e].request
            /\ eval'[e].allowed = FALSE
        BY <1>2, <2>3, <3>2 DEF EvalTarget, Decide
      <4>2. Allows(data, eval[e].request) = FALSE
        BY <3>2 DEF Allows
      <4>3. QED
        BY <4>1, <4>2
    <3>3. QED
      BY <3>1, <3>2
  <2>4. CASE EvalSnapshot(e)
    <3> DEFINE q == eval[e].request
               a == Related(data, q)
    <3>1. eval[e].phase = "snapshot" /\ Underway(eval[e])
      BY <2>4 DEF EvalSnapshot, IndInv, EvalInv
    <3>2. eval' = [eval EXCEPT ![e].phase = "done", ![e].allowed = a]
      BY <2>4 DEF EvalSnapshot, Decide
    <3>3. Registered(data, q.source) /\ TargetOffers(data, q)
      BY <2>1, <3>1 DEF Underway, Informed
    <3>4. Allows(data, q) = a
      BY <3>3, Zenon DEF Allows, Related
    <3> HIDE DEF a
    <3>5. eval'[e].phase = "done" /\ eval'[e].request = q /\ eval'[e].allowed = a
      BY <1>2, <3>2
    <3>6. QED
      BY <3>4, <3>5
  <2>5. CASE EvalReply(e)
    BY <1>2, <2>5 DEF EvalReply, NoEval
  <2>6. QED
    BY <2>2, <2>3, <2>4, <2>5 DEF Evaluate
<1>5. ASSUME NEW x \in Evaluators, known[x] # Nothing PROVE Informed(x)'
  <2>1. /\ eval'[x].phase = "snapshot" => TargetOffers(data, eval'[x].request)
        /\ eval'[x].phase = "done" => eval'[x].allowed = Allows(data, eval'[x].request)
    BY <1>3, <1>4, <1>5 DEF KnownInv, Informed
  <2>2. known[x].found = Discover(IF status = "up" THEN data ELSE file, known[x].capability)
    BY <1>5 DEF KnownInv, Informed
  <2>3. /\ Allows(data', eval'[x].request) = Allows(data, eval'[x].request)
        /\ TargetOffers(data', eval'[x].request) = TargetOffers(data, eval'[x].request)
    BY <1>1
  <2>4. QED
    BY <1>1, <2>1, <2>2, <2>3 DEF Informed, Discover, Registered
<1>6. QED
  BY <1>5 DEF KnownInv

\* What clients know, step by step.
LEMMA KnownNext == IndInv /\ KnownInv /\ [QueryNext]_queryVars => KnownInv'
<1> SUFFICES ASSUME IndInv, KnownInv, [QueryNext]_queryVars PROVE KnownInv'
  OBVIOUS
<1>1. ASSUME NEW w \in Writers, Write(w), Forgetting(data' # data) PROVE KnownInv'
  <2>1. /\ status = "up" /\ status' = "up"
        /\ \A e \in Evaluators : /\ eval'[e].phase = eval[e].phase
                                 /\ eval'[e].allowed = eval[e].allowed
                                 /\ eval'[e].request = eval[e].request
    BY <1>1, WriteFacts DEF IndInv
  <2>2. /\ known' \in [Evaluators -> Answers \cup {Nothing}]
        /\ \A e \in Evaluators : known'[e] # Nothing =>
             known[e] # Nothing /\ data' = data /\ known'[e] = known[e]
    <3>1. (data' # data) \in BOOLEAN
      OBVIOUS
    <3>2. QED
      BY <1>1, <3>1, ForgettingFacts
  <2>3. ASSUME NEW e \in Evaluators, known'[e] # Nothing PROVE Informed(e)'
    <3>1. Informed(e) /\ data' = data /\ known'[e] = known[e]
      BY <2>2, <2>3 DEF KnownInv
    <3>2. /\ Allows(data', eval'[e].request) = Allows(data, eval[e].request)
          /\ TargetOffers(data', eval'[e].request) = TargetOffers(data, eval[e].request)
      BY <2>1, <3>1
    <3>3. QED
      BY <2>1, <3>1, <3>2 DEF Informed
  <2>4. QED
    BY <2>2, <2>3 DEF KnownInv
<1>2. ASSUME NEW e \in Evaluators, Ask(e) PROVE KnownInv'
  <2>1. PICK c \in Capabilities :
           known' = [known EXCEPT ![e] = [capability |-> c, found |-> Discover(data, c)]]
    BY <1>2 DEF Ask
  <2>2. /\ status = "up" /\ eval[e].phase = "idle"
        /\ UNCHANGED <<status, data, file, eval>>
    BY <1>2 DEF Ask, vars, disk
  <2>3. [capability |-> c, found |-> Discover(data, c)] \in Answers
    BY DEF Answers, Discover
  <2>4. known' \in [Evaluators -> Answers \cup {Nothing}]
    BY <2>1, <2>3 DEF KnownInv
  <2>5. ASSUME NEW x \in Evaluators, known'[x] # Nothing PROVE Informed(x)'
    <3>1. CASE x # e
      <4>1. known'[x] = known[x]
        BY <2>1, <3>1 DEF KnownInv
      <4>2. QED
        BY <2>2, <2>5, <4>1 DEF KnownInv, Informed
    <3>2. CASE x = e
      <4>1. known'[x].capability = c /\ known'[x].found = Discover(data, c)
        BY <2>1, <3>2 DEF KnownInv
      <4>2. QED
        BY <2>2, <3>2, <4>1 DEF Informed
    <3>3. QED
      BY <3>1, <3>2
  <2>6. QED
    BY <2>4, <2>5 DEF KnownInv
<1>3. ASSUME NEW e \in Evaluators, Impact(e) PROVE KnownInv'
  <2>1. UNCHANGED <<status, data, file, eval>>
    BY <1>3, ImpactReads DEF vars, disk
  <2>2. known' = known \/ known' = [known EXCEPT ![e] = Nothing]
    BY <1>3 DEF Impact, ImpactLookup, ImpactSnapshot, ImpactTurn, ImpactReply
  <2>3. /\ known' \in [Evaluators -> Answers \cup {Nothing}]
        /\ \A x \in Evaluators : known'[x] # Nothing => known'[x] = known[x]
    BY <2>2 DEF KnownInv
  <2>4. \A x \in Evaluators : known'[x] # Nothing => Informed(x)'
    BY <2>1, <2>3 DEF KnownInv, Informed
  <2>5. QED
    BY <2>3, <2>4 DEF KnownInv
<1>4. CASE Crash /\ Forgetting(file # data)
  <2>1. /\ status = "up" /\ status' = "down" /\ file' = file
        /\ \A e \in Evaluators : eval'[e].phase = "idle"
    BY <1>4 DEF Crash, disk, NoEval
  <2>2. /\ known' \in [Evaluators -> Answers \cup {Nothing}]
        /\ \A e \in Evaluators : known'[e] # Nothing =>
             known[e] # Nothing /\ file = data /\ known'[e] = known[e]
    <3>1. (file # data) \in BOOLEAN
      OBVIOUS
    <3>2. QED
      BY <1>4, <3>1, ForgettingFacts
  <2>3. \A e \in Evaluators : known'[e] # Nothing => Informed(e)'
    BY <2>1, <2>2 DEF KnownInv, Informed
  <2>4. QED
    BY <2>2, <2>3 DEF KnownInv
<1>5. CASE Start /\ UNCHANGED known
  <2>1. status # "up" /\ status' = "up" /\ data' = file /\ UNCHANGED <<file, eval>>
    BY <1>5, TornNew DEF Start, IndInv, StoreInv, TypeOK, disk
  <2>2. \A e \in Evaluators : eval[e].phase \notin {"target", "snapshot", "done"}
    BY <2>1 DEF IndInv, EvalInv, Underway, Decided
  <2>3. \A e \in Evaluators : known[e] # Nothing => Informed(e)'
    BY <1>5, <2>1, <2>2 DEF KnownInv, Informed
  <2>4. QED
    BY <1>5, <2>3 DEF KnownInv
<1>6. CASE UNCHANGED queryVars
  <2>1. UNCHANGED <<status, data, file, eval, known>>
    BY <1>6 DEF queryVars, vars, disk
  <2>2. QED
    BY <2>1 DEF KnownInv, Informed
<1>7. QED
  BY <1>1, <1>2, <1>3, <1>4, <1>5, <1>6, EvaluateInformed DEF QueryNext

\* No step puts a target on offer under a padded text.
LEMMA OfferedTrimmedNext ==
    IndInv /\ OfferedTrimmed /\ [QueryNext]_queryVars => OfferedTrimmed'
<1> SUFFICES ASSUME IndInv, OfferedTrimmed, [QueryNext]_queryVars
             PROVE  OfferedTrimmed'
  OBVIOUS
<1> DEFINE T == [phase : {"idle", "target", "snapshot", "done"},
                 request : Questions \cup {None}, allowed : BOOLEAN,
                 available : BOOLEAN, related : BOOLEAN]
<1>1. eval \in [Evaluators -> T] /\ data \in Contents
  BY DEF IndInv, StoreInv, TypeOK
<1>2. CASE eval' = eval
  BY <1>2 DEF OfferedTrimmed
<1>3. ASSUME NEW w \in Writers, Put(w) PROVE OfferedTrimmed'
  <2>1. Witness(data') /\ data' \in Contents
    BY <1>3, PutFacts DEF Put, IndInv
  <2>2. ASSUME NEW e \in Evaluators, eval'[e].available
        PROVE  eval'[e].request.capability \notin DOMAIN Padded
    <3>1. CASE eval[e].phase \notin {"target", "snapshot"}
      BY <2>1, <2>2, <3>1 DEF Witness, OfferedTrimmed
    <3>2. CASE eval[e].phase \in {"target", "snapshot"}
      <4> DEFINE q == eval[e].request
                 a == eval[e].available \/ TargetOffers(data', q)
                 r == eval[e].related \/ Related(data', q)
      <4>1. eval'[e] = [eval[e] EXCEPT !.available = a, !.related = r]
        BY <2>1, <3>2 DEF Witness
      <4> HIDE DEF a, r
      <4>2. eval'[e].request = q /\ eval'[e].available = a
        BY <1>1, <4>1
      <4>3. a => q.capability \notin DOMAIN Padded
        BY <2>1, OffersFacts DEF a, OfferedTrimmed
      <4>4. QED
        BY <2>2, <4>2, <4>3
    <3>3. QED
      BY <3>1, <3>2
  <2>3. QED
    BY <2>2 DEF OfferedTrimmed
<1>4. ASSUME NEW e \in Evaluators, Evaluate(e) PROVE OfferedTrimmed'
  <2>1. CASE EvalSource(e)
    <3>1. PICK q \in Questions : eval' = [eval EXCEPT ![e] =
                [phase |-> IF Registered(data, q.source) THEN "target" ELSE "done",
                 request |-> q, allowed |-> FALSE,
                 available |-> TargetOffers(data, q), related |-> Related(data, q)]]
      BY <2>1 DEF EvalSource
    <3>2. eval'[e].available = TargetOffers(data, q) /\ eval'[e].request = q
      BY <1>1, <3>1
    <3>3. \A x \in Evaluators : x # e => eval'[x] = eval[x]
      BY <1>1, <3>1
    <3>4. eval'[e].available => eval'[e].request.capability \notin DOMAIN Padded
      BY <1>1, <3>2, OffersFacts
    <3>5. QED
      BY <3>3, <3>4 DEF OfferedTrimmed
  <2>2. CASE EvalTarget(e) \/ EvalSnapshot(e) \/ EvalReply(e)
    <3>1. \A x \in Evaluators : x # e => eval'[x] = eval[x]
      BY <1>1, <2>2 DEF EvalTarget, EvalSnapshot, EvalReply, Decide
    <3>2. EvalReply(e) => ~eval'[e].available
      BY <1>1 DEF EvalReply, NoEval
    <3>3. EvalTarget(e) \/ EvalSnapshot(e) =>
            eval'[e].available = eval[e].available /\ eval'[e].request = eval[e].request
      <4>1. ASSUME NEW a, eval' = [eval EXCEPT ![e].phase = "done", ![e].allowed = a]
            PROVE  eval'[e].available = eval[e].available /\ eval'[e].request = eval[e].request
        BY <1>1, <4>1
      <4>2. ASSUME eval' = [eval EXCEPT ![e].phase = "snapshot"]
            PROVE  eval'[e].available = eval[e].available /\ eval'[e].request = eval[e].request
        BY <1>1, <4>2
      <4>3. QED
        BY <4>1, <4>2 DEF EvalTarget, EvalSnapshot, Decide
    <3>4. QED
      BY <2>2, <3>1, <3>2, <3>3 DEF OfferedTrimmed
  <2>3. QED
    BY <1>4, <2>1, <2>2 DEF Evaluate
<1>5. CASE Crash
  BY <1>5 DEF Crash, NoEval, OfferedTrimmed
<1>6. \A w \in Writers : Write(w) => Put(w) \/ eval' = eval
  BY DEF Write, ReceiveService, ReceiveRelationship, CheckFrom, CheckTo, OpenTmp,
     WriteTmp, Rename, PersistFails, Reply
<1>7. Start \/ UNCHANGED vars \/ (\E e \in Evaluators : Ask(e) \/ Impact(e)) => eval' = eval
  BY ImpactReads DEF Start, vars, Ask
<1>8. QED
  BY <1>2, <1>3, <1>4, <1>5, <1>6, <1>7 DEF QueryNext, queryVars

\* Until the store's content changes, and across a restart that brings it back,
\* policy decides by relationship alone about what a client discovered, although
\* Evaluate reads the store three times.
THEOREM DiscoveryForetold == QuerySpec => []DiscoveryForetells
<1>1. QueryInit => KnownInv
  BY DEF QueryInit, KnownInv
<1>2. ASSUME IndInv, KnownInv PROVE DiscoveryForetells
  <2>1. SUFFICES ASSUME NEW e \in Evaluators, eval[e].phase = "done",
                        known[e] # Nothing,
                        eval[e].request.capability = TrimSpace(known[e].capability)
                 PROVE  eval[e].allowed = (/\ eval[e].request.target \in known[e].found
                                           /\ Registered(data, eval[e].request.source)
                                           /\ Related(data, eval[e].request))
    BY DEF DiscoveryForetells
  <2>2. status = "up" /\ data \in Contents
    BY <1>2, <2>1 DEF IndInv, EvalInv, Decided, StoreInv, TypeOK
  <2>3. /\ eval[e].allowed = Allows(data, eval[e].request)
        /\ known[e].found = Discover(data, known[e].capability)
    BY <1>2, <2>1, <2>2 DEF KnownInv, Informed
  <2>4. eval[e].request.target \in known[e].found <=> TargetOffers(data, eval[e].request)
    BY <2>1, <2>2, <2>3, DiscoverFacts
  <2>5. QED
    BY <2>3, <2>4, Zenon DEF Allows
<1>3. QED
  BY <1>1, <1>2, KnownNext, Invariance, PTL DEF QuerySpec

\* A request for a padded capability is never allowed, for RegisterService keeps
\* such texts out of the store and failed writes and restarts bring none in.
THEOREM PaddedRefused == QuerySpec => []PaddedIsRefused
<1>1. QueryInit => OfferedTrimmed
  BY DEF QueryInit, Init, NoEval, OfferedTrimmed
<1>2. IndInv /\ OfferedTrimmed => PaddedIsRefused
  BY DEF IndInv, EvalInv, Decided, OfferedTrimmed, PaddedIsRefused
<1>3. QED
  BY <1>1, <1>2, OfferedTrimmedNext, Invariance, PTL DEF QuerySpec
=============================================================================
