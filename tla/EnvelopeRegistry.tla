-------------------------- MODULE EnvelopeRegistry --------------------------
(***************************************************************************)
(* The evidence envelope registry of internal/contracts, driven by the     *)
(* concurrent HTTP handlers of internal/api and by process crashes and     *)
(* restarts (cmd/mesh).                                                    *)
(*                                                                         *)
(* A POST /v1/evidence/envelopes request is a sequence of steps: the gate, *)
(* decoding, the producer check and the validation against the clock all   *)
(* happen before the registry's mutex is taken (Receive); under the mutex  *)
(* the id is looked up and, when it is new, put into the map (Acquire);    *)
(* persistLocked writes <path>.tmp and renames it over <path>, any step of *)
(* which may fail; the response is sent after the mutex is released.  A    *)
(* crash may fall between any two steps.  It loses the process memory and  *)
(* keeps both files; the loss of written data in a power failure is not    *)
(* modelled.  GET /v1/evidence/status reads the registry twice.            *)
(***************************************************************************)
EXTENDS EvidenceEnvelope, Access, FiniteSets

CONSTANTS Handlers,      \* concurrent POST handlers
          Readers,       \* concurrent GET /v1/evidence/status handlers
          Submissions,   \* request bodies that decode to an envelope
          Principals,    \* what the verifier makes of a bearer token
          MaxTime,       \* bound on the wall clock
          NoEnvelope,    \* absent map entry, and a body that does not decode
          NoPrincipal,   \* no request in progress
          Free,          \* the mutex is not held
          Torn           \* a partially written file

ASSUME SubmissionsType == Submissions \subseteq EvidenceEnvelope
ASSUME PrincipalsType  == Principals \subseteq Principal
ASSUME MaxTimeType     == MaxTime \in Nat \ {0}
ASSUME NoEnvelopeNew   == NoEnvelope \notin EvidenceEnvelope
ASSUME NoPrincipalNew  == NoPrincipal \notin Principals
ASSUME FreeNew         == Free \notin Handlers

\* The envelopes a handler may put into the registry.
Storable == {Normal(e) : e \in Submissions}

\* The registry's map, in memory or in a complete file.
Contains == [EnvelopeIds -> Storable \cup {NoEnvelope}]

ASSUME TornNew == Torn \notin Contains

VARIABLES
    now,       \* the wall clock
    high,      \* the highest value the wall clock has had
    status,    \* the process: "up", "down" or "refused" (startup failed)
    mem,       \* EvidenceEnvelopeRegistry.envelopes
    lock,      \* the handler holding EvidenceEnvelopeRegistry.mu, or Free
    file,      \* the file at the registry's path
    tmp,       \* the file at the registry's path plus ".tmp"
    pc,        \* progress of each handler
    env,       \* the envelope a handler works on
    prin,      \* the principal a handler works for
    code,      \* the status a handler is about to answer, 0 before that
    view,      \* progress of each status reader
    acked,     \* the envelopes producers hold a receipt (200 or 201) for
    created    \* per id, how many 201 receipts were sent

clock    == <<now, high>>
disk     == <<file, tmp>>
requests == <<pc, env, prin, code>>
ledger   == <<acked, created>>
vars     == <<clock, status, mem, lock, disk, requests, view, ledger>>

ScopeEvidenceWrite == "mesh.evidence.write"

NoView == [phase |-> "idle", at |-> 0, listed |-> {}, counted |-> {}]

\* The envelopes in a map: List().
Stored(m) == {m[id] : id \in {i \in EnvelopeIds : m[i] # NoEnvelope}}

Empty == [id \in EnvelopeIds |-> NoEnvelope]

-----------------------------------------------------------------------------
Init ==
    /\ now = 1 /\ high = 1
    /\ status = "up"
    /\ mem = Empty
    /\ lock = Free
    /\ file = Empty          \* no file yet, which loads as the empty map
    /\ tmp = Empty
    /\ pc = [h \in Handlers |-> "idle"]
    /\ env = [h \in Handlers |-> NoEnvelope]
    /\ prin = [h \in Handlers |-> NoPrincipal]
    /\ code = [h \in Handlers |-> 0]
    /\ view = [r \in Readers |-> NoView]
    /\ acked = {}
    /\ created = [id \in EnvelopeIds |-> 0]

-----------------------------------------------------------------------------
(* The wall clock.  time.Now().UTC() follows the machine's clock, which an *)
(* operator or a time service may also set back.                           *)

Tick ==
    /\ now < MaxTime
    /\ now' = now + 1
    /\ high' = IF now' > high THEN now' ELSE high
    /\ UNCHANGED <<status, mem, lock, disk, requests, view, ledger>>

StepBack ==
    /\ \E t \in 1 .. (now - 1) : now' = t
    /\ UNCHANGED <<high, status, mem, lock, disk, requests, view, ledger>>

-----------------------------------------------------------------------------
(* POST /v1/evidence/envelopes                                             *)

\* Mutant: any service may speak for any producer.
AnyProducerPrincipal(p, e) == p.serviceID # "" /\ p.subject # ""

\* validateEvidenceProducerPrincipal
ProducerPrincipal(p, e) == p.serviceID = e.system /\ p.subject # ""

\* requireScope, decodeJSON, validateEvidenceProducerPrincipal and the
\* validation at the head of recordAt, in this order: the status of the
\* first check that fails, or Pass.
Screen(p, e, t) ==
    IF RequireScope(p, ScopeEvidenceWrite) # Pass
         THEN RequireScope(p, ScopeEvidenceWrite)
    ELSE IF e = NoEnvelope THEN BadRequest
    ELSE IF ~ProducerPrincipal(p, e) THEN Forbidden
    ELSE IF ~NormalizeSucceeds(e, t, TRUE) THEN BadRequest
    ELSE Pass

Answer(h, c) ==
    /\ pc' = [pc EXCEPT ![h] = "reply"]
    /\ code' = [code EXCEPT ![h] = c]

Receive(h) ==
    /\ status = "up"
    /\ pc[h] = "idle"
    /\ \E p \in Principals, e \in Submissions \cup {NoEnvelope} :
         /\ prin' = [prin EXCEPT ![h] = p]
         /\ \/ /\ Screen(p, e, now) = Pass
               /\ env' = [env EXCEPT ![h] = Normal(e)]
               /\ pc' = [pc EXCEPT ![h] = "wait"]
               /\ UNCHANGED code
            \/ /\ Screen(p, e, now) # Pass
               /\ env' = [env EXCEPT ![h] = e]
               /\ Answer(h, Screen(p, e, now))
    /\ UNCHANGED <<clock, status, mem, lock, disk, view, ledger>>

\* Mutant: contents are not compared.
IsReplayById(h) == mem[env[h].id] # NoEnvelope

\* recordAt finds an identical envelope under the id (reflect.DeepEqual).
IsReplay(h) == mem[env[h].id] = env[h]

\* Mutant: an envelope with other content is overwritten.
IsNewOrDifferent(h) == mem[env[h].id] # env[h]

\* recordAt finds nothing under the id.
IsNew(h) == mem[env[h].id] = NoEnvelope

\* Mutant: the mutex is released before the map is persisted.
InsertAndRelease(h) ==
    /\ mem' = [mem EXCEPT ![env[h].id] = env[h]]
    /\ lock' = Free
    /\ pc' = [pc EXCEPT ![h] = "open"]

\* The map is changed first and persisted after, under the same mutex.
Insert(h) ==
    /\ mem' = [mem EXCEPT ![env[h].id] = env[h]]
    /\ lock' = h
    /\ pc' = [pc EXCEPT ![h] = "open"]

\* recordAt under the mutex: an identical envelope is a replay, a different
\* one under the same id is refused, a new id is put into the map.
Acquire(h) ==
    /\ pc[h] = "wait"
    /\ lock = Free
    /\ \/ IsReplay(h) /\ Answer(h, OK) /\ UNCHANGED <<mem, lock>>
       \/ ~IsReplay(h) /\ ~IsNew(h) /\ Answer(h, BadRequest) /\ UNCHANGED <<mem, lock>>
       \/ IsNew(h) /\ Insert(h) /\ UNCHANGED code
    /\ UNCHANGED <<clock, status, disk, env, prin, view, ledger>>

\* Mutant: the registry's own file is written in place.
TruncateInPlace(h) ==
    /\ pc[h] = "open"
    /\ file' = Torn
    /\ pc' = [pc EXCEPT ![h] = "write"]
    /\ UNCHANGED <<clock, status, mem, lock, tmp, env, prin, code, view, ledger>>

\* persistLocked: os.WriteFile truncates the temporary file...
OpenTmp(h) ==
    /\ pc[h] = "open"
    /\ tmp' = Torn
    /\ pc' = [pc EXCEPT ![h] = "write"]
    /\ UNCHANGED <<clock, status, mem, lock, file, env, prin, code, view, ledger>>

\* ...and completes it.
WriteTmp(h) ==
    /\ pc[h] = "write"
    /\ tmp' = mem
    /\ pc' = [pc EXCEPT ![h] = "rename"]
    /\ UNCHANGED <<clock, status, mem, lock, file, env, prin, code, view, ledger>>

\* os.Rename replaces the registry's file in one step; the temporary file
\* is gone, which is as good as an empty one.  recordAt returns and unlocks.
Rename(h) ==
    /\ pc[h] = "rename"
    /\ file' = tmp
    /\ tmp' = Empty
    /\ lock' = Free
    /\ Answer(h, Created)
    /\ UNCHANGED <<clock, status, mem, env, prin, view, ledger>>

\* Mutant: the envelope stays in the map.
PersistFailsKeepingEntry(h) ==
    /\ pc[h] \in {"open", "write", "rename"}
    /\ lock' = Free
    /\ Answer(h, BadRequest)
    /\ UNCHANGED <<clock, status, mem, disk, env, prin, view, ledger>>

\* Mutant: the error is ignored.
PersistFailsUnreported(h) ==
    /\ pc[h] \in {"open", "write", "rename"}
    /\ lock' = Free
    /\ Answer(h, Created)
    /\ UNCHANGED <<clock, status, mem, disk, env, prin, view, ledger>>

\* Any call of persistLocked may return an error: recordAt takes the
\* envelope out of the map again.
PersistFails(h) ==
    /\ pc[h] \in {"open", "write", "rename"}
    /\ mem' = [mem EXCEPT ![env[h].id] = NoEnvelope]
    /\ lock' = Free
    /\ Answer(h, BadRequest)
    /\ UNCHANGED <<clock, status, disk, env, prin, view, ledger>>

\* evidenceEnvelopesRecord writes its response; only 200 and 201 carry a
\* delivery receipt.
Reply(h) ==
    /\ pc[h] = "reply"
    /\ acked' = IF code[h] \in {OK, Created} THEN acked \cup {env[h]} ELSE acked
    /\ created' = IF code[h] = Created
                  THEN [created EXCEPT ![env[h].id] = @ + 1] ELSE created
    /\ pc' = [pc EXCEPT ![h] = "idle"]
    /\ env' = [env EXCEPT ![h] = NoEnvelope]
    /\ prin' = [prin EXCEPT ![h] = NoPrincipal]
    /\ code' = [code EXCEPT ![h] = 0]
    /\ UNCHANGED <<clock, status, mem, lock, disk, view>>

-----------------------------------------------------------------------------
(* GET /v1/evidence/status: the clock is read once, by_producer is counted *)
(* from one List(), the totals from CountsAt and so from a second List().  *)

StatusList(r) ==
    /\ status = "up" /\ lock = Free
    /\ view[r].phase = "idle"
    /\ \E t \in 1 .. high :   \* the clock was read before the mutex was got
         view' = [view EXCEPT ![r] = [phase |-> "listed", at |-> t,
                                      listed |-> Stored(mem), counted |-> {}]]
    /\ UNCHANGED <<clock, status, mem, lock, disk, requests, ledger>>

StatusCount(r) ==
    /\ status = "up" /\ lock = Free
    /\ view[r].phase = "listed"
    /\ view' = [view EXCEPT ![r].phase = "done", ![r].counted = Stored(mem)]
    /\ UNCHANGED <<clock, status, mem, lock, disk, requests, ledger>>

StatusReply(r) ==
    /\ view[r].phase = "done"
    /\ view' = [view EXCEPT ![r] = NoView]
    /\ UNCHANGED <<clock, status, mem, lock, disk, requests, ledger>>

-----------------------------------------------------------------------------
(* The process.                                                            *)

Crash ==
    /\ status = "up"
    /\ status' = "down"
    /\ mem' = Empty
    /\ lock' = Free
    /\ pc' = [h \in Handlers |-> "idle"]
    /\ env' = [h \in Handlers |-> NoEnvelope]
    /\ prin' = [h \in Handlers |-> NoPrincipal]
    /\ code' = [h \in Handlers |-> 0]
    /\ view' = [r \in Readers |-> NoView]
    /\ UNCHANGED <<clock, disk, ledger>>

\* Mutant: expired evidence does not load.
LoadableIfFresh(f, t) ==
    /\ f # Torn
    /\ \A e \in Stored(f) : NormalizeSucceeds(e, t, TRUE)

\* NewPersistentEvidenceEnvelopeRegistry accepts the file: it parses, and
\* every envelope in it is valid now, freshness aside.
Loadable(f, t) ==
    /\ f # Torn
    /\ \A e \in Stored(f) : NormalizeSucceeds(e, t, FALSE)

\* main loads the registry or exits with status 1; it may be started again
\* after either.
Start ==
    /\ status \in {"down", "refused"}
    /\ \/ /\ Loadable(file, now)
          /\ status' = "up"
          /\ mem' = file
       \/ /\ ~Loadable(file, now)
          /\ status' = "refused"
          /\ UNCHANGED mem
    /\ UNCHANGED <<clock, lock, disk, requests, view, ledger>>

-----------------------------------------------------------------------------
Persist(h) == OpenTmp(h) \/ WriteTmp(h) \/ Rename(h) \/ PersistFails(h)

Next ==
    \/ Tick
    \/ StepBack
    \/ \E h \in Handlers : Receive(h) \/ Acquire(h) \/ Persist(h) \/ Reply(h)
    \/ \E r \in Readers : StatusList(r) \/ StatusCount(r) \/ StatusReply(r)
    \/ Crash
    \/ Start

Spec == Init /\ [][Next]_vars

\* A handler that can run does run, and sync.RWMutex hands the lock to every
\* waiting writer eventually.  Nothing forces requests, restarts or time.
Fairness ==
    /\ \A h \in Handlers : WF_vars(Persist(h)) /\ WF_vars(Reply(h)) /\ SF_vars(Acquire(h))
    /\ \A r \in Readers : WF_vars(StatusReply(r)) /\ SF_vars(StatusCount(r))

FairSpec == Spec /\ Fairness

-----------------------------------------------------------------------------
(* Properties.                                                             *)

\* Types; a file under the registry's own path is always a complete map, so
\* a restart never meets a half-written one.
TypeOK ==
    /\ now \in 1 .. MaxTime /\ high \in 1 .. MaxTime
    /\ status \in {"up", "down", "refused"}
    /\ mem \in Contains /\ file \in Contains
    /\ tmp \in Contains \cup {Torn}
    /\ lock \in Handlers \cup {Free}
    /\ pc \in [Handlers -> {"idle", "wait", "open", "write", "rename", "reply"}]
    /\ env \in [Handlers -> Submissions \cup Storable \cup {NoEnvelope}]
    /\ prin \in [Handlers -> Principals \cup {NoPrincipal}]
    /\ code \in [Handlers -> {0, OK, Created, BadRequest, Unauthorized, Forbidden}]
    /\ view \in [Readers -> [phase : {"idle", "listed", "done"}, at : 0 .. MaxTime,
                             listed : SUBSET Storable, counted : SUBSET Storable]]
    /\ acked \in SUBSET Storable
    /\ created \in [EnvelopeIds -> Nat]

\* The steps of recordAt that run under the mutex.
Writing == {"open", "write", "rename"}

\* The mutex is held by the handler that persists and by no other: no path
\* of recordAt, failing or not, returns with it, so that the next delivery and
\* the readers are never locked out.
LockOwner == \A h \in Handlers : lock = h <=> pc[h] \in Writing

\* Whatever a reader of the running registry can see survives a crash: with
\* the mutex free, the map in memory is the map on disk.  recordAt has to
\* take back an envelope it could not persist for this to hold.
VisibleIsDurable == (status = "up" /\ lock = Free) => mem = file

\* A producer that holds a receipt, fresh or replayed, never loses its
\* envelope again, whatever crashes, failed writes and rival submissions
\* follow.
AckedDurable == \A e \in acked : file[e.id] = e

\* An id is created once: of all the submissions of it, before and after
\* crashes, at most one is answered 201, sent or about to be sent.
OneCreation ==
    \A id \in EnvelopeIds :
        created[id] + Cardinality({h \in Handlers : /\ pc[h] = "reply"
                                                    /\ code[h] = Created
                                                    /\ env[h].id = id}) <= 1

\* Nothing reaches the disk but by a handler whose caller was authenticated
\* by the trusted issuer, held the write scope and was the service the
\* envelope names as its producer, within that producer's authority.
ProducerOnlyWrites ==
    [][\A id \in EnvelopeIds : file'[id] # file[id] =>
         \E h \in Handlers :
            /\ lock = h
            /\ RequireScope(prin[h], ScopeEvidenceWrite) = Pass
            /\ prin[h].serviceID = file'[id].system
            /\ AuthorityBound(file'[id])]_vars

\* h is being refused an exact copy of an envelope the registry already holds
\* on disk.
RetryRefused(h) ==
    /\ pc[h] # "reply" /\ pc'[h] = "reply" /\ code'[h] = BadRequest
    /\ env'[h] # NoEnvelope
    /\ file[env'[h].id] = Normal(env'[h])

\* An exact resend of a durable envelope, in whatever textual form, is
\* refused for one reason only: the clock is outside the envelope's window.
\* Neither a rival write, nor a failed write, nor a restart makes it a
\* conflict.
RefusedRetryOutsideWindow ==
    [][\A h \in Handlers : RetryRefused(h) =>
         now > env'[h].validUntil \/ now < env'[h].observedAt]_vars

\* The documentation's rule: an exact retry is answered 200 as a replay, so
\* it is never refused, at least on a clock that was never set back.
ExactRetryReplays == [][\A h \in Handlers : now = high => ~RetryRefused(h)]_vars

\* Expired or not, the envelopes the registry accepted do not keep the
\* server from starting: startup is refused only if the wall clock stands
\* behind a time it has already shown.
RefusedOnlyAfterStepBack ==
    [][(status # "refused" /\ status' = "refused") => now < high]_vars

\* The two reads behind GET /v1/evidence/status may see different maps, but
\* the totals never fall short of the per-producer counts: an envelope once
\* visible is not taken away again.
StatusTotalsCoverProducers ==
    \A r \in Readers : view[r].phase = "done" =>
        \A fresh \in BOOLEAN :
            Cardinality({e \in view[r].listed : FreshAt(e, view[r].at) = fresh})
              <= Cardinality({e \in view[r].counted : FreshAt(e, view[r].at) = fresh})

\* The detailed registry implements the write-once map: the file is the map,
\* the receipts are the acknowledgements.
Promise == INSTANCE ImmutableStore WITH
    Ids <- EnvelopeIds, Values <- Storable, NoValue <- NoEnvelope,
    bound <- file, receipts <- acked

ImplementsImmutableStore == Promise!Spec
=============================================================================
