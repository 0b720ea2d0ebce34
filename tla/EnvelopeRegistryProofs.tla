----------------------- MODULE EnvelopeRegistryProofs -----------------------
(***************************************************************************)
(* Proofs about EnvelopeRegistry for every choice of its constants.        *)
(*                                                                         *)
(* The argument rests on IndInv below.  The mutex serialises the writers,  *)
(* so at most one handler is between Acquire and Rename and, while it is   *)
(* there, memory is the file plus exactly its envelope, under an id the    *)
(* file does not have (OnlyPending); a rename therefore adds one binding   *)
(* and a failed write, by taking the envelope back, restores memory to the *)
(* file.  What was checked before the mutex was taken is still true when   *)
(* the file is written because it does not depend on the registry          *)
(* (Vetted), and what the file holds stays loadable because every check    *)
(* but freshness is monotone in time (StoredValid).                        *)
(***************************************************************************)
EXTENDS EnvelopeRegistry, FiniteSetTheorems, TLAPS

\* A process that is not running serves no request.
DownIdle == status # "up" => \A h \in Handlers : pc[h] = "idle"

\* While a handler persists, memory is the file plus that handler's envelope.
OnlyPending ==
    \A h \in Handlers : pc[h] \in Writing =>
        /\ file[env[h].id] = NoEnvelope
        /\ mem = [file EXCEPT ![env[h].id] = env[h]]

\* A handler that renames has written all of memory.
TmpComplete == \A h \in Handlers : pc[h] = "rename" => tmp = mem

\* A handler past its checks works on a normalised envelope of its caller's.
Vetted ==
    \A h \in Handlers : pc[h] \in {"wait"} \cup Writing =>
        /\ env[h] \in Storable
        /\ prin[h] \in Principals
        /\ RequireScope(prin[h], ScopeEvidenceWrite) = Pass
        /\ prin[h].serviceID = env[h].system
        /\ NormalizeSucceeds(env[h], high, FALSE)

\* A receipt is only under way for an envelope the file holds.
ReceiptDue ==
    \A h \in Handlers : pc[h] = "reply" /\ code[h] \in {OK, Created} =>
        env[h] \in Storable /\ file[env[h].id] = env[h]

\* The file binds ids to envelopes of that id that would load at the latest
\* time the clock has shown.
StoredValid ==
    \A id \in EnvelopeIds : file[id] # NoEnvelope =>
        file[id].id = id /\ NormalizeSucceeds(file[id], high, FALSE)

IndInv ==
    /\ TypeOK /\ now <= high
    /\ LockOwner /\ DownIdle
    /\ VisibleIsDurable /\ OnlyPending /\ TmpComplete
    /\ Vetted /\ ReceiptDue /\ AckedDurable /\ StoredValid

-----------------------------------------------------------------------------
(* Facts about the operators.                                              *)

\* Normalising keeps the identity and every field a check looks at, and
\* normalising twice is normalising once.
LEMMA NormalFacts ==
    ASSUME NEW e \in EvidenceEnvelope
    PROVE  /\ Normal(e) \in EvidenceEnvelope
           /\ Normal(Normal(e)) = Normal(e)
           /\ Normal(e).id = e.id /\ Normal(e).system = e.system
           /\ Normal(e).observedAt = e.observedAt
           /\ Normal(e).validUntil = e.validUntil
           /\ \A t, f : NormalizeSucceeds(Normal(e), t, f)
                          <=> NormalizeSucceeds(e, t, f)
  BY DEF Normal, EvidenceEnvelope, NormalizeSucceeds, AuthorityBound

\* The envelopes of the registry are envelopes, and in normal form.
LEMMA StorableFacts ==
    ASSUME NEW e \in Storable
    PROVE  /\ e \in EvidenceEnvelope /\ e # NoEnvelope
           /\ e.id \in EnvelopeIds
           /\ Normal(e) = e
  BY NormalFacts, SubmissionsType, NoEnvelopeNew DEF Storable, EvidenceEnvelope

\* Time only makes a stored envelope easier to load.
LEMMA LaterStillLoads ==
    ASSUME NEW e \in EvidenceEnvelope, NEW t \in Nat, NEW u \in Nat, NEW f \in BOOLEAN,
           t <= u, NormalizeSucceeds(e, t, f)
    PROVE  NormalizeSucceeds(e, u, FALSE)
  BY DEF NormalizeSucceeds, EvidenceEnvelope

\* A request passes the screen only if it passed each check of it.
LEMMA ScreenPass ==
    ASSUME NEW p \in Principals, NEW e \in Submissions \cup {NoEnvelope}, NEW t \in Nat,
           Screen(p, e, t) = Pass
    PROVE  /\ RequireScope(p, ScopeEvidenceWrite) = Pass
           /\ e \in Submissions /\ p.serviceID = e.system
           /\ NormalizeSucceeds(e, t, TRUE)
<1>1. Pass # BadRequest /\ Pass # Forbidden
  BY DEF Pass, BadRequest, Forbidden
<1>2. QED
  BY <1>1, Zenon DEF Screen, ProducerPrincipal

\* The statuses of a request that does not pass.
LEMMA ScreenCodes ==
    ASSUME NEW p \in Principals, NEW e \in Submissions \cup {NoEnvelope}, NEW t \in Nat
    PROVE  Screen(p, e, t) \in {Pass, BadRequest, Unauthorized, Forbidden}
  BY DEF Screen, RequireScope, Pass, BadRequest, Forbidden, Unauthorized

\* An envelope that decodes and is refused as a bad request fails validation.
LEMMA ScreenBadRequest ==
    ASSUME NEW p \in Principals, NEW e \in Submissions, NEW t \in Nat,
           Screen(p, e, t) = BadRequest
    PROVE  ~NormalizeSucceeds(e, t, TRUE)
<1>1. BadRequest # Pass /\ BadRequest # Forbidden /\ BadRequest # Unauthorized
  BY DEF Pass, BadRequest, Forbidden, Unauthorized
<1>2. RequireScope(p, ScopeEvidenceWrite) # BadRequest
  BY <1>1, Zenon DEF RequireScope
<1>3. e # NoEnvelope
  BY NoEnvelopeNew, SubmissionsType
<1>4. QED
  BY <1>1, <1>2, <1>3, Zenon DEF Screen

-----------------------------------------------------------------------------
(* The invariant holds initially.                                          *)

\* The initial state satisfies the inductive invariant.
LEMMA InitIndInv == Init => IndInv
<1> SUFFICES ASSUME Init PROVE IndInv
  OBVIOUS
<1>1. TypeOK /\ now <= high
  BY MaxTimeType DEF Init, TypeOK, Empty, Contains, NoView, OK, Created, BadRequest,
     Unauthorized, Forbidden
<1>2. LockOwner /\ DownIdle
  BY FreeNew DEF Init, LockOwner, DownIdle, Writing
<1>3. VisibleIsDurable /\ OnlyPending /\ TmpComplete /\ Vetted /\ ReceiptDue
  BY DEF Init, VisibleIsDurable, OnlyPending, TmpComplete, Vetted, ReceiptDue, Writing
<1>4. AckedDurable /\ StoredValid
  BY DEF Init, AckedDurable, StoredValid, Empty
<1>5. QED
  BY <1>1, <1>2, <1>3, <1>4 DEF IndInv

-----------------------------------------------------------------------------
(* Every step preserves it: first the steps that change the files or the   *)
(* map, one lemma each.                                                    *)

\* Receive: what passes the screen would load from disk, at any later time.
LEMMA ReceiveIndInv ==
    ASSUME IndInv, NEW h \in Handlers, Receive(h)
    PROVE  IndInv'
<1>1. PICK p \in Principals, e \in Submissions \cup {NoEnvelope} :
         /\ prin' = [prin EXCEPT ![h] = p]
         /\ \/ /\ Screen(p, e, now) = Pass
               /\ env' = [env EXCEPT ![h] = Normal(e)]
               /\ pc' = [pc EXCEPT ![h] = "wait"]
               /\ UNCHANGED code
            \/ /\ Screen(p, e, now) # Pass
               /\ env' = [env EXCEPT ![h] = e]
               /\ Answer(h, Screen(p, e, now))
  BY Zenon DEF Receive
<1>2. /\ status = "up" /\ pc[h] = "idle"
      /\ UNCHANGED <<now, high, status, mem, lock, file, tmp, view, acked, created>>
  BY DEF Receive, clock, disk, ledger
<1>3. now \in Nat /\ high \in Nat /\ now <= high
  BY MaxTimeType DEF IndInv, TypeOK
<1>4. CASE Screen(p, e, now) = Pass
  <2>1. /\ env' = [env EXCEPT ![h] = Normal(e)]
        /\ pc' = [pc EXCEPT ![h] = "wait"] /\ code' = code
    BY <1>1, <1>4
  <2>2. /\ RequireScope(p, ScopeEvidenceWrite) = Pass
        /\ e \in Submissions /\ p.serviceID = e.system
        /\ NormalizeSucceeds(e, now, TRUE)
    BY <1>3, <1>4, ScreenPass
  <2>3. /\ Normal(e) \in Storable /\ e \in EvidenceEnvelope
        /\ p.serviceID = Normal(e).system
        /\ NormalizeSucceeds(Normal(e), high, FALSE)
    <3>1. e \in EvidenceEnvelope /\ Normal(e) \in Storable
      BY <2>2, SubmissionsType DEF Storable
    <3>2. NormalizeSucceeds(e, high, FALSE)
      BY <1>3, <2>2, <3>1, LaterStillLoads
    <3>3. QED
      BY <2>2, <3>1, <3>2, NormalFacts
  <2>4. TypeOK' /\ now' <= high'
    BY <1>1, <1>2, <2>1, <2>3 DEF IndInv, TypeOK
  <2>5. LockOwner' /\ DownIdle' /\ VisibleIsDurable' /\ OnlyPending' /\ TmpComplete'
    BY <1>2, <2>1 DEF IndInv, TypeOK, LockOwner, DownIdle, VisibleIsDurable,
       OnlyPending, TmpComplete, Writing
  <2>6. Vetted'
    BY <1>1, <1>2, <2>1, <2>2, <2>3 DEF IndInv, TypeOK, Vetted, Writing
  <2>7. ReceiptDue' /\ AckedDurable' /\ StoredValid'
    BY <1>2, <2>1 DEF IndInv, TypeOK, ReceiptDue, AckedDurable, StoredValid
  <2>8. QED
    BY <2>4, <2>5, <2>6, <2>7 DEF IndInv
<1>5. CASE Screen(p, e, now) # Pass
  <2>1. /\ env' = [env EXCEPT ![h] = e]
        /\ pc' = [pc EXCEPT ![h] = "reply"]
        /\ code' = [code EXCEPT ![h] = Screen(p, e, now)]
    BY <1>1, <1>5 DEF Answer
  <2>2. Screen(p, e, now) \in {BadRequest, Unauthorized, Forbidden}
    BY <1>3, <1>5, ScreenCodes
  <2>3. TypeOK' /\ now' <= high'
    BY <1>1, <1>2, <2>1, <2>2 DEF IndInv, TypeOK
  <2>4. LockOwner' /\ DownIdle' /\ VisibleIsDurable' /\ OnlyPending' /\ TmpComplete'
    BY <1>2, <2>1 DEF IndInv, TypeOK, LockOwner, DownIdle, VisibleIsDurable,
       OnlyPending, TmpComplete, Writing
  <2>5. Vetted'
    BY <1>1, <1>2, <2>1 DEF IndInv, TypeOK, Vetted, Writing
  <2>6. AckedDurable' /\ StoredValid'
    BY <1>2 DEF IndInv, AckedDurable, StoredValid
  <2>7. ReceiptDue'
    <3>1. Screen(p, e, now) \notin {OK, Created}
      BY <2>2 DEF OK, Created, BadRequest, Unauthorized, Forbidden
    <3>2. QED
      BY <1>2, <2>1, <3>1 DEF IndInv, TypeOK, ReceiptDue
  <2>8. QED
    BY <2>3, <2>4, <2>5, <2>6, <2>7 DEF IndInv
<1>6. QED
  BY <1>4, <1>5

\* Acquire: a new envelope enters the map under the mutex, a replay finds
\* an envelope that is already in the file.
LEMMA AcquireIndInv ==
    ASSUME IndInv, NEW h \in Handlers, Acquire(h)
    PROVE  IndInv'
<1>1. /\ pc[h] = "wait" /\ lock = Free
      /\ UNCHANGED <<now, high, status, file, tmp, env, prin, view, acked, created>>
  BY DEF Acquire, clock, disk, ledger
<1>2. mem = file /\ status = "up"
  BY <1>1 DEF IndInv, DownIdle, VisibleIsDurable
<1>3. env[h] \in Storable /\ env[h].id \in EnvelopeIds /\ env[h] # NoEnvelope
  BY <1>1, StorableFacts DEF IndInv, Vetted
<1>4. \A g \in Handlers : pc[g] \notin Writing
  BY <1>1, FreeNew DEF IndInv, LockOwner
<1>5. AckedDurable' /\ StoredValid' /\ now' <= high'
  BY <1>1 DEF IndInv, AckedDurable, StoredValid
<1>6. CASE mem[env[h].id] # NoEnvelope
  <2>1. PICK c \in {OK, BadRequest} :
          /\ UNCHANGED <<mem, lock>> /\ pc' = [pc EXCEPT ![h] = "reply"]
          /\ code' = [code EXCEPT ![h] = c]
          /\ c = OK => mem[env[h].id] = env[h]
    <3>1. CASE mem[env[h].id] = env[h]
      <4>1. UNCHANGED <<mem, lock>> /\ Answer(h, OK)
        BY <1>3, <3>1 DEF Acquire, IsReplay, IsNew
      <4>2. QED
        BY <3>1, <4>1 DEF Answer
    <3>2. CASE mem[env[h].id] # env[h]
      <4>1. UNCHANGED <<mem, lock>> /\ Answer(h, BadRequest)
        BY <1>6, <3>2 DEF Acquire, IsReplay, IsNew
      <4>2. BadRequest # OK
        BY DEF BadRequest, OK
      <4>3. QED
        BY <4>1, <4>2 DEF Answer
    <3>3. QED
      BY <3>1, <3>2
  <2>2. c = OK \/ (c # OK /\ c # Created)
    BY DEF OK, Created, BadRequest
  <2>3. TypeOK'
    BY <1>1, <2>1 DEF IndInv, TypeOK
  <2>4. LockOwner' /\ DownIdle' /\ VisibleIsDurable' /\ OnlyPending' /\ TmpComplete'
    BY <1>1, <1>2, <1>4, <2>1 DEF IndInv, TypeOK, LockOwner, DownIdle,
       VisibleIsDurable, OnlyPending, TmpComplete, Writing
  <2>5. Vetted'
    BY <1>1, <2>1 DEF IndInv, TypeOK, Vetted, Writing
  <2>6. ReceiptDue'
    BY <1>1, <1>2, <1>3, <2>1, <2>2 DEF IndInv, TypeOK, ReceiptDue
  <2>7. QED
    BY <1>5, <2>3, <2>4, <2>5, <2>6 DEF IndInv
<1>7. CASE mem[env[h].id] = NoEnvelope
  <2>1. /\ mem' = [mem EXCEPT ![env[h].id] = env[h]]
        /\ lock' = h /\ pc' = [pc EXCEPT ![h] = "open"] /\ code' = code
    BY <1>3, <1>7 DEF Acquire, IsReplay, IsNew, Insert
  <2>2. TypeOK'
    BY <1>1, <1>3, <2>1 DEF IndInv, TypeOK, Contains
  <2>3. LockOwner' /\ DownIdle' /\ VisibleIsDurable'
    BY <1>1, <1>2, <1>4, <2>1, FreeNew DEF IndInv, TypeOK, LockOwner, DownIdle,
       VisibleIsDurable, Writing
  <2>4. OnlyPending' /\ TmpComplete'
    BY <1>1, <1>2, <1>4, <1>7, <2>1 DEF IndInv, TypeOK, OnlyPending, TmpComplete, Writing
  <2>5. Vetted'
    BY <1>1, <2>1 DEF IndInv, TypeOK, Vetted, Writing
  <2>6. ReceiptDue'
    BY <1>1, <2>1 DEF IndInv, TypeOK, ReceiptDue
  <2>7. QED
    BY <1>5, <2>2, <2>3, <2>4, <2>5, <2>6 DEF IndInv
<1>8. QED
  BY <1>6, <1>7

\* OpenTmp and WriteTmp touch the temporary file only.
LEMMA WriteTmpIndInv ==
    ASSUME IndInv, NEW h \in Handlers, OpenTmp(h) \/ WriteTmp(h)
    PROVE  IndInv'
<1>1. /\ UNCHANGED <<now, high, status, mem, lock, file, env, prin, code, view,
                     acked, created>>
      /\ \/ pc[h] = "open" /\ tmp' = Torn /\ pc' = [pc EXCEPT ![h] = "write"]
         \/ pc[h] = "write" /\ tmp' = mem /\ pc' = [pc EXCEPT ![h] = "rename"]
  BY DEF OpenTmp, WriteTmp, clock, ledger
<1>2. pc[h] \in Writing /\ lock = h
  BY <1>1 DEF IndInv, LockOwner, Writing
<1>3. \A g \in Handlers : g # h => pc[g] \notin Writing
  BY <1>2 DEF IndInv, LockOwner
<1>4. TypeOK' /\ now' <= high'
  BY <1>1 DEF IndInv, TypeOK
<1>5. LockOwner' /\ DownIdle' /\ VisibleIsDurable'
  BY <1>1, <1>2, <1>3 DEF IndInv, TypeOK, LockOwner, DownIdle, VisibleIsDurable, Writing
<1>6. OnlyPending' /\ TmpComplete'
  BY <1>1, <1>2, <1>3 DEF IndInv, TypeOK, OnlyPending, TmpComplete, Writing
<1>7. Vetted' /\ ReceiptDue'
  BY <1>1, <1>2 DEF IndInv, TypeOK, Vetted, ReceiptDue, Writing
<1>8. AckedDurable' /\ StoredValid'
  BY <1>1 DEF IndInv, AckedDurable, StoredValid
<1>9. QED
  BY <1>4, <1>5, <1>6, <1>7, <1>8 DEF IndInv

\* A rename adds the binding of the handler's envelope to the file.
LEMMA RenameBinds ==
    ASSUME IndInv, NEW h \in Handlers, Rename(h)
    PROVE  /\ file' = [file EXCEPT ![env[h].id] = env[h]]
           /\ file[env[h].id] = NoEnvelope
           /\ env[h] \in Storable /\ env[h].id \in EnvelopeIds
           /\ mem = file' /\ status = "up" /\ lock = h
<1>1. pc[h] = "rename" /\ file' = tmp
  BY DEF Rename
<1>2. tmp = mem /\ mem = [file EXCEPT ![env[h].id] = env[h]] /\ file[env[h].id] = NoEnvelope
  BY <1>1 DEF IndInv, TmpComplete, OnlyPending, Writing
<1>3. env[h] \in Storable /\ env[h].id \in EnvelopeIds
  BY <1>1, StorableFacts DEF IndInv, Vetted, Writing
<1>4. status = "up" /\ lock = h
  BY <1>1 DEF IndInv, DownIdle, LockOwner, Writing
<1>5. QED
  BY <1>1, <1>2, <1>3, <1>4

\* Rename: the file takes over the map, and loses nothing it held.
LEMMA RenameIndInv ==
    ASSUME IndInv, NEW h \in Handlers, Rename(h)
    PROVE  IndInv'
<1>1. /\ pc[h] = "rename" /\ tmp' = Empty /\ lock' = Free
      /\ pc' = [pc EXCEPT ![h] = "reply"] /\ code' = [code EXCEPT ![h] = Created]
      /\ UNCHANGED <<now, high, status, mem, env, prin, view, acked, created>>
  BY DEF Rename, Answer, clock, ledger
<1>2. /\ file' = [file EXCEPT ![env[h].id] = env[h]]
      /\ file[env[h].id] = NoEnvelope
      /\ env[h] \in Storable /\ env[h].id \in EnvelopeIds
      /\ mem = file' /\ lock = h
  BY RenameBinds
<1>3. \A g \in Handlers : g # h => pc[g] \notin Writing
  BY <1>2 DEF IndInv, LockOwner
<1>4. TypeOK' /\ now' <= high'
  BY <1>1, <1>2 DEF IndInv, TypeOK, Contains, Empty
<1>5. LockOwner' /\ DownIdle' /\ VisibleIsDurable' /\ OnlyPending' /\ TmpComplete'
  BY <1>1, <1>2, <1>3, FreeNew DEF IndInv, TypeOK, LockOwner, DownIdle,
     VisibleIsDurable, OnlyPending, TmpComplete, Writing
<1>6. Vetted'
  BY <1>1 DEF IndInv, TypeOK, Vetted, Writing
<1>7. file \in [EnvelopeIds -> Storable \cup {NoEnvelope}]
  BY DEF IndInv, TypeOK, Contains
<1>8. ReceiptDue'
  <2>1. SUFFICES ASSUME NEW g \in Handlers, pc'[g] = "reply", code'[g] \in {OK, Created}
                 PROVE  env[g] \in Storable /\ file'[env[g].id] = env[g]
    BY <1>1 DEF ReceiptDue
  <2>2. CASE g = h
    BY <1>2, <1>7, <2>2
  <2>3. CASE g # h
    <3>1. env[g] \in Storable /\ file[env[g].id] = env[g]
      BY <1>1, <2>1, <2>3 DEF IndInv, TypeOK, ReceiptDue
    <3>2. env[g] # NoEnvelope /\ env[g].id \in EnvelopeIds
      BY <3>1, StorableFacts
    <3>3. QED
      BY <1>2, <1>7, <3>1, <3>2
  <2>4. QED
    BY <2>2, <2>3
<1>9. AckedDurable'
  <2>1. SUFFICES ASSUME NEW e \in acked PROVE file'[e.id] = e
    BY <1>1 DEF AckedDurable
  <2>2. e \in Storable /\ file[e.id] = e
    BY DEF IndInv, TypeOK, AckedDurable
  <2>3. e # NoEnvelope /\ e.id \in EnvelopeIds
    BY <2>2, StorableFacts
  <2>4. QED
    BY <1>2, <1>7, <2>2, <2>3
<1>10. StoredValid'
  <2>1. NormalizeSucceeds(env[h], high, FALSE)
    BY <1>1 DEF IndInv, Vetted, Writing
  <2>2. SUFFICES ASSUME NEW id \in EnvelopeIds, file'[id] # NoEnvelope
                 PROVE  file'[id].id = id /\ NormalizeSucceeds(file'[id], high, FALSE)
    BY <1>1 DEF StoredValid
  <2>3. CASE id = env[h].id
    <3>1. file'[id] = env[h]
      BY <1>2, <1>7, <2>3
    <3>2. QED
      BY <2>1, <2>3, <3>1
  <2>4. CASE id # env[h].id
    <3>1. file'[id] = file[id]
      BY <1>2, <1>7, <2>4
    <3>2. QED
      BY <2>2, <3>1 DEF IndInv, StoredValid
  <2>5. QED
    BY <2>3, <2>4
<1>11. QED
  BY <1>4, <1>5, <1>6, <1>8, <1>9, <1>10 DEF IndInv

\* A failed write restores memory to the file.
LEMMA PersistFailsIndInv ==
    ASSUME IndInv, NEW h \in Handlers, PersistFails(h)
    PROVE  IndInv'
<1>1. /\ pc[h] \in Writing
      /\ mem' = [mem EXCEPT ![env[h].id] = NoEnvelope] /\ lock' = Free
      /\ pc' = [pc EXCEPT ![h] = "reply"] /\ code' = [code EXCEPT ![h] = BadRequest]
      /\ UNCHANGED <<now, high, status, file, tmp, env, prin, view, acked, created>>
  BY DEF PersistFails, Answer, clock, disk, ledger, Writing
<1>2. lock = h /\ \A g \in Handlers : g # h => pc[g] \notin Writing
  BY <1>1 DEF IndInv, LockOwner
<1>3. mem' = file
  <2>1. /\ file[env[h].id] = NoEnvelope
        /\ mem = [file EXCEPT ![env[h].id] = env[h]]
        /\ file \in [EnvelopeIds -> Storable \cup {NoEnvelope}]
    BY <1>1 DEF IndInv, OnlyPending, TypeOK, Contains
  <2>2. QED
    BY <1>1, <2>1
<1>4. TypeOK' /\ now' <= high'
  BY <1>1, <1>3 DEF IndInv, TypeOK
<1>5. LockOwner' /\ DownIdle' /\ VisibleIsDurable' /\ OnlyPending' /\ TmpComplete'
  BY <1>1, <1>2, <1>3, FreeNew DEF IndInv, TypeOK, LockOwner, DownIdle,
     VisibleIsDurable, OnlyPending, TmpComplete, Writing
<1>6. Vetted'
  BY <1>1 DEF IndInv, TypeOK, Vetted, Writing
<1>7. ReceiptDue'
  <2>1. BadRequest \notin {OK, Created}
    BY DEF BadRequest, OK, Created
  <2>2. QED
    BY <1>1, <2>1 DEF IndInv, TypeOK, ReceiptDue
<1>8. AckedDurable' /\ StoredValid'
  BY <1>1 DEF IndInv, AckedDurable, StoredValid
<1>9. QED
  BY <1>4, <1>5, <1>6, <1>7, <1>8 DEF IndInv

\* Reply: a receipt is handed out only for what is in the file.
LEMMA ReplyIndInv ==
    ASSUME IndInv, NEW h \in Handlers, Reply(h)
    PROVE  IndInv'
<1>1. /\ pc[h] = "reply"
      /\ pc' = [pc EXCEPT ![h] = "idle"] /\ env' = [env EXCEPT ![h] = NoEnvelope]
      /\ prin' = [prin EXCEPT ![h] = NoPrincipal] /\ code' = [code EXCEPT ![h] = 0]
      /\ UNCHANGED <<now, high, status, mem, lock, file, tmp, view>>
  BY DEF Reply, clock, disk
<1>2. \/ acked' = acked
      \/ /\ acked' = acked \cup {env[h]}
         /\ env[h] \in Storable /\ file[env[h].id] = env[h]
  BY <1>1 DEF Reply, IndInv, ReceiptDue
<1>3. created' \in [EnvelopeIds -> Nat]
  <2>1. created \in [EnvelopeIds -> Nat]
    BY DEF IndInv, TypeOK
  <2>2. created' = created \/ created' = [created EXCEPT ![env[h].id] = @ + 1]
    BY DEF Reply
  <2>3. \A id \in EnvelopeIds : created[id] + 1 \in Nat
    BY <2>1
  <2>4. QED
    BY <2>1, <2>2, <2>3
<1>4. TypeOK' /\ now' <= high'
  BY <1>1, <1>2, <1>3 DEF IndInv, TypeOK
<1>5. LockOwner' /\ DownIdle' /\ VisibleIsDurable' /\ OnlyPending' /\ TmpComplete'
  BY <1>1 DEF IndInv, TypeOK, LockOwner, DownIdle, VisibleIsDurable, OnlyPending,
     TmpComplete, Writing
<1>6. Vetted' /\ ReceiptDue'
  BY <1>1 DEF IndInv, TypeOK, Vetted, ReceiptDue, Writing
<1>7. AckedDurable' /\ StoredValid'
  BY <1>1, <1>2 DEF IndInv, AckedDurable, StoredValid
<1>8. QED
  BY <1>4, <1>5, <1>6, <1>7 DEF IndInv

\* The clock: what would load at one time loads at every later one.
LEMMA ClockIndInv ==
    ASSUME IndInv, Tick \/ StepBack
    PROVE  IndInv'
<1>1. UNCHANGED <<status, mem, lock, file, tmp, pc, env, prin, code, view, acked, created>>
  BY DEF Tick, StepBack, disk, requests, ledger
<1>2. /\ now' \in 1 .. MaxTime /\ high' \in 1 .. MaxTime
      /\ now' <= high' /\ high <= high' /\ high \in Nat /\ high' \in Nat
  BY MaxTimeType DEF Tick, StepBack, IndInv, TypeOK
<1>3. TypeOK'
  BY <1>1, <1>2 DEF IndInv, TypeOK
<1>4. LockOwner' /\ DownIdle' /\ VisibleIsDurable' /\ OnlyPending' /\ TmpComplete'
  BY <1>1 DEF IndInv, LockOwner, DownIdle, VisibleIsDurable, OnlyPending, TmpComplete
<1>5. ReceiptDue' /\ AckedDurable'
  BY <1>1 DEF IndInv, ReceiptDue, AckedDurable
<1>6. \A e \in Storable : NormalizeSucceeds(e, high, FALSE)
                            => NormalizeSucceeds(e, high', FALSE)
  BY <1>2, StorableFacts, LaterStillLoads
<1>7. Vetted'
  BY <1>1, <1>6 DEF IndInv, Vetted
<1>8. StoredValid'
  <2>1. \A id \in EnvelopeIds : file[id] # NoEnvelope => file[id] \in Storable
    BY DEF IndInv, TypeOK, Contains
  <2>2. QED
    BY <1>1, <1>6, <2>1 DEF IndInv, StoredValid
<1>9. QED
  BY <1>2, <1>3, <1>4, <1>5, <1>7, <1>8 DEF IndInv

\* The status readers change nothing but their own progress.
LEMMA StatusIndInv ==
    ASSUME IndInv, NEW r \in Readers, StatusList(r) \/ StatusCount(r) \/ StatusReply(r)
    PROVE  IndInv'
<1>1. UNCHANGED <<now, high, status, mem, lock, file, tmp, pc, env, prin, code, acked, created>>
  BY DEF StatusList, StatusCount, StatusReply, clock, disk, requests, ledger
<1>2. Stored(mem) \in SUBSET Storable
  BY DEF IndInv, TypeOK, Stored, Contains
<1>3. TypeOK'
  <2>1. 0 \in 0 .. MaxTime /\ 1 .. high \subseteq 0 .. MaxTime
    BY MaxTimeType DEF IndInv, TypeOK
  <2>2. view' \in [Readers -> [phase : {"idle", "listed", "done"}, at : 0 .. MaxTime,
                               listed : SUBSET Storable, counted : SUBSET Storable]]
    BY <1>2, <2>1 DEF StatusList, StatusCount, StatusReply, NoView, IndInv, TypeOK
  <2>3. QED
    BY <1>1, <2>2 DEF IndInv, TypeOK
<1>4. LockOwner' /\ DownIdle' /\ VisibleIsDurable' /\ OnlyPending' /\ TmpComplete'
  BY <1>1 DEF IndInv, LockOwner, DownIdle, VisibleIsDurable, OnlyPending, TmpComplete
<1>5. Vetted' /\ ReceiptDue' /\ AckedDurable' /\ StoredValid' /\ now' <= high'
  BY <1>1 DEF IndInv, Vetted, ReceiptDue, AckedDurable, StoredValid
<1>6. QED
  BY <1>3, <1>4, <1>5 DEF IndInv

\* Crash and Start: the map is lost with the process and read back.
LEMMA ProcessIndInv ==
    ASSUME IndInv, Crash \/ Start
    PROVE  IndInv'
<1>1. UNCHANGED <<now, high, file, tmp, acked, created>>
  BY DEF Crash, Start, clock, disk, ledger
<1>2. AckedDurable' /\ StoredValid' /\ now' <= high'
  BY <1>1 DEF IndInv, AckedDurable, StoredValid
<1>3. CASE Crash
  <2>1. TypeOK'
    BY <1>1, <1>3, MaxTimeType DEF Crash, IndInv, TypeOK, Empty, Contains, NoView
  <2>2. LockOwner' /\ DownIdle' /\ VisibleIsDurable' /\ OnlyPending' /\ TmpComplete'
    BY <1>3, FreeNew DEF Crash, LockOwner, DownIdle, VisibleIsDurable, OnlyPending,
       TmpComplete, Writing
  <2>3. Vetted' /\ ReceiptDue'
    BY <1>3 DEF Crash, Vetted, ReceiptDue, Writing
  <2>4. QED
    BY <1>2, <2>1, <2>2, <2>3 DEF IndInv
<1>4. CASE Start
  <2>1. /\ status # "up" /\ UNCHANGED <<lock, pc, env, prin, code, view>>
        /\ \/ status' = "up" /\ mem' = file
           \/ status' = "refused" /\ mem' = mem
    BY <1>4 DEF Start, requests
  <2>2. \A h \in Handlers : pc[h] = "idle"
    BY <2>1 DEF IndInv, DownIdle
  <2>3. TypeOK'
    BY <1>1, <2>1 DEF IndInv, TypeOK
  <2>4. LockOwner' /\ DownIdle' /\ VisibleIsDurable' /\ OnlyPending' /\ TmpComplete'
    BY <1>1, <2>1, <2>2 DEF IndInv, LockOwner, DownIdle, VisibleIsDurable, OnlyPending,
       TmpComplete, Writing
  <2>5. Vetted' /\ ReceiptDue'
    BY <2>1, <2>2 DEF Vetted, ReceiptDue, Writing
  <2>6. QED
    BY <1>2, <2>3, <2>4, <2>5 DEF IndInv
<1>5. QED
  BY <1>3, <1>4

\* Every step, stuttering included, preserves the inductive invariant.
LEMMA NextIndInv == IndInv /\ [Next]_vars => IndInv'
<1> SUFFICES ASSUME IndInv, [Next]_vars PROVE IndInv'
  OBVIOUS
<1>1. CASE Next
  BY <1>1, ReceiveIndInv, AcquireIndInv, WriteTmpIndInv, RenameIndInv, PersistFailsIndInv,
     ReplyIndInv, ClockIndInv, StatusIndInv, ProcessIndInv, Zenon DEF Next, Persist
<1>2. CASE UNCHANGED vars
  BY <1>2 DEF vars, clock, disk, requests, ledger, IndInv, TypeOK, LockOwner, DownIdle,
     VisibleIsDurable, OnlyPending, TmpComplete, Vetted, ReceiptDue, AckedDurable, StoredValid
<1>3. QED
  BY <1>1, <1>2

-----------------------------------------------------------------------------
(* The theorems.                                                           *)

\* The registry keeps IndInv for every set of handlers, envelopes and
\* principals.
THEOREM Invariance == Spec => []IndInv
  BY InitIndInv, NextIndInv, PTL DEF Spec

\* The registry is type correct, and the file under its path is never torn.
THEOREM TypeCorrect == Spec => []TypeOK
<1>1. IndInv => TypeOK
  BY DEF IndInv
<1>2. QED
  BY <1>1, Invariance, PTL

\* The mutex is never leaked, whichever path recordAt takes.
THEOREM MutexOwned == Spec => []LockOwner
<1>1. IndInv => LockOwner
  BY DEF IndInv
<1>2. QED
  BY <1>1, Invariance, PTL

\* What a reader can see is on disk.
THEOREM Visibility == Spec => []VisibleIsDurable
<1>1. IndInv => VisibleIsDurable
  BY DEF IndInv
<1>2. QED
  BY <1>1, Invariance, PTL

\* A receipt is a promise of durability.
THEOREM Durability == Spec => []AckedDurable
<1>1. IndInv => AckedDurable
  BY DEF IndInv
<1>2. QED
  BY <1>1, Invariance, PTL

\* Only a rename changes the file.
LEMMA OnlyRenameWrites ==
    ASSUME [Next]_vars, file' # file
    PROVE  \E h \in Handlers : Rename(h)
<1>1. UNCHANGED vars => file' = file
  BY DEF vars, disk
<1>2. Tick \/ StepBack \/ Crash \/ Start => file' = file
  BY DEF Tick, StepBack, Crash, Start, disk
<1>3. \A h \in Handlers : Receive(h) \/ Acquire(h) \/ Reply(h) => file' = file
  BY DEF Receive, Acquire, Reply, disk
<1>4. \A h \in Handlers : OpenTmp(h) \/ WriteTmp(h) \/ PersistFails(h) => file' = file
  BY DEF OpenTmp, WriteTmp, PersistFails, disk
<1>5. \A r \in Readers : StatusList(r) \/ StatusCount(r) \/ StatusReply(r) => file' = file
  BY DEF StatusList, StatusCount, StatusReply, disk
<1>6. QED
  BY <1>1, <1>2, <1>3, <1>4, <1>5, Zenon DEF Next, Persist

\* Only an authenticated, authorised producer changes the file, and only with
\* an envelope within its own authority.
THEOREM Provenance == Spec => ProducerOnlyWrites
<1>1. ASSUME IndInv, [Next]_vars
      PROVE  \A id \in EnvelopeIds : file'[id] # file[id] =>
               \E h \in Handlers :
                  /\ lock = h
                  /\ RequireScope(prin[h], ScopeEvidenceWrite) = Pass
                  /\ prin[h].serviceID = file'[id].system
                  /\ AuthorityBound(file'[id])
  <2>1. SUFFICES ASSUME NEW id \in EnvelopeIds, file'[id] # file[id]
                 PROVE  \E h \in Handlers :
                           /\ lock = h
                           /\ RequireScope(prin[h], ScopeEvidenceWrite) = Pass
                           /\ prin[h].serviceID = file'[id].system
                           /\ AuthorityBound(file'[id])
    OBVIOUS
  <2>2. PICK h \in Handlers : Rename(h)
    BY <1>1, <2>1, OnlyRenameWrites
  <2>3. /\ file' = [file EXCEPT ![env[h].id] = env[h]]
        /\ file \in [EnvelopeIds -> Storable \cup {NoEnvelope}] /\ lock = h
    BY <1>1, <2>2, RenameBinds DEF IndInv, TypeOK, Contains
  <2>4. file'[id] = env[h]
    BY <2>1, <2>3
  <2>5. pc[h] = "rename"
    BY <2>2 DEF Rename
  <2>6. /\ RequireScope(prin[h], ScopeEvidenceWrite) = Pass
        /\ prin[h].serviceID = env[h].system
        /\ NormalizeSucceeds(env[h], high, FALSE)
    BY <1>1, <2>5 DEF IndInv, Vetted, Writing
  <2>7. AuthorityBound(env[h])
    BY <2>6 DEF NormalizeSucceeds
  <2>8. QED
    BY <2>3, <2>4, <2>6, <2>7
<1>2. QED
  BY <1>1, Invariance, PTL DEF Spec, ProducerOnlyWrites

\* Accepted evidence, expired or not, never keeps the server from starting,
\* unless the clock was set back.
THEOREM Restart == Spec => RefusedOnlyAfterStepBack
<1>1. ASSUME IndInv, [Next]_vars
      PROVE  (status # "refused" /\ status' = "refused") => now < high
  <2>1. SUFFICES ASSUME status # "refused", status' = "refused", ~(now < high)
                 PROVE  FALSE
    OBVIOUS
  <2>2. now = high /\ high \in Nat
    BY <1>1, <2>1, MaxTimeType DEF IndInv, TypeOK
  <2>3. Start
    <3>1. UNCHANGED vars => status' = status
      BY DEF vars
    <3>2. Crash => status' = "down"
      BY DEF Crash
    <3>3. Tick \/ StepBack => status' = status
      BY DEF Tick, StepBack
    <3>4. \A h \in Handlers : Receive(h) \/ Acquire(h) \/ Persist(h) \/ Reply(h)
                                => status' = status
      BY DEF Receive, Acquire, Persist, OpenTmp, WriteTmp, Rename, PersistFails, Reply
    <3>5. \A r \in Readers : StatusList(r) \/ StatusCount(r) \/ StatusReply(r)
                               => status' = status
      BY DEF StatusList, StatusCount, StatusReply
    <3>6. "down" # "refused"
      OBVIOUS
    <3>7. QED
      BY <1>1, <2>1, <3>1, <3>2, <3>3, <3>4, <3>5, <3>6, Zenon DEF Next
  <2>4. ~Loadable(file, now)
    BY <2>1, <2>3 DEF Start
  <2>5. file # Torn
    BY <1>1, TornNew DEF IndInv, TypeOK
  <2>6. PICK id \in EnvelopeIds : /\ file[id] # NoEnvelope
                                  /\ ~NormalizeSucceeds(file[id], now, FALSE)
    BY <2>4, <2>5 DEF Loadable, Stored
  <2>7. QED
    BY <1>1, <2>2, <2>6 DEF IndInv, StoredValid
<1>2. QED
  BY <1>1, Invariance, PTL DEF Spec, RefusedOnlyAfterStepBack

\* Within its window, an exact retry is never refused.
THEOREM Retry == Spec => RefusedRetryOutsideWindow
<1>1. ASSUME IndInv, [Next]_vars
      PROVE  \A h \in Handlers : RetryRefused(h) =>
               now > env'[h].validUntil \/ now < env'[h].observedAt
  <2>1. SUFFICES ASSUME NEW h \in Handlers, RetryRefused(h)
                 PROVE  now > env'[h].validUntil \/ now < env'[h].observedAt
    OBVIOUS
  <2>2. /\ pc[h] # "reply" /\ pc'[h] = "reply" /\ code'[h] = BadRequest
        /\ env'[h] # NoEnvelope /\ file[env'[h].id] = Normal(env'[h])
    BY <2>1 DEF RetryRefused
  <2>3. Receive(h) \/ Acquire(h) \/ Rename(h) \/ PersistFails(h)
    <3>1. UNCHANGED vars => pc' = pc
      BY DEF vars, requests
    <3>2. Tick \/ StepBack \/ Start => pc' = pc
      BY DEF Tick, StepBack, Start, requests
    <3>3. Crash => pc'[h] = "idle"
      BY DEF Crash
    <3>4. ASSUME NEW g \in Handlers, g # h,
                 Receive(g) \/ Acquire(g) \/ Persist(g) \/ Reply(g)
          PROVE  pc'[h] = pc[h]
      BY <1>1, <3>4 DEF Receive, Acquire, Insert, Persist, OpenTmp, WriteTmp, Rename,
         PersistFails, Reply, Answer, IndInv, TypeOK
    <3>5. OpenTmp(h) \/ WriteTmp(h) \/ Reply(h) => pc'[h] \in {"write", "rename", "idle"}
      BY <1>1 DEF OpenTmp, WriteTmp, Reply, IndInv, TypeOK
    <3>6. \A r \in Readers : StatusList(r) \/ StatusCount(r) \/ StatusReply(r) => pc' = pc
      BY DEF StatusList, StatusCount, StatusReply, requests
    <3>7. "reply" \notin {"write", "rename", "idle"}
      OBVIOUS
    <3>8. QED
      BY <1>1, <2>2, <3>1, <3>2, <3>3, <3>4, <3>5, <3>6, <3>7, Zenon DEF Next, Persist
  <2>4. CASE Receive(h)
    <3>1. PICK p \in Principals, e \in Submissions \cup {NoEnvelope} :
             \/ /\ Screen(p, e, now) = Pass
                /\ pc' = [pc EXCEPT ![h] = "wait"]
             \/ /\ Screen(p, e, now) # Pass
                /\ env' = [env EXCEPT ![h] = e]
                /\ Answer(h, Screen(p, e, now))
      BY <2>4, Zenon DEF Receive
    <3>2. env' = [env EXCEPT ![h] = e] /\ code' = [code EXCEPT ![h] = Screen(p, e, now)]
      BY <1>1, <2>2, <3>1 DEF IndInv, TypeOK, Answer
    <3>3. env'[h] = e /\ Screen(p, e, now) = BadRequest
      BY <1>1, <2>2, <3>2 DEF IndInv, TypeOK
    <3>4. e \in Submissions /\ e \in EvidenceEnvelope /\ now \in Nat /\ high \in Nat
      BY <1>1, <2>2, <3>3, SubmissionsType, MaxTimeType DEF IndInv, TypeOK
    <3>5. ~NormalizeSucceeds(e, now, TRUE)
      BY <3>3, <3>4, ScreenBadRequest
    <3>6. e.id \in EnvelopeIds /\ file[e.id] # NoEnvelope
      BY <2>2, <3>3, <3>4, NormalFacts, NoEnvelopeNew DEF EvidenceEnvelope
    <3>7. NormalizeSucceeds(Normal(e), high, FALSE)
      BY <1>1, <2>2, <3>3, <3>6 DEF IndInv, StoredValid
    <3>8. NormalizeSucceeds(e, high, FALSE)
      BY <3>4, <3>7, NormalFacts
    <3>9. QED
      BY <3>3, <3>4, <3>5, <3>8 DEF NormalizeSucceeds, EvidenceEnvelope
  <2>5. CASE Acquire(h)
    <3>1. env' = env /\ pc[h] = "wait" /\ lock = Free /\ code \in [Handlers -> Int]
      BY <1>1, <2>5 DEF Acquire, IndInv, TypeOK, OK, Created, BadRequest,
         Unauthorized, Forbidden
    <3>2. env[h] \in Storable /\ mem = file
      BY <1>1, <3>1 DEF IndInv, Vetted, DownIdle, VisibleIsDurable
    <3>3. file[env[h].id] = env[h] /\ env[h] # NoEnvelope
      BY <2>2, <3>1, <3>2, StorableFacts
    <3>4. Answer(h, OK)
      BY <2>5, <3>2, <3>3 DEF Acquire, IsReplay, IsNew
    <3>5. code'[h] = OK
      BY <3>1, <3>4 DEF Answer
    <3>6. QED
      BY <2>2, <3>5 DEF OK, BadRequest
  <2>6. CASE Rename(h)
    <3>1. code'[h] = Created
      BY <1>1, <2>6 DEF Rename, Answer, IndInv, TypeOK
    <3>2. QED
      BY <2>2, <3>1 DEF Created, BadRequest
  <2>7. CASE PersistFails(h)
    <3>1. env' = env /\ pc[h] \in Writing
      BY <2>7 DEF PersistFails, Writing
    <3>2. env[h] \in Storable /\ file[env[h].id] = NoEnvelope
      BY <1>1, <3>1 DEF IndInv, Vetted, OnlyPending, Writing
    <3>3. QED
      BY <2>2, <3>1, <3>2, StorableFacts
  <2>8. QED
    BY <2>3, <2>4, <2>5, <2>6, <2>7
<1>2. QED
  BY <1>1, Invariance, PTL DEF Spec, RefusedRetryOutsideWindow

\* The registry implements the write-once map.
THEOREM Refinement == Spec => ImplementsImmutableStore
<1>1. Init => Promise!Init
  BY DEF Init, Promise!Init, Empty
<1>2. ASSUME IndInv, [Next]_vars
      PROVE  [Promise!Next]_<<file, acked>>
  <2>1. CASE file' # file
    <3>1. PICK h \in Handlers : Rename(h)
      BY <1>2, <2>1, OnlyRenameWrites
    <3>2. /\ file' = [file EXCEPT ![env[h].id] = env[h]]
          /\ file[env[h].id] = NoEnvelope /\ env[h] \in Storable
      BY <1>2, <3>1, RenameBinds
    <3>3. acked' = acked
      BY <3>1 DEF Rename, ledger
    <3>4. Promise!Bind(env[h])
      BY <3>2, <3>3 DEF Promise!Bind
    <3>5. QED
      BY <3>2, <3>4 DEF Promise!Next
  <2>2. CASE file' = file /\ acked' # acked
    <3>1. PICK h \in Handlers : Reply(h)
      <4>1. UNCHANGED vars => acked' = acked
        BY DEF vars, ledger
      <4>2. Tick \/ StepBack \/ Crash \/ Start => acked' = acked
        BY DEF Tick, StepBack, Crash, Start, ledger
      <4>3. \A h \in Handlers : Receive(h) \/ Acquire(h) \/ Persist(h) => acked' = acked
        BY DEF Receive, Acquire, Persist, OpenTmp, WriteTmp, Rename, PersistFails, ledger
      <4>4. \A r \in Readers : StatusList(r) \/ StatusCount(r) \/ StatusReply(r)
                                 => acked' = acked
        BY DEF StatusList, StatusCount, StatusReply, ledger
      <4>5. QED
        BY <1>2, <2>2, <4>1, <4>2, <4>3, <4>4, Zenon DEF Next
    <3>2. /\ pc[h] = "reply" /\ code[h] \in {OK, Created}
          /\ acked' = acked \cup {env[h]}
      BY <2>2, <3>1 DEF Reply
    <3>3. env[h] \in Storable /\ file[env[h].id] = env[h]
      BY <1>2, <3>2 DEF IndInv, ReceiptDue
    <3>4. Promise!Acknowledge(env[h])
      BY <2>2, <3>2, <3>3 DEF Promise!Acknowledge
    <3>5. QED
      BY <3>3, <3>4 DEF Promise!Next
  <2>3. CASE file' = file /\ acked' = acked
    BY <2>3
  <2>4. QED
    BY <2>1, <2>2, <2>3
<1>3. QED
  BY <1>1, <1>2, Invariance, PTL DEF Spec, ImplementsImmutableStore, Promise!Spec

-----------------------------------------------------------------------------
(* Receipts and counts.  Two more invariants, each kept by every step of a *)
(* state that satisfies IndInv.                                            *)

\* The handler is about to answer 201 for the id.
Creating(h, id) == pc[h] = "reply" /\ code[h] = Created /\ env[h].id = id

\* A 201 was sent or is due for an id at most once, and only after the file
\* bound it.
CreationInv ==
    \A id \in EnvelopeIds :
        /\ created[id] \in {0, 1}
        /\ created[id] = 1 => /\ file[id] # NoEnvelope
                              /\ \A h \in Handlers : ~Creating(h, id)
        /\ \A g, h \in Handlers : Creating(g, id) /\ Creating(h, id) => g = h

\* The registry holds finitely many envelopes, and what a reader listed is
\* still there when it counts.
ViewInv ==
    /\ IsFiniteSet(Stored(file))
    /\ \A r \in Readers :
         /\ view[r].phase = "listed" => view[r].listed \subseteq Stored(file)
         /\ view[r].phase = "done" => /\ view[r].listed \subseteq view[r].counted
                                      /\ IsFiniteSet(view[r].counted)

\* A step that sends no answer, binds nothing and starts no 201.
LEMMA NothingCreated ==
    ASSUME CreationInv, created' = created, file' = file,
           \A h \in Handlers : \A id \in EnvelopeIds : Creating(h, id)' => Creating(h, id)
    PROVE  CreationInv'
  BY DEF CreationInv

\* A handler's answer other than 201 starts no creation.
LEMMA OtherAnswer ==
    ASSUME IndInv, NEW h \in Handlers, \A g \in Handlers \ {h} : env'[g] = env[g],
           \/ pc' = [pc EXCEPT ![h] = "reply"] /\ code'[h] # Created
           \/ \E s \in {"idle", "wait", "open", "write", "rename"} : pc' = [pc EXCEPT ![h] = s],
           \A g \in Handlers \ {h} : code'[g] = code[g]
    PROVE  \A g \in Handlers : \A id \in EnvelopeIds : Creating(g, id)' => Creating(g, id)
<1>1. pc \in [Handlers -> {"idle", "wait", "open", "write", "rename", "reply"}]
  BY DEF IndInv, TypeOK
<1>2. \A g \in Handlers \ {h} : pc'[g] = pc[g]
  BY <1>1
<1>3. ~(pc'[h] = "reply" /\ code'[h] = Created)
  BY <1>1
<1>4. QED
  BY <1>2, <1>3 DEF Creating

\* Every step keeps CreationInv.
LEMMA CreationStep == IndInv /\ CreationInv /\ [Next]_vars => CreationInv'
<1> SUFFICES ASSUME IndInv, CreationInv, [Next]_vars PROVE CreationInv'
  OBVIOUS
<1>1. /\ pc \in [Handlers -> {"idle", "wait", "open", "write", "rename", "reply"}]
      /\ code \in [Handlers -> {0, OK, Created, BadRequest, Unauthorized, Forbidden}]
      /\ env \in [Handlers -> Submissions \cup Storable \cup {NoEnvelope}]
      /\ created \in [EnvelopeIds -> Nat]
      /\ file \in [EnvelopeIds -> Storable \cup {NoEnvelope}]
  BY DEF IndInv, TypeOK, Contains
<1>2. \A h \in Handlers : \A id \in EnvelopeIds : Creating(h, id) => file[id] # NoEnvelope
  <2> SUFFICES ASSUME NEW h \in Handlers, NEW id \in EnvelopeIds, Creating(h, id)
               PROVE  file[id] # NoEnvelope
    OBVIOUS
  <2>1. env[h] \in Storable /\ file[id] = env[h]
    BY DEF Creating, IndInv, ReceiptDue
  <2>2. QED
    BY <2>1, StorableFacts
<1>3. Created \notin {0, OK, BadRequest, Unauthorized, Forbidden}
  BY DEF Created, OK, BadRequest, Unauthorized, Forbidden
<1>4. ASSUME NEW h \in Handlers, Rename(h)
      PROVE  CreationInv'
  <2>1. /\ file' = [file EXCEPT ![env[h].id] = env[h]] /\ file[env[h].id] = NoEnvelope
        /\ env[h] \in Storable /\ env[h].id \in EnvelopeIds /\ env[h] # NoEnvelope
    BY <1>4, RenameBinds, StorableFacts
  <2>2. /\ pc' = [pc EXCEPT ![h] = "reply"] /\ code' = [code EXCEPT ![h] = Created]
        /\ env' = env /\ created' = created
    BY <1>4 DEF Rename, Answer, ledger
  <2>3. \A id \in EnvelopeIds : file[id] # NoEnvelope => file'[id] # NoEnvelope
    BY <1>1, <2>1
  <2>4. \A id \in EnvelopeIds : \A g \in Handlers :
          Creating(g, id)' => Creating(g, id) \/ (g = h /\ id = env[h].id)
    BY <1>1, <2>2 DEF Creating
  <2>5. created[env[h].id] # 1 /\ \A g \in Handlers : ~Creating(g, env[h].id)
    BY <1>2, <2>1 DEF CreationInv
  <2>6. QED
    BY <2>2, <2>3, <2>4, <2>5 DEF CreationInv
<1>5. ASSUME NEW h \in Handlers, Reply(h)
      PROVE  CreationInv'
  <2>1. /\ pc[h] = "reply" /\ pc' = [pc EXCEPT ![h] = "idle"] /\ file' = file
        /\ env' = [env EXCEPT ![h] = NoEnvelope] /\ code' = [code EXCEPT ![h] = 0]
        /\ created' = IF code[h] = Created
                      THEN [created EXCEPT ![env[h].id] = created[env[h].id] + 1]
                      ELSE created
    BY <1>5 DEF Reply, disk
  <2>2. \A id \in EnvelopeIds : \A g \in Handlers :
          Creating(g, id)' => Creating(g, id) /\ g # h
    BY <1>1, <2>1 DEF Creating
  <2>3. CASE code[h] # Created
    BY <2>1, <2>2, <2>3, NothingCreated
  <2>4. CASE code[h] = Created
    <3>1. env[h].id \in EnvelopeIds /\ file[env[h].id] # NoEnvelope
      BY <2>1, <2>4, StorableFacts DEF IndInv, ReceiptDue
    <3>2. PICK i \in EnvelopeIds : i = env[h].id
      BY <3>1
    <3>3. Creating(h, i)
      BY <2>1, <2>4, <3>2 DEF Creating
    <3>4. created[i] = 0
      BY <3>3 DEF CreationInv
    <3>5. created' = [created EXCEPT ![i] = 1]
      BY <2>1, <2>4, <3>2, <3>4
    <3>6. \A g \in Handlers : ~Creating(g, i)'
      BY <2>2, <3>3 DEF CreationInv
    <3>7. \A id \in EnvelopeIds : created'[id] = IF id = i THEN 1 ELSE created[id]
      BY <1>1, <3>5
    <3>8. \A id \in EnvelopeIds : \A g \in Handlers : Creating(g, id)' => Creating(g, id)
      BY <2>2
    <3>9. QED
      BY <2>1, <3>1, <3>2, <3>6, <3>7, <3>8 DEF CreationInv
  <2>5. QED
    BY <2>3, <2>4
<1>6. ASSUME NEW h \in Handlers, Receive(h)
      PROVE  CreationInv'
  <2>1. created' = created /\ file' = file
    BY <1>6 DEF Receive, ledger, disk
  <2>2. PICK p \in Principals, e \in Submissions \cup {NoEnvelope} :
           \/ /\ env' = [env EXCEPT ![h] = Normal(e)]
              /\ pc' = [pc EXCEPT ![h] = "wait"] /\ UNCHANGED code
           \/ /\ Screen(p, e, now) # Pass
              /\ env' = [env EXCEPT ![h] = e] /\ Answer(h, Screen(p, e, now))
    BY <1>6, Zenon DEF Receive
  <2>3. now \in Nat
    BY MaxTimeType DEF IndInv, TypeOK
  <2>4. Screen(p, e, now) # Pass => Screen(p, e, now) # Created
    BY <1>3, <2>3, ScreenCodes
  <2>5. /\ \A g \in Handlers \ {h} : env'[g] = env[g] /\ code'[g] = code[g]
        /\ \/ pc' = [pc EXCEPT ![h] = "reply"] /\ code'[h] # Created
           \/ \E s \in {"idle", "wait", "open", "write", "rename"} : pc' = [pc EXCEPT ![h] = s]
    BY <1>1, <2>2, <2>4 DEF Answer
  <2>6. QED
    BY <2>1, <2>5, OtherAnswer, NothingCreated
<1>7. ASSUME NEW h \in Handlers, Acquire(h) \/ OpenTmp(h) \/ WriteTmp(h) \/ PersistFails(h)
      PROVE  CreationInv'
  <2>1. created' = created /\ file' = file /\ env' = env
    BY <1>7 DEF Acquire, OpenTmp, WriteTmp, PersistFails, ledger, disk
  <2>2. /\ \A g \in Handlers \ {h} : code'[g] = code[g]
        /\ \/ pc' = [pc EXCEPT ![h] = "reply"] /\ code'[h] # Created
           \/ \E s \in {"idle", "wait", "open", "write", "rename"} : pc' = [pc EXCEPT ![h] = s]
    BY <1>1, <1>3, <1>7 DEF Acquire, Insert, OpenTmp, WriteTmp, PersistFails, Answer
  <2>3. QED
    BY <2>1, <2>2, OtherAnswer, NothingCreated
<1>8. CASE Crash
  <2>1. created' = created /\ file' = file /\ \A h \in Handlers : pc'[h] = "idle"
    BY <1>8 DEF Crash, ledger, disk
  <2>2. \A h \in Handlers : \A id \in EnvelopeIds : ~Creating(h, id)'
    BY <2>1 DEF Creating
  <2>3. QED
    BY <2>1, <2>2, NothingCreated
<1>9. ASSUME UNCHANGED <<created, file, pc, code, env>> PROVE CreationInv'
  BY <1>9 DEF CreationInv, Creating
<1>10. Tick \/ StepBack \/ Start \/ UNCHANGED vars => CreationInv'
  BY <1>9 DEF Tick, StepBack, Start, vars, ledger, disk, requests
<1>11. \A r \in Readers : StatusList(r) \/ StatusCount(r) \/ StatusReply(r) => CreationInv'
  BY <1>9 DEF StatusList, StatusCount, StatusReply, ledger, disk, requests
<1>12. QED
  BY <1>4, <1>5, <1>6, <1>7, <1>8, <1>10, <1>11, Zenon DEF Next, Persist

\* An id is answered 201 at most once, across retries, rivals and crashes.
THEOREM SingleCreation == Spec => []OneCreation
<1>1. Init => CreationInv
  <2> SUFFICES ASSUME Init PROVE CreationInv
    OBVIOUS
  <2>1. \A id \in EnvelopeIds : created[id] = 0 /\ \A h \in Handlers : ~Creating(h, id)
    BY DEF Init, Creating
  <2>2. 0 # 1
    OBVIOUS
  <2>3. QED
    BY <2>1, <2>2, Zenon DEF CreationInv
<1>2. CreationInv /\ IndInv => OneCreation
  <2> SUFFICES ASSUME CreationInv, IndInv, NEW id \in EnvelopeIds
               PROVE  created[id] + Cardinality({h \in Handlers : Creating(h, id)}) <= 1
    BY DEF OneCreation, Creating
  <2> DEFINE due == {h \in Handlers : Creating(h, id)}
  <2>1. created[id] \in {0, 1} /\ (created[id] = 1 => due = {})
    BY DEF CreationInv
  <2>2. CASE due = {}
    BY <2>1, <2>2, FS_EmptySet
  <2>3. CASE due # {}
    <3>1. PICK h : due = {h}
      BY <2>3 DEF CreationInv
    <3>2. Cardinality(due) = 1
      BY <3>1, FS_Singleton
    <3>3. QED
      BY <2>1, <2>3, <3>2
  <2>4. QED
    BY <2>2, <2>3
<1>3. QED
  BY <1>1, <1>2, CreationStep, Invariance, PTL DEF Spec

\* The file only grows, one envelope at a time.
LEMMA FileGrows ==
    ASSUME IndInv, [Next]_vars, IsFiniteSet(Stored(file))
    PROVE  Stored(file) \subseteq Stored(file)' /\ IsFiniteSet(Stored(file))'
<1>1. CASE file' = file
  <2>1. Stored(file)' = Stored(file)
    BY <1>1 DEF Stored
  <2>2. QED
    BY <2>1
<1>2. CASE file' # file
  <2>1. PICK h \in Handlers : Rename(h)
    BY <1>2, OnlyRenameWrites
  <2>2. /\ file' = [file EXCEPT ![env[h].id] = env[h]] /\ file[env[h].id] = NoEnvelope
        /\ file \in [EnvelopeIds -> Storable \cup {NoEnvelope}]
        /\ env[h].id \in EnvelopeIds /\ env[h] # NoEnvelope
    BY <2>1, RenameBinds, StorableFacts DEF IndInv, TypeOK, Contains
  <2>3. Stored(file)' = Stored(file) \cup {env[h]}
    <3>1. ASSUME NEW e \in Stored(file)' PROVE e \in Stored(file) \cup {env[h]}
      <4>1. PICK id \in EnvelopeIds : file'[id] # NoEnvelope /\ e = file'[id]
        BY <3>1 DEF Stored
      <4>2. QED
        BY <2>2, <4>1 DEF Stored
    <3>2. ASSUME NEW e \in Stored(file) PROVE e \in Stored(file)'
      <4>1. PICK id \in EnvelopeIds : file[id] # NoEnvelope /\ e = file[id]
        BY <3>2 DEF Stored
      <4>2. file'[id] # NoEnvelope /\ e = file'[id]
        BY <2>2, <4>1
      <4>3. QED
        BY <4>2 DEF Stored
    <3>3. env[h] \in Stored(file)'
      <4>1. file'[env[h].id] = env[h]
        BY <2>2
      <4>2. \E id \in EnvelopeIds : file'[id] # NoEnvelope /\ env[h] = file'[id]
        BY <2>2, <4>1
      <4>3. QED
        BY <4>2 DEF Stored
    <3>4. QED
      BY <3>1, <3>2, <3>3
  <2>4. IsFiniteSet(Stored(file) \cup {env[h]})
    BY FS_AddElement
  <2>5. QED
    BY <2>3, <2>4
<1>3. QED
  BY <1>1, <1>2

\* Every step keeps ViewInv.
LEMMA ViewStep == IndInv /\ ViewInv /\ [Next]_vars => ViewInv'
<1> SUFFICES ASSUME IndInv, ViewInv, [Next]_vars PROVE ViewInv'
  OBVIOUS
<1>1. Stored(file) \subseteq Stored(file)' /\ IsFiniteSet(Stored(file))'
  BY FileGrows DEF ViewInv
<1>2. view \in [Readers -> [phase : {"idle", "listed", "done"}, at : 0 .. MaxTime,
                            listed : SUBSET Storable, counted : SUBSET Storable]]
  BY DEF IndInv, TypeOK
<1>3. CASE view' = view
  BY <1>1, <1>3 DEF ViewInv
<1>4. ASSUME NEW r \in Readers, \A s \in Readers \ {r} : view'[s] = view[s],
             view'[r].phase = "listed" => view'[r].listed \subseteq Stored(file)',
             view'[r].phase = "done" => /\ view'[r].listed \subseteq view'[r].counted
                                        /\ IsFiniteSet(view'[r].counted)
      PROVE  ViewInv'
  BY <1>1, <1>4 DEF ViewInv
<1>5. ASSUME NEW r \in Readers, StatusList(r) PROVE ViewInv'
  <2>1. PICK t \in 1 .. high :
          view' = [view EXCEPT ![r] = [phase |-> "listed", at |-> t,
                                       listed |-> Stored(mem), counted |-> {}]]
    BY <1>5 DEF StatusList
  <2>2. mem = file
    BY <1>5 DEF StatusList, IndInv, VisibleIsDurable
  <2>3. /\ \A s \in Readers \ {r} : view'[s] = view[s]
        /\ view'[r].phase = "listed" /\ view'[r].listed = Stored(file)
    BY <1>2, <2>1, <2>2
  <2>4. QED
    BY <1>1, <1>4, <2>3
<1>6. ASSUME NEW r \in Readers, StatusCount(r) PROVE ViewInv'
  <2>1. /\ view' = [view EXCEPT ![r].phase = "done", ![r].counted = Stored(mem)]
        /\ view[r].phase = "listed" /\ mem = file
    BY <1>6 DEF StatusCount, IndInv, VisibleIsDurable
  <2>2. /\ \A s \in Readers \ {r} : view'[s] = view[s]
        /\ view'[r].phase = "done" /\ view'[r].listed = view[r].listed
        /\ view'[r].counted = Stored(file)
    BY <1>2, <2>1
  <2>3. view[r].listed \subseteq Stored(file) /\ IsFiniteSet(Stored(file))
    BY <2>1 DEF ViewInv
  <2>4. QED
    BY <1>4, <2>2, <2>3
<1>7. ASSUME NEW r \in Readers, StatusReply(r) PROVE ViewInv'
  <2>1. view' = [view EXCEPT ![r] = NoView] /\ NoView.phase = "idle"
    BY <1>7 DEF StatusReply, NoView
  <2>2. (\A s \in Readers \ {r} : view'[s] = view[s]) /\ view'[r].phase = "idle"
    BY <1>2, <2>1
  <2>3. QED
    BY <1>4, <2>2
<1>8. CASE Crash
  <2>1. view' = [r \in Readers |-> NoView] /\ NoView.phase = "idle"
    BY <1>8 DEF Crash, NoView
  <2>2. \A r \in Readers : view'[r].phase = "idle"
    BY <2>1
  <2>3. QED
    BY <1>1, <2>2 DEF ViewInv
<1>9. Tick \/ StepBack \/ Start \/ UNCHANGED vars => view' = view
  BY DEF Tick, StepBack, Start, vars
<1>10. \A h \in Handlers : Receive(h) \/ Acquire(h) \/ Persist(h) \/ Reply(h) => view' = view
  BY DEF Receive, Acquire, Persist, OpenTmp, WriteTmp, Rename, PersistFails, Reply
<1>11. QED
  BY <1>3, <1>5, <1>6, <1>7, <1>8, <1>9, <1>10, Zenon DEF Next

\* The totals of the status report cover its per-producer counts, although the
\* registry is read twice.
THEOREM StatusTotals == Spec => []StatusTotalsCoverProducers
<1>1. Init => ViewInv
  <2> SUFFICES ASSUME Init PROVE ViewInv
    OBVIOUS
  <2>1. Stored(file) = {}
    BY DEF Init, Empty, Stored
  <2>2. \A r \in Readers : view[r].phase = "idle"
    BY DEF Init, NoView
  <2>3. QED
    BY <2>1, <2>2, FS_EmptySet DEF ViewInv
<1>2. ViewInv => StatusTotalsCoverProducers
  <2> SUFFICES ASSUME ViewInv, NEW r \in Readers, view[r].phase = "done",
                      NEW fresh \in BOOLEAN
               PROVE  Cardinality({e \in view[r].listed : FreshAt(e, view[r].at) = fresh})
                        <= Cardinality({e \in view[r].counted : FreshAt(e, view[r].at) = fresh})
    BY DEF StatusTotalsCoverProducers
  <2> DEFINE L == {e \in view[r].listed : FreshAt(e, view[r].at) = fresh}
             C == {e \in view[r].counted : FreshAt(e, view[r].at) = fresh}
  <2>1. view[r].listed \subseteq view[r].counted /\ IsFiniteSet(view[r].counted)
    BY DEF ViewInv
  <2>2. L \subseteq C /\ C \subseteq view[r].counted
    BY <2>1, Zenon
  <2> HIDE DEF L, C
  <2>3. IsFiniteSet(C)
    BY <2>1, <2>2, FS_Subset
  <2>4. Cardinality(L) <= Cardinality(C)
    BY <2>2, <2>3, FS_Subset
  <2>5. QED
    BY <2>4 DEF L, C
<1>3. QED
  BY <1>1, <1>2, ViewStep, Invariance, PTL DEF Spec
=============================================================================
