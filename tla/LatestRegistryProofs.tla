------------------------ MODULE LatestRegistryProofs ------------------------
(***************************************************************************)
(* Proofs about LatestRegistry for every choice of its parameters: the     *)
(* invariant RegInv is kept by every step of the registry and by a crash.  *)
(* The components that use the registry, PlatformGate and                  *)
(* RecoveryEvidence, draw their theorems from these lemmas.                *)
(*                                                                         *)
(* As in the envelope registry, the mutex leaves one writer between        *)
(* Acquire and Rename.  While it is there, memory is the file but for the  *)
(* writer's key, and prev is what the file has under that key              *)
(* (OnlyPending), so that a rename replaces one record and a failed write, *)
(* by putting prev back, restores memory to the file.                      *)
(***************************************************************************)
EXTENDS LatestRegistry, TLAPS

\* The states of a writer between Acquire and the end of persistLocked.
Writing == {"open", "write", "rename"}

\* The mutex is held by the writer that persists and by no other.
LockOwner == \A w \in Writers : lock = w <=> pc[w] \in Writing

\* A process that is not running serves no request.
DownIdle == status # "up" => \A w \in Writers : pc[w] = "idle"

\* While a writer persists, memory differs from the file in its key only, and
\* prev is what the file has there.
OnlyPending ==
    \A w \in Writers : pc[w] \in Writing =>
        /\ prev = file[KeyOf(rec[w])]
        /\ mem = [file EXCEPT ![KeyOf(rec[w])] = rec[w]]

\* A writer that renames has written all of memory.
TmpComplete == \A w \in Writers : pc[w] = "rename" => tmp = mem

\* A record that some request was accepted with, at a time the clock has shown.
Admitted(r) == \E v \in Inputs, t \in 1 .. high : Accept(v, t) /\ r = Normalize(v, t)

\* A writer past its checks, or to be answered 201, has an admitted record.
Vetted ==
    \A w \in Writers :
        pc[w] \in {"wait"} \cup Writing \/ (pc[w] = "reply" /\ code[w] = Created) =>
            rec[w] \in Records /\ Admitted(rec[w])

\* So has the file, under the record's own key.
StoredAdmitted ==
    \A k \in Keys : file[k] # NoRecord => KeyOf(file[k]) = k /\ Admitted(file[k])

RegInv ==
    /\ TypeOK /\ now <= high
    /\ LockOwner /\ DownIdle
    /\ VisibleIsDurable /\ OnlyPending /\ TmpComplete
    /\ Vetted /\ StoredAdmitted

-----------------------------------------------------------------------------
(* Facts about the operators.                                              *)

\* A request passes the screen only with a body that is accepted.
LEMMA ScreenPass ==
    ASSUME NEW p \in Principals, NEW v \in Inputs \cup {NoRecord}, NEW t \in Nat,
           Screen(p, v, t) = Pass
    PROVE  /\ RequireScope(p, Scope) = Pass
           /\ v \in Inputs /\ v # NoRecord /\ Accept(v, t)
<1>1. Pass # BadRequest
  BY DEF Pass, BadRequest
<1>2. QED
  BY <1>1, Zenon DEF Screen

\* The statuses of a request that does not pass.
LEMMA ScreenCodes ==
    ASSUME NEW p \in Principals, NEW v \in Inputs \cup {NoRecord}, NEW t \in Nat
    PROVE  Screen(p, v, t) \in {Pass, BadRequest, Unauthorized, Forbidden}
  BY DEF Screen, RequireScope, Pass, BadRequest, Forbidden, Unauthorized

-----------------------------------------------------------------------------
\* The empty registry satisfies the invariant.
LEMMA RegInitInv == RegInit => RegInv
<1> SUFFICES ASSUME RegInit PROVE RegInv
  OBVIOUS
<1>1. TypeOK /\ now <= high
  BY MaxTimeType DEF RegInit, TypeOK, Contents, Empty
<1>2. LockOwner /\ DownIdle /\ VisibleIsDurable /\ OnlyPending /\ TmpComplete
  BY FreeNew DEF RegInit, LockOwner, DownIdle, VisibleIsDurable, OnlyPending,
     TmpComplete, Writing
<1>3. Vetted /\ StoredAdmitted
  BY DEF RegInit, Vetted, StoredAdmitted, Writing, Empty
<1>4. QED
  BY <1>1, <1>2, <1>3 DEF RegInv

\* The clock: what was admitted stays so.
LEMMA ClockInv ==
    ASSUME RegInv, Tick \/ StepBack
    PROVE  RegInv'
<1>1. UNCHANGED <<status, mem, lock, prev, file, tmp, pc, rec, code>>
  BY DEF Tick, StepBack, disk, requests
<1>2. /\ now' \in 1 .. MaxTime /\ high' \in 1 .. MaxTime
      /\ now' <= high' /\ 1 .. high \subseteq 1 .. high'
  BY MaxTimeType DEF Tick, StepBack, RegInv, TypeOK
<1>3. TypeOK'
  BY <1>1, <1>2 DEF RegInv, TypeOK
<1>4. LockOwner' /\ DownIdle' /\ VisibleIsDurable' /\ OnlyPending' /\ TmpComplete'
  BY <1>1 DEF RegInv, LockOwner, DownIdle, VisibleIsDurable, OnlyPending, TmpComplete
<1>5. ASSUME NEW r, Admitted(r) PROVE Admitted(r)'
  BY <1>2, <1>5 DEF Admitted
<1>6. Vetted' /\ StoredAdmitted'
  BY <1>1, <1>5 DEF RegInv, Vetted, StoredAdmitted
<1>7. QED
  BY <1>2, <1>3, <1>4, <1>6 DEF RegInv

\* Receive: what passes the screen is admitted.
LEMMA ReceiveInv ==
    ASSUME RegInv, NEW w \in Writers, Receive(w)
    PROVE  RegInv'
<1>1. PICK p \in Principals, v \in Inputs \cup {NoRecord} :
         \/ /\ Screen(p, v, now) = Pass
            /\ rec' = [rec EXCEPT ![w] = Normalize(v, now)]
            /\ pc' = [pc EXCEPT ![w] = "wait"]
            /\ UNCHANGED code
         \/ /\ Screen(p, v, now) # Pass
            /\ Answer(w, Screen(p, v, now))
            /\ UNCHANGED rec
  BY Zenon DEF Receive
<1>2. /\ status = "up" /\ pc[w] = "idle"
      /\ UNCHANGED <<now, high, status, mem, lock, prev, file, tmp>>
  BY DEF Receive, clock, disk
<1>3. now \in Nat /\ now \in 1 .. MaxTime /\ now \in 1 .. high
  BY MaxTimeType DEF RegInv, TypeOK
<1>4. StoredAdmitted' /\ now' <= high'
  BY <1>2 DEF RegInv, StoredAdmitted, Admitted
<1>5. CASE Screen(p, v, now) = Pass
  <2>1. /\ rec' = [rec EXCEPT ![w] = Normalize(v, now)]
        /\ pc' = [pc EXCEPT ![w] = "wait"] /\ code' = code
    BY <1>1, <1>5
  <2>2. Normalize(v, now) \in Records /\ Admitted(Normalize(v, now))
    BY <1>3, <1>5, ScreenPass, NormalizeType DEF Admitted
  <2>3. TypeOK'
    BY <1>2, <2>1, <2>2 DEF RegInv, TypeOK
  <2>4. LockOwner' /\ DownIdle' /\ VisibleIsDurable' /\ OnlyPending' /\ TmpComplete'
    BY <1>2, <2>1 DEF RegInv, TypeOK, LockOwner, DownIdle, VisibleIsDurable,
       OnlyPending, TmpComplete, Writing
  <2>5. Vetted'
    BY <1>2, <2>1, <2>2 DEF RegInv, TypeOK, Vetted, Admitted, Writing
  <2>6. QED
    BY <1>4, <2>3, <2>4, <2>5 DEF RegInv
<1>6. CASE Screen(p, v, now) # Pass
  <2>1. /\ pc' = [pc EXCEPT ![w] = "reply"] /\ rec' = rec
        /\ code' = [code EXCEPT ![w] = Screen(p, v, now)]
    BY <1>1, <1>6 DEF Answer
  <2>2. Screen(p, v, now) \in {BadRequest, Unauthorized, Forbidden}
    BY <1>3, <1>6, ScreenCodes
  <2>3. Screen(p, v, now) # Created
    BY <2>2 DEF Created, BadRequest, Unauthorized, Forbidden
  <2>4. TypeOK'
    BY <1>2, <2>1, <2>2 DEF RegInv, TypeOK
  <2>5. LockOwner' /\ DownIdle' /\ VisibleIsDurable' /\ OnlyPending' /\ TmpComplete'
    BY <1>2, <2>1 DEF RegInv, TypeOK, LockOwner, DownIdle, VisibleIsDurable,
       OnlyPending, TmpComplete, Writing
  <2>6. Vetted'
    BY <1>2, <2>1, <2>3 DEF RegInv, TypeOK, Vetted, Admitted, Writing
  <2>7. QED
    BY <1>4, <2>4, <2>5, <2>6 DEF RegInv
<1>7. QED
  BY <1>5, <1>6

\* Acquire: the record enters the map under the mutex, the one it replaces is
\* remembered.
LEMMA AcquireInv ==
    ASSUME RegInv, NEW w \in Writers, Acquire(w)
    PROVE  RegInv'
<1>1. /\ pc[w] = "wait" /\ lock = Free /\ lock' = w
      /\ prev' = mem[KeyOf(rec[w])]
      /\ mem' = [mem EXCEPT ![KeyOf(rec[w])] = rec[w]]
      /\ pc' = [pc EXCEPT ![w] = "open"]
      /\ UNCHANGED <<now, high, status, file, tmp, rec, code>>
  BY DEF Acquire, clock, disk
<1>2. mem = file /\ status = "up"
  BY <1>1 DEF RegInv, DownIdle, VisibleIsDurable
<1>3. rec[w] \in Records /\ KeyOf(rec[w]) \in Keys
  BY <1>1, KeyOfType DEF RegInv, Vetted
<1>4. \A x \in Writers : pc[x] \notin Writing
  BY <1>1, FreeNew DEF RegInv, LockOwner
<1>5. StoredAdmitted' /\ now' <= high'
  BY <1>1 DEF RegInv, StoredAdmitted, Admitted
<1>6. TypeOK'
  BY <1>1, <1>3 DEF RegInv, TypeOK, Contents
<1>7. LockOwner' /\ DownIdle' /\ VisibleIsDurable'
  BY <1>1, <1>2, <1>4, FreeNew DEF RegInv, TypeOK, LockOwner, DownIdle,
     VisibleIsDurable, Writing
<1>8. OnlyPending' /\ TmpComplete'
  BY <1>1, <1>2, <1>4 DEF RegInv, TypeOK, OnlyPending, TmpComplete, Writing
<1>9. Vetted'
  BY <1>1 DEF RegInv, TypeOK, Vetted, Admitted, Writing
<1>10. QED
  BY <1>5, <1>6, <1>7, <1>8, <1>9 DEF RegInv

\* OpenTmp and WriteTmp touch the temporary file only.
LEMMA WriteTmpInv ==
    ASSUME RegInv, NEW w \in Writers, OpenTmp(w) \/ WriteTmp(w)
    PROVE  RegInv'
<1>1. /\ UNCHANGED <<now, high, status, mem, lock, prev, file, rec, code>>
      /\ \/ pc[w] = "open" /\ tmp' = Torn /\ pc' = [pc EXCEPT ![w] = "write"]
         \/ pc[w] = "write" /\ tmp' = mem /\ pc' = [pc EXCEPT ![w] = "rename"]
  BY DEF OpenTmp, WriteTmp, clock
<1>2. pc[w] \in Writing /\ lock = w
  BY <1>1 DEF RegInv, LockOwner, Writing
<1>3. \A x \in Writers : x # w => pc[x] \notin Writing
  BY <1>2 DEF RegInv, LockOwner
<1>4. TypeOK' /\ now' <= high'
  BY <1>1 DEF RegInv, TypeOK
<1>5. LockOwner' /\ DownIdle' /\ VisibleIsDurable'
  BY <1>1, <1>2, <1>3 DEF RegInv, TypeOK, LockOwner, DownIdle, VisibleIsDurable, Writing
<1>6. OnlyPending' /\ TmpComplete'
  BY <1>1, <1>2, <1>3 DEF RegInv, TypeOK, OnlyPending, TmpComplete, Writing
<1>7. Vetted' /\ StoredAdmitted'
  BY <1>1, <1>2 DEF RegInv, TypeOK, Vetted, StoredAdmitted, Admitted, Writing
<1>8. QED
  BY <1>4, <1>5, <1>6, <1>7 DEF RegInv

\* A rename replaces the record of one key, and of no other, in the file.
LEMMA RenameReplaces ==
    ASSUME RegInv, NEW w \in Writers, Rename(w)
    PROVE  /\ file' = [file EXCEPT ![KeyOf(rec[w])] = rec[w]]
           /\ rec[w] \in Records /\ KeyOf(rec[w]) \in Keys /\ Admitted(rec[w])
           /\ mem = file' /\ status = "up" /\ lock = w
<1>1. pc[w] = "rename" /\ file' = tmp
  BY DEF Rename
<1>2. tmp = mem /\ mem = [file EXCEPT ![KeyOf(rec[w])] = rec[w]]
  BY <1>1 DEF RegInv, TmpComplete, OnlyPending, Writing
<1>3. rec[w] \in Records /\ KeyOf(rec[w]) \in Keys /\ Admitted(rec[w])
  BY <1>1, KeyOfType DEF RegInv, Vetted, Writing
<1>4. status = "up" /\ lock = w
  BY <1>1 DEF RegInv, DownIdle, LockOwner, Writing
<1>5. QED
  BY <1>1, <1>2, <1>3, <1>4

\* Rename: the file takes over the map.
LEMMA RenameInv ==
    ASSUME RegInv, NEW w \in Writers, Rename(w)
    PROVE  RegInv'
<1>1. /\ pc[w] = "rename" /\ tmp' = Empty /\ lock' = Free /\ prev' = NoRecord
      /\ pc' = [pc EXCEPT ![w] = "reply"] /\ code' = [code EXCEPT ![w] = Created]
      /\ UNCHANGED <<now, high, status, mem, rec>>
  BY DEF Rename, Answer, clock
<1>2. /\ file' = [file EXCEPT ![KeyOf(rec[w])] = rec[w]]
      /\ rec[w] \in Records /\ KeyOf(rec[w]) \in Keys /\ Admitted(rec[w])
      /\ mem = file' /\ lock = w
  BY RenameReplaces
<1>3. \A x \in Writers : x # w => pc[x] \notin Writing
  BY <1>2 DEF RegInv, LockOwner
<1>4. TypeOK' /\ now' <= high'
  BY <1>1, <1>2 DEF RegInv, TypeOK, Contents, Empty
<1>5. LockOwner' /\ DownIdle' /\ VisibleIsDurable' /\ OnlyPending' /\ TmpComplete'
  BY <1>1, <1>2, <1>3, FreeNew DEF RegInv, TypeOK, LockOwner, DownIdle,
     VisibleIsDurable, OnlyPending, TmpComplete, Writing
<1>6. Vetted'
  BY <1>1, <1>2 DEF RegInv, TypeOK, Vetted, Admitted, Writing
<1>7. StoredAdmitted'
  <2>1. SUFFICES ASSUME NEW k \in Keys, file'[k] # NoRecord
                 PROVE  KeyOf(file'[k]) = k /\ Admitted(file'[k])
    BY <1>1 DEF StoredAdmitted, Admitted
  <2>2. file \in [Keys -> Records \cup {NoRecord}]
    BY DEF RegInv, TypeOK, Contents
  <2>3. CASE k = KeyOf(rec[w])
    <3>1. file'[k] = rec[w]
      BY <1>2, <2>2, <2>3
    <3>2. QED
      BY <1>2, <2>3, <3>1
  <2>4. CASE k # KeyOf(rec[w])
    <3>1. file'[k] = file[k]
      BY <1>2, <2>2, <2>4
    <3>2. QED
      BY <2>1, <3>1 DEF RegInv, StoredAdmitted
  <2>5. QED
    BY <2>3, <2>4
<1>8. QED
  BY <1>4, <1>5, <1>6, <1>7 DEF RegInv

\* A failed write restores memory to the file.
LEMMA PersistFailsInv ==
    ASSUME RegInv, NEW w \in Writers, PersistFails(w)
    PROVE  RegInv'
<1>1. /\ pc[w] \in Writing
      /\ mem' = [mem EXCEPT ![KeyOf(rec[w])] = prev] /\ lock' = Free /\ prev' = NoRecord
      /\ pc' = [pc EXCEPT ![w] = "reply"] /\ code' = [code EXCEPT ![w] = BadRequest]
      /\ UNCHANGED <<now, high, status, file, tmp, rec>>
  BY DEF PersistFails, Answer, clock, disk, Writing
<1>2. lock = w /\ \A x \in Writers : x # w => pc[x] \notin Writing
  BY <1>1 DEF RegInv, LockOwner
<1>3. mem' = file
  <2>1. /\ prev = file[KeyOf(rec[w])]
        /\ mem = [file EXCEPT ![KeyOf(rec[w])] = rec[w]]
        /\ file \in [Keys -> Records \cup {NoRecord}]
    BY <1>1 DEF RegInv, OnlyPending, TypeOK, Contents
  <2>2. QED
    BY <1>1, <2>1
<1>4. TypeOK' /\ now' <= high'
  BY <1>1, <1>3 DEF RegInv, TypeOK
<1>5. LockOwner' /\ DownIdle' /\ VisibleIsDurable' /\ OnlyPending' /\ TmpComplete'
  BY <1>1, <1>2, <1>3, FreeNew DEF RegInv, TypeOK, LockOwner, DownIdle,
     VisibleIsDurable, OnlyPending, TmpComplete, Writing
<1>6. Vetted'
  <2>1. BadRequest # Created
    BY DEF BadRequest, Created
  <2>2. QED
    BY <1>1, <2>1 DEF RegInv, TypeOK, Vetted, Admitted, Writing
<1>7. StoredAdmitted'
  BY <1>1 DEF RegInv, StoredAdmitted, Admitted
<1>8. QED
  BY <1>4, <1>5, <1>6, <1>7 DEF RegInv

\* Reply ends a request and touches no map.
LEMMA ReplyInv ==
    ASSUME RegInv, NEW w \in Writers, Reply(w)
    PROVE  RegInv'
<1>1. /\ pc[w] = "reply"
      /\ pc' = [pc EXCEPT ![w] = "idle"] /\ rec' = [rec EXCEPT ![w] = NoRecord]
      /\ code' = [code EXCEPT ![w] = 0]
      /\ UNCHANGED <<now, high, status, mem, lock, prev, file, tmp>>
  BY DEF Reply, clock, disk
<1>2. TypeOK' /\ now' <= high'
  BY <1>1 DEF RegInv, TypeOK
<1>3. LockOwner' /\ DownIdle' /\ VisibleIsDurable' /\ OnlyPending' /\ TmpComplete'
  BY <1>1 DEF RegInv, TypeOK, LockOwner, DownIdle, VisibleIsDurable, OnlyPending,
     TmpComplete, Writing
<1>4. Vetted' /\ StoredAdmitted'
  BY <1>1 DEF RegInv, TypeOK, Vetted, StoredAdmitted, Admitted, Writing
<1>5. QED
  BY <1>2, <1>3, <1>4 DEF RegInv

\* Crash and Start: the map is lost with the process and read back.
LEMMA ProcessInv ==
    ASSUME RegInv, RegCrash \/ Start
    PROVE  RegInv'
<1>1. UNCHANGED <<now, high, file, tmp>>
  BY DEF RegCrash, Start, clock, disk
<1>2. StoredAdmitted' /\ now' <= high'
  BY <1>1 DEF RegInv, StoredAdmitted, Admitted
<1>3. CASE RegCrash
  <2>1. TypeOK'
    BY <1>1, <1>3 DEF RegCrash, RegInv, TypeOK, Empty, Contents
  <2>2. LockOwner' /\ DownIdle' /\ VisibleIsDurable' /\ OnlyPending' /\ TmpComplete'
    BY <1>3, FreeNew DEF RegCrash, LockOwner, DownIdle, VisibleIsDurable, OnlyPending,
       TmpComplete, Writing
  <2>3. Vetted'
    BY <1>3 DEF RegCrash, Vetted, Writing
  <2>4. QED
    BY <1>2, <2>1, <2>2, <2>3 DEF RegInv
<1>4. CASE Start
  <2>1. /\ status # "up" /\ UNCHANGED <<lock, prev, pc, rec, code>>
        /\ \/ status' = "up" /\ mem' = file
           \/ status' = "refused" /\ mem' = mem
    BY <1>4 DEF Start, requests
  <2>2. \A w \in Writers : pc[w] = "idle"
    BY <2>1 DEF RegInv, DownIdle
  <2>3. TypeOK'
    BY <1>1, <2>1 DEF RegInv, TypeOK
  <2>4. LockOwner' /\ DownIdle' /\ VisibleIsDurable' /\ OnlyPending' /\ TmpComplete'
    BY <1>1, <2>1, <2>2 DEF RegInv, LockOwner, DownIdle, VisibleIsDurable, OnlyPending,
       TmpComplete, Writing
  <2>5. Vetted'
    BY <2>1, <2>2 DEF Vetted, Writing
  <2>6. QED
    BY <1>2, <2>3, <2>4, <2>5 DEF RegInv
<1>5. QED
  BY <1>3, <1>4

\* Every step of the registry, a crash and stuttering included, preserves the
\* invariant.
LEMMA RegNextInv == RegInv /\ (RegStep \/ RegCrash \/ UNCHANGED regvars) => RegInv'
<1> SUFFICES ASSUME RegInv, RegStep \/ RegCrash \/ UNCHANGED regvars PROVE RegInv'
  OBVIOUS
<1>1. CASE RegStep
  BY <1>1, ClockInv, ReceiveInv, AcquireInv, WriteTmpInv, RenameInv, PersistFailsInv,
     ReplyInv, ProcessInv, Zenon DEF RegStep, Persist
<1>2. CASE RegCrash
  BY <1>2, ProcessInv
<1>3. CASE UNCHANGED regvars
  BY <1>3 DEF regvars, RegInv, TypeOK, LockOwner, DownIdle, VisibleIsDurable,
     OnlyPending, TmpComplete, Vetted, StoredAdmitted, Admitted
<1>4. QED
  BY <1>1, <1>2, <1>3

-----------------------------------------------------------------------------
(* Steps that matter to the durable map.                                   *)

\* Only a rename changes the file.
LEMMA OnlyRenameWrites ==
    ASSUME RegStep \/ RegCrash \/ UNCHANGED regvars, file' # file
    PROVE  \E w \in Writers : Rename(w)
<1>1. UNCHANGED regvars => file' = file
  BY DEF regvars
<1>2. Tick \/ StepBack \/ RegCrash \/ Start => file' = file
  BY DEF Tick, StepBack, RegCrash, Start, disk
<1>3. \A w \in Writers : Receive(w) \/ Acquire(w) \/ Reply(w) => file' = file
  BY DEF Receive, Acquire, Reply, disk
<1>4. \A w \in Writers : OpenTmp(w) \/ WriteTmp(w) \/ PersistFails(w) => file' = file
  BY DEF OpenTmp, WriteTmp, PersistFails, disk
<1>5. QED
  BY <1>1, <1>2, <1>3, <1>4, Zenon DEF RegStep, Persist

\* A running process stays up in every step but a crash.
LEMMA StaysUp ==
    ASSUME RegStep, status = "up"
    PROVE  status' = "up"
<1>1. Tick \/ StepBack => status' = status
  BY DEF Tick, StepBack
<1>2. \A w \in Writers : Receive(w) \/ Acquire(w) \/ Persist(w) \/ Reply(w)
                            => status' = status
  BY DEF Receive, Acquire, Persist, OpenTmp, WriteTmp, Rename, PersistFails, Reply
<1>3. ~Start
  BY DEF Start
<1>4. QED
  BY <1>1, <1>2, <1>3, Zenon DEF RegStep

\* Only Start refuses to run, and only because of the file.
LEMMA OnlyStartRefuses ==
    ASSUME RegStep \/ RegCrash \/ UNCHANGED regvars,
           status # "refused", status' = "refused"
    PROVE  ~Loadable(file, now)
<1>1. UNCHANGED regvars => status' = status
  BY DEF regvars
<1>2. RegCrash => status' = "down"
  BY DEF RegCrash
<1>3. Tick \/ StepBack => status' = status
  BY DEF Tick, StepBack
<1>4. \A w \in Writers : Receive(w) \/ Acquire(w) \/ Persist(w) \/ Reply(w)
                            => status' = status
  BY DEF Receive, Acquire, Persist, OpenTmp, WriteTmp, Rename, PersistFails, Reply
<1>5. "down" # "refused"
  OBVIOUS
<1>6. Start
  BY <1>1, <1>2, <1>3, <1>4, <1>5, Zenon DEF RegStep
<1>7. QED
  BY <1>6 DEF Start

\* A file that would not load holds an admitted record that Reload refuses now.
LEMMA RefusedForARecord ==
    ASSUME RegInv, ~Loadable(file, now)
    PROVE  \E k \in Keys : /\ file[k] # NoRecord /\ file[k] \in Records
                           /\ Admitted(file[k]) /\ ~Reload(file[k], now)
<1>1. file # Torn /\ file \in [Keys -> Records \cup {NoRecord}]
  BY TornNew DEF RegInv, TypeOK, Contents
<1>2. PICK k \in Keys : file[k] # NoRecord /\ ~Reload(file[k], now)
  BY <1>1 DEF Loadable
<1>3. QED
  BY <1>1, <1>2 DEF RegInv, StoredAdmitted

\* What a writer is to be told of changes only in the two steps that the
\* abstract map has for it, and in a crash.
LEMMA DueUnchanged ==
    ASSUME RegInv, NEW w \in Writers, NEW c, pc' = [pc EXCEPT ![w] = c],
           \/ c # "reply" /\ code' = code
           \/ \E d : d # Created /\ code' = [code EXCEPT ![w] = d],
           pc[w] # "reply" \/ code[w] # Created,
           \A x \in Writers : x # w => rec'[x] = rec[x]
    PROVE  Due' = Due
<1>1. \A x \in Writers :
        (IF pc'[x] = "reply" /\ code'[x] = Created THEN rec'[x] ELSE NoRecord)
          = (IF pc[x] = "reply" /\ code[x] = Created THEN rec[x] ELSE NoRecord)
  BY DEF RegInv, TypeOK
<1>2. QED
  BY <1>1 DEF Due

\* Every step of the registry is a step of the durable map, or leaves it alone.
LEMMA RegRefines ==
    ASSUME RegInv, RegStep \/ RegCrash \/ UNCHANGED regvars
    PROVE  [Promise!Next]_<<file, Due>>
<1>1. CASE Tick \/ StepBack \/ Start \/ UNCHANGED regvars
  BY <1>1 DEF Tick, StepBack, Start, regvars, disk, requests, Due
<1>2. CASE RegCrash
  <2>1. Due' = [w \in Writers |-> NoRecord] /\ file' = file
    BY <1>2 DEF RegCrash, Due, disk
  <2>2. QED
    BY <2>1 DEF Promise!Next, Promise!Forget
<1>3. ASSUME NEW w \in Writers, Receive(w) \/ Acquire(w) \/ OpenTmp(w) \/ WriteTmp(w)
                                  \/ PersistFails(w)
      PROVE  UNCHANGED <<file, Due>>
  <2>1. file' = file
    BY <1>3 DEF Receive, Acquire, OpenTmp, WriteTmp, PersistFails, disk
  <2>2. CASE Receive(w)
    <3>1. PICK p \in Principals, v \in Inputs \cup {NoRecord} :
             \/ /\ Screen(p, v, now) = Pass
                /\ rec' = [rec EXCEPT ![w] = Normalize(v, now)]
                /\ pc' = [pc EXCEPT ![w] = "wait"]
                /\ UNCHANGED code
             \/ /\ Screen(p, v, now) # Pass
                /\ Answer(w, Screen(p, v, now))
                /\ UNCHANGED rec
      BY <2>2, Zenon DEF Receive
    <3>2. Screen(p, v, now) # Created
      <4>1. now \in Nat
        BY MaxTimeType DEF RegInv, TypeOK
      <4>2. QED
        BY <4>1, ScreenCodes DEF Created, Pass, BadRequest, Unauthorized, Forbidden
    <3>3. pc[w] = "idle"
      BY <2>2 DEF Receive
    <3>4. \A x \in Writers : x # w => rec'[x] = rec[x]
      BY <3>1 DEF RegInv, TypeOK
    <3>5. QED
      BY <2>1, <3>1, <3>2, <3>3, <3>4, DueUnchanged DEF Answer
  <2>3. CASE Acquire(w) \/ OpenTmp(w) \/ WriteTmp(w)
    <3>1. /\ pc[w] # "reply" /\ code' = code /\ rec' = rec
          /\ \E c \in {"open", "write", "rename"} : pc' = [pc EXCEPT ![w] = c]
      BY <2>3 DEF Acquire, OpenTmp, WriteTmp
    <3>2. QED
      BY <2>1, <3>1, DueUnchanged
  <2>4. CASE PersistFails(w)
    <3>1. /\ pc[w] # "reply" /\ rec' = rec /\ pc' = [pc EXCEPT ![w] = "reply"]
          /\ code' = [code EXCEPT ![w] = BadRequest]
      BY <2>4 DEF PersistFails, Answer
    <3>2. BadRequest # Created
      BY DEF BadRequest, Created
    <3>3. QED
      BY <2>1, <3>1, <3>2, DueUnchanged
  <2>5. QED
    BY <1>3, <2>2, <2>3, <2>4
<1>4. ASSUME NEW w \in Writers, Rename(w) PROVE Promise!Replace(w, rec[w]) /\ rec[w] \in Records
  <2>1. /\ file' = [file EXCEPT ![KeyOf(rec[w])] = rec[w]] /\ rec[w] \in Records
    BY <1>4, RenameReplaces
  <2>2. /\ pc[w] = "rename" /\ rec' = rec /\ pc' = [pc EXCEPT ![w] = "reply"]
        /\ code' = [code EXCEPT ![w] = Created]
    BY <1>4 DEF Rename, Answer
  <2>3. Due[w] = NoRecord
    BY <2>2 DEF Due
  <2>4. Due' = [Due EXCEPT ![w] = rec[w]]
    BY <2>2 DEF Due, RegInv, TypeOK
  <2>5. QED
    BY <2>1, <2>3, <2>4 DEF Promise!Replace
<1>5. ASSUME NEW w \in Writers, Reply(w) PROVE Promise!Acknowledge(w) \/ UNCHANGED <<file, Due>>
  <2>1. /\ pc[w] = "reply" /\ file' = file
        /\ pc' = [pc EXCEPT ![w] = "idle"] /\ rec' = [rec EXCEPT ![w] = NoRecord]
        /\ code' = [code EXCEPT ![w] = 0]
    BY <1>5 DEF Reply, disk
  <2>2. CASE code[w] = Created
    <3>1. Due[w] = rec[w] /\ rec[w] \in Records
      BY <2>1, <2>2 DEF Due, RegInv, Vetted
    <3>2. Due' = [Due EXCEPT ![w] = NoRecord]
      BY <2>1 DEF Due, RegInv, TypeOK
    <3>3. QED
      BY <2>1, <3>1, <3>2, NoRecordNew DEF Promise!Acknowledge
  <2>3. CASE code[w] # Created
    <3>1. 0 # Created /\ \A x \in Writers : x # w => rec'[x] = rec[x]
      BY <2>1 DEF Created, RegInv, TypeOK
    <3>2. QED
      BY <2>1, <2>3, <3>1, DueUnchanged
  <2>4. QED
    BY <2>2, <2>3
<1>6. QED
  BY <1>1, <1>2, <1>3, <1>4, <1>5, Zenon DEF RegStep, Persist, Promise!Next
=============================================================================
