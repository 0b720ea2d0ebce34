--------------------------- MODULE LatestRegistry ---------------------------
(***************************************************************************)
(* The registry that three components share line for line: runtime         *)
(* contract evidence and source attestations (internal/contracts) and      *)
(* recovery evidence (internal/governance).  Each keeps the latest record  *)
(* per key in a map behind one mutex and rewrites its whole file on every  *)
(* Record.  The components differ in what they validate, which is a        *)
(* parameter here: Accept says which submissions are valid at a time,      *)
(* Normalize what is stored of one, Reload which stored records are valid  *)
(* when the file is read back.                                             *)
(*                                                                         *)
(* As in EnvelopeRegistry, the gate and the validation run before the      *)
(* mutex is taken, the file is replaced by a rename, every step of         *)
(* persistLocked may fail, and a crash may fall between any two steps.     *)
(***************************************************************************)
EXTENDS Access

CONSTANTS Keys,             \* platforms or recovery dimensions
          Inputs,           \* request bodies that decode
          Records,          \* records a registry may hold
          KeyOf(_),         \* the key of a record
          Accept(_, _),     \* Accept(v, t): submission v is valid at time t
          Normalize(_, _),  \* Normalize(v, t): what is stored of it
          Reload(_, _),     \* Reload(v, t): stored record v is valid at time t
          Scope,            \* the scope the route requires
          Principals,       \* what the verifier makes of a bearer token
          Writers,          \* concurrent POST handlers
          MaxTime,          \* bound on the wall clock
          NoRecord,         \* absent map entry, and a body that does not decode
          Free,             \* the mutex is not held
          Torn              \* a partially written file

Contents == [Keys -> Records \cup {NoRecord}]

ASSUME PrincipalsType == Principals \subseteq Principal
ASSUME MaxTimeType    == MaxTime \in Nat \ {0}
ASSUME KeyOfType      == \A v \in Records : KeyOf(v) \in Keys
ASSUME NormalizeType  == \A v \in Inputs, t \in 1 .. MaxTime :
                            Accept(v, t) => Normalize(v, t) \in Records
ASSUME NoRecordNew    == NoRecord \notin Records
ASSUME FreeNew        == Free \notin Writers
ASSUME TornNew        == Torn \notin Contents

VARIABLES
    now,       \* the wall clock
    high,      \* the highest value the wall clock has had
    status,    \* the process: "up", "down" or "refused" (startup failed)
    mem,       \* the registry's map
    lock,      \* the writer holding the registry's mutex, or Free
    prev,      \* the record the lock holder replaced (previous, hadPrevious)
    file,      \* the file at the registry's path
    tmp,       \* the file at the registry's path plus ".tmp"
    pc,        \* progress of each writer
    rec,       \* the record a writer works on
    code       \* the status a writer is about to answer, 0 before that

clock    == <<now, high>>
disk     == <<file, tmp>>
requests == <<pc, rec, code>>
regvars  == <<now, high, status, mem, lock, prev, file, tmp, pc, rec, code>>

Empty == [k \in Keys |-> NoRecord]

-----------------------------------------------------------------------------
RegInit ==
    /\ now = 1 /\ high = 1
    /\ status = "up"
    /\ mem = Empty
    /\ lock = Free /\ prev = NoRecord
    /\ file = Empty          \* no file yet, which loads as the empty map
    /\ tmp = Empty
    /\ pc = [w \in Writers |-> "idle"]
    /\ rec = [w \in Writers |-> NoRecord]
    /\ code = [w \in Writers |-> 0]

Tick ==
    /\ now < MaxTime
    /\ now' = now + 1
    /\ high' = IF now' > high THEN now' ELSE high
    /\ UNCHANGED <<status, mem, lock, prev, disk, requests>>

StepBack ==
    /\ \E t \in 1 .. (now - 1) : now' = t
    /\ UNCHANGED <<high, status, mem, lock, prev, disk, requests>>

-----------------------------------------------------------------------------
(* The recording handlers and Record.                                      *)

Answer(w, c) ==
    /\ pc' = [pc EXCEPT ![w] = "reply"]
    /\ code' = [code EXCEPT ![w] = c]

\* requireScope, decodeJSON and the validation at the head of Record: the
\* status of the first check that fails, or Pass.
Screen(p, v, t) ==
    IF RequireScope(p, Scope) # Pass THEN RequireScope(p, Scope)
    ELSE IF v = NoRecord THEN BadRequest
    ELSE IF ~Accept(v, t) THEN BadRequest
    ELSE Pass

Receive(w) ==
    /\ status = "up"
    /\ pc[w] = "idle"
    /\ \E p \in Principals, v \in Inputs \cup {NoRecord} :
         \/ /\ Screen(p, v, now) = Pass
            /\ rec' = [rec EXCEPT ![w] = Normalize(v, now)]
            /\ pc' = [pc EXCEPT ![w] = "wait"]
            /\ UNCHANGED code
         \/ /\ Screen(p, v, now) # Pass
            /\ Answer(w, Screen(p, v, now))
            /\ UNCHANGED rec
    /\ UNCHANGED <<clock, status, mem, lock, prev, disk>>

\* Mutant: the mutex is released before the map is persisted.
AcquireAndRelease(w) ==
    /\ pc[w] = "wait"
    /\ lock = Free
    /\ prev' = mem[KeyOf(rec[w])]
    /\ mem' = [mem EXCEPT ![KeyOf(rec[w])] = rec[w]]
    /\ pc' = [pc EXCEPT ![w] = "open"]
    /\ UNCHANGED <<clock, status, lock, disk, rec, code>>

\* Record takes the mutex, remembers the record it replaces and puts its own
\* into the map.
Acquire(w) ==
    /\ pc[w] = "wait"
    /\ lock = Free
    /\ lock' = w
    /\ prev' = mem[KeyOf(rec[w])]
    /\ mem' = [mem EXCEPT ![KeyOf(rec[w])] = rec[w]]
    /\ pc' = [pc EXCEPT ![w] = "open"]
    /\ UNCHANGED <<clock, status, disk, rec, code>>

\* persistLocked: os.WriteFile truncates the temporary file...
OpenTmp(w) ==
    /\ pc[w] = "open"
    /\ tmp' = Torn
    /\ pc' = [pc EXCEPT ![w] = "write"]
    /\ UNCHANGED <<clock, status, mem, lock, prev, file, rec, code>>

\* ...and completes it.
WriteTmp(w) ==
    /\ pc[w] = "write"
    /\ tmp' = mem
    /\ pc' = [pc EXCEPT ![w] = "rename"]
    /\ UNCHANGED <<clock, status, mem, lock, prev, file, rec, code>>

\* os.Rename replaces the file; Record unlocks and returns.
Rename(w) ==
    /\ pc[w] = "rename"
    /\ file' = tmp
    /\ tmp' = Empty
    /\ lock' = Free
    /\ prev' = NoRecord
    /\ Answer(w, Created)
    /\ UNCHANGED <<clock, status, mem, rec>>

\* Mutant: the replaced record is forgotten.
PersistFailsDeleting(w) ==
    /\ pc[w] \in {"open", "write", "rename"}
    /\ mem' = [mem EXCEPT ![KeyOf(rec[w])] = NoRecord]
    /\ lock' = Free /\ prev' = NoRecord
    /\ Answer(w, BadRequest)
    /\ UNCHANGED <<clock, status, disk, rec>>

\* Mutant: the error is ignored.
PersistFailsUnreported(w) ==
    /\ pc[w] \in {"open", "write", "rename"}
    /\ lock' = Free /\ prev' = NoRecord
    /\ Answer(w, Created)
    /\ UNCHANGED <<clock, status, mem, disk, rec>>

\* Mutant: the error path does not unlock.
PersistFailsLocked(w) ==
    /\ pc[w] \in {"open", "write", "rename"}
    /\ mem' = [mem EXCEPT ![KeyOf(rec[w])] = prev]
    /\ prev' = NoRecord
    /\ Answer(w, BadRequest)
    /\ UNCHANGED <<clock, status, lock, disk, rec>>

\* Any call of persistLocked may return an error: the replaced record comes
\* back, or the entry goes if there was none.
PersistFails(w) ==
    /\ pc[w] \in {"open", "write", "rename"}
    /\ mem' = [mem EXCEPT ![KeyOf(rec[w])] = prev]
    /\ lock' = Free /\ prev' = NoRecord
    /\ Answer(w, BadRequest)
    /\ UNCHANGED <<clock, status, disk, rec>>

\* The handler writes its response.
Reply(w) ==
    /\ pc[w] = "reply"
    /\ pc' = [pc EXCEPT ![w] = "idle"]
    /\ rec' = [rec EXCEPT ![w] = NoRecord]
    /\ code' = [code EXCEPT ![w] = 0]
    /\ UNCHANGED <<clock, status, mem, lock, prev, disk>>

-----------------------------------------------------------------------------
(* The process.                                                            *)

RegCrash ==
    /\ status = "up"
    /\ status' = "down"
    /\ mem' = Empty
    /\ lock' = Free /\ prev' = NoRecord
    /\ pc' = [w \in Writers |-> "idle"]
    /\ rec' = [w \in Writers |-> NoRecord]
    /\ code' = [w \in Writers |-> 0]
    /\ UNCHANGED <<clock, disk>>

\* Mutant: a record accepted at this very moment is not valid yet.
LoadableBefore(f, t) ==
    /\ f # Torn
    /\ \A k \in Keys : f[k] # NoRecord => Reload(f[k], t - 1)

\* The loading constructor accepts the file.
Loadable(f, t) ==
    /\ f # Torn
    /\ \A k \in Keys : f[k] # NoRecord => Reload(f[k], t)

\* main loads the registry or exits with status 1, and may be started again.
Start ==
    /\ status \in {"down", "refused"}
    /\ \/ /\ Loadable(file, now)
          /\ status' = "up"
          /\ mem' = file
       \/ /\ ~Loadable(file, now)
          /\ status' = "refused"
          /\ UNCHANGED mem
    /\ UNCHANGED <<clock, lock, prev, disk, requests>>

-----------------------------------------------------------------------------
Persist(w) == OpenTmp(w) \/ WriteTmp(w) \/ Rename(w) \/ PersistFails(w)

\* Every step but a crash, which a component extends with its own state.
RegStep ==
    \/ Tick
    \/ StepBack
    \/ \E w \in Writers : Receive(w) \/ Acquire(w) \/ Persist(w) \/ Reply(w)
    \/ Start

-----------------------------------------------------------------------------
(* Properties.                                                             *)

\* Types; the file under the registry's path is always a complete map.
TypeOK ==
    /\ now \in 1 .. MaxTime /\ high \in 1 .. MaxTime
    /\ status \in {"up", "down", "refused"}
    /\ mem \in Contents /\ file \in Contents
    /\ tmp \in Contents \cup {Torn}
    /\ lock \in Writers \cup {Free}
    /\ prev \in Records \cup {NoRecord}
    /\ pc \in [Writers -> {"idle", "wait", "open", "write", "rename", "reply"}]
    /\ rec \in [Writers -> Records \cup {NoRecord}]
    /\ code \in [Writers -> {0, Created, BadRequest, Unauthorized, Forbidden}]

\* Whatever a reader of the running registry can see survives a crash.  A
\* failed write has to restore exactly the record it replaced.
VisibleIsDurable == (status = "up" /\ lock = Free) => mem = file

\* The record a writer is about to be answered 201 for.
Due == [w \in Writers |->
          IF pc[w] = "reply" /\ code[w] = Created THEN rec[w] ELSE NoRecord]

\* The registry implements a durable map: one rename changes one key, and a
\* 201 follows the rename that stored the writer's own record.
Promise == INSTANCE DurableMap WITH
    Values <- Records, NoValue <- NoRecord, bound <- file, due <- Due

ImplementsDurableMap == Promise!Spec

\* Startup is refused only if the wall clock stands behind a time it has
\* already shown; records that merely aged do not prevent a restart.
RefusedOnlyAfterStepBack ==
    [][(status # "refused" /\ status' = "refused") => now < high]_regvars

=============================================================================
