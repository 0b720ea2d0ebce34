-------------------------- MODULE RecoveryEvidence --------------------------
(***************************************************************************)
(* Everkeep recovery evidence (internal/governance): the registry of the   *)
(* latest evidence per recovery dimension and the readiness verdict over   *)
(* it, as reported by GET /v1/everkeep/recovery-evidence and               *)
(* /recovery-readiness.  Both handlers read the clock, evaluate readiness  *)
(* on one snapshot of the registry and list the evidence from a second.    *)
(***************************************************************************)
EXTENDS LatestRegistry

CONSTANT Readers     \* concurrent readers of the readiness report

VARIABLE report      \* progress of each of them

vars == <<regvars, report>>

RequiredRecoveryDimensions == Keys

ScopeRecoveryWrite == "mesh.everkeep.recovery.write"

-----------------------------------------------------------------------------
\* RecoveryEvidence.Validate: no error.  A record need not be unexpired.
ValidRecovery(v, t) ==
    /\ v.dimension \in RequiredRecoveryDimensions
    /\ v.state \in {"validated", "degraded", "unknown"}
    /\ v.sourced                       \* source and exact revision
    /\ v.observedAt # 0 /\ v.validUntil # 0
    /\ v.observedAt <= t
    /\ v.validUntil > v.observedAt

\* Mutant: an unexpired record is not required.
SupportsIgnoringExpiry(v, t) == ValidRecovery(v, t) /\ v.state = "validated"

\* A record counts towards readiness; unlike an envelope, it no longer does
\* at the last instant of its window.
Supports(v, t) ==
    ValidRecovery(v, t) /\ v.state = "validated" /\ v.validUntil > t

RecoveryReady(m, t) ==
    \A d \in RequiredRecoveryDimensions : m[d] # NoRecord /\ Supports(m[d], t)

DimensionOf(v) == v.dimension

\* Record stores what it was given.
AsGiven(v, t) == v

StoredRecovery == {v \in Inputs : \E t \in 1 .. MaxTime : ValidRecovery(v, t)}

\* RecoveryRegistry is LatestRegistry with these parameters;
\* NewPersistentRecoveryRegistry validates what it reads as Record does.
ASSUME RecoveryRegistry ==
    /\ Scope = ScopeRecoveryWrite
    /\ Records = StoredRecovery
    /\ \A v \in Inputs, t \in 1 .. MaxTime :
         /\ KeyOf(v) = DimensionOf(v) /\ Normalize(v, t) = AsGiven(v, t)
         /\ Accept(v, t) = ValidRecovery(v, t)
         /\ Reload(v, t) = ValidRecovery(v, t)

\* The times of a record are numbers, 0 the zero time.
ASSUME RecoveryTimes == \A v \in Inputs : v.observedAt \in Nat /\ v.validUntil \in Nat

-----------------------------------------------------------------------------
NoReport == [phase |-> "idle", at |-> 0, ready |-> FALSE,
             evidence |-> Empty, touched |-> FALSE]

Init == RegInit /\ report = [r \in Readers |-> NoReport]

\* A history variable of the reports: was a record written in between?
Witness ==
    report' = [r \in Readers |->
        [report[r] EXCEPT !.touched = @ \/ (report[r].phase = "ready" /\ file' # file)]]

Step == RegStep /\ Witness

Crash == RegCrash /\ report' = [r \in Readers |-> NoReport]

\* Ready(now): RecoveryReady of one List().
ReadReady(r) ==
    /\ status = "up" /\ lock = Free
    /\ report[r].phase = "idle"
    /\ \E t \in 1 .. high :   \* the clock was read before the mutex was got
         report' = [report EXCEPT ![r] = [NoReport EXCEPT
                        !.phase = "ready", !.at = t, !.ready = RecoveryReady(mem, t)]]
    /\ UNCHANGED regvars

\* The evidence of the response is a second List().
ReadList(r) ==
    /\ report[r].phase = "ready" /\ lock = Free
    /\ report' = [report EXCEPT ![r].phase = "done", ![r].evidence = mem]
    /\ UNCHANGED regvars

Report(r) ==
    /\ report[r].phase = "done"
    /\ report' = [report EXCEPT ![r] = NoReport]
    /\ UNCHANGED regvars

Next == Step \/ Crash \/ \E r \in Readers : ReadReady(r) \/ ReadList(r) \/ Report(r)

Spec == Init /\ [][Next]_vars

-----------------------------------------------------------------------------
(* Properties.                                                             *)

\* Recovery evidence never keeps the server from starting, expired or not,
\* unless the clock was set back.
RecoveryRestarts == RefusedOnlyAfterStepBack

\* The server reports readiness.
Reported == status = "up" /\ lock = Free /\ RecoveryReady(mem, now)

\* Only a successful write makes the system ready: neither the passage of
\* time, nor a restart, nor a write that failed turns readiness on, on a
\* clock that is not set back.
ReadyNeedsWrite ==
    [][(now = high /\ now' >= now /\ file' = file /\ ~RecoveryReady(file, now))
         => ~Reported']_vars

\* A report is consistent unless a write fell between its two reads: the
\* verdict is the verdict on the evidence listed with it, and every
\* dimension of a positive one is unexpired at the time it was read for.
ReportConsistent ==
    \A r \in Readers : (report[r].phase = "done" /\ ~report[r].touched) =>
        /\ report[r].ready = RecoveryReady(report[r].evidence, report[r].at)
        /\ report[r].ready => \A d \in RequiredRecoveryDimensions :
                                 /\ report[r].evidence[d] # NoRecord
                                 /\ report[r].evidence[d].validUntil > report[r].at
=============================================================================
