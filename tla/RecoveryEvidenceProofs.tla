----------------------- MODULE RecoveryEvidenceProofs -----------------------
(***************************************************************************)
(* Theorems about recovery evidence for every set of dimensions, every set *)
(* of submissions and every number of writers and readers.                 *)
(*                                                                         *)
(* All three rest on the registry's invariant: what a reader sees is the   *)
(* file, and the file holds only records that Validate accepted at a time  *)
(* the clock has shown.  Validate is monotone in time (it bounds           *)
(* observed_at from above and nothing from below), so such a record stays  *)
(* valid unless the clock is set back.                                     *)
(***************************************************************************)
EXTENDS RecoveryEvidence, LatestRegistryProofs

ReportType == [phase : {"idle", "ready", "done"}, at : 0 .. MaxTime,
               ready : BOOLEAN, evidence : Contents, touched : BOOLEAN]

\* Between its two reads a report has the verdict on the file, unless that
\* was written; afterwards, on the evidence it lists.
ReportInv(s) ==
    /\ s.phase # "idle" => status = "up"
    /\ s.phase = "ready" /\ ~s.touched => s.ready = RecoveryReady(file, s.at)
    /\ s.phase = "done" /\ ~s.touched => s.ready = RecoveryReady(s.evidence, s.at)

ReportsInv == report \in [Readers -> ReportType] /\ \A r \in Readers : ReportInv(report[r])

IndInv == RegInv /\ ReportsInv

-----------------------------------------------------------------------------
(* What was accepted stays valid.                                          *)

\* A record on disk was valid at a time that the clock has shown.
LEMMA StoredWasValid ==
    ASSUME RegInv, NEW d \in Keys, file[d] # NoRecord
    PROVE  /\ file[d] \in Inputs
           /\ \E t \in 1 .. high : t \in 1 .. MaxTime /\ ValidRecovery(file[d], t)
<1>1. PICK v \in Inputs, t \in 1 .. high : Accept(v, t) /\ file[d] = Normalize(v, t)
  BY DEF RegInv, StoredAdmitted, Admitted
<1>2. t \in 1 .. MaxTime
  BY MaxTimeType DEF RegInv, TypeOK
<1>3. Normalize(v, t) = v /\ ValidRecovery(v, t)
  BY <1>1, <1>2, RecoveryRegistry DEF AsGiven
<1>4. QED
  BY <1>1, <1>2, <1>3

\* It is valid at every time from the highest the clock has shown.
LEMMA StoredValidFrom ==
    ASSUME RegInv, NEW d \in Keys, file[d] # NoRecord, NEW t \in Nat,
           ~ValidRecovery(file[d], t)
    PROVE  t < high
<1>1. PICK u \in 1 .. high : u \in 1 .. MaxTime /\ ValidRecovery(file[d], u)
  BY StoredWasValid
<1>2. file[d].observedAt \in Nat /\ high \in Nat
  BY StoredWasValid, RecoveryTimes, MaxTimeType DEF RegInv, TypeOK
<1>3. QED
  BY <1>1, <1>2 DEF ValidRecovery

\* Time alone does not make the recorded evidence sufficient.
LEMMA ReadinessFades ==
    ASSUME RegInv, NEW t \in Nat, NEW u \in Nat, high <= t, t <= u,
           RecoveryReady(file, u)
    PROVE  RecoveryReady(file, t)
<1> SUFFICES ASSUME NEW d \in Keys
             PROVE  file[d] # NoRecord /\ Supports(file[d], t)
  BY DEF RecoveryReady, RequiredRecoveryDimensions
<1>1. file[d] # NoRecord /\ Supports(file[d], u)
  BY DEF RecoveryReady, RequiredRecoveryDimensions
<1>2. file[d].validUntil \in Nat /\ high \in Nat
  BY <1>1, StoredWasValid, RecoveryTimes, MaxTimeType DEF RegInv, TypeOK
<1>3. ValidRecovery(file[d], t)
  BY <1>1, <1>2, StoredValidFrom
<1>4. QED
  BY <1>1, <1>2, <1>3 DEF Supports

-----------------------------------------------------------------------------
(* The invariant.                                                          *)

\* An idle report.
LEMMA NoReportInv == NoReport \in ReportType /\ ReportInv(NoReport)
<1>1. 0 \in 0 .. MaxTime /\ Empty \in Contents
  BY MaxTimeType DEF Empty, Contents
<1>2. QED
  BY <1>1 DEF NoReport, ReportType, ReportInv

\* A step of one report leaves the others and the registry as they are.
LEMMA OneReport ==
    ASSUME ReportsInv, UNCHANGED regvars, NEW r \in Readers, NEW s \in ReportType,
           ReportInv(s), report' = [report EXCEPT ![r] = s]
    PROVE  ReportsInv'
<1>1. status' = status /\ file' = file
  BY DEF regvars
<1>2. report' \in [Readers -> ReportType]
  BY DEF ReportsInv
<1>3. \A q \in Readers : ReportInv(report'[q])
  BY DEF ReportsInv
<1>4. \A q \in Readers : ReportInv(report'[q]) <=> ReportInv(report[q])'
  BY <1>1 DEF ReportInv, RecoveryReady
<1>5. QED
  BY <1>2, <1>3, <1>4 DEF ReportsInv

\* Ready(now) and List() read what the file has.
LEMMA ReadersInv ==
    ASSUME RegInv, ReportsInv, NEW r \in Readers,
           ReadReady(r) \/ ReadList(r) \/ Report(r)
    PROVE  ReportsInv'
<1>1. report[r] \in ReportType /\ ReportInv(report[r])
  BY DEF ReportsInv
<1>2. CASE ReadReady(r)
  <2>1. PICK t \in 1 .. high :
           report' = [report EXCEPT ![r] = [NoReport EXCEPT
                          !.phase = "ready", !.at = t, !.ready = RecoveryReady(mem, t)]]
    BY <1>2 DEF ReadReady
  <2> DEFINE s == [NoReport EXCEPT !.phase = "ready", !.at = t,
                                   !.ready = RecoveryReady(mem, t)]
  <2>2. status = "up" /\ mem = file /\ UNCHANGED regvars
    BY <1>2 DEF ReadReady, RegInv, VisibleIsDurable
  <2>3. t \in 0 .. MaxTime /\ RecoveryReady(mem, t) \in BOOLEAN
    BY MaxTimeType DEF RegInv, TypeOK, RecoveryReady
  <2>4. s \in ReportType
    BY <2>3, NoReportInv DEF ReportType
  <2>5. s.phase = "ready" /\ s.at = t /\ s.ready = RecoveryReady(mem, t)
    BY DEF NoReport
  <2>6. ReportInv(s)
    <3> HIDE DEF s
    <3>1. QED
      BY <2>2, <2>5 DEF ReportInv
  <2>7. report' = [report EXCEPT ![r] = s]
    BY <2>1
  <2> HIDE DEF s
  <2>8. QED
    BY <2>2, <2>4, <2>6, <2>7, OneReport
<1>3. CASE ReadList(r)
  <2> DEFINE o == report[r]
             s == [o EXCEPT !.phase = "done", !.evidence = mem]
  <2>1. report' = [report EXCEPT ![r] = s] /\ UNCHANGED regvars /\ o.phase = "ready"
    BY <1>1, <1>3 DEF ReadList, ReportsInv, ReportType
  <2>2. status = "up" /\ mem = file
    BY <1>1, <1>3 DEF ReadList, ReportInv, RegInv, VisibleIsDurable
  <2>3. s \in ReportType
    BY <1>1 DEF ReportType, RegInv, TypeOK
  <2>4. /\ s.phase = "done" /\ s.evidence = mem /\ s.at = o.at /\ s.ready = o.ready
        /\ s.touched = o.touched
    BY <1>1 DEF ReportType
  <2> HIDE DEF s
  <2>5. ReportInv(s)
    BY <1>1, <2>1, <2>2, <2>4 DEF ReportInv
  <2>6. QED
    BY <2>1, <2>3, <2>5, OneReport
<1>4. CASE Report(r)
  BY <1>4, NoReportInv, OneReport DEF Report
<1>5. QED
  BY <1>2, <1>3, <1>4

\* A step of the registry while reports run: one that writes marks them.
LEMMA WitnessInv ==
    ASSUME RegInv, ReportsInv, RegStep, Witness
    PROVE  ReportsInv'
<1>1. ASSUME NEW r \in Readers
      PROVE  report'[r] \in ReportType /\ ReportInv(report[r])'
  <2> DEFINE o == report[r]
             s == [o EXCEPT !.touched = o.touched \/ (o.phase = "ready" /\ file' # file)]
  <2>1. o \in ReportType /\ ReportInv(o)
    BY DEF ReportsInv
  <2>2. report'[r] = s
    BY DEF Witness
  <2>3. o.phase # "idle" => status' = "up"
    BY <2>1, StaysUp DEF ReportInv
  <2>4. s \in ReportType
    BY <2>1 DEF ReportType
  <2>5. /\ s.phase = o.phase /\ s.evidence = o.evidence /\ s.at = o.at
        /\ s.ready = o.ready
        /\ ~s.touched => ~o.touched /\ (o.phase = "ready" => file' = file)
    BY <2>1 DEF ReportType
  <2> HIDE DEF s
  <2>6. QED
    BY <2>1, <2>2, <2>3, <2>4, <2>5 DEF ReportInv, RecoveryReady
<1>2. report' \in [Readers -> ReportType]
  BY <1>1 DEF Witness
<1>3. QED
  BY <1>1, <1>2 DEF ReportsInv

\* Each step is a step of the registry, a crash, or leaves the registry alone.
LEMMA RegistrySteps == [Next]_vars => RegStep \/ RegCrash \/ UNCHANGED regvars
  BY DEF Next, vars, Step, Crash, ReadReady, ReadList, Report

\* The invariant holds at first and is preserved.
THEOREM Invariance == Spec => []IndInv
<1>1. Init => IndInv
  <2> SUFFICES ASSUME Init PROVE IndInv
    OBVIOUS
  <2>1. RegInv /\ report = [r \in Readers |-> NoReport]
    BY RegInitInv DEF Init
  <2>2. QED
    BY <2>1, NoReportInv DEF IndInv, ReportsInv
<1>2. IndInv /\ [Next]_vars => IndInv'
  <2> SUFFICES ASSUME IndInv, [Next]_vars PROVE IndInv'
    OBVIOUS
  <2>1. RegInv /\ ReportsInv
    BY DEF IndInv
  <2>2. RegInv'
    BY <2>1, RegistrySteps, RegNextInv
  <2>3. CASE Step
    BY <2>1, <2>2, <2>3, WitnessInv DEF Step, IndInv
  <2>4. CASE Crash
    <3>1. report' = [r \in Readers |-> NoReport]
      BY <2>4 DEF Crash
    <3>2. \A r \in Readers : report'[r].phase = "idle"
      BY <3>1 DEF NoReport
    <3>3. \A r \in Readers : ReportInv(report[r])'
      BY <3>2 DEF ReportInv
    <3>4. QED
      BY <2>2, <3>1, <3>3, NoReportInv DEF ReportsInv, IndInv
  <2>5. CASE UNCHANGED vars
    <3>1. report' = report /\ status' = status /\ file' = file
      BY <2>5 DEF vars, regvars
    <3>2. QED
      BY <2>1, <2>2, <3>1 DEF IndInv, ReportsInv, ReportInv, RecoveryReady
  <2>6. QED
    BY <2>1, <2>2, <2>3, <2>4, <2>5, ReadersInv, Zenon DEF Next, IndInv
<1>3. QED
  BY <1>1, <1>2, PTL DEF Spec

-----------------------------------------------------------------------------
(* The theorems.                                                           *)

\* The verdict of recoveryEvidenceList and recoveryReadiness is the verdict
\* on the evidence listed with it, although the two are read separately.
THEOREM ConsistentReports == Spec => []ReportConsistent
<1>1. IndInv => ReportConsistent
  <2> SUFFICES ASSUME IndInv, NEW r \in Readers,
                      report[r].phase = "done", ~report[r].touched
               PROVE  /\ report[r].ready = RecoveryReady(report[r].evidence, report[r].at)
                      /\ report[r].ready => \A d \in RequiredRecoveryDimensions :
                           /\ report[r].evidence[d] # NoRecord
                           /\ report[r].evidence[d].validUntil > report[r].at
    BY DEF ReportConsistent
  <2>1. report[r].ready = RecoveryReady(report[r].evidence, report[r].at)
    BY DEF IndInv, ReportsInv, ReportInv
  <2>2. QED
    BY <2>1 DEF RecoveryReady, Supports
<1>2. QED
  BY <1>1, Invariance, PTL

\* Neither time, nor a restart, nor a failed write turns readiness on.
THEOREM ReadinessNeedsWrite == Spec => ReadyNeedsWrite
<1>1. ASSUME IndInv, IndInv', [Next]_vars, now = high, now' >= now, file' = file,
             ~RecoveryReady(file, now), Reported'
      PROVE  FALSE
  <2>1. now \in Nat /\ now' \in Nat /\ high \in Nat
    BY <1>1, MaxTimeType DEF IndInv, RegInv, TypeOK
  <2>2. mem' = file
    BY <1>1 DEF IndInv, RegInv, VisibleIsDurable, Reported
  <2>3. RecoveryReady(file, now')
    BY <1>1, <2>2 DEF Reported, RecoveryReady
  <2>4. QED
    BY <1>1, <2>1, <2>3, ReadinessFades DEF IndInv
<1>2. IndInv /\ IndInv' /\ [Next]_vars =>
        [(now = high /\ now' >= now /\ file' = file /\ ~RecoveryReady(file, now))
           => ~Reported']_vars
  BY <1>1
<1>3. QED
  BY <1>2, Invariance, PTL DEF Spec, ReadyNeedsWrite

\* Recovery evidence keeps the server from starting only after the clock was
\* set back, however long ago it expired.
THEOREM RestartsAllowed == Spec => RecoveryRestarts
<1>1. ASSUME IndInv, [Next]_vars, status # "refused", status' = "refused"
      PROVE  now < high
  <2>1. ~Loadable(file, now) /\ RegInv
    BY <1>1, RegistrySteps, OnlyStartRefuses DEF IndInv
  <2>2. PICK d \in Keys : file[d] # NoRecord /\ ~Reload(file[d], now)
    BY <2>1, RefusedForARecord
  <2>3. now \in 1 .. MaxTime /\ now \in Nat
    BY <2>1, MaxTimeType DEF RegInv, TypeOK
  <2>4. ~ValidRecovery(file[d], now)
    BY <2>1, <2>2, <2>3, StoredWasValid, RecoveryRegistry
  <2>5. QED
    BY <2>1, <2>2, <2>3, <2>4, StoredValidFrom
<1>2. IndInv /\ [Next]_vars =>
        [(status # "refused" /\ status' = "refused") => now < high]_regvars
  BY <1>1
<1>3. QED
  BY <1>2, Invariance, PTL DEF Spec, RecoveryRestarts, RefusedOnlyAfterStepBack
=============================================================================
