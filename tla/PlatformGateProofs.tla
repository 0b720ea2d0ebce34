------------------------- MODULE PlatformGateProofs -------------------------
(***************************************************************************)
(* Theorems about a registry of one record per mandatory platform and the  *)
(* reports on it: runtime contract evidence and source attestations, for   *)
(* every list of platforms, every number of writers and reports, and every *)
(* validity rule that the assumptions of PlatformGate allow.               *)
(*                                                                         *)
(* The registry's part is RegInv of LatestRegistryProofs.  ScanInv adds    *)
(* what a report knows after its first reads: as long as nothing was       *)
(* written, the platforms read so far qualify in the file as it is, and    *)
(* whether all do has not changed since the report began.                  *)
(***************************************************************************)
EXTENDS PlatformGate, LatestRegistryProofs

Phases == {"idle", "scan", "verdict", "list", "done"}

ReportType == [phase : Phases, at : 0 .. MaxTime, next : Nat,
               verdict : BOOLEAN, start : BOOLEAN, touched : BOOLEAN,
               seen : SUBSET Keys, listed : SUBSET Keys]

\* Every platform has a record that the report would list.
AllReported == \A k \in Keys : file[k] # NoRecord /\ Reported(file[k])

\* A report that evaluates the gate has found the platforms before the next
\* one to qualify on disk; while nothing is written they still do.
Scanning(s) ==
    /\ s.at \in 1 .. MaxTime
    /\ s.next \in 1 .. Len(Mandatory)
    /\ Qualifying(file, s.at) \subseteq s.seen
    /\ \A i \in 1 .. (s.next - 1) : Mandatory[i] \in s.seen
    /\ ~s.touched =>
         /\ s.start = (Qualifying(file, s.at) = Keys)
         /\ \A i \in 1 .. (s.next - 1) : Mandatory[i] \in Qualifying(file, s.at)

\* A verdict that was reached.
Judged(s) ==
    /\ s.next = 1
    /\ ~s.touched => s.verdict = s.start
    /\ s.verdict => s.seen = Keys
    /\ s.verdict /\ ~s.touched => AllReported

\* A report that lists platform by platform.
Listing(s) ==
    /\ s.next \in 1 .. Len(Mandatory)
    /\ s.verdict /\ ~s.touched =>
         AllReported /\ \A i \in 1 .. (s.next - 1) : Mandatory[i] \in s.listed

Listed(s) == s.verdict /\ ~s.touched => s.listed = Keys

ReportInv(s) ==
    /\ s.phase # "idle" => status = "up"
    /\ s.phase = "scan" => Scanning(s)
    /\ s.phase = "verdict" => Judged(s)
    /\ s.phase = "list" => Listing(s)
    /\ s.phase = "done" => Listed(s)

ScanInv == scan \in [Readers -> ReportType] /\ \A r \in Readers : ReportInv(scan[r])

IndInv == RegInv /\ ScanInv

-----------------------------------------------------------------------------
(* Facts about the operators.                                              *)

\* The platforms are those at the positions of the mandatory list.
LEMMA MandatoryFacts ==
    /\ Len(Mandatory) \in Nat /\ Len(Mandatory) >= 1
    /\ \A i \in 1 .. Len(Mandatory) : Mandatory[i] \in Keys
    /\ \A k \in Keys : \E i \in 1 .. Len(Mandatory) : k = Mandatory[i]
<1>1. Len(Mandatory) \in Nat /\ Len(Mandatory) # 0
  BY MandatoryType
<1>2. QED
  BY <1>1, MandatoryType

\* If all platforms qualify on disk then all are listed.
LEMMA QualifyingReported ==
    ASSUME RegInv, NEW t \in 1 .. MaxTime, Qualifying(file, t) = Keys
    PROVE  AllReported
<1>1. \A k \in Keys : file[k] \in Records \cup {NoRecord}
  BY DEF RegInv, TypeOK, Contents
<1>2. \A k \in Keys : file[k] # NoRecord /\ Qualifies(file[k], t)
  BY DEF Qualifying
<1>3. QED
  BY <1>1, <1>2, QualifyingIsReported DEF AllReported

\* An idle report satisfies its invariant.
LEMMA NoScanInv == NoScan \in ReportType /\ ReportInv(NoScan)
<1>1. 0 \in 0 .. MaxTime
  BY MaxTimeType
<1>2. QED
  BY <1>1 DEF NoScan, ReportType, Phases, ReportInv

\* A step of one report leaves the others and the registry as they are.
LEMMA OneReport ==
    ASSUME ScanInv, UNCHANGED regvars, NEW r \in Readers, NEW s \in ReportType,
           ReportInv(s), scan' = [scan EXCEPT ![r] = s]
    PROVE  ScanInv'
<1>1. status' = status /\ file' = file
  BY DEF regvars
<1>2. scan' \in [Readers -> ReportType]
  BY DEF ScanInv
<1>3. \A q \in Readers : ReportInv(scan'[q])
  BY DEF ScanInv
<1>4. \A q \in Readers : ReportInv(scan'[q]) <=> ReportInv(scan[q])'
  BY <1>1 DEF ReportInv, Scanning, Judged, Listing, Listed, AllReported, Qualifying
<1>5. QED
  BY <1>2, <1>3, <1>4 DEF ScanInv

-----------------------------------------------------------------------------
\* ScanStart: nothing has been read, and the file is what it is.
LEMMA ScanStartInv ==
    ASSUME RegInv, ScanInv, NEW r \in Readers, ScanStart(r)
    PROVE  ScanInv'
<1> DEFINE s == [NoScan EXCEPT !.phase = "scan", !.at = now, !.next = 1,
                     !.start = (Qualifying(file, now) = Keys),
                     !.seen = Qualifying(file, now)]
<1>1. now \in 0 .. MaxTime /\ now \in 1 .. MaxTime
  BY MaxTimeType DEF RegInv, TypeOK
<1>2. Qualifying(file, now) \subseteq Keys
  BY DEF Qualifying
<1>3. s \in ReportType
  BY <1>1, <1>2 DEF NoScan, ReportType, Phases
<1>4. /\ s.phase = "scan" /\ s.at = now /\ s.next = 1 /\ s.seen = Qualifying(file, now)
      /\ s.start = (Qualifying(file, now) = Keys)
  BY DEF NoScan
<1>5. Scanning(s)
  BY <1>1, <1>4, MandatoryFacts DEF Scanning
<1>6. ReportInv(s)
  BY <1>4, <1>5 DEF ReportInv, ScanStart
<1>7. UNCHANGED regvars /\ scan' = [scan EXCEPT ![r] = s]
  BY DEF ScanStart
<1> HIDE DEF s
<1>8. QED
  BY <1>3, <1>6, <1>7, OneReport

\* ScanGet: what is read under the mutex is what the file has.
LEMMA ScanGetInv ==
    ASSUME RegInv, ScanInv, NEW r \in Readers, ScanGet(r)
    PROVE  ScanInv'
<1> DEFINE o == scan[r]
           k == Mandatory[o.next]
           good == k \in Qualifying(mem, o.at)
           s == IF good /\ ~LastPlatform(o.next)
                THEN [o EXCEPT !.next = o.next + 1]
                ELSE [o EXCEPT !.phase = "verdict", !.next = 1, !.verdict = good]
<1>1. UNCHANGED regvars /\ scan' = [scan EXCEPT ![r] = s]
  BY DEF ScanGet
<1>2. o \in ReportType /\ o.phase = "scan" /\ Scanning(o) /\ status = "up"
  BY DEF ScanInv, ReportInv, ScanGet
<1>3. mem = file
  BY <1>2 DEF RegInv, VisibleIsDurable, ScanGet
<1>4. k \in Keys /\ o.next \in 1 .. Len(Mandatory)
  BY <1>2, MandatoryFacts DEF Scanning
<1>5. s \in ReportType
  <2>1. good \in BOOLEAN
    BY DEF Qualifying
  <2>2. [o EXCEPT !.next = o.next + 1] \in ReportType
    BY <1>2 DEF ReportType
  <2>3. [o EXCEPT !.phase = "verdict", !.next = 1, !.verdict = good] \in ReportType
    <3> HIDE DEF good
    <3>1. QED
      BY <1>2, <2>1 DEF ReportType, Phases
  <2>4. QED
    BY <2>2, <2>3
<1>6. CASE good /\ ~LastPlatform(o.next)
  <2>1. s = [o EXCEPT !.next = o.next + 1]
    BY <1>6
  <2>2. /\ s.phase = "scan" /\ s.at = o.at /\ s.next = o.next + 1 /\ s.seen = o.seen
        /\ s.start = o.start /\ s.touched = o.touched
    BY <1>2, <2>1 DEF ReportType
  <2>3. s.next \in 1 .. Len(Mandatory)
    BY <1>4, <1>6, <2>2, MandatoryFacts DEF LastPlatform
  <2>4. k \in Qualifying(file, o.at) /\ k \in o.seen
    BY <1>2, <1>3, <1>6 DEF Scanning
  <2>5. \A i \in 1 .. (s.next - 1) : i \in 1 .. (o.next - 1) \/ i = o.next
    BY <1>4, <2>2, MandatoryFacts
  <2>6. Scanning(s)
    BY <1>2, <2>2, <2>3, <2>4, <2>5 DEF Scanning
  <2>7. ReportInv(s)
    BY <1>2, <2>2, <2>6 DEF ReportInv
  <2> HIDE DEF s
  <2>8. QED
    BY <1>1, <1>5, <2>7, OneReport
<1>7. CASE ~(good /\ ~LastPlatform(o.next))
  <2>1. s = [o EXCEPT !.phase = "verdict", !.next = 1, !.verdict = good]
    BY <1>7
  <2>2. /\ s.phase = "verdict" /\ s.next = 1 /\ s.seen = o.seen /\ s.verdict = good
        /\ s.start = o.start /\ s.touched = o.touched
    BY <1>2, <2>1 DEF ReportType
  <2>3. good => LastPlatform(o.next) /\ k \in Qualifying(file, o.at) /\ k \in o.seen
    BY <1>2, <1>3, <1>7 DEF Scanning
  <2>4. good => \A i \in 1 .. Len(Mandatory) : i \in 1 .. (o.next - 1) \/ i = o.next
    BY <1>4, <2>3, MandatoryFacts DEF LastPlatform
  <2>5. good => o.seen = Keys
    <3>1. good => \A q \in Keys : q \in o.seen
      BY <1>2, <2>3, <2>4, MandatoryFacts DEF Scanning
    <3>2. QED
      BY <1>2, <3>1 DEF ReportType
  <2>6. good /\ ~o.touched => Qualifying(file, o.at) = Keys
    <3>1. good /\ ~o.touched => \A q \in Keys : q \in Qualifying(file, o.at)
      BY <1>2, <2>3, <2>4, MandatoryFacts DEF Scanning
    <3>2. QED
      BY <3>1 DEF Qualifying
  <2>7. ~good => Qualifying(file, o.at) # Keys
    BY <1>3, <1>4
  <2>8. good /\ ~o.touched => AllReported
    BY <1>2, <2>6, QualifyingReported DEF Scanning
  <2>9. ~o.touched => good = o.start
    BY <1>2, <2>6, <2>7 DEF Scanning
  <2>10. Judged(s)
    <3> HIDE DEF s, good
    <3>1. QED
      BY <2>2, <2>5, <2>8, <2>9 DEF Judged
  <2>11. ReportInv(s)
    BY <1>2, <2>2, <2>10 DEF ReportInv
  <2> HIDE DEF s
  <2>12. QED
    BY <1>1, <1>5, <2>11, OneReport
<1>8. QED
  BY <1>6, <1>7

\* What a report that lists reads of a platform under the mutex is what the
\* file has; if all are reported on disk, this one is listed.
LEMMA ListEachInv ==
    ASSUME RegInv, ScanInv, NEW r \in Readers, ListEach(r)
    PROVE  ScanInv'
<1> DEFINE o == scan[r]
           k == Mandatory[o.next]
           new == IF mem[k] # NoRecord /\ Reported(mem[k]) THEN {k} ELSE {}
           s == [NoScan EXCEPT
                   !.phase = IF LastPlatform(o.next) THEN "done" ELSE "list",
                   !.next = o.next + 1,
                   !.verdict = o.verdict, !.touched = o.touched,
                   !.listed = o.listed \cup new]
<1>1. UNCHANGED regvars /\ scan' = [scan EXCEPT ![r] = s]
  BY DEF ListEach
<1>2. /\ o \in ReportType /\ o.phase \in {"verdict", "list"} /\ lock = Free
      /\ status = "up"
  BY DEF ScanInv, ReportInv, ListEach
<1>3. mem = file
  BY <1>2 DEF RegInv, VisibleIsDurable
<1>4. o.next \in 1 .. Len(Mandatory) /\ k \in Keys
  BY <1>2, MandatoryFacts DEF ScanInv, ReportInv, Judged, Listing
<1>5. o.verdict /\ ~o.touched =>
        AllReported /\ \A i \in 1 .. (o.next - 1) : Mandatory[i] \in o.listed
  BY <1>2, MandatoryFacts DEF ScanInv, ReportInv, Judged, Listing
<1>6. new \subseteq Keys
  BY <1>4
<1>7. o.verdict /\ ~o.touched => k \in new
  BY <1>3, <1>4, <1>5 DEF AllReported
<1> HIDE DEF new, k
<1>8. s \in ReportType
  <2>1. o.next + 1 \in Nat /\ o.listed \cup new \in SUBSET Keys
    BY <1>2, <1>4, <1>6, MandatoryFacts DEF ReportType
  <2>2. (IF LastPlatform(o.next) THEN "done" ELSE "list") \in Phases
    BY DEF Phases
  <2>3. o.verdict \in BOOLEAN /\ o.touched \in BOOLEAN
    BY <1>2 DEF ReportType
  <2>4. QED
    BY <2>1, <2>2, <2>3, NoScanInv DEF ReportType
<1>9. /\ s.phase = (IF LastPlatform(o.next) THEN "done" ELSE "list")
      /\ s.next = o.next + 1 /\ s.verdict = o.verdict /\ s.touched = o.touched
      /\ s.listed = o.listed \cup new
  BY DEF NoScan
<1>10. \A i \in 1 .. (s.next - 1) : i \in 1 .. (o.next - 1) \/ i = o.next
  BY <1>4, <1>9, MandatoryFacts
<1>11. s.verdict /\ ~s.touched =>
         AllReported /\ \A i \in 1 .. (s.next - 1) : Mandatory[i] \in s.listed
  BY <1>5, <1>7, <1>9, <1>10 DEF k
<1> HIDE DEF s
<1>12. CASE LastPlatform(o.next)
  <2>1. s.verdict /\ ~s.touched => \A q \in Keys : q \in s.listed
    BY <1>4, <1>9, <1>11, <1>12, MandatoryFacts DEF LastPlatform
  <2>2. s.listed \subseteq Keys
    BY <1>8 DEF ReportType
  <2>3. ReportInv(s)
    BY <1>2, <1>9, <1>12, <2>1, <2>2 DEF ReportInv, Listed
  <2>4. QED
    BY <1>1, <1>8, <2>3, OneReport
<1>13. CASE ~LastPlatform(o.next)
  <2>1. s.next \in 1 .. Len(Mandatory)
    BY <1>4, <1>9, <1>13, MandatoryFacts DEF LastPlatform
  <2>2. ReportInv(s)
    BY <1>2, <1>9, <1>11, <1>13, <2>1 DEF ReportInv, Listing
  <2>3. QED
    BY <1>1, <1>8, <2>2, OneReport
<1>14. QED
  BY <1>12, <1>13

\* The same for all platforms at once.
LEMMA ListAllInv ==
    ASSUME RegInv, ScanInv, NEW r \in Readers, ListAll(r)
    PROVE  ScanInv'
<1> DEFINE o == scan[r]
           all == {k \in Keys : mem[k] # NoRecord /\ Reported(mem[k])}
           s == [NoScan EXCEPT !.phase = "done", !.verdict = o.verdict,
                     !.touched = o.touched, !.listed = all]
<1>1. UNCHANGED regvars /\ scan' = [scan EXCEPT ![r] = s]
  BY DEF ListAll
<1>2. o \in ReportType /\ o.phase = "verdict" /\ Judged(o) /\ status = "up"
  BY DEF ScanInv, ReportInv, ListAll
<1>3. mem = file
  BY <1>2 DEF RegInv, VisibleIsDurable, ListAll
<1>4. o.verdict /\ ~o.touched => all = Keys
  BY <1>2, <1>3 DEF Judged, AllReported
<1>5. all \subseteq Keys
  OBVIOUS
<1> HIDE DEF all
<1>6. s \in ReportType
  BY <1>2, <1>5, NoScanInv DEF ReportType, Phases
<1>7. /\ s.phase = "done" /\ s.verdict = o.verdict /\ s.touched = o.touched
      /\ s.listed = all
  BY DEF NoScan
<1> HIDE DEF s
<1>8. ReportInv(s)
  BY <1>2, <1>4, <1>7 DEF ReportInv, Listed
<1>9. QED
  BY <1>1, <1>6, <1>8, OneReport

\* A step of the registry while reports run: one that writes marks them.
LEMMA WitnessInv ==
    ASSUME RegInv, ScanInv, RegStep, Witness
    PROVE  ScanInv'
<1>1. ASSUME NEW r \in Readers
      PROVE  scan'[r] \in ReportType /\ ReportInv(scan[r])'
  <2> DEFINE o == scan[r]
             s == [o EXCEPT !.touched = o.touched \/ file' # file,
                     !.seen = IF o.phase = "scan"
                              THEN o.seen \cup Qualifying(file', o.at) ELSE o.seen]
  <2>1. o \in ReportType /\ ReportInv(o)
    BY DEF ScanInv
  <2>2. scan'[r] = IF o.phase \notin {"scan", "verdict", "list"} THEN o ELSE s
    BY DEF Witness
  <2>3. o.phase # "idle" => status' = "up"
    BY <2>1, StaysUp DEF ReportInv
  <2>4. CASE o.phase \notin {"scan", "verdict", "list"}
    BY <2>1, <2>2, <2>3, <2>4 DEF ReportInv, Listed
  <2>5. CASE o.phase \in {"scan", "verdict", "list"}
    <3>1. scan'[r] = s
      BY <2>2, <2>5
    <3>2. Qualifying(file', o.at) \subseteq Keys
      BY DEF Qualifying
    <3>3. s \in ReportType
      BY <2>1, <3>2 DEF ReportType
    <3>4. /\ s.phase = o.phase /\ s.at = o.at /\ s.next = o.next /\ s.start = o.start
          /\ s.verdict = o.verdict /\ s.listed = o.listed
          /\ ~s.touched <=> ~o.touched /\ file' = file
          /\ o.seen \subseteq s.seen
          /\ o.phase = "scan" => Qualifying(file', o.at) \subseteq s.seen
          /\ o.phase # "scan" => s.seen = o.seen
      BY <2>1 DEF ReportType
    <3> HIDE DEF s
    <3>5. CASE o.phase = "scan"
      <4>1. Scanning(o)
        BY <2>1, <3>5 DEF ReportInv
      <4>2. Scanning(scan[r])'
        <5>1. file' = file => Qualifying(file', o.at) = Qualifying(file, o.at)
          OBVIOUS
        <5>2. Qualifying(file, scan[r].at)' = Qualifying(file', o.at)
          BY <3>1, <3>4 DEF Qualifying
        <5>3. QED
          BY <3>1, <3>4, <3>5, <4>1, <5>1, <5>2 DEF Scanning
      <4>3. QED
        BY <2>3, <3>1, <3>3, <3>4, <3>5, <4>2 DEF ReportInv
    <3>6. CASE o.phase = "verdict"
      <4>1. Judged(o)
        BY <2>1, <3>6 DEF ReportInv
      <4>2. Judged(scan[r])'
        BY <3>1, <3>4, <3>6, <4>1 DEF Judged, AllReported
      <4>3. QED
        BY <2>3, <3>1, <3>3, <3>4, <3>6, <4>2 DEF ReportInv
    <3>7. CASE o.phase = "list"
      <4>1. Listing(o)
        BY <2>1, <3>7 DEF ReportInv
      <4>2. Listing(scan[r])'
        BY <3>1, <3>4, <4>1 DEF Listing, AllReported
      <4>3. QED
        BY <2>3, <3>1, <3>3, <3>4, <3>7, <4>2 DEF ReportInv
    <3>8. QED
      BY <2>5, <3>5, <3>6, <3>7
  <2>6. QED
    BY <2>4, <2>5
<1>2. scan' \in [Readers -> ReportType]
  BY <1>1 DEF Witness
<1>3. QED
  BY <1>1, <1>2 DEF ScanInv

-----------------------------------------------------------------------------
(* The theorems.                                                           *)

\* No report runs at first.
LEMMA IndInvInit == Init => IndInv
<1> SUFFICES ASSUME Init PROVE IndInv
  OBVIOUS
<1>1. RegInv
  BY RegInitInv DEF Init
<1>2. scan = [r \in Readers |-> NoScan]
  BY DEF Init
<1>3. QED
  BY <1>1, <1>2, NoScanInv DEF IndInv, ScanInv

\* Each step is a step of the registry, a crash, or leaves the registry alone.
LEMMA RegistrySteps == [Next]_vars => RegStep \/ RegCrash \/ UNCHANGED regvars
  BY DEF Next, vars, Crash, ScanStart, ScanGet, ListEach, ListAll, ScanReply

\* Every step of a handler, a report, the clock or the process preserves it.
LEMMA IndInvNext == IndInv /\ [Next]_vars => IndInv'
<1> SUFFICES ASSUME IndInv, [Next]_vars PROVE IndInv'
  OBVIOUS
<1>1. RegInv /\ ScanInv
  BY DEF IndInv
<1>2. RegInv'
  BY <1>1, RegistrySteps, RegNextInv
<1>3. ScanInv'
  <2>1. CASE RegStep /\ Witness
    BY <1>1, <2>1, WitnessInv
  <2>2. ASSUME NEW r \in Readers, ScanReply(r) PROVE ScanInv'
    BY <1>1, <2>2, NoScanInv, OneReport DEF ScanReply
  <2>3. CASE Crash
    <3>1. scan' = [r \in Readers |-> NoScan]
      BY <2>3 DEF Crash
    <3>2. ReportInv(NoScan)'
      BY DEF ReportInv, NoScan
    <3>3. \A r \in Readers : scan'[r] = NoScan
      BY <3>1
    <3>4. \A r \in Readers : ReportInv(scan[r])'
      BY <3>2, <3>3 DEF ReportInv, Scanning, Judged, Listing, Listed
    <3>5. scan' \in [Readers -> ReportType]
      BY <3>1, NoScanInv
    <3>6. QED
      BY <3>4, <3>5 DEF ScanInv
  <2>4. CASE UNCHANGED vars
    <3>1. scan' = scan /\ status' = status /\ file' = file
      BY <2>4 DEF vars, regvars
    <3>2. QED
      BY <1>1, <3>1 DEF ScanInv, ReportInv, Scanning, Judged, Listing, Listed,
         AllReported, Qualifying
  <2>5. QED
    BY <1>1, <2>1, <2>2, <2>3, <2>4, ScanStartInv, ScanGetInv, ListEachInv,
       ListAllInv, Zenon DEF Next
<1>4. QED
  BY <1>2, <1>3 DEF IndInv

\* The invariant holds for every registry of platforms.
THEOREM Invariance == Spec => []IndInv
  BY IndInvInit, IndInvNext, PTL DEF Spec

\* Whatever a reader of runtime evidence or attestations can see survives a
\* crash: Record restores exactly what a failed write replaced.
THEOREM Durable == Spec => []VisibleIsDurable
<1>1. IndInv => VisibleIsDurable
  BY DEF IndInv, RegInv
<1>2. QED
  BY <1>1, Invariance, PTL

\* StableEligibleAt and AllValidated, which release the mutex after each
\* platform, are exact when no record is written while they run.
THEOREM QuietVerdicts == Spec => []QuietVerdictExact
<1>1. IndInv => QuietVerdictExact
  BY DEF IndInv, ScanInv, ReportInv, Judged, QuietVerdictExact
<1>2. QED
  BY <1>1, Invariance, PTL

\* A positive verdict rests on records that were stored, whatever is written
\* or fails to be written meanwhile.
THEOREM StoredVerdicts == Spec => []VerdictRestsOnStored
<1>1. IndInv => VerdictRestsOnStored
  BY DEF IndInv, ScanInv, ReportInv, Judged, VerdictRestsOnStored
<1>2. QED
  BY <1>1, Invariance, PTL

\* IntegrationStatuses and List do not contradict the verdict beside them
\* unless a record was written while the report was made.
THEOREM QuietReports == Spec => []QuietReportAgrees
<1>1. IndInv => QuietReportAgrees
  BY DEF IndInv, ScanInv, ReportInv, Listed, QuietReportAgrees
<1>2. QED
  BY <1>1, Invariance, PTL

\* The three together, as the run on source attestations states them.
THEOREM SoundReports == Spec => []ReportsSound
  BY QuietVerdicts, StoredVerdicts, QuietReports, PTL DEF ReportsSound

\* The registry implements the durable map: a write replaces one record in
\* one step, and a 201 follows the writer's own write.
THEOREM Refinement == Spec => ImplementsDurableMap
<1>1. Init => Promise!Init
  <2>1. RegInit => Due = [w \in Writers |-> NoRecord]
    BY DEF RegInit, Due
  <2>2. QED
    BY <2>1 DEF Init, RegInit, Promise!Init, Empty
<1>2. IndInv /\ [Next]_vars => [Promise!Next]_<<file, Due>>
  BY RegistrySteps, RegRefines DEF IndInv
<1>3. QED
  BY <1>1, <1>2, Invariance, PTL DEF Spec, ImplementsDurableMap, Promise!Spec
-----------------------------------------------------------------------------
(* Restart of the runtime evidence registry.  R adds what evidence is to   *)
(* the registry; the theorem is about registries used that way.            *)

R == INSTANCE RuntimeContracts

\* Evidence that was once accepted is refused later only for its expiry: the
\* checks of normalizeEvidenceAt other than that on validUntil do not depend
\* on the time, or hold from the first time on.
LEMMA OnlyExpiryRefuses ==
    ASSUME NEW v \in R!Evidence, NEW t \in Nat \ {0}, NEW u \in Nat, t <= u,
           R!EvidenceAcceptable(v, t),
           NEW r, r = R!NormalizedEvidence(v, t), ~R!EvidenceAcceptable(r, u)
    PROVE  r.state = "validated" /\ u > r.validUntil
<1>1. /\ r.platform = v.platform /\ r.repository = v.repository
      /\ r.contract = v.contract /\ r.state = v.state /\ r.sourced = v.sourced
      /\ r.validUntil = v.validUntil /\ r.validUntil \in Nat
      /\ r.observedAt = IF v.observedAt = 0 THEN t ELSE v.observedAt
      /\ r \in R!Evidence
  BY DEF R!NormalizedEvidence, R!Evidence
<1>2. v.observedAt \in Nat /\ v.observedAt <= t
  BY DEF R!EvidenceAcceptable, R!Evidence
<1>3. r.observedAt \in Nat /\ r.observedAt # 0 /\ r.observedAt <= u
  BY <1>1, <1>2
<1>4. /\ R!NormalizedEvidence(r, u).observedAt = r.observedAt
      /\ R!NormalizedEvidence(v, t).observedAt = r.observedAt
  BY <1>1, <1>3 DEF R!NormalizedEvidence, R!Evidence
<1>5. r.state = "validated" => r.validUntil > r.observedAt
  BY <1>1, <1>4 DEF R!EvidenceAcceptable
<1>6. ~(r.state = "validated" => u <= r.validUntil)
  BY <1>1, <1>3, <1>4, <1>5 DEF R!EvidenceAcceptable
<1>7. QED
  BY <1>1, <1>6

\* Runtime evidence keeps the server from starting only if the clock was set
\* back or validated evidence has expired: RefusedOnlyByClockOrExpiry.
THEOREM RuntimeRestarts ==
    R!UsesRuntimeEvidence => (Spec => R!RefusedOnlyByClockOrExpiry)
<1> SUFFICES ASSUME R!UsesRuntimeEvidence
             PROVE  Spec => R!RefusedOnlyByClockOrExpiry
  OBVIOUS
<1>1. ASSUME IndInv, [Next]_vars, status # "refused", status' = "refused", ~(now < high)
      PROVE  \E p \in R!Platforms : /\ file[p] # NoRecord
                                    /\ file[p].state = "validated"
                                    /\ now > file[p].validUntil
  <2>1. RegStep \/ RegCrash \/ UNCHANGED regvars
    BY <1>1, RegistrySteps
  <2>2. ~Loadable(file, now) /\ RegInv
    BY <1>1, <2>1, OnlyStartRefuses DEF IndInv
  <2>3. PICK k \in Keys : /\ file[k] # NoRecord /\ file[k] \in Records
                          /\ Admitted(file[k]) /\ ~Reload(file[k], now)
    BY <2>2, RefusedForARecord
  <2>4. now = high /\ now \in 1 .. MaxTime /\ now \in Nat
    BY <1>1, <2>2, MaxTimeType DEF RegInv, TypeOK
  <2>5. PICK v \in Inputs, t \in 1 .. high : Accept(v, t) /\ file[k] = Normalize(v, t)
    BY <2>3 DEF Admitted
  <2>6. t \in 1 .. MaxTime /\ t \in Nat \ {0} /\ t <= now
    BY <2>4, MaxTimeType
  <2>7. /\ v \in R!Evidence /\ R!EvidenceAcceptable(v, t)
        /\ file[k] = R!NormalizedEvidence(v, t)
        /\ ~R!EvidenceAcceptable(file[k], now)
    BY <2>3, <2>4, <2>5, <2>6 DEF R!UsesRuntimeEvidence
  <2>8. file[k].state = "validated" /\ now > file[k].validUntil
    BY <2>4, <2>6, <2>7, OnlyExpiryRefuses
  <2>9. k \in R!Platforms
    BY MandatoryType DEF R!Platforms
  <2>10. QED
    BY <2>3, <2>8, <2>9
<1>2. IndInv /\ [Next]_vars =>
        [(status # "refused" /\ status' = "refused") =>
            \/ now < high
            \/ \E p \in R!Platforms : /\ file[p] # NoRecord
                                      /\ file[p].state = "validated"
                                      /\ now > file[p].validUntil]_vars
  BY <1>1
<1>3. QED
  BY <1>2, Invariance, PTL DEF Spec, R!RefusedOnlyByClockOrExpiry, R!vars, vars, R!regvars, regvars
-----------------------------------------------------------------------------
(* Restart of the registry of source attestations, likewise.               *)

A == INSTANCE SourceAttestations

\* Source attestations never keep the server from starting, wherever the clock
\* is set and however long they have been stored: what Record accepts,
\* NewPersistentSourceAttestationRegistry loads at any time.
THEOREM AttestationRestarts ==
    A!UsesSourceAttestations => (Spec => [](status # "refused"))
<1> SUFFICES ASSUME A!UsesSourceAttestations
             PROVE  Spec => [](status # "refused")
  OBVIOUS
<1>1. Init => status # "refused"
  BY DEF Init, RegInit
<1>2. ASSUME IndInv, [Next]_vars, status # "refused", status' = "refused"
      PROVE  FALSE
  <2>1. RegStep \/ RegCrash \/ UNCHANGED regvars
    BY <1>2, RegistrySteps
  <2>2. ~Loadable(file, now) /\ RegInv
    BY <1>2, <2>1, OnlyStartRefuses DEF IndInv
  <2>3. PICK k \in Keys : /\ file[k] # NoRecord /\ file[k] \in Records
                          /\ Admitted(file[k]) /\ ~Reload(file[k], now)
    BY <2>2, RefusedForARecord
  <2>4. now \in 1 .. MaxTime /\ high \in 1 .. MaxTime
    BY <2>2 DEF RegInv, TypeOK
  <2>5. PICK v \in Inputs, t \in 1 .. high : Accept(v, t) /\ file[k] = Normalize(v, t)
    BY <2>3 DEF Admitted
  <2>6. t \in 1 .. MaxTime
    BY <2>4, MaxTimeType
  <2>7. A!ValidateSourceAttestation(file[k], t)
    BY <2>5, <2>6 DEF A!UsesSourceAttestations, A!AsGiven
  <2>8. A!ValidateSourceAttestation(file[k], now)
    BY <2>7 DEF A!ValidateSourceAttestation
  <2>9. QED
    BY <2>3, <2>4, <2>8 DEF A!UsesSourceAttestations
<1> DEFINE Runs == status # "refused"
<1>3. /\ Init => Runs
      /\ IndInv /\ Runs /\ [Next]_vars => Runs'
  BY <1>1, <1>2
<1>4. Spec => []Runs
  <2> HIDE DEF Runs
  <2>1. QED
    BY <1>3, Invariance, PTL DEF Spec
<1>5. QED
  BY <1>4
=============================================================================
