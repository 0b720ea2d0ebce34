---------------------------- MODULE PlatformGate ----------------------------
(***************************************************************************)
(* A registry of one record per mandatory platform together with the       *)
(* reports on it.  A report first evaluates the gate: StableEligibleAt on  *)
(* runtime evidence, AllValidated on source attestations.  Both read the   *)
(* registry once per platform, in the order of the mandatory list, taking  *)
(* and releasing the mutex for each read, and answer FALSE at the first    *)
(* platform that does not qualify; the evaluation time is read once,       *)
(* before the first read.  Then the report lists the records, either with  *)
(* one more read per platform (IntegrationStatuses) or with one for all    *)
(* (List).                                                                 *)
(*                                                                         *)
(* start, touched and seen are history variables of a report: whether all  *)
(* platforms qualified when it began, whether a record was written since,  *)
(* and which platforms qualified on disk at some moment of the evaluation. *)
(***************************************************************************)
EXTENDS LatestRegistry, Sequences

CONSTANTS Mandatory,       \* the mandatory platforms, the keys, as a sequence
          Qualifies(_, _), \* Qualifies(v, t): record v satisfies the gate at t
          Reported(_),     \* Reported(v): v is listed as satisfying the gate
          Listings,        \* how reports list records: "each", "all"
          Readers          \* concurrent reports

ASSUME MandatoryType == /\ Mandatory \in Seq(Keys) /\ Mandatory # << >>
                        /\ Keys = {Mandatory[i] : i \in 1 .. Len(Mandatory)}
ASSUME ListingsType  == Listings \subseteq {"each", "all"}

\* Only a validated record satisfies either gate, and a validated record is
\* listed as such.
ASSUME QualifyingIsReported ==
    \A v \in Records, t \in 1 .. MaxTime : Qualifies(v, t) => Reported(v)

VARIABLE scan    \* progress of each report

vars == <<regvars, scan>>

NoScan == [phase |-> "idle", at |-> 0, next |-> 0, verdict |-> FALSE,
           start |-> FALSE, touched |-> FALSE, seen |-> {}, listed |-> {}]

Qualifying(m, t) == {k \in Keys : m[k] # NoRecord /\ Qualifies(m[k], t)}

Init == RegInit /\ scan = [r \in Readers |-> NoScan]

-----------------------------------------------------------------------------
\* The history of the running reports after a step of the registry.
Witness ==
    scan' = [r \in Readers |->
        IF scan[r].phase \notin {"scan", "verdict", "list"} THEN scan[r]
        ELSE [scan[r] EXCEPT
                !.touched = @ \/ file' # file,
                !.seen    = IF scan[r].phase = "scan"
                            THEN @ \cup Qualifying(file', scan[r].at) ELSE @]]

ScanStart(r) ==
    /\ status = "up"
    /\ scan[r].phase = "idle"
    /\ scan' = [scan EXCEPT ![r] = [NoScan EXCEPT
           !.phase = "scan", !.at = now, !.next = 1,
           !.start = (Qualifying(file, now) = Keys),
           !.seen = Qualifying(file, now)]]
    /\ UNCHANGED regvars

\* Mutant: the loop ends one platform early.
LastPlatformButOne(i) == i >= Len(Mandatory) - 1

\* The read of the last platform ends the loop.
LastPlatform(i) == i = Len(Mandatory)

\* One turn of the loop: Get under the read lock, then the test.
ScanGet(r) ==
    /\ scan[r].phase = "scan"
    /\ lock = Free
    /\ LET s == scan[r]
           good == Mandatory[s.next] \in Qualifying(mem, s.at)
       IN  scan' = [scan EXCEPT ![r] =
               IF good /\ ~LastPlatform(s.next)
               THEN [s EXCEPT !.next = s.next + 1]
               ELSE [s EXCEPT !.phase = "verdict", !.next = 1, !.verdict = good]]
    /\ UNCHANGED regvars

\* IntegrationStatuses: one more read per platform of the catalog.
ListEach(r) ==
    /\ "each" \in Listings
    /\ scan[r].phase \in {"verdict", "list"}
    /\ lock = Free
    /\ LET k == Mandatory[scan[r].next]
           v == mem[k]
       IN  scan' = [scan EXCEPT ![r] = [NoScan EXCEPT
               !.phase = IF LastPlatform(scan[r].next) THEN "done" ELSE "list",
               !.next = scan[r].next + 1,
               !.verdict = scan[r].verdict, !.touched = scan[r].touched,
               !.listed = scan[r].listed \cup
                            (IF v # NoRecord /\ Reported(v) THEN {k} ELSE {})]]
    /\ UNCHANGED regvars

\* List: all records under one lock.
ListAll(r) ==
    /\ "all" \in Listings
    /\ scan[r].phase = "verdict"
    /\ lock = Free
    /\ scan' = [scan EXCEPT ![r] = [NoScan EXCEPT
           !.phase = "done", !.verdict = scan[r].verdict, !.touched = scan[r].touched,
           !.listed = {k \in Keys : mem[k] # NoRecord /\ Reported(mem[k])}]]
    /\ UNCHANGED regvars

ScanReply(r) ==
    /\ scan[r].phase = "done"
    /\ scan' = [scan EXCEPT ![r] = NoScan]
    /\ UNCHANGED regvars

Crash == RegCrash /\ scan' = [r \in Readers |-> NoScan]

Next ==
    \/ RegStep /\ Witness
    \/ \E r \in Readers : \/ ScanStart(r) \/ ScanGet(r)
                         \/ ListEach(r) \/ ListAll(r) \/ ScanReply(r)
    \/ Crash

Spec == Init /\ [][Next]_vars

\* The handlers of the registry and the reports run when they can.
FairSpec ==
    /\ Spec
    /\ \A w \in Writers : /\ WF_vars(Persist(w) /\ Witness)
                          /\ WF_vars(Reply(w) /\ Witness)
                          /\ SF_vars(Acquire(w) /\ Witness)
    /\ \A r \in Readers : /\ WF_vars(ScanReply(r)) /\ SF_vars(ScanGet(r))
                          /\ SF_vars(ListEach(r) \/ ListAll(r))

-----------------------------------------------------------------------------
(* Properties.                                                             *)

\* An evaluation during which no record is written is exact: it says whether
\* all mandatory platforms qualified, however many writes fail meanwhile.
QuietVerdictExact ==
    \A r \in Readers : scan[r].phase = "verdict" /\ ~scan[r].touched =>
        scan[r].verdict = scan[r].start

\* Even when records are written meanwhile, a positive verdict rests on
\* records that really were stored: each platform qualified on disk at some
\* moment of the evaluation.  A write that fails never counts.
VerdictRestsOnStored ==
    \A r \in Readers : scan[r].phase = "verdict" /\ scan[r].verdict =>
        scan[r].seen = Keys

\* A report does not contradict itself unless a record was written while it
\* was made: where it says that the gate is passed, every platform it lists
\* is listed as satisfying it, although the records are read again and
\* writes may begin and fail in between.
QuietReportAgrees ==
    \A r \in Readers : scan[r].phase = "done" /\ ~scan[r].touched =>
        (scan[r].verdict => scan[r].listed = Keys)

\* The three together, of a gate whose report lists all records at once: it is
\* exact when nothing is written while it runs, never counts a record that was
\* not stored, and agrees with the list beside it.
ReportsSound == QuietVerdictExact /\ VerdictRestsOnStored /\ QuietReportAgrees

\* Nothing waits for ever: every report that has begun ends and every writer
\* is answered, or they die with the process, although a report takes the
\* mutex again for each platform and Record unlocks by hand on each path.
AllAnswered ==
    /\ \A r \in Readers : scan[r].phase # "idle" ~> scan[r].phase = "idle"
    /\ \A w \in Writers : pc[w] # "idle" ~> pc[w] = "idle"
=============================================================================
