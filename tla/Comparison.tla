----------------------------- MODULE Comparison -----------------------------
(***************************************************************************)
(* A capture is replayed against two servers, each with --repeat passes,   *)
(* and the two reports are compared; or the first report is made from the  *)
(* recorded latencies.  The sessions of a pass record their events in any  *)
(* order, a server returns rows in any order, statements fail, and a run   *)
(* may be aborted.  Composes what module Reports defines; how a pass       *)
(* schedules its sessions is module ReplayPass.                            *)
(***************************************************************************)
EXTENDS Reports

CONSTANTS
    Plans,      \* what is replayed and compared, see Init
    Thresholds, \* what --threshold-pct may be
    MaxFaults   \* statements that fail, and aborts, over both runs

ASSUME ThresholdsAssumption == Thresholds \subseteq 1 .. 199

Sides == <<"baseline", "candidate">>

VARIABLES
    plan,       \* the plan
    side,       \* 1 and 2 while that run is under way, 3 afterwards
    todo,       \* events of the pass that are not recorded yet
    per_fp,     \* the aggregates of the pass
    aborted,    \* the abort flag of the run
    passes,     \* the reports of the run's passes
    runs,       \* the passes of the runs that have ended
    faults,
    result,     \* what compare found
    exit        \* its exit code

vars == <<plan, side, todo, per_fp, aborted, passes, runs, faults, result, exit>>

\* A plan says, for each of the two runs: its events (with fingerprint, whether
\* it writes, its result and the latencies it may have), the number of passes,
\* whether it is a recorded baseline, and its meta data.
Events(i) == DOMAIN plan[i].events
Event(i, e) == plan[i].events[e]

Init ==
    /\ plan \in Plans
    /\ side = 1
    /\ todo = DOMAIN plan[1].events
    /\ per_fp = <<>>
    /\ aborted = FALSE
    /\ passes = <<>>
    /\ runs = <<>>
    /\ faults = 0
    /\ result = None
    /\ exit = None

Replaying == side \in 1 .. 2 /\ ~ plan[side].recorded

Allowed(e) == ~ Event(side, e).writes \/ plan[side].meta.allow_writes

Recorded(e) ==
    /\ todo' = todo \ {e}
    /\ UNCHANGED <<plan, side, passes, runs, result, exit>>

\* A statement succeeds.  Writes are not checksummed.
Execute(e) ==
    /\ Replaying /\ ~ aborted /\ e \in todo /\ Allowed(e)
    /\ LET ev == Event(side, e)
           bytes == FoldLeft(LAMBDA n, r : n + r.bytes, 0, ev.rows)
       IN  \E us \in ev.us, rows \in {ev.rows, Reverse(ev.rows)} :
              per_fp' = RecordOk(per_fp, ev.fp, us,
                            [bytes    |-> bytes,
                             checksum |-> IF ~ plan[side].meta.checksum \/ ev.writes THEN None
                                          ELSE QueryChecksum(ev.columns, rows)])
    /\ Recorded(e)
    /\ UNCHANGED <<aborted, faults>>

\* The server answers with an error.
Reject(e) ==
    /\ Replaying /\ ~ aborted /\ e \in todo /\ Allowed(e) /\ faults < MaxFaults
    /\ per_fp' = RecordErr(per_fp, Event(side, e).fp)
    /\ faults' = faults + 1
    /\ Recorded(e)
    /\ UNCHANGED aborted

\* The write gate holds a statement back.
HoldBack(e) ==
    /\ Replaying /\ e \in todo /\ ~ Allowed(e)
    /\ per_fp' = RecordSkip(per_fp, Event(side, e).fp)
    /\ Recorded(e)
    /\ UNCHANGED <<aborted, faults>>

\* A signal; the events that are left are recorded as not run.
Abort ==
    /\ Replaying /\ ~ aborted /\ faults < MaxFaults
    /\ aborted' = TRUE
    /\ faults' = faults + 1
    /\ UNCHANGED <<plan, side, todo, per_fp, passes, runs, result, exit>>

LeaveOut(e) ==
    /\ Replaying /\ aborted /\ e \in todo /\ Allowed(e)
    /\ per_fp' = RecordNotRun(per_fp, Event(side, e).fp)
    /\ Recorded(e)
    /\ UNCHANGED <<aborted, faults>>

\* The pass ends; another follows unless there were enough or the run was aborted.
EndPass ==
    /\ Replaying /\ todo = {}
    /\ per_fp' = <<>>
    /\ LET done == Append(passes, PassReport(per_fp, aborted, plan[side].meta))
       IN  IF aborted \/ Len(done) = plan[side].repeat
           THEN /\ runs' = Append(runs, done)
                /\ passes' = <<>>
                /\ side' = side + 1
                /\ aborted' = FALSE
                /\ todo' = IF side = 1 THEN Events(2) ELSE {}
           ELSE /\ passes' = done
                /\ todo' = Events(side)
                /\ UNCHANGED <<runs, side, aborted>>
    /\ UNCHANGED <<plan, faults, result, exit>>

\* `sql-replay baseline`: the capture's latencies, whatever they were.
RecordBaseline ==
    /\ side \in 1 .. 2 /\ plan[side].recorded
    /\ LET order == SetToSeq(Events(side))
       IN  \E us \in [Events(side) -> UNION {Event(side, e).us : e \in Events(side)}] :
              /\ \A e \in Events(side) : us[e] \in Event(side, e).us
              /\ runs' = Append(runs, <<BuildBaseline(
                            [k \in DOMAIN order |-> [fp |-> Event(side, order[k]).fp, us |-> us[order[k]]]],
                            plan[side].meta)>>)
    /\ side' = side + 1
    /\ todo' = IF side = 1 THEN Events(2) ELSE {}
    /\ UNCHANGED <<plan, per_fp, aborted, passes, faults, result, exit>>

\* `sql-replay compare` on the two reports.
Compare ==
    /\ side = 3 /\ exit = None
    /\ \E pct \in Thresholds :
          result' = CompareRuns(Headline(runs[1], plan[1].repeat),
                                Headline(runs[2], plan[2].repeat), pct)
    /\ exit' = CompareExit(result')
    /\ UNCHANGED <<plan, side, todo, per_fp, aborted, passes, runs, faults>>

Next ==
    \/ \E e \in todo : Execute(e) \/ Reject(e) \/ HoldBack(e) \/ LeaveOut(e)
    \/ Abort
    \/ EndPass
    \/ RecordBaseline
    \/ Compare

Spec == Init /\ [][Next]_vars

-----------------------------------------------------------------------------
(* Properties *)

Compared == exit # None

Fingerprints(i) == {Event(i, e).fp : e \in Events(i)}
EventsOf(i, fp) == {e \in Events(i) : Event(i, e).fp = fp}

\* What a server answers to the statements of a fingerprint, but for the order
\* of the rows.
Answers(i, fp) ==
    [e \in EventsOf(i, fp) |-> <<Event(i, e).columns, ToSet(Event(i, e).rows), Len(Event(i, e).rows)>>]

\* Every statement of the fingerprint was answered in every pass of the run.
Complete(i, fp) ==
    \A k \in DOMAIN runs[i] :
        fp \in DOMAIN runs[i][k].fps /\ runs[i][k].fps[fp].count = Cardinality(EventsOf(i, fp))

Common == Fingerprints(1) \cap Fingerprints(2)
Differ(fp) == Answers(1, fp) # Answers(2, fp)

\* compare.rs, the correctness section and main.rs, the exit code: compare accuses
\* a server of a wrong answer only when the servers did answer a statement
\* differently, in whatever order rows arrived and sessions recorded, if one of
\* the runs lost no statement of the fingerprint.  When a fingerprint that is
\* not volatile was answered differently with --checksum, compare fails if both
\* runs are complete, and does not stay silent if the first pass of one is and
\* the first pass of the other got an answer at all.
WrongAnswersFail ==
    Compared =>
        \A fp \in Common :
            LET asked  == /\ plan[1].meta.checksum /\ plan[2].meta.checksum
                          /\ ~ plan[1].recorded /\ fp \notin Volatile
                          /\ \A e \in EventsOf(1, fp) : ~ Event(1, e).writes
                First(i) == runs[i][1].fps[fp].count
                All      == Cardinality(EventsOf(1, fp))
            IN  /\ fp \in result.mismatches =>
                      /\ fp \notin Volatile
                      /\ Differ(fp) \/ ~ (Complete(1, fp) \/ Complete(2, fp))
                /\ Differ(fp) /\ asked /\ Complete(1, fp) /\ Complete(2, fp) =>
                      fp \in result.mismatches /\ exit = ExitRegressed
                /\ Differ(fp) /\ asked /\ All \in {First(1), First(2)} /\ 0 \notin {First(1), First(2)} =>
                      exit = ExitRegressed \/ fp \in result.advisory \/ result.warnings # {}

\* compare.rs says of a failed comparison that "a deterministic query returned
\* different data": whatever failed or was cut short in the two runs, a
\* fingerprint is called a mismatch only when the servers answer one of its
\* statements differently.
MismatchIsReal == Compared => \A fp \in Common \cap result.mismatches : Differ(fp)

\* The 95th percentiles of a fingerprint, or of one of its result sizes, in the
\* passes of a run.
P95s(i, fp) == {runs[i][k].fps[fp].p95 : k \in DOMAIN runs[i]}
SizeP95s(i, fp, b) == {runs[i][k].fps[fp].buckets[b].p95 : k \in DOMAIN runs[i]}
Sizes(i, fp) == {b \in 1 .. Len(SizeBounds) + 1 : \A k \in DOMAIN runs[i] : b \in DOMAIN runs[i][k].fps[fp].buckets}
Counted(i, fp) ==
    \A k \in DOMAIN runs[i] :
        /\ fp \in DOMAIN runs[i][k].fps
        /\ runs[i][k].fps[fp].count >= MinCount /\ runs[i][k].fps[fp].count > 0
SizeCounted(i, fp, b) ==
    \A k \in DOMAIN runs[i] : runs[i][k].fps[fp].buckets[b].count >= MinCount

\* All of one set of latencies are slower than all of the other, by more than
\* the threshold; exactly the threshold is enough when it is a round number.
Round(pct) == pct <= 100 /\ pct % 5 = 0
Slower(slow, fast) ==
    LET pct == result.threshold_pct
    IN  \A s \in slow, f \in fast :
            IF Round(pct) THEN (s - f) * 100 >= pct * f ELSE (s - f) * 100 > pct * f
NotSlower(cand, base) == \A c \in cand, b \in base : c <= b

Both == {fp \in Common : Counted(1, fp) /\ Counted(2, fp)}

\* aggregate.rs and compare.rs:9-10: a fingerprint, or one of its result sizes,
\* that is slower by more than the threshold in every pass of the candidate than
\* in any pass of the baseline makes compare fail; neither the median over passes
\* nor the percentile over mixed sizes hides it.  A slowdown of exactly the
\* threshold is "at least" it, and fails too when the threshold is a multiple of
\* 5 up to 100; of the others rounding misses some: 129 against 100 is computed
\* as 28.999999999999996 percent.
SlowdownFails ==
    Compared =>
        \A fp \in Both :
            \/ exit = ExitRegressed
            \/ /\ ~ Slower(P95s(2, fp), P95s(1, fp))
               /\ \A b \in Sizes(1, fp) \cap Sizes(2, fp) :
                     (SizeCounted(1, fp, b) /\ SizeCounted(2, fp, b)) =>
                         ~ Slower(SizeP95s(2, fp, b), SizeP95s(1, fp, b))

\* aggregate.rs and compare.rs: a fingerprint that ran in every pass and was
\* slower in no pass of the candidate than in any of the baseline, as a whole and
\* in each result size, is not called a regression.
NoFalseAlarm ==
    Compared =>
        \A fp \in Both :
            /\ NotSlower(P95s(2, fp), P95s(1, fp)) => fp \notin result.regressions
            /\ \A b \in Sizes(1, fp) \cap Sizes(2, fp) :
                  NotSlower(SizeP95s(2, fp, b), SizeP95s(1, fp, b)) => <<fp, b>> \notin result.size_regressions

=============================================================================
