------------------------------- MODULE Reports -------------------------------
(***************************************************************************)
(* What a pass measures and what becomes of it: the aggregates of each     *)
(* fingerprint (replay.rs, FpAgg), the report of a pass, the median over   *)
(* passes (aggregate.rs), the report of recorded latencies (baseline.rs),  *)
(* the comparison of two reports (compare.rs) and its exit code (main.rs). *)
(*                                                                         *)
(* A report's lists are sets here: how they are ranked is for the reader   *)
(* only.  The mean and the percentiles that decide nothing are left out.   *)
(***************************************************************************)
EXTENDS Integers, Sequences, FiniteSets, SequencesExt, Bitwise

CONSTANTS
    Width,          \* bits of a hash: 64
    SizeBounds,     \* upper bounds of the result-size decades but the last
    MinCount,       \* --min-count
    Volatile,       \* the fingerprints is_nondeterministic calls volatile
    None            \* an absent value

ASSUME ReportsAssumption ==
    /\ Width \in Nat /\ MinCount \in Nat
    /\ \A i \in DOMAIN SizeBounds : SizeBounds[i] \in Nat

Hash == 0 .. 2 ^ Width - 1

-----------------------------------------------------------------------------
(* The checksum of one result (target.rs, ChecksumBuilder).  Hash functions  *)
(* are external: the final one spreads what it is given over the width.      *)

NewBuilder(columns) == [columns |-> columns, sum |-> 0, xor |-> 0, rows |-> 0, bytes |-> 0]

\* A row has its hash and its size.
AddRow(b, row) ==
    [b EXCEPT !.sum = (@ + row.hash) % 2 ^ Width, !.xor = @ ^^ row.hash,
              !.rows = @ + 1, !.bytes = @ + row.bytes]

Spread(b) == (17 * b.columns + 257 * b.sum + 4099 * b.xor + 31 * b.rows + 5) % 2 ^ Width

\* Executing a statement with --checksum: the rows in the order they arrive.
QueryChecksum(columns, rows) ==
    LET b == FoldLeft(AddRow, NewBuilder(columns), rows)
    IN  [result |-> TRUE, digest |-> Spread(b), rows |-> b.rows, bytes |-> b.bytes, columns |-> columns]

-----------------------------------------------------------------------------
(* The aggregates of a fingerprint *)

\* A histogram (external) is the sorted sequence of its values.
Record(hist, v) == SortSeq(Append(hist, v), LAMBDA a, b : a < b)
Quantile(hist, pct) == IF hist = <<>> THEN 0 ELSE hist[(pct * Len(hist) + 99) \div 100]

SizeBucketIndex(bytes) ==
    CHOOSE i \in 1 .. Len(SizeBounds) + 1 :
        /\ i > Len(SizeBounds) \/ bytes < SizeBounds[i]
        /\ \A j \in 1 .. i - 1 : bytes >= SizeBounds[j]

NewChecksum ==
    [events |-> 0, no_result |-> 0, rows |-> 0, sum |-> 0, xor |-> 0, columns |-> 0, varied |-> FALSE]

NewFp ==
    [hist |-> <<>>, executed |-> 0, errors |-> 0, skipped |-> 0, not_run |-> 0,
     checksum |-> None, bytes |-> 0, buckets |-> <<>>]

\* One outcome of an event: a result set or none.  0 stands for no columns.
AddChecksum(c, outcome) ==
    IF ~ outcome.result THEN [c EXCEPT !.no_result = @ + 1]
    ELSE [c EXCEPT !.events = @ + 1, !.rows = @ + outcome.rows,
                   !.sum = (@ + outcome.digest) % 2 ^ Width, !.xor = @ ^^ outcome.digest,
                   !.columns = IF c.columns = 0 /\ c.events = 0 THEN outcome.columns ELSE @,
                   !.varied = @ \/ (~ (c.columns = 0 /\ c.events = 0) /\ c.columns # outcome.columns)]

\* The multiset hash over the events of a fingerprint.
ChecksumReport(c, volatile) ==
    [events |-> c.events, no_result |-> c.no_result, rows |-> c.rows,
     digest |-> <<c.sum, c.xor, c.events>>, columns |-> c.columns, varied |-> c.varied,
     nondeterministic |-> volatile]

\* with_fp: apply the change to the aggregate, a new one at first.
WithFp(per_fp, fp, F(_)) ==
    (fp :> F(IF fp \in DOMAIN per_fp THEN per_fp[fp] ELSE NewFp)) @@ per_fp

\* outcome.checksum is None when the statement is not checksummed.
RecordOk(per_fp, fp, micros, outcome) ==
    LET us == IF micros < 1 THEN 1 ELSE micros
        i  == SizeBucketIndex(outcome.bytes)
        Bucket(bs) == IF i \in DOMAIN bs THEN bs[i] ELSE [hist |-> <<>>, bytes |-> 0]
        Change(a) ==
            [a EXCEPT !.executed = @ + 1, !.hist = Record(@, us), !.bytes = @ + outcome.bytes,
                      !.buckets = (i :> [hist  |-> Record(Bucket(@).hist, us),
                                         bytes |-> Bucket(@).bytes + outcome.bytes]) @@ @,
                      !.checksum = IF outcome.checksum = None THEN @
                                   ELSE AddChecksum(IF @ = None THEN NewChecksum ELSE @, outcome.checksum)]
    IN  WithFp(per_fp, fp, Change)

RecordErr(per_fp, fp) == WithFp(per_fp, fp, LAMBDA a : [a EXCEPT !.errors = @ + 1])
RecordSkip(per_fp, fp) == WithFp(per_fp, fp, LAMBDA a : [a EXCEPT !.skipped = @ + 1])
RecordNotRun(per_fp, fp) == WithFp(per_fp, fp, LAMBDA a : [a EXCEPT !.not_run = @ + 1])

\* The end of run_pass: the report of each fingerprint.
FingerprintReport(fp, a) ==
    [count |-> a.executed, errors |-> a.errors, skipped |-> a.skipped, not_run |-> a.not_run,
     p95 |-> Quantile(a.hist, 95),
     checksum |-> IF a.checksum = None THEN None ELSE ChecksumReport(a.checksum, fp \in Volatile),
     bytes |-> IF a.executed = 0 THEN None ELSE a.bytes,
     buckets |-> [i \in DOMAIN a.buckets |->
                    [count |-> Len(a.buckets[i].hist), p95 |-> Quantile(a.buckets[i].hist, 95),
                     bytes |-> a.buckets[i].bytes]]]

\* meta has the capture, the flags and the target's settings and version.
PassReport(per_fp, aborted, meta) ==
    [fps |-> [fp \in DOMAIN per_fp |-> FingerprintReport(fp, per_fp[fp])],
     aborted |-> aborted, recorded |-> FALSE, meta |-> meta]

-----------------------------------------------------------------------------
(* The median over passes *)

\* Faulty variant: with an even number of passes the middle two are not halved.
MedianSum(v) ==
    LET s == SortSeq(v, LAMBDA a, b : a < b)
        n == Len(s)
    IN  IF n % 2 = 1 THEN s[n \div 2 + 1] ELSE s[n \div 2] + s[n \div 2 + 1]

Median(v) ==
    LET s == SortSeq(v, LAMBDA a, b : a < b)
        n == Len(s)
    IN  IF n % 2 = 1 THEN s[n \div 2 + 1] ELSE (s[n \div 2] + s[n \div 2 + 1]) \div 2

\* Faulty variant: a checksum is called nondeterministic whenever there is another pass.
AggregateChecksumAny(reports) ==
    LET first == reports[1].checksum
    IN  IF first = None THEN None
        ELSE [first EXCEPT !.nondeterministic = @ \/ Len(reports) > 1]

\* The first pass's checksum, called nondeterministic when a pass disagrees.
AggregateChecksum(reports) ==
    LET first == reports[1].checksum
    IN  IF first = None THEN None
        ELSE [first EXCEPT !.nondeterministic =
                @ \/ \E i \in DOMAIN reports :
                        reports[i].checksum # None /\ reports[i].checksum.digest # first.digest]

AggregateSizeBuckets(reports) ==
    LET At(i) == SelectSeq(reports, LAMBDA r : i \in DOMAIN r.buckets)
        M(i, F(_)) == Median([k \in DOMAIN At(i) |-> F(At(i)[k].buckets[i])])
    IN  [i \in UNION {DOMAIN reports[k].buckets : k \in DOMAIN reports} |->
            [count |-> M(i, LAMBDA b : b.count), p95 |-> M(i, LAMBDA b : b.p95),
             bytes |-> M(i, LAMBDA b : b.bytes)]]

AggregateResultBytes(reports) ==
    LET present == SelectSeq(reports, LAMBDA r : r.bytes # None)
    IN  IF present = <<>> THEN None ELSE Median([k \in DOMAIN present |-> present[k].bytes])

\* Every metric of a fingerprint over the passes in which it appears.
AggregateFp(reports) ==
    LET M(F(_)) == Median([k \in DOMAIN reports |-> F(reports[k])])
    IN  [count |-> M(LAMBDA r : r.count), errors |-> M(LAMBDA r : r.errors),
         skipped |-> M(LAMBDA r : r.skipped), not_run |-> M(LAMBDA r : r.not_run),
         p95 |-> M(LAMBDA r : r.p95), checksum |-> AggregateChecksum(reports),
         bytes |-> AggregateResultBytes(reports), buckets |-> AggregateSizeBuckets(reports)]

AggregateMedian(passes) ==
    LET In(fp) == SelectSeq(passes, LAMBDA p : fp \in DOMAIN p.fps)
    IN  [fps |-> [fp \in UNION {DOMAIN passes[i].fps : i \in DOMAIN passes} |->
                    AggregateFp([k \in DOMAIN In(fp) |-> In(fp)[k].fps[fp]])],
         aborted |-> \E i \in DOMAIN passes : passes[i].aborted,
         recorded |-> FALSE, meta |-> passes[1].meta]

\* The report compare gets: the pass itself, or the median with --repeat.
Headline(passes, repeat) == IF repeat > 1 THEN AggregateMedian(passes) ELSE passes[1]

-----------------------------------------------------------------------------
(* The report of recorded latencies *)

\* events: the captured events that pass the filters, with fingerprint and
\* recorded latency.  There is no target, so no checksum, sizes or settings.
BuildBaseline(events, meta) ==
    LET Of(fp) == SelectSeq(events, LAMBDA e : e.fp = fp)
        Micros(e) == IF e.us < 1 THEN 1 ELSE e.us
        Hist(fp) == FoldLeft(LAMBDA h, e : Record(h, Micros(e)), <<>>, Of(fp))
    IN  [fps |-> [fp \in {events[i].fp : i \in DOMAIN events} |->
                    [count |-> Len(Of(fp)), errors |-> 0, skipped |-> 0, not_run |-> 0,
                     p95 |-> Quantile(Hist(fp), 95), checksum |-> None, bytes |-> None,
                     buckets |-> <<>>]],
         aborted |-> FALSE, recorded |-> TRUE,
         meta |-> [meta EXCEPT !.checksum = FALSE, !.allow_writes = FALSE,
                               !.settings = {}, !.family = None]]

-----------------------------------------------------------------------------
(* The comparison *)

(* The change is (cand - base) / base * 100.0 in 64-bit floats, compared with  *)
(* --threshold-pct (pct), here a whole number from 1 to 199.  While latencies  *)
(* are below 2^44 microseconds, a change off the threshold is too far from it  *)
(* for the two roundings to matter.  A change of exactly the threshold becomes *)
(* the product of 100 and the float next to pct / 100, and is missed when that *)
(* product rounds to a float below pct.                                        *)

\* pct times the power of two that takes it to 100 or more: pct / 100 is
\* Scaled(pct) / 100 in [1, 2), times a power of two.
Scaled(pct) ==
    LET n == CHOOSE i \in 0 .. 7 : pct * 2 ^ i >= 100 /\ \A j \in 0 .. i - 1 : pct * 2 ^ j < 100
    IN  pct * 2 ^ n

\* The float next to Scaled(pct) / 100 is a multiple of 2^-52, so 100 times it
\* falls short of Scaled(pct) by 2^52 * Scaled(pct) % 100 parts of 2^52 if that is
\* at most 50, and is not short of it otherwise; 2^52 % 100 is 96.  Floats below
\* Scaled(pct) are 64 parts apart up to 128, and 128 parts above.
RoundsBelow(pct) == Scaled(pct) < 128 /\ (96 * Scaled(pct)) % 100 \in 33 .. 50

\* Faulty variant: the change is taken relative to the candidate.
RegressedOfCandidate(base, cand, pct) ==
    IF base > 0 THEN (cand - base) * 100 >= pct * cand ELSE cand > 0

\* At least the threshold slower, as far as floats tell.  From zero any increase
\* counts.
Regressed(base, cand, pct) ==
    IF base = 0 THEN cand > 0
    ELSE \/ (cand - base) * 100 > pct * base
         \/ (cand - base) * 100 = pct * base /\ ~ RoundsBelow(pct)

Improved(base, cand, pct) ==
    /\ base > 0
    /\ \/ (base - cand) * 100 > pct * base
       \/ (base - cand) * 100 = pct * base /\ ~ RoundsBelow(pct)

\* Populations too small to rank.
LowSample(b, c) == b.count = 0 \/ c.count = 0 \/ b.count < MinCount \/ c.count < MinCount

Verdict(b, c, pct) ==
    CASE LowSample(b, c) -> "low sample"
      [] Regressed(b.p95, c.p95, pct) -> "regression"
      [] Improved(b.p95, c.p95, pct) -> "improvement"
      [] OTHER -> "stable"

BucketsChecked(b, c) ==
    {i \in DOMAIN b.buckets \cap DOMAIN c.buckets : ~ LowSample(b.buckets[i], c.buckets[i])}

\* Decades that regressed in a fingerprint that did not.
BucketsRegressed(b, c, pct) ==
    IF Verdict(b, c, pct) = "regression" THEN {}
    ELSE {i \in BucketsChecked(b, c) : Regressed(b.buckets[i].p95, c.buckets[i].p95, pct)}

\* Diverging digests prove different data: neither side is volatile and both
\* checksummed as many events.
Conclusive(bc, cc) == ~ bc.nondeterministic /\ ~ cc.nondeterministic /\ bc.events = cc.events

Checksummed(b, c) ==
    /\ b.checksum # None /\ c.checksum # None
    /\ b.checksum.events > 0 /\ c.checksum.events > 0

\* The comparability warnings, by what they are about.
Warnings(b, c) ==
    LET both == DOMAIN b.fps \cap DOMAIN c.fps
        one  == (DOMAIN b.fps \cup DOMAIN c.fps) \ both
        Warn(cond, w) == IF cond THEN {w} ELSE {}
    IN  Warn(b.meta.capture # c.meta.capture, "capture")
          \cup Warn(b.meta.family # None /\ c.meta.family # None /\ b.meta.family # c.meta.family, "family")
          \cup Warn(b.recorded # c.recorded, "planes")
          \cup Warn(/\ ~ b.recorded /\ ~ c.recorded
                    /\ b.meta.checksum # c.meta.checksum \/ b.meta.allow_writes # c.meta.allow_writes,
                    "flag")
          \cup Warn(b.meta.filter # c.meta.filter, "filter")
          \cup Warn(b.aborted \/ c.aborted, "aborted")
          \cup Warn(b.meta.settings # {} /\ c.meta.settings # {} /\ b.meta.settings # c.meta.settings,
                    "settings")
          \cup Warn(b.meta.checksum # c.meta.checksum, "checksum")
          \cup Warn(one # {}, "tables")
          \cup Warn(\E fp \in both : b.fps[fp].count # c.fps[fp].count, "counts")

CompareRuns(b, c, pct) ==
    LET both == DOMAIN b.fps \cap DOMAIN c.fps
        Listed(v) == {fp \in both : Verdict(b.fps[fp], c.fps[fp], pct) = v}
        checked == IF b.meta.checksum /\ c.meta.checksum
                   THEN {fp \in both : Checksummed(b.fps[fp], c.fps[fp])} ELSE {}
        diverge == {fp \in checked : b.fps[fp].checksum.digest # c.fps[fp].checksum.digest}
        wrong   == {fp \in diverge : Conclusive(b.fps[fp].checksum, c.fps[fp].checksum)}
    IN  [threshold_pct |-> pct, regressions |-> Listed("regression"), improvements |-> Listed("improvement"),
         stable |-> Listed("stable"), low_sample |-> Listed("low sample"),
         only_in_baseline |-> DOMAIN b.fps \ both, only_in_candidate |-> DOMAIN c.fps \ both,
         mismatches |-> wrong, advisory |-> diverge \ wrong,
         size_regressions |->
            UNION {{<<fp, i>> : i \in BucketsRegressed(b.fps[fp], c.fps[fp], pct)} : fp \in both},
         warnings |-> Warnings(b, c) \cup (IF wrong = {} THEN {} ELSE {"mismatch"})]

\* The Compare command.
ExitRegressed == 2
CompareExit(r) ==
    IF r.regressions # {} \/ r.size_regressions # {} \/ r.mismatches # {} THEN ExitRegressed ELSE 0

=============================================================================
