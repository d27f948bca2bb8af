# A TLA+ verification of sql-replay

`sql-replay` captures a SQL workload (from a MySQL slow log or a packet
capture), replays it against a target server with the concurrency of the
original, and compares two such runs. This directory holds TLA+ models of its
core, the TLC runs that check them, and TLAPS proofs about them. All source
paths are relative to `src/crates/sql-replay/src/`.

## 1. Inventory

| Component | State | Operations | Hard part | What makes it correct | Modules |
|---|---|---|---|---|---|
| Replay pass (`replay.rs`, `run_pass` and the session tasks) | per session: cursor, connection, `current_db`; shared: semaphore, `waiters`, pool shelf, metrics, abort flag | read, pace, gate, acquire, check out, connect, `USE`, execute, check in, release, drain | one task per session, permits handed over and cancelled, abort at any await, failures half-way through a session | cap kept, write gate kept, every event counted once, right database, abort stops sending, nothing leaks, the pass ends | `ReplayPass` |
| Replay run (`run_passes`, `run_replay`, `main.rs`) | reports of the passes, abort flag, files | set up, warm-up, measured passes, aggregate, write, exit, signals | a signal between any two steps; a second one exits at once | a run leaves its report, cut runs are marked, the warm-up is not measured | `ReplayRun` |
| Spool and capture reader (`spool.rs`, `format.rs`) | session plan, index, spool file, cursors | size, lay out, write, check, read | the capture is read twice and may change in between; writes are not bounded by their region | cursors deliver the capture; same result as in memory; no false alarm | `Spool` |
| TCP reassembly (`pcap.rs`, `SeqStream`) | next offset, out-of-order buffer | SYN, segment | loss, copies, reordering, re-cut retransmissions, wrap, buffer cap | bytes delivered once and in order; a filled gap releases what waited | `Reassembly`, `SeqStream` |
| Wire decoder (`mysqlproto.rs`) | packet assemblers, phase, requests in flight, prepared statements, long data | client bytes, server bytes, finish | pipelining, messages over several packets and segments, statement ids and parameter types that live on, quits | each event has its own request's text, time, database and response; each request is an event or a count | `WireDecoder`, `ConnDecoder` |
| Pcap engine (`pcap.rs`, `PcapEngine`, `scan_pcap_file`) | connections by 4-tuple, tombstones, used session ids, counters | packet, finalize, finish, scan | port reuse, late copies, thread ids that repeat, a failing sink | each connection counted and closed once, sessions never merged, no silent loss | `PcapEngine`, `ConnLedger` |
| Slow-log parser (`slowlog.rs`) | current entry, carried time and database, string and comment state | line | statements that look like headers or metadata; state carried between threads and restarts | each statement becomes its own event | `SlowLog` |
| Capture command (`capture.rs`) | fingerprint table, counters | emit, finish | – | summary and events agree | `SlowLog`, `PcapEngine` (as the sink) |
| Classification and fingerprints (`classify.rs`, `fingerprint.rs`) | none (pure) | classify, is_nondeterministic, fingerprint | comments, executed comments, quotes, trailing statements, lists, signs | the gate never lets a write through; a class is a shape; volatile classes are known | `SqlText` |
| Metrics and aggregation (`replay.rs`, `aggregate.rs`, `report.rs`) | aggregates per fingerprint | record, report, median | sessions record in any order, passes disagree or are partial | order does not matter; a median is typical | `Reports` |
| Compare and baseline (`compare.rs`, `baseline.rs`) | none (pure) | verdict, correctness, exit code | lost statements, thresholds, zero baselines, size decades | fails when it should and only then | `Reports`, `Comparison` |
| Target (`target.rs`) | – | connect, query, checksum | – | answers and checksums as `ReplayPass` and `Reports` use them | partly |
| HTML and tables, command line, allocator (`compare_html.rs`, `report.rs`, `main.rs`, `memtune.rs`) | none, or formatting | – | – | – | files and exit codes only |

The components meet at five places. The capture command turns a slow log or a
packet capture into events; a packet capture passes through reassembly, decoder
and engine on the way. The capture (file format of `format.rs`) is read by the
spool. The spool gives each session of a pass a cursor and the `has_executable`
verdict. A pass is a step of a run. Two runs' reports are what compare reads.

## 2. The modules

### ReplayPass: one pass

A session task is a program counter `pc[s]`; a step is the code between two
points where another task can interfere (an `await`, or an access to shared
state whose order matters).

| Label | Code |
|---|---|
| `start` | `run_session` is spawned |
| `first` | dedicated: first event read, waiting until it is due (765) |
| `acquire`, `queued`, `polled`, `permitted` | around `acquire_owned`; `waiters` is incremented before and decremented after (775-788, 933-946). The select polls the flag (`PollFlag`), then the semaphore (`PollAcquire`); between the two, at `polled`, other threads run |
| `checkout`, `connect` | `ConnPool::checkout` and `Target::connect` |
| `next`, `due` | head of the event loop, and the wait in `pace` |
| `use`, `exec` | the reconciling `USE` and the statement are on the wire |
| `closing`, `release`, `done` | disconnect, drop of the permit, end of the task |

Of an event the model keeps what the pass looks at: read, write or captured
`USE`; the database it was captured in; for a `USE` the database it selects.
A connection is the pair of the database the server has selected (`srv`) and
the one the replayer believes is selected (`db`).

The semaphore is tokio's and marked external: first come first served, a
released permit is assigned to the longest waiter at once, and dropping a
pending acquire gives an assigned permit back. The target is seen through its
answers: it may accept or refuse a connection, answer, reject a statement or
lose the connection, in any order. A spool read may fail, at most
`MaxReadFailures` times in a pass. `Speed` is abstracted away: an event may
become due at any time. A connection that is dropped counts as closed at the
drop; the driver closes the socket in the background.

### ReplayRun: a whole run

`at` is where `run_passes` or its caller is, `passes` the reports so far. A
pass is two steps, joining the sessions and building the report, because the
abort flag is read again in the second. Files are written one by one, since a
second signal ends the process between any two of them; that a single file may
be cut short is not modelled.

### Spool: ingestion

The capture is a sequence of records (header, events, summary, or a malformed
line); pass A and pass B read one record per step with the validation of
`stream_capture`. The spool file is modelled cell by cell, so an overrun of a
region really overwrites its neighbour. `Replace` puts any other capture in
place of the file between the passes. The in-memory ingestion
(`run_replay_in_memory_with_target`, `group_sessions`) is the reference.

### Reassembly and SeqStream

`Reassembly` is the state of one direction of a TCP stream as a record and its
operations as operators; `SeqStream` puts a sender and a capture around it, and
`PcapEngine` uses two of them per connection. In `SeqStream` the sender's bytes
are numbered, so `delivered` can be compared with what was sent; the code under
test only sees sequence numbers modulo `M`. Assumed of the capture: no segment
from more than half of the sequence space away, none from before the origin,
none before a captured SYN.

### WireDecoder and ConnDecoder

`WireDecoder` is `PacketAssembler` and `ConnDecoder` of `mysqlproto.rs` as
operators on a record. A stream is a sequence of cells: one for a packet's
header, one per unit of payload; the first payload cell carries the message's
fields. SQL is a sequence of lexemes. `ConnDecoder` puts a client, a server and
the capture around it: the client sends a script with up to `depth` commands in
flight, the server answers in order (or with an error), and the capture hands
each direction to the decoder in pieces of any size and may lose a direction.
What client and server really did is kept with each request (`reqs`) and
compared with the events.

### PcapEngine and ConnLedger

`PcapEngine` composes reassembly and decoder: `OnPacket` is `on_packet` with
port reuse, tombstones and session ids; `Scan` is the loop of `scan_pcap_file`
with a sink that may fail at any event. The traffic of a 4-tuple is a sequence
of frames, of which the capture may lose, delay, repeat or truncate some.
`ConnLedger` is the abstract specification: connections are opened one at a time
and closed once under one disposition, and at the end of a capture all are
closed. `LedgerKept` states that the engine's counters implement it, with the
refinement mapping `opened <- eng.stats.connections`, `closed <-
eng.stats.closed`, `result <- status`.

Most properties of the engine are claimed while the capture is `clean`, that is
until a frame arrives that the engine cannot attribute: one of a connection
whose SYN was lost although its port is tracked for another one, or a SYN that is
captured after what follows it (`Disturbs`). What happens then is listed below
under known limits.

Of the traffic `TrafficAssumption` says what MySQL and TCP see to: a connection
belongs to one 4-tuple, every copy of its client's SYN has the same sequence
number, and a thread id is a 32-bit number, below the synthetic session ids
that start at 2^48. TLC evaluates the assumption on every run of the engine.

### SqlText and SlowLog

`SqlText` holds the text algorithms on lexemes: the scanners of `classify.rs`,
`slowlog.rs` and `fingerprint.rs`, the classifier, the fingerprint and the test
for volatile functions. `SlowLog` has a server that writes a log in the style of
its version, `SlowLogParser` that reads it line by line, and the emitter; what
the server logged is compared with the events. The shape, effect and volatility
of a statement are those of the template it was made from, so the classifier
and the fingerprint are checked against an independent reference.

Blanks are lexemes of their own (`sp`, `nl`), because the fingerprint keeps them:
runs of blanks, line ends and comments become one space, which is removed at the
end of the text, by the collapsing of `IN` and `VALUES` lists and by the folding
of a sign, and nowhere else. The shape of a statement is therefore its template
together with the place, if any, where it is spaced out and its template is not:
`now()` and `now(/**/)` are two shapes. `SlowLog` also has text lines that read
like a time header (`hdr`) or like the banner of a restart (`bnr`).

### Reports and Comparison

`Reports` is what a pass records and computes: result checksums with their sum
and xor, `FpAgg`, the report, `aggregate_median`, `build_baseline`,
`compare_runs` and the exit code. `Comparison` replays a plan against two
servers: in every pass the events are recorded in any order, rows arrive in any
order, statements fail and runs are aborted, and then the reports are compared.
A recorded baseline replaces the first run in some plans. The hash of a row is a
given number; sums and xors keep their width. Of the percentiles the model has
the 95th, which alone decides a verdict. The code compares a change in percent,
computed in 64-bit floats, with `--threshold-pct`. For latencies below 2^44
microseconds and whole thresholds below 200 the floats decide as exact numbers
do, but for a change of exactly the threshold, which `RoundsBelow` decides.

### Proofs and model-checking modules

`ReplayPassProofs`, `ReplayPassLedgerProofs`, `ReplayRunProofs`,
`SeqStreamProofs`, `PcapEngineProofs` and `SpoolProofs` hold the theorems about
the component they are named after. The inductive invariants are at the end of
the component's own module, that of the engine in its proof module, since it is
stated in terms of the lemmas about one connection. `ReassemblyProofs` has the
lemmas about `Reassembly` that both `SeqStreamProofs` and `PcapEngineProofs`
use. `Sums` is the sum over a finite set (`Total`), and `Induction` the facts
about it and the forms of induction the proofs use. The modules whose names begin with `MC`
define the workloads, captures, logs and plans of the runs; `ReplayRun` needs
none. Definitions introduced by "Faulty variant" are single plausible mistakes;
putting one in place of the definition it follows makes the property named in
`PROJECT.json` fail.

## 3. Runs

| Run | Instance | States | Shows |
|---|---|---|---|
| `dedicated` | 3 sessions (one with writes only), 1 permit, 1 read failure, 1 sample | 35 thousand | cap, gate, accounting, waiters, leaks, and `PassEnds` |
| `pooled` | 3 sessions, pool of 2, writes allowed, two databases | 295 thousand | database on a shared connection, abort stops and is reported |
| `run` | up to 3 passes of 2 events, all options, signals, failures | 1.5 thousand | the run's properties and `RunEnds` |
| `spool` | 12 capture files, each replaceable by any other | 0.8 thousand | the spool's properties and that it settles |
| `reassembly` | up to 12 bytes over a sequence space of 8, cuts of 1 to 3 bytes or fixed, with and without SYN, buffer of 4 | 1.1 thousand | order, wrap, buffer, overflow, filled gaps |
| `decoder` | connections of up to 5 commands, 1 or 2 in flight, packets of up to 2 cells, sequence numbers modulo 4, 2-bit integers | 530 thousand | the decoder's six properties |
| `engine` | one or two connections on one or two keys, a reused key and thread id, up to 2 faults, a failing sink | 230 thousand | the engine's properties and the refinement |
| `capture` | 23 statement templates with 8 literals and 6 comments or blanks at every gap, all pairs, and triples of entries of two threads in 4 server styles | 351 thousand | parser, fingerprint, gate, volatility |
| `compare` | 7 plans of 1 to 3 events, 1 to 3 passes, 2 faults, thresholds of 20, 29 and 50% | 207 thousand | verdict and exit code |

Why the bounds are enough: contention for a permit needs one more session than
permits, a hand-over with a cancelled waiter needs three; two databases and
three events per session reach every order of `USE`, failure and reuse; three
passes are the first aggregate in which a partial pass can differ from the
median; the captures of the spool run cover a replacement that keeps, grows,
shrinks and moves bytes between sessions and one that adds a session; a stream
longer than the sequence space wraps with segments of both laps in flight. In
the decoder, responses are longer than the space of sequence numbers, commands
longer than a packet, and the prepared-statement scripts reuse ids, types and
long data. In the engine two faults allow a loss and a late copy on one
connection, and one on each of two. The latencies of the compare run are exactly
20, 29 and 50 percent apart, and a microsecond next to the first two.

Fairness: in a pass each session step, the sampler's second read, and the two
closing steps are weakly fair, because the runtime keeps polling ready tasks,
timers fire, and the target answers. The last is an assumption: the code sets
no timeout on a statement, so a target that never answers does hold up the
pass and a graceful abort. Signals, failures and sampler ticks are not forced.
`RunEnds` and `SpoolSettles` assume weak fairness of the run's and the spool's
own steps, which are sequential code. The other runs check safety only and
disable the deadlock check where the input simply ends.

### Runs that end in a violation

Each states what the repository says of the program.

* `slowlog`: a `USE` that the slow log recorded as a statement is executed
  without `current_db` being told, so a later statement of the same session runs
  in the wrong database (`replay.rs:848`).
* `set_global`: `SET x = 1, GLOBAL y = 1` passes the write gate, since only the
  word after `SET` is looked at (`classify.rs:47`).
* `false_mismatch`: when each run loses another statement of a fingerprint, the
  numbers of checksummed events agree and the digests do not, and compare
  reports different data although the servers answer alike (`compare.rs:584`).

### Known limits of the code

Behaviours met while modelling. The properties state them as exceptions or do not
speak of them, and no run of the project is about them.

* Replay: a signal between two passes ends the run with exit code 0 and fewer
  passes than asked for (`replay.rs:1214`). The saturation sampler may count a
  session that already has its permit (`replay.rs:1055`).
* Reassembly: a longer copy of a buffered segment is dropped with its tail
  (`pcap.rs:244`). A segment from before the origin is buffered almost a lap
  ahead (`pcap.rs:202`).
* Engine: a SYN captured late, or a copy of it after data, rewinds the stream or
  counts the connection twice (`pcap.rs:190`); a lost SYN on a reused port gives
  the frames to the previous connection or drops them. A connection that closes
  with an open gap, and one that only has a SYN, count as decoded.
* Decoder: requests in flight at a quit are dropped uncounted
  (`mysqlproto.rs:596`). Long data of an execute that cannot be expanded stays
  for the next execute of that id. A failed `USE` or a `COM_CHANGE_USER` leaves
  database and user of later events wrong. With several requests in flight,
  responses of a multiple of 256 packets and commands of several packets can be
  matched wrongly.
* Slow log: a client's own `SET timestamp=N` is taken for metadata and a `use`
  statement after it for part of another entry. A statement without a default
  database gets the last one of the log, one without a user the previous user. A
  line that reads like a header ends a statement unless it is in a string or a
  block comment. A 9.x server with `log_slow_extra` is labelled 8.0.
* Fingerprint: a blank or comment next to punctuation makes another class, as in
  `now()` and `now( )`, or `x = 1` and `x =1` (`fingerprint.rs:47`, `62`).
* Compare: the aggregated 95th percentile of a fingerprint that ran in only one of
  two passes is half of its value. Passes that disagree because of errors make
  the checksum advisory, which can hide a real mismatch, and a first pass without
  an answer drops the checksum. A slowdown of exactly the threshold is missed
  where the float percentage rounds below it: with `--threshold-pct 29`, 129
  against 100 is computed as 28.999999999999996 (`compare.rs:343`). Of the whole
  thresholds below 200 this concerns 29, 57, 58 and 113 to 116.

## 4. Proofs

TLC checks instances; the theorems hold for every value of the constants that
meets the assumptions named here. Each theorem `Spec => []P` rests on an
inductive invariant, because none of the properties is inductive by itself. The
invariants were checked by TLC on the runs' instances before they were proved.

### One pass (`ReplayPassProofs`, `ReplayPassLedgerProofs`)

Assumptions: the sessions are finite, the cap is at least 1 (the code takes the
maximum with 1), events are well formed, the flags are Booleans.

`PassInvariant` (`PassInv`) gives `TypeCorrect`, `CapRespected`, `GateHolds`,
`WaitersAreExact` and `NoLeaks`. The cap follows from three facts that
each need the others: permits are conserved (`PermitsConserved`), they are held
exactly where the code holds one (`PermitsMatchLabels`), and a connection exists
exactly where the code has or makes one (`OpenMatchesLabels`). So connections in
use are at most the permits given out. The delicate step is a pooled checkout
that finds the shelf empty: it opens a connection under a permit whose session
has none yet, so the ones open are strictly fewer than the cap. `QueueWaits`
keeps the hand-over of permits sound when queued acquires are cancelled.
`GatedBeforeAcquire` carries the write gate from the check to the wire, across
the wait for a permit. `JoinedBeforeDrained` gives `NothingLeaks` at the end.

`LedgerInvariant` (`LedgerInv`) gives `EventsCounted` and `AbortReported`. The
accounting is the sum of the outcome counters against the sum of the sessions'
cursors; it needs `CursorsRun` (a session that ends has read all its events, or
its spool failed) for the steps that drain a session's rest into one counter,
and `NotRunHasCause` remembers why events were given up until the report is
built. `AbortStops` proves the action property `AbortStopsSending`: after an
abort no session gets past the flag again. The select around the acquire polls
the flag first and the semaphore after it, so a pooled session that looked just
before the abort (`polled`) still gets its permit and sends one statement; those
that send at one time are at most the cap, because each of them holds a permit.

`DbIsRight` proves `RightDb` from `DbInv`: the replayer's idea of each connection's
database is right or empty (`HonestConns`), on connections that lie on the shelf
too, and a statement is sent only once its database is selected
(`SelectedFirst`). Its hypothesis `DbKnown` says that the pass is pooled, or the
database overridden, or every captured `USE` carries the database it selects, as
the packet decoder records it. It is needed: without it the property is false,
which the `slowlog` run shows.

### A run (`ReplayRunProofs`)

`RunInvariant` (`RunInv`) gives `ReportLeft`, `WarmupApart`, `CutMarked` and
`PartialIsLast`, for any number of passes and events and signals at any step.
The invariant says that an aborted report is the last one and ends
`run_passes` (`AbortedIsLast`), that nothing is collected before the warm-up is
over (`WarmupComesFirst`), that a cut pass implies the flag (`CutNeedsAbort`,
which is why the second read of the flag cannot miss it) and that the exit code
agrees with the reports (`ExitTellsAbort`).

### Reassembly (`SeqStreamProofs`)

Assumptions: a sequence space of any size, any buffer limit, and of the capture
what section 2 says (`ScenarioAssumption` and the guard of `OnData`).
`StreamInvariant` (`StreamInv`) gives `InOrder`, `BufferIsExact` and `GapFilled`.
The first lemma is about `Rel`: within half of the sequence space the signed
difference modulo `M` is the true distance, so the wrap is invisible. A buffered
segment holds the sender's bytes from its offset on (`StreamOK`); `drain` keeps
that between its rounds, so the parts of the invariant are stated of any stream
and the proof of `drain` is an induction over its rounds. `Kept` says a captured
byte is delivered or waits. It is claimed where retransmissions repeat the
original segments, since the code drops the longer of two copies with its tail.

### The capture engine (`PcapEngineProofs`)

Assumptions: `TrafficAssumption` (section 2), and that the limits are natural
numbers. Nothing is assumed of the order in which frames arrive or of what is
lost, late, repeated or cut, and the payloads may be any cells.

`EngineInvariant` (`Inv`) gives three theorems. `EngineImplementsLedger` is the
refinement: every step of the engine with its decoders and streams is a step of
`ConnLedger` or changes nothing it speaks of. It needs no hypothesis on the
capture. `SessionsAreApart` and `ConnectionsAreReal` hold while the capture is
`clean`.

The invariant exists twice over. In every capture (`Scanning`) the entries of
the table are well-formed connections that decode cells of the traffic
(`Entry`), and the number of connections is that of the closed ones plus the
unfinished entries (`Balanced`). That is the whole argument for the ledger:
each operation closes an entry it finds unfinished and counts it, or leaves
both alone (`Handled`), and at the end of the file every entry is taken out
once, in any order. In a clean capture (`ScanningClean`) an entry has only been
given segments of one connection, its `owner`. This is why the decoder is part
of the proof: an event names the connection whose cells it was made from,
through reassembly, buffering, splitting into packets and the queue of requests
in flight, so what a connection hands out is its own. `OwnSessions` then says
that an id in use belongs to the connection whose events went out under it,
that a connection without an id has handed out none, and that ids in use lie
below the next synthetic one. The thread id is below the synthetic ids, so a
fresh id collides with none. `Keyed` and `Origins` exclude that a connection is
opened twice: an entry that a copy of a SYN finds has the origin the SYN gives,
so `SynRetransmit` recognises it, whatever came in between.

The proof goes up the layers of the model. The loops of the code are folds;
they are unrolled into rounds (`Rounds`), and each lemma is an induction over
them. Then come the packet assembler (`FeedOf`), the decoder with one lemma per
handler (`ChunkOf`, `FinishOf`), the events of one connection (`DrainKeeps`,
`FinalizeKeeps` and the session side of both), the entry (`SegmentKeeps`), the
table (`StoreKeeps`, `ClosingKeeps`, `OpenKeeps`), one packet (`PacketKeeps`,
`PacketSessions`), the end of the file (`FinishKeeps`), and the actions
(`ScanKeeps`, `EndKeeps`, `StepKeeps`).

TLC checked the invariant on the `engine` run's instance before it was proved.
The attempt to prove it showed that `Disturbs` had been too weak: a client's
SYN that comes after only server frames of its connection found an origin the
SYN does not give, and was not excepted. It is now.

### Ingestion (`SpoolProofs`)

Assumptions: a capture is a sequence of records, an event takes at least one
cell and has an integer timestamp (`CaptureAssumption`); None is not a number
(`NoneAssumption`). `SpoolInvariant` (`SpoolInv`) gives `CursorsDeliver`,
`SpoolIsEquivalent` and `ChangesAreReal`, for all captures, filters and windows,
and any replacement between the passes.

`Sized` and `Totalled` say what pass A knows after n records in terms of the
reference definitions. `Laid` says that regions lie one behind the other.
Pass B does not look at a region's end, so a changed capture may overwrite a
neighbour; `Intact` therefore claims the records only while no session is beyond
its region. That is enough: positions only grow, so when every region is exactly
full at the end (`RegionsFull`), none was overrun on the way. `Written` ties a
position to the bytes of the session's events read so far, which also gives
`ChangesAreReal`: in an unchanged capture these are the bytes pass A counted.
A cursor at a record's boundary (`ReadUpTo`) then finds the next record whole.

### Induction

The library's induction theorems take a predicate as a parameter, which the
installed provers cannot instantiate. `Induction` therefore proves the principle
for sets: a set that contains 0 and the successor of each of its members
contains every natural (`NatSetInduction`, from the least-number principle), and
the same for families of finite sets (`FiniteSetInduction`). A proof names the
set of the numbers its claim holds for. From it follow that `Total` is
independent of the order of summation, splits, and changes with its terms
(`TotalSplit`, `TotalUpdate`), and the facts about the recursive functions of
`Reassembly` and `Spool`.

### Only model-checked

* Liveness (`PassEnds`, `RunEnds`, `SpoolSettles`): fairness and `ENABLED` are out
  of the prover's reach.
* The engine's `EventsOnce` and `NoSilentLoss`, and all of `ConnDecoder`: they
  need that the packet assembler finds exactly the packets that were sent, however
  the stream is cut, and so an invariant that relates its buffer to a position in
  the sender's messages. `PcapEngineProofs` only proves what the cells it reads
  are made of (see the plan).
* `SlowLog`: that the parser finds each statement follows from scanners defined by
  recursion over the text, and that a class is a shape and the gate is right are
  claims about texts whose shape and effect are given by the instance.
* `Comparison`: `Reports` uses bitwise operators, which the prover has no theory
  of and which a module with theorems cannot reach.

## 5. Plan

Modelling is complete to the extent described; what remains is proof.

1. The packet assembler: that what `Feed` hands out over any cutting of a stream
   is the sequence of messages the sender made it from. With it, `ConnDecoder`'s
   `RequestTime` and `Accounted`, and the engine's `EventsOnce`.
2. `ConnDecoder`: `OwnResponse`, from the sequence numbers of the requests in
   flight.
3. `SlowLog`: `EachStatementItsEvent` for texts without quotes and comments first,
   where the state carried over lines is always "normal".

## 6. Not modelled

Link, IP and TCP header parsing (a frame has its kind and fields), the
characters of header lines in the slow log, number syntax and UTF-8 below the
level of lexemes, formatting of temporal and floating-point literals, hash
functions and cell decoding of the target, percentiles that decide nothing,
ranking, tables and HTML, argument parsing and allocator tuning: conversions of
bytes or text without state that could be interleaved. The fuzz targets,
packaging and the scripts under `verify/` are not part of the program.
