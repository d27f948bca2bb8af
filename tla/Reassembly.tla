----------------------------- MODULE Reassembly -----------------------------
(***************************************************************************)
(* The reassembler of one direction of a TCP stream (pcap.rs, SeqStream)   *)
(* as operators on its state, a record with the fields of the struct.  A   *)
(* segment's payload is a sequence of cells; what a cell stands for is up  *)
(* to the module that feeds the stream.                                    *)
(***************************************************************************)
EXTENDS Integers, Sequences, FiniteSets, SequencesExt

CONSTANTS
    M,          \* size of the sequence space: 2^32 in the code
    MaxPending  \* MAX_PENDING_BYTES

ASSUME SpaceAssumption == M \in Nat \ {0} /\ MaxPending \in Nat

NewStream ==
    [started |-> FALSE, isn |-> 0, next_rel |-> 0, pending |-> <<>>,
     pending_bytes |-> 0, overflow |-> FALSE]

\* A SYN, or a copy of it: the stream starts over at the byte after it.
StreamSyn(st, seq) ==
    [NewStream EXCEPT !.started = TRUE, !.isn = (seq + 1) % M, !.overflow = st.overflow]

Distance(a, b) == IF a < b THEN b - a ELSE a - b

\* Faulty variant: only the current lap is considered.
RelSameLap(seq, base, from) == (base \div M) * M + ((seq - from) % M)

\* The offset closest to the stream's position with this sequence number:
\* candidates from the current lap of the sequence space and its neighbours.
\* On the first lap the previous one wraps to the far end of the 64-bit range
\* and never wins.
Rel(seq, base, from) ==
    LET low  == (seq - from) % M
        lap  == base \div M
        here == lap * M + low
        best == IF lap > 0 /\ Distance(here - M, base) < Distance(here, base)
                THEN here - M ELSE here
    IN  IF Distance(here + M, base) < Distance(best, base) THEN here + M ELSE best

\* Hand the part of data (first byte at rel) that is new to the decoder.  An
\* acc is the stream together with the chunks delivered so far.
Deliver(acc, rel, ts, data) ==
    [st  |-> [acc.st EXCEPT !.next_rel = rel + Len(data)],
     out |-> Append(acc.out, [ts |-> ts, data |-> SubSeq(data, acc.st.next_rel - rel + 1, Len(data))])]

Unbuffer(st, rel) ==
    [st EXCEPT !.pending = [k \in DOMAIN st.pending \ {rel} |-> st.pending[k]],
               !.pending_bytes = @ - Len(st.pending[rel].data)]

\* Faulty variant: the size of a drained segment stays in the sum.
DrainOneUncounted(acc, rel) ==
    IF rel > acc.st.next_rel THEN acc
    ELSE LET seg  == acc.st.pending[rel]
             rest == [acc EXCEPT !.st = [Unbuffer(acc.st, rel) EXCEPT !.pending_bytes = acc.st.pending_bytes]]
         IN  IF rel + Len(seg.data) <= acc.st.next_rel THEN rest
             ELSE Deliver(rest, rel, seg.ts, seg.data)

\* Faulty variant: the buffer is drained across a gap.
DrainOneAcrossGap(acc, rel) ==
    LET seg == acc.st.pending[rel]
    IN  [st  |-> [Unbuffer(acc.st, rel) EXCEPT !.next_rel = rel + Len(seg.data)],
         out |-> Append(acc.out, seg)]

\* One round of drain: the buffered segment at rel, if it has been reached.
DrainOne(acc, rel) ==
    IF rel > acc.st.next_rel THEN acc
    ELSE LET seg  == acc.st.pending[rel]
             rest == [acc EXCEPT !.st = Unbuffer(acc.st, rel)]
         IN  IF rel + Len(seg.data) <= acc.st.next_rel THEN rest
             ELSE Deliver(rest, rel, seg.ts, seg.data)

\* One test of drain's loop: the first of the buffered segments, if there is one.
DrainFirst(acc) ==
    IF DOMAIN acc.st.pending = {} THEN acc ELSE DrainOne(acc, Min(DOMAIN acc.st.pending))

DrainRounds(acc) ==
    LET round[n \in 0 .. Cardinality(DOMAIN acc.st.pending)] ==
            IF n = 0 THEN acc ELSE DrainFirst(round[n - 1])
    IN  round

\* drain takes the segments in order of their offset; one that is not reached
\* ends the loop, and leaves the ones behind it unreached as well.
Drain(acc) == DrainRounds(acc)[Cardinality(DOMAIN acc.st.pending)]

\* A segment ahead of the stream waits in the buffer, unless there is no room
\* (the stream is given up) or its offset is taken.
Buffer(st, rel, ts, data) ==
    IF st.pending_bytes + Len(data) > MaxPending
    THEN [st EXCEPT !.overflow = TRUE, !.pending = <<>>, !.pending_bytes = 0]
    ELSE IF rel \in DOMAIN st.pending THEN st
    ELSE [st EXCEPT !.pending_bytes = @ + Len(data),
                    !.pending = [k \in DOMAIN st.pending \cup {rel} |->
                        IF k = rel THEN [ts |-> ts, data |-> data] ELSE st.pending[k]]]

\* Faulty variant: only a copy of the last segment is recognised.
StaleLast(st, rel, data) == rel + Len(data) = st.next_rel

\* A copy of what was delivered.
Stale(st, rel, data) == rel + Len(data) <= st.next_rel

\* The stream after a segment, and the chunks that go to the decoder.  The
\* first segment of a stream without a SYN is taken for its origin.
StreamData(st, ts, seq, data) ==
    IF data = <<>> \/ st.overflow THEN [st |-> st, out |-> <<>>]
    ELSE LET on  == IF st.started THEN st ELSE [st EXCEPT !.started = TRUE, !.isn = seq]
             rel == Rel(seq, on.next_rel, on.isn)
             acc == [st |-> on, out |-> <<>>]
         IN  IF Stale(on, rel, data) THEN acc
             ELSE IF rel <= on.next_rel THEN Drain(Deliver(acc, rel, ts, data))
             ELSE [acc EXCEPT !.st = Buffer(on, rel, ts, data)]
=============================================================================
