------------------------------ MODULE SeqStream ------------------------------
(***************************************************************************)
(* One direction of a TCP stream as the capture reassembles it (pcap.rs,   *)
(* SeqStream).  The sender's bytes are numbered 0, 1, 2, ... and a byte is *)
(* modelled by its number, so that what is delivered can be compared with  *)
(* what was sent.  The code never sees these numbers: a segment carries a  *)
(* sequence number modulo the size of the sequence space.                  *)
(*                                                                         *)
(* The capture may lose segments, see them late, twice or cut differently; *)
(* like TCP itself it meets none from more than half of the sequence space *)
(* away and none from before the first byte.  What it holds of the stream  *)
(* is a scenario chosen initially.                                         *)
(***************************************************************************)
EXTENDS Reassembly, Sums

CONSTANTS
    Isn,        \* sequence number of the SYN
    Scenarios   \* [segments, synCaptured, recut], see below

(* segments: the segments that may be captured, [from, len];               *)
(* synCaptured: the capture holds the SYN, before any data;                *)
(* recut: retransmissions need not repeat the original segments; where     *)
(* they do, a segment is known by its first byte.                          *)
ASSUME ScenarioAssumption ==
    /\ Isn \in 0 .. M - 1
    /\ \A sc \in Scenarios :
          /\ sc.segments \subseteq [from : Nat, len : Nat \ {0}]
          /\ {sc.synCaptured, sc.recut} \subseteq BOOLEAN
          /\ sc.recut \/ \A s, t \in sc.segments : s.from = t.from => s = t

VARIABLES
    scenario,
    st,         \* the stream
    delivered,  \* the bytes handed to the decoder
    seen,       \* bytes captured since the stream started
    origin      \* the byte the stream started with

vars == <<scenario, st, delivered, seen, origin>>

Init ==
    /\ scenario \in Scenarios
    /\ st = NewStream
    /\ delivered = <<>>
    /\ seen = {}
    /\ origin = 0

\* The SYN, or a copy of it before data.
OnSyn ==
    /\ scenario.synCaptured
    /\ seen = {}
    /\ st' = StreamSyn(st, Isn)
    /\ UNCHANGED <<scenario, delivered, seen, origin>>

\* The bytes of the chunks handed to the decoder.
Joined(out) ==
    LET upTo[n \in 0 .. Len(out)] == IF n = 0 THEN <<>> ELSE upTo[n - 1] \o out[n].data
    IN  upTo[Len(out)]

OnData(s) ==
    /\ st.started \/ ~scenario.synCaptured
    /\ st.started => s.from >= origin /\ Distance(s.from - origin, st.next_rel) < M \div 2
    /\ LET data == [k \in 1 .. s.len |-> s.from + k - 1]
           acc  == StreamData(st, 0, (Isn + 1 + s.from) % M, data)
       IN  /\ st' = acc.st
           /\ delivered' = delivered \o Joined(acc.out)
           /\ seen' = IF st.overflow THEN seen ELSE seen \cup ToSet(data)
    /\ origin' = IF st.started THEN origin ELSE s.from
    /\ UNCHANGED scenario

Next == OnSyn \/ \E s \in scenario.segments : OnData(s)

Spec == Init /\ [][Next]_vars

-----------------------------------------------------------------------------
(* Properties.                                                             *)

\* The decoder gets the sender's bytes: every byte once, in order, from the
\* origin on without a hole, across the wrap of the sequence numbers, whatever
\* order, copies and cuts of the segments the capture holds.
DeliveredInOrder == delivered = [k \in 1 .. st.next_rel |-> origin + k - 1]

\* The buffer is exact: pending_bytes is the size of what is buffered and stays
\* within the cap, a buffered segment is kept under the offset of its first byte,
\* and none whose turn has come is left in it.
BufferExact ==
    /\ st.pending_bytes = Total([r \in DOMAIN st.pending |-> Len(st.pending[r].data)], DOMAIN st.pending)
    /\ st.pending_bytes <= MaxPending
    /\ \A r \in DOMAIN st.pending : r > st.next_rel /\ Head(st.pending[r].data) = origin + r

FilledUpTo(n) == (origin .. n) \subseteq seen

\* When retransmissions repeat the original segments, a byte is delivered as
\* soon as it and all bytes before it were captured.
GapFilledDelivers ==
    ~st.overflow /\ ~scenario.recut =>
        \A n \in seen : FilledUpTo(n) => n < origin + st.next_rel

-----------------------------------------------------------------------------
(* The inductive invariant.  Its parts are about any stream s that counts  *)
(* from byte o, since they also hold between two rounds of drain.          *)

Chunk == [ts : {0}, data : Seq(Nat)]

\* n bytes of the sender, from byte b on.
Run(b, n) == [k \in 1 .. n |-> b + k - 1]

\* A buffered segment is one of those captured and holds the sender's bytes from
\* its offset on.
StreamOK(s, o) ==
    /\ s = [started |-> s.started, isn |-> s.isn, next_rel |-> s.next_rel, pending |-> s.pending,
            pending_bytes |-> s.pending_bytes, overflow |-> s.overflow]
    /\ {s.started, s.overflow} \subseteq BOOLEAN
    /\ s.isn \in 0 .. M - 1
    /\ s.next_rel \in Nat
    /\ IsFiniteSet(DOMAIN s.pending)
    /\ \A r \in DOMAIN s.pending : /\ r \in Nat
                                  /\ s.pending[r] \in Chunk
                                  /\ s.pending[r].data # <<>>
                                  /\ s.pending[r].data = Run(o + r, Len(s.pending[r].data))
                                  /\ [from |-> o + r, len |-> Len(s.pending[r].data)] \in scenario.segments
    /\ s.pending = [r \in DOMAIN s.pending |-> s.pending[r]]

Sizes(s) == [r \in DOMAIN s.pending |-> Len(s.pending[r].data)]

\* pending_bytes is right.
Sized(s) ==
    /\ s.pending_bytes = Total(Sizes(s), DOMAIN s.pending)
    /\ s.pending_bytes \in 0 .. MaxPending

\* No byte that was captured is lost: it is delivered or it waits.
Kept(s, o, bytes) ==
    \A n \in bytes :
        \/ n < o + s.next_rel
        \/ \E r \in DOMAIN s.pending : n \in o + r .. o + r + Len(s.pending[r].data) - 1

Ahead(s) == \A r \in DOMAIN s.pending : r > s.next_rel

Untouched(s) == s.next_rel = 0 /\ DOMAIN s.pending = {} /\ ~s.overflow

StreamInv ==
    /\ scenario \in Scenarios
    /\ origin \in Nat
    /\ scenario.synCaptured => origin = 0
    /\ seen \subseteq Nat
    /\ StreamOK(st, origin)
    /\ delivered = Run(origin, st.next_rel)
    /\ Sized(st)
    /\ Ahead(st)
    /\ ~st.overflow /\ ~scenario.recut => Kept(st, origin, seen)
    /\ st.started => st.isn = (Isn + 1 + origin) % M
    /\ ~st.started => seen = {}
    /\ seen = {} => Untouched(st)
=============================================================================
