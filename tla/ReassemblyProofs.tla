-------------------------- MODULE ReassemblyProofs --------------------------
(***************************************************************************)
(* What the reassembler's operators do to a stream of cells of any kind:   *)
(* the rounds of drain, and that what is buffered and delivered is made of *)
(* what came in.                                                           *)
(***************************************************************************)
EXTENDS Reassembly, SequenceTheorems, Induction

-----------------------------------------------------------------------------
(* Sequences of whatever the code puts into them.                          *)

IsSeq(q) == q \in Seq({q[i] : i \in DOMAIN q})

\* Such a sequence has a length, and its positions.
LEMMA SeqHas ==
    ASSUME NEW q, IsSeq(q)
    PROVE  Len(q) \in Nat /\ DOMAIN q = 1 .. Len(q)
BY DEF IsSeq

\* A sequence over a set is one.
LEMMA SeqIs ==
    ASSUME NEW S, NEW q \in Seq(S)
    PROVE  IsSeq(q)
<1> DEFINE T == {q[i] : i \in DOMAIN q}
<1>1. /\ DOMAIN q = 1 .. Len(q) /\ Len(q) \in Nat
      /\ q = [i \in 1 .. Len(q) |-> q[i]]
  OBVIOUS
<1>2. q \in [1 .. Len(q) -> T]
  BY <1>1
<1> HIDE DEF T
<1>3. q \in Seq(T)
  BY <1>1, <1>2
<1> QED
  BY <1>3 DEF T, IsSeq

\* The empty sequence is one.
LEMMA SeqEmpty == IsSeq(<<>>)
BY DEF IsSeq

\* One element more.
LEMMA SeqAppend ==
    ASSUME NEW q, IsSeq(q), NEW x
    PROVE  /\ IsSeq(Append(q, x))
           /\ DOMAIN Append(q, x) = 1 .. Len(q) + 1
           /\ Append(q, x)[Len(q) + 1] = x
           /\ \A i \in 1 .. Len(q) : Append(q, x)[i] = q[i]
<1> DEFINE S == {q[i] : i \in DOMAIN q} \cup {x}
<1>1. q \in Seq({q[i] : i \in DOMAIN q})
  BY DEF IsSeq
<1>2. q \in Seq(S) /\ x \in S
  BY <1>1
<1> HIDE DEF S
<1>3. Append(q, x) \in Seq(S)
  BY <1>2, AppendProperties
<1>4. IsSeq(Append(q, x))
  BY <1>3, SeqIs
<1> QED
  BY <1>2, <1>4, AppendProperties

\* The first element taken off.
LEMMA SeqTail ==
    ASSUME NEW q, IsSeq(q), q # <<>>
    PROVE  /\ IsSeq(Tail(q)) /\ 1 \in DOMAIN q
           /\ \A i \in DOMAIN Tail(q) : i + 1 \in DOMAIN q /\ Tail(q)[i] = q[i + 1]
<1> DEFINE S == {q[i] : i \in DOMAIN q}
<1>1. q \in Seq(S)
  BY DEF IsSeq
<1> HIDE DEF S
<1>2. Tail(q) \in Seq(S) /\ Len(q) # 0
  BY <1>1
<1>3. IsSeq(Tail(q))
  BY <1>2, SeqIs
<1>4. Len(Tail(q)) = Len(q) - 1
  BY <1>1, <1>2
<1> QED
  BY <1>1, <1>2, <1>3, <1>4

\* Two sequences one after the other.
LEMMA SeqConcat ==
    ASSUME NEW p, IsSeq(p), NEW q, IsSeq(q)
    PROVE  /\ IsSeq(p \o q)
           /\ DOMAIN (p \o q) = 1 .. Len(p) + Len(q)
           /\ \A i \in 1 .. Len(p) : (p \o q)[i] = p[i]
           /\ \A i \in 1 .. Len(q) : (p \o q)[Len(p) + i] = q[i]
<1> DEFINE S == {p[i] : i \in DOMAIN p} \cup {q[i] : i \in DOMAIN q}
<1>1. p \in Seq(S) /\ q \in Seq(S)
  BY DEF IsSeq
<1> HIDE DEF S
<1>2. p \o q \in Seq(S) /\ Len(p \o q) = Len(p) + Len(q)
  BY <1>1, ConcatProperties
<1>3. IsSeq(p \o q)
  BY <1>2, SeqIs
<1>4. \A i \in 1 .. Len(p) + Len(q) :
          (p \o q)[i] = IF i <= Len(p) THEN p[i] ELSE q[i - Len(p)]
  BY <1>1, ConcatProperties
<1>5. ASSUME NEW i \in 1 .. Len(q) PROVE (p \o q)[Len(p) + i] = q[i]
  <2>1. Len(p) \in Nat /\ Len(q) \in Nat
    BY <1>1
  <2>2. Len(p) + i \in 1 .. Len(p) + Len(q) /\ ~(Len(p) + i <= Len(p)) /\ (Len(p) + i) - Len(p) = i
    BY <2>1
  <2> QED
    BY <1>4, <2>2
<1>6. \A i \in 1 .. Len(p) : (p \o q)[i] = p[i]
  <2>1. Len(p) \in Nat /\ Len(q) \in Nat
    BY <1>1
  <2> QED
    BY <1>4, <2>1
<1>7. DOMAIN (p \o q) = 1 .. Len(p) + Len(q)
  BY <1>1, <1>2
<1> QED
  BY <1>3, <1>5, <1>6, <1>7

-----------------------------------------------------------------------------
(* The rounds of drain.                                                    *)

RoundTable(u, acc, len) ==
    u = [n \in 0 .. len |-> IF n = 0 THEN acc ELSE DrainFirst(u[n - 1])]

\* The table of the rounds exists, from any state of the stream.
LEMMA RoundTableExists ==
    ASSUME NEW acc, NEW len \in Nat
    PROVE  \E u : RoundTable(u, acc, len)
<1> DEFINE N == {n \in Nat : \E u : RoundTable(u, acc, n)}
<1>1. 0 \in N
  <2>1. RoundTable([n \in 0 .. 0 |-> acc], acc, 0)
    BY DEF RoundTable
  <2> QED
    BY <2>1
<1>2. ASSUME NEW n \in Nat, n \in N PROVE n + 1 \in N
  <2>1. PICK u : RoundTable(u, acc, n)
    BY <1>2
  <2> DEFINE v == [i \in 0 .. n + 1 |-> IF i = n + 1 THEN DrainFirst(u[n]) ELSE u[i]]
  <2>2. \A i \in 0 .. n : v[i] = u[i] /\ u[i] = IF i = 0 THEN acc ELSE DrainFirst(u[i - 1])
    BY <2>1 DEF RoundTable
  <2>3. \A i \in 0 .. n + 1 : v[i] = IF i = 0 THEN acc ELSE DrainFirst(v[i - 1])
    <3> SUFFICES ASSUME NEW i \in 0 .. n + 1
                 PROVE  v[i] = IF i = 0 THEN acc ELSE DrainFirst(v[i - 1])
      OBVIOUS
    <3>1. CASE i = n + 1
      <4>1. v[i] = DrainFirst(u[n]) /\ v[n] = u[n] /\ i - 1 = n /\ i # 0
        BY <2>2, <3>1
      <4> HIDE DEF v
      <4> QED
        BY <3>1, <4>1
    <3>2. CASE i # n + 1
      <4>1. i \in 0 .. n /\ (i # 0 => i - 1 \in 0 .. n)
        BY <3>2
      <4> HIDE DEF v
      <4> QED
        BY <2>2, <4>1
    <3> QED
      BY <3>1, <3>2
  <2>4. v = [i \in 0 .. n + 1 |-> v[i]]
    OBVIOUS
  <2> HIDE DEF v
  <2>5. RoundTable(v, acc, n + 1)
    BY <2>3, <2>4 DEF RoundTable
  <2> QED
    BY <2>5
<1> HIDE DEF N
<1>3. len \in N
  BY <1>1, <1>2, NatSetInduction
<1> QED
  BY <1>3 DEF N

\* Drain starts from acc and takes one round after the other.
LEMMA DrainByRounds ==
    ASSUME NEW acc, NEW len \in Nat, len = Cardinality(DOMAIN acc.st.pending)
    PROVE  \E u : /\ u[0] = acc
                  /\ \A n \in 1 .. len : u[n] = DrainFirst(u[n - 1])
                  /\ Drain(acc) = u[len]
<1> DEFINE u == CHOOSE round : round = [n \in 0 .. Cardinality(DOMAIN acc.st.pending) |->
                    IF n = 0 THEN acc ELSE DrainFirst(round[n - 1])]
<1>1. Drain(acc) = u[len]
  BY DEF Drain, DrainRounds
<1>2. u = CHOOSE t : RoundTable(t, acc, len)
  BY DEF RoundTable
<1> HIDE DEF u
<1>3. RoundTable(u, acc, len)
  BY <1>2, RoundTableExists
<1>4. \A n \in 0 .. len : u[n] = IF n = 0 THEN acc ELSE DrainFirst(u[n - 1])
  BY <1>3 DEF RoundTable
<1> QED
  BY <1>1, <1>4

-----------------------------------------------------------------------------
(* Cells.                                                                  *)

ChunksOf(out, C) == IsSeq(out) /\ \A i \in DOMAIN out : out[i].data \in Seq(C)

\* A stream that holds cells of C.
StreamIs(st, C) ==
    /\ DOMAIN st = {"started", "isn", "next_rel", "pending", "pending_bytes", "overflow"}
    /\ st.isn \in Int /\ st.next_rel \in Nat
    /\ IsFiniteSet(DOMAIN st.pending) /\ DOMAIN st.pending \subseteq Nat
    /\ \A r \in DOMAIN st.pending : st.pending[r].data \in Seq(C)

\* A stream and the chunks it delivered, when nothing starts it over.
GivenOf(acc, st, C) ==
    /\ DOMAIN acc = {"st", "out"}
    /\ StreamIs(acc.st, C) /\ acc.st.started = st.started /\ acc.st.isn = st.isn
    /\ ChunksOf(acc.out, C)

\* One chunk more, of the same cells.
LEMMA ChunksAppend ==
    ASSUME NEW out, NEW C, ChunksOf(out, C), NEW c, c.data \in Seq(C)
    PROVE  ChunksOf(Append(out, c), C)
<1>1. IsSeq(out) /\ Len(out) \in Nat /\ DOMAIN out = 1 .. Len(out)
  BY SeqHas DEF ChunksOf
<1>2. /\ IsSeq(Append(out, c)) /\ DOMAIN Append(out, c) = 1 .. Len(out) + 1
      /\ Append(out, c)[Len(out) + 1] = c
      /\ \A i \in 1 .. Len(out) : Append(out, c)[i] = out[i]
  BY <1>1, SeqAppend
<1>3. ASSUME NEW i \in DOMAIN Append(out, c) PROVE Append(out, c)[i].data \in Seq(C)
  <2>1. CASE i = Len(out) + 1
    BY <1>2, <2>1
  <2>2. CASE i # Len(out) + 1
    <3>1. i \in 1 .. Len(out)
      BY <1>1, <1>2, <2>2
    <3> QED
      BY <1>1, <1>2, <3>1 DEF ChunksOf
  <2> QED
    BY <2>1, <2>2
<1> QED
  BY <1>2, <1>3 DEF ChunksOf

\* A segment that reaches further than the stream, and starts where the stream
\* has been, delivers some of its own cells.
LEMMA DeliverGives ==
    ASSUME NEW st, NEW C, NEW acc, GivenOf(acc, st, C), NEW rel \in Int, NEW ts, NEW data \in Seq(C),
           rel <= acc.st.next_rel, rel + Len(data) > acc.st.next_rel
    PROVE  GivenOf(Deliver(acc, rel, ts, data), st, C)
<1> DEFINE next == acc.st.next_rel
           from == next - rel + 1
           chunk == [ts |-> ts, data |-> SubSeq(data, from, Len(data))]
           on == [acc.st EXCEPT !.next_rel = rel + Len(data)]
<1>1. next \in Nat /\ Len(data) \in Nat
  BY DEF GivenOf, StreamIs
<1>2. from \in 1 .. Len(data) /\ rel + Len(data) \in Nat
  BY <1>1
<1>3. SubSeq(data, from, Len(data)) \in Seq(C)
  <2>1. from \in 1 .. Len(data) + 1 /\ Len(data) \in 0 .. Len(data)
    BY <1>1, <1>2
  <2> HIDE DEF from
  <2> QED
    BY <2>1, SubSeqProperties
<1>4. Deliver(acc, rel, ts, data) = [st |-> on, out |-> Append(acc.out, chunk)]
  BY DEF Deliver
<1>5. StreamIs(on, C) /\ on.started = st.started /\ on.isn = st.isn
  <2> DEFINE n == rel + Len(data)
  <2>1. n \in Nat
    BY <1>2
  <2> HIDE DEF n
  <2> QED
    BY <2>1 DEF GivenOf, StreamIs
<1>6. chunk.data \in Seq(C)
  BY <1>3
<1> HIDE DEF on, chunk
<1>7. ChunksOf(Append(acc.out, chunk), C)
  BY <1>6, ChunksAppend DEF GivenOf
<1> QED
  BY <1>4, <1>5, <1>7 DEF GivenOf

\* A buffered segment taken out leaves the stream what it was otherwise.
LEMMA UnbufferIs ==
    ASSUME NEW C, NEW st, StreamIs(st, C), NEW rel
    PROVE  /\ StreamIs(Unbuffer(st, rel), C) /\ Unbuffer(st, rel).next_rel = st.next_rel
           /\ Unbuffer(st, rel).started = st.started /\ Unbuffer(st, rel).isn = st.isn
<1> DEFINE p == [k \in DOMAIN st.pending \ {rel} |-> st.pending[k]]
           b == st.pending_bytes - Len(st.pending[rel].data)
<1>1. Unbuffer(st, rel) = [st EXCEPT !.pending = p, !.pending_bytes = b]
  BY DEF Unbuffer
<1>2. /\ IsFiniteSet(DOMAIN p) /\ DOMAIN p \subseteq Nat
      /\ \A r \in DOMAIN p : p[r].data \in Seq(C)
  <2>1. DOMAIN p = DOMAIN st.pending \ {rel}
    OBVIOUS
  <2>2. IsFiniteSet(DOMAIN st.pending \ {rel})
    BY FS_Subset DEF StreamIs
  <2> QED
    BY <2>1, <2>2 DEF StreamIs
<1> HIDE DEF p, b
<1> QED
  BY <1>1, <1>2 DEF StreamIs

\* A round of drain delivers what was buffered, or drops it.
LEMMA DrainFirstGives ==
    ASSUME NEW st, NEW C, NEW acc, GivenOf(acc, st, C)
    PROVE  GivenOf(DrainFirst(acc), st, C)
<1> DEFINE rel  == Min(DOMAIN acc.st.pending)
           seg  == acc.st.pending[rel]
           rest == [acc EXCEPT !.st = Unbuffer(acc.st, rel)]
<1>1. CASE DOMAIN acc.st.pending = {}
  BY <1>1 DEF DrainFirst
<1>2. CASE DOMAIN acc.st.pending # {}
  <2>1. rel \in DOMAIN acc.st.pending /\ rel \in Nat /\ seg.data \in Seq(C)
    <3>1. rel \in DOMAIN acc.st.pending
      BY <1>2, MinIsLeast DEF GivenOf, StreamIs
    <3> HIDE DEF rel
    <3> QED
      BY <3>1 DEF GivenOf, StreamIs
  <2>2. DrainFirst(acc) =
          IF rel > acc.st.next_rel THEN acc
          ELSE IF rel + Len(seg.data) <= acc.st.next_rel THEN rest
          ELSE Deliver(rest, rel, seg.ts, seg.data)
    BY <1>2 DEF DrainFirst, DrainOne
  <2> HIDE DEF rel, seg
  <2>3. GivenOf(rest, st, C) /\ rest.st.next_rel = acc.st.next_rel
    BY UnbufferIs DEF GivenOf
  <2> HIDE DEF rest
  <2>4. acc.st.next_rel \in Nat /\ Len(seg.data) \in Nat
    BY <2>1 DEF GivenOf, StreamIs
  <2>5. CASE rel > acc.st.next_rel
    BY <2>2, <2>5
  <2>6. CASE ~(rel > acc.st.next_rel) /\ rel + Len(seg.data) <= acc.st.next_rel
    BY <2>2, <2>3, <2>6
  <2>7. CASE ~(rel > acc.st.next_rel) /\ ~(rel + Len(seg.data) <= acc.st.next_rel)
    <3>1. DrainFirst(acc) = Deliver(rest, rel, seg.ts, seg.data)
      BY <2>2, <2>7
    <3>2. rel \in Int /\ rel <= rest.st.next_rel /\ rel + Len(seg.data) > rest.st.next_rel
      BY <2>1, <2>3, <2>4, <2>7
    <3> QED
      BY <2>1, <2>3, <3>1, <3>2, DeliverGives
  <2> QED
    BY <2>5, <2>6, <2>7
<1> QED
  BY <1>1, <1>2

\* Drain delivers what was buffered and moves no origin.
LEMMA DrainGives ==
    ASSUME NEW st, NEW C, NEW acc, GivenOf(acc, st, C)
    PROVE  GivenOf(Drain(acc), st, C)
<1> DEFINE len == Cardinality(DOMAIN acc.st.pending)
<1>1. len \in Nat
  BY FS_CardinalityType DEF GivenOf, StreamIs
<1>2. PICK u : /\ u[0] = acc
               /\ \A n \in 1 .. len : u[n] = DrainFirst(u[n - 1])
               /\ Drain(acc) = u[len]
  BY <1>1, DrainByRounds
<1> HIDE DEF len
<1> DEFINE N == {n \in Nat : n <= len => GivenOf(u[n], st, C)}
<1>3. 0 \in N
  BY <1>2
<1>4. ASSUME NEW n \in Nat, n \in N PROVE n + 1 \in N
  <2> SUFFICES ASSUME n + 1 <= len PROVE GivenOf(u[n + 1], st, C)
    OBVIOUS
  <2>1. GivenOf(u[n], st, C) /\ n + 1 \in 1 .. len /\ (n + 1) - 1 = n
    BY <1>1, <1>4
  <2> QED
    BY <1>2, <2>1, DrainFirstGives
<1> HIDE DEF N
<1>5. len \in N
  BY <1>1, <1>3, <1>4, NatSetInduction
<1> QED
  BY <1>1, <1>2, <1>5 DEF N

\* An offset is an integer.
LEMMA RelIsInt ==
    ASSUME NEW seq \in Int, NEW base \in Nat, NEW from \in Int
    PROVE  Rel(seq, base, from) \in Int
<1> DEFINE low  == (seq - from) % M
           lap  == base \div M
           here == lap * M + low
           best == IF lap > 0 /\ Distance(here - M, base) < Distance(here, base)
                   THEN here - M ELSE here
<1>1. M \in Nat \ {0}
  BY SpaceAssumption
<1>2. low \in Int /\ lap \in Int
  BY <1>1
<1>3. here \in Int
  <2> HIDE DEF low, lap
  <2> QED
    BY <1>1, <1>2
<1>4. best \in Int
  <2> HIDE DEF here
  <2> QED
    BY <1>1, <1>3
<1>5. Rel(seq, base, from) = IF Distance(here + M, base) < Distance(best, base) THEN here + M ELSE best
  BY DEF Rel
<1> HIDE DEF here, best
<1> QED
  BY <1>1, <1>3, <1>4, <1>5

\* The stream that waits for a first segment or has seen one.
Opened(st, seq) == IF st.started THEN st ELSE [st EXCEPT !.started = TRUE, !.isn = seq]

\* What comes out of a segment, and what stays in the buffer, was in it or in
\* the buffer before; and the segment does not start over a stream that has
\* started.
LEMMA DataGives ==
    ASSUME NEW C, NEW st, StreamIs(st, C), NEW ts, NEW seq \in Int, NEW data \in Seq(C)
    PROVE  /\ DOMAIN StreamData(st, ts, seq, data) = {"st", "out"}
           /\ StreamIs(StreamData(st, ts, seq, data).st, C)
           /\ ChunksOf(StreamData(st, ts, seq, data).out, C)
           /\ st.started => /\ StreamData(st, ts, seq, data).st.started
                            /\ StreamData(st, ts, seq, data).st.isn = st.isn
<1>1. CASE data = <<>> \/ st.overflow
  <2>1. StreamData(st, ts, seq, data) = [st |-> st, out |-> <<>>]
    BY <1>1 DEF StreamData
  <2> QED
    BY <2>1, SeqEmpty DEF ChunksOf
<1>2. CASE ~(data = <<>> \/ st.overflow)
  <2> DEFINE on  == Opened(st, seq)
             rel == Rel(seq, on.next_rel, on.isn)
             acc == [st |-> on, out |-> <<>>]
  <2>1. StreamIs(on, C) /\ (st.started => on = st)
    BY DEF Opened, StreamIs
  <2>2. rel \in Int /\ Len(data) \in Nat /\ on.next_rel \in Nat
    <3> HIDE DEF on
    <3>1. on.next_rel \in Nat /\ on.isn \in Int
      BY <2>1 DEF StreamIs
    <3>2. rel \in Int
      BY <3>1, RelIsInt
    <3> QED
      BY <3>1, <3>2
  <2>3. GivenOf(acc, on, C)
    BY <2>1, SeqEmpty DEF GivenOf, ChunksOf
  <2>4. StreamData(st, ts, seq, data) =
          IF Stale(on, rel, data) THEN acc
          ELSE IF rel <= on.next_rel THEN Drain(Deliver(acc, rel, ts, data))
          ELSE [acc EXCEPT !.st = Buffer(on, rel, ts, data)]
    BY <1>2 DEF StreamData, Opened
  <2>5. acc.st = on
    OBVIOUS
  <2> HIDE DEF on, rel, acc
  <2>6. CASE Stale(on, rel, data)
    BY <2>1, <2>3, <2>4, <2>6 DEF GivenOf
  <2>7. CASE ~Stale(on, rel, data) /\ rel <= on.next_rel
    <3>1. rel + Len(data) > on.next_rel
      BY <2>2, <2>7 DEF Stale
    <3>2. GivenOf(Drain(Deliver(acc, rel, ts, data)), on, C)
      BY <2>2, <2>3, <2>5, <2>7, <3>1, DeliverGives, DrainGives
    <3> QED
      BY <2>1, <2>4, <2>7, <3>2 DEF GivenOf
  <2>8. CASE ~Stale(on, rel, data) /\ ~(rel <= on.next_rel)
    <3>1. rel \in Nat
      BY <2>2, <2>8
    <3>2. /\ StreamIs(Buffer(on, rel, ts, data), C)
          /\ Buffer(on, rel, ts, data).started = on.started
          /\ Buffer(on, rel, ts, data).isn = on.isn
      <4> DEFINE p == [k \in DOMAIN on.pending \cup {rel} |->
                          IF k = rel THEN [ts |-> ts, data |-> data] ELSE on.pending[k]]
                 b == on.pending_bytes + Len(data)
      <4>1. /\ IsFiniteSet(DOMAIN p) /\ DOMAIN p \subseteq Nat
            /\ \A r \in DOMAIN p : p[r].data \in Seq(C)
        <5>1. DOMAIN p = DOMAIN on.pending \cup {rel}
          OBVIOUS
        <5>2. IsFiniteSet(DOMAIN on.pending \cup {rel})
          BY <2>1, FS_AddElement DEF StreamIs
        <5>3. \A r \in DOMAIN p : p[r].data \in Seq(C)
          BY <2>1 DEF StreamIs
        <5> QED
          BY <2>1, <3>1, <5>1, <5>2, <5>3 DEF StreamIs
      <4>2. \/ Buffer(on, rel, ts, data) = [on EXCEPT !.overflow = TRUE, !.pending = <<>>, !.pending_bytes = 0]
            \/ Buffer(on, rel, ts, data) = on
            \/ Buffer(on, rel, ts, data) = [on EXCEPT !.pending_bytes = b, !.pending = p]
        BY DEF Buffer
      <4> HIDE DEF p, b
      <4>3. CASE Buffer(on, rel, ts, data) = [on EXCEPT !.overflow = TRUE, !.pending = <<>>, !.pending_bytes = 0]
        <5>1. DOMAIN <<>> = {} /\ IsFiniteSet({})
          BY FS_EmptySet
        <5> QED
          BY <2>1, <4>3, <5>1 DEF StreamIs
      <4>4. CASE Buffer(on, rel, ts, data) = [on EXCEPT !.pending_bytes = b, !.pending = p]
        BY <2>1, <4>1, <4>4 DEF StreamIs
      <4> QED
        BY <2>1, <4>2, <4>3, <4>4
    <3>3. StreamData(st, ts, seq, data) = [acc EXCEPT !.st = Buffer(on, rel, ts, data)]
      BY <2>4, <2>8
    <3>4. DOMAIN acc = {"st", "out"} /\ ChunksOf(acc.out, C)
      BY <2>3 DEF GivenOf
    <3> QED
      BY <2>1, <3>2, <3>3, <3>4
  <2> QED
    BY <2>6, <2>7, <2>8
<1> QED
  BY <1>1, <1>2

\* A SYN leaves no segment behind.
LEMMA SynGives ==
    ASSUME NEW C, NEW st, NEW seq \in Int
    PROVE  /\ StreamIs(StreamSyn(st, seq), C) /\ StreamIs(NewStream, C)
           /\ StreamSyn(st, seq).started /\ StreamSyn(st, seq).isn = (seq + 1) % M
<1>1. DOMAIN <<>> = {} /\ IsFiniteSet({})
  BY FS_EmptySet
<1>2. (seq + 1) % M \in Int
  BY SpaceAssumption
<1> DEFINE isn == (seq + 1) % M
<1>3. StreamSyn(st, seq) = [NewStream EXCEPT !.started = TRUE, !.isn = isn, !.overflow = st.overflow]
  BY DEF StreamSyn
<1> HIDE DEF isn
<1>4. StreamIs(NewStream, C)
  BY <1>1 DEF StreamIs, NewStream
<1> QED
  BY <1>1, <1>2, <1>3, <1>4 DEF StreamIs, NewStream, isn
=============================================================================
