--------------------------- MODULE SeqStreamProofs ---------------------------
(***************************************************************************)
(* The reassembler of one direction of a TCP stream is right for every     *)
(* size of the sequence space, cap of the buffer and set of segments: the  *)
(* offset it gives a segment is the one the sender meant, and what it      *)
(* hands to the decoder is what was sent.                                  *)
(***************************************************************************)
EXTENDS SeqStream, ReassemblyProofs

-----------------------------------------------------------------------------
(* Sequence numbers.                                                       *)

\* Division with remainder.
LEMMA DivMod ==
    ASSUME NEW a \in Int, NEW m \in Nat \ {0}
    PROVE  a \div m \in Int /\ a % m \in 0 .. m - 1 /\ a = m * (a \div m) + (a % m)
OBVIOUS

\* The remainder does not depend on the lap.
LEMMA ModLap ==
    ASSUME NEW m \in Nat \ {0}, NEW a \in Int, NEW q \in Int
    PROVE  (a + m * q) % m = a % m
<1>1. PICK k \in Int, r \in 0 .. m - 1 : a = m * k + r /\ r = a % m
  BY DivMod
<1>2. a + m * q = m * (k + q) + r
  BY <1>1
<1>3. (m * (k + q) + r) % m = r
  OBVIOUS
<1> QED
  BY <1>1, <1>2, <1>3

\* The difference of two sequence numbers is the difference of the positions
\* they stand for.
LEMMA ModDifference ==
    ASSUME NEW m \in Nat \ {0}, NEW a \in Int, NEW b \in Int
    PROVE  ((a % m) - (b % m)) % m = (a - b) % m
<1>1. PICK k \in Int, r \in 0 .. m - 1 : a = m * k + r /\ r = a % m
  BY DivMod
<1>2. PICK l \in Int, s \in 0 .. m - 1 : b = m * l + s /\ s = b % m
  BY DivMod
<1>3. a - b = (r - s) + m * (k - l)
  <2>1. PICK x \in Int, y \in Int : x = m * k /\ y = m * l /\ m * (k - l) = x - y
    OBVIOUS
  <2>2. a = x + r /\ b = y + s
    BY <1>1, <1>2, <2>1
  <2>3. a - b = (r - s) + (x - y)
    BY <2>2
  <2> QED
    BY <2>1, <2>3
<1>4. ((r - s) + m * (k - l)) % m = (r - s) % m
  <2>1. r - s \in Int /\ k - l \in Int
    OBVIOUS
  <2> QED
    BY <2>1, ModLap
<1> QED
  BY <1>1, <1>2, <1>3, <1>4

\* t is an offset with sequence number seq, in a stream that started at from,
\* less than half of the sequence space away from base.
Near(seq, base, from, t) ==
    /\ seq \in Int /\ base \in Nat /\ from \in Int /\ t \in Nat
    /\ (seq - from) % M = t % M
    /\ Distance(t, base) < M \div 2

\* SeqStream::rel finds the offset t of a segment from its sequence number, on
\* whatever lap of the sequence space the stream is, when t is less than half
\* of the space away from the stream's position.
LEMMA RelIsOffset ==
    ASSUME NEW seq, NEW base, NEW from, NEW t, Near(seq, base, from, t)
    PROVE  Rel(seq, base, from) = t
<1> base \in Nat /\ t \in Nat /\ seq \in Int /\ from \in Int /\ (seq - from) % M = t % M
  BY DEF Near
<1>0. M \in Nat \ {0} /\ Distance(t, base) < M \div 2
  BY SpaceAssumption DEF Near
<1> DEFINE low == t % M
           lap == base \div M
           q == t \div M
           here == lap * M + low
<1>1. /\ lap \in Int /\ base % M \in 0 .. M - 1 /\ base = M * lap + (base % M)
      /\ q \in Int /\ low \in 0 .. M - 1 /\ t = M * q + low
  BY <1>0, DivMod
<1>2. lap >= 0 /\ q >= 0
  BY <1>0, <1>1
<1>3. t - base < M \div 2 /\ base - t < M \div 2 /\ M \div 2 \in Int /\ 2 * (M \div 2) <= M
  <2>1. 2 \in Nat \ {0}
    OBVIOUS
  <2>2. M \div 2 \in Int /\ 2 * (M \div 2) <= M
    BY <1>0, <2>1, DivMod
  <2> QED
    BY <1>0, <2>2 DEF Distance
<1> HIDE DEF low, lap, q
<1>4. t = here \/ t = here + M \/ t = here - M
  <2>1. PICK d \in Int : d = q - lap
    BY <1>1
  <2>2. t = here + M * d
    BY <1>0, <1>1, <2>1
  <2>3. M * d < 2 * M /\ M * d > - (2 * M)
    BY <1>0, <1>1, <1>3, <2>2
  <2>4. d < 2 /\ d > -2
    BY <1>0, <2>3
  <2>5. d = 0 \/ d = 1 \/ d = -1
    BY <2>4
  <2> QED
    BY <1>0, <1>1, <2>2, <2>5
<1>5. t = here - M => lap > 0
  BY <1>0, <1>1, <1>2
<1>6. here \in Int
  BY <1>0, <1>1
<1> DEFINE best == IF lap > 0 /\ Distance(here - M, base) < Distance(here, base)
                   THEN here - M ELSE here
<1>7. Rel(seq, base, from) = IF Distance(here + M, base) < Distance(best, base) THEN here + M ELSE best
  BY DEF Rel, low, lap
<1> HIDE DEF here
<1>8. CASE t = here
  BY <1>0, <1>3, <1>6, <1>7, <1>8 DEF Distance
<1>9. CASE t = here + M
  BY <1>0, <1>3, <1>6, <1>7, <1>9 DEF Distance
<1>10. CASE t = here - M
  BY <1>0, <1>3, <1>5, <1>6, <1>7, <1>10 DEF Distance
<1> QED
  BY <1>4, <1>8, <1>9, <1>10

-----------------------------------------------------------------------------
(* The chunks handed to the decoder.                                       *)

Join(bytes, c) == bytes \o c.data

\* u holds the bytes of the first n chunks, for each n.
JoinTable(u, out, len) ==
    u = [n \in 0 .. len |-> IF n = 0 THEN <<>> ELSE Join(u[n - 1], out[n])]

\* There is such a table, for any chunks.
LEMMA JoinTableExists ==
    ASSUME NEW out, NEW len \in Nat
    PROVE  \E u : JoinTable(u, out, len)
<1> DEFINE N == {n \in Nat : \E u : JoinTable(u, out, n)}
<1>1. 0 \in N
  <2>1. JoinTable([n \in 0 .. 0 |-> <<>>], out, 0)
    BY DEF JoinTable
  <2> QED
    BY <2>1
<1>2. ASSUME NEW n \in Nat, n \in N PROVE n + 1 \in N
  <2>1. PICK u : JoinTable(u, out, n)
    BY <1>2
  <2> DEFINE v == [i \in 0 .. n + 1 |-> IF i = n + 1 THEN Join(u[n], out[n + 1]) ELSE u[i]]
  <2>2. \A i \in 0 .. n : v[i] = u[i] /\ u[i] = IF i = 0 THEN <<>> ELSE Join(u[i - 1], out[i])
    BY <2>1 DEF JoinTable
  <2>3. \A i \in 0 .. n + 1 : v[i] = IF i = 0 THEN <<>> ELSE Join(v[i - 1], out[i])
    <3> SUFFICES ASSUME NEW i \in 0 .. n + 1
                 PROVE  v[i] = IF i = 0 THEN <<>> ELSE Join(v[i - 1], out[i])
      OBVIOUS
    <3>1. CASE i = n + 1
      <4>1. v[i] = Join(u[n], out[n + 1]) /\ v[n] = u[n] /\ i - 1 = n /\ i # 0
        BY <2>2, <3>1
      <4> HIDE DEF v
      <4> QED
        BY <3>1, <4>1
    <3>2. CASE i # n + 1
      <4>1. i \in 0 .. n /\ (i # 0 => i - 1 \in 0 .. n)
        BY <3>2
      <4> HIDE DEF v
      <4> QED
        BY <2>2, <4>1
    <3> QED
      BY <3>1, <3>2
  <2>4. v = [i \in 0 .. n + 1 |-> v[i]]
    OBVIOUS
  <2> HIDE DEF v
  <2>5. JoinTable(v, out, n + 1)
    BY <2>3, <2>4 DEF JoinTable
  <2> QED
    BY <2>5
<1> HIDE DEF N
<1>3. len \in N
  BY <1>1, <1>2, NatSetInduction
<1> QED
  BY <1>3 DEF N

\* Joined is its last entry.
LEMMA JoinedTable ==
    ASSUME NEW out, Len(out) \in Nat
    PROVE  \E u : JoinTable(u, out, Len(out)) /\ Joined(out) = u[Len(out)]
<1> DEFINE u == CHOOSE upTo : upTo = [n \in 0 .. Len(out) |->
                    IF n = 0 THEN <<>> ELSE upTo[n - 1] \o out[n].data]
<1>1. Joined(out) = u[Len(out)]
  BY DEF Joined
<1>2. u = CHOOSE t : JoinTable(t, out, Len(out))
  BY DEF JoinTable, Join
<1> HIDE DEF u
<1>3. JoinTable(u, out, Len(out))
  BY <1>2, JoinTableExists
<1> QED
  BY <1>1, <1>3

\* Nothing is joined from nothing, and a chunk adds its bytes at the end.
LEMMA JoinedAppend ==
    ASSUME NEW out \in Seq(Chunk)
    PROVE  /\ Joined(<<>>) = <<>>
           /\ Joined(out) \in Seq(Nat)
           /\ \A c \in Chunk : Joined(Append(out, c)) = Joined(out) \o c.data
<1>1. Joined(<<>>) = <<>>
  <2>1. PICK u : JoinTable(u, <<>>, Len(<<>>)) /\ Joined(<<>>) = u[Len(<<>>)]
    BY JoinedTable
  <2>2. Len(<<>>) = 0
    OBVIOUS
  <2> QED
    BY <2>1, <2>2 DEF JoinTable
<1>2. PICK u : JoinTable(u, out, Len(out)) /\ Joined(out) = u[Len(out)]
  BY JoinedTable
<1>3. \A i \in 0 .. Len(out) : u[i] = IF i = 0 THEN <<>> ELSE Join(u[i - 1], out[i])
  BY <1>2 DEF JoinTable
<1>4. \A i \in 1 .. Len(out) : out[i].data \in Seq(Nat)
  <2>1. \A i \in 1 .. Len(out) : out[i] \in Chunk
    OBVIOUS
  <2> QED
    BY <2>1 DEF Chunk
<1> DEFINE N == {n \in Nat : n <= Len(out) => u[n] \in Seq(Nat)}
<1>5. 0 \in N
  <2>1. u[0] = <<>>
    BY <1>3
  <2>2. <<>> \in Seq(Nat)
    OBVIOUS
  <2> QED
    BY <2>1, <2>2
<1>6. ASSUME NEW n \in Nat, n \in N PROVE n + 1 \in N
  <2> SUFFICES ASSUME n + 1 <= Len(out) PROVE u[n + 1] \in Seq(Nat)
    OBVIOUS
  <2>1. u[n] \in Seq(Nat) /\ n + 1 \in 1 .. Len(out) /\ n + 1 \in 0 .. Len(out) /\ (n + 1) - 1 = n
    BY <1>6
  <2>2. u[n + 1] = Join(u[n], out[n + 1])
    BY <1>3, <2>1
  <2> QED
    BY <1>4, <2>1, <2>2 DEF Join
<1> HIDE DEF N
<1>7. Len(out) \in N
  BY <1>5, <1>6, NatSetInduction
<1>8. Joined(out) \in Seq(Nat)
  BY <1>2, <1>7 DEF N
<1>9. ASSUME NEW c \in Chunk PROVE Joined(Append(out, c)) = Joined(out) \o c.data
  <2> DEFINE more == Append(out, c)
  <2>1. /\ more \in Seq(Chunk) /\ Len(more) = Len(out) + 1 /\ Len(more) \in Nat
        /\ \A i \in 1 .. Len(out) : more[i] = out[i]
        /\ more[Len(out) + 1] = c
    OBVIOUS
  <2> HIDE DEF more
  <2>2. PICK v : JoinTable(v, more, Len(more)) /\ Joined(more) = v[Len(more)]
    BY <2>1, JoinedTable
  <2>3. \A i \in 0 .. Len(more) : v[i] = IF i = 0 THEN <<>> ELSE Join(v[i - 1], more[i])
    BY <2>2 DEF JoinTable
  <2> DEFINE K == {n \in Nat : n <= Len(out) => v[n] = u[n]}
  <2>4. 0 \in K
    <3>1. 0 \in 0 .. Len(out) /\ 0 \in 0 .. Len(more)
      BY <2>1
    <3> QED
      BY <1>3, <2>3, <3>1
  <2>5. ASSUME NEW n \in Nat, n \in K PROVE n + 1 \in K
    <3> SUFFICES ASSUME n + 1 <= Len(out) PROVE v[n + 1] = u[n + 1]
      OBVIOUS
    <3>1. /\ n + 1 \in 1 .. Len(out) /\ n + 1 \in 0 .. Len(out) /\ n + 1 \in 0 .. Len(more)
          /\ (n + 1) - 1 = n /\ n + 1 # 0 /\ v[n] = u[n]
      BY <2>1, <2>5
    <3>2. v[n + 1] = Join(v[n], more[n + 1])
      BY <2>3, <3>1
    <3>3. u[n + 1] = Join(u[n], out[n + 1])
      BY <1>3, <3>1
    <3> QED
      BY <2>1, <3>1, <3>2, <3>3
  <2> HIDE DEF K
  <2>6. Len(out) \in K
    BY <2>4, <2>5, NatSetInduction
  <2>7. v[Len(out)] = u[Len(out)]
    BY <2>6 DEF K
  <2>8. /\ Len(more) \in 0 .. Len(more) /\ Len(more) - 1 = Len(out) /\ Len(more) # 0
        /\ more[Len(more)] = c
    BY <2>1
  <2>9. v[Len(more)] = Join(v[Len(out)], c)
    BY <2>3, <2>8
  <2> QED
    BY <1>2, <2>2, <2>7, <2>9 DEF more, Join
<1> QED
  BY <1>1, <1>8, <1>9

-----------------------------------------------------------------------------
(* One round.                                                              *)

\* n bytes of the sender are a sequence of n naturals.
LEMMA RunType ==
    ASSUME NEW b \in Nat, NEW n \in Nat
    PROVE  /\ Run(b, n) \in Seq(Nat) /\ Len(Run(b, n)) = n
           /\ \A k \in 1 .. n : Run(b, n)[k] = b + k - 1
<1>1. \A k \in 1 .. n : b + k - 1 \in Nat
  OBVIOUS
<1>2. Run(b, n) \in [1 .. n -> Nat]
  BY <1>1 DEF Run
<1>3. Run(b, n) \in Seq(Nat) /\ DOMAIN Run(b, n) = 1 .. n
  BY <1>2
<1> QED
  BY <1>3 DEF Run

\* Runs of bytes can be put together in any order.
LEMMA BytesAssociative == \A a, b, c \in Seq(Nat) : (a \o b) \o c = a \o (b \o c)
BY ConcatAssociative

\* Chunk c is what a segment of n bytes at offset rel adds to next bytes.
Continues(c, o, next, rel, n) ==
    /\ o \in Nat /\ next \in Nat /\ rel \in Nat /\ n \in Nat
    /\ rel <= next /\ next < rel + n
    /\ c.data = SubSeq(Run(o + rel, n), next - rel + 1, n)

\* What is new of a segment that reaches past the stream's position continues
\* what was delivered.
LEMMA RunExtends ==
    ASSUME NEW new, NEW o, NEW next, NEW rel, NEW n, Continues(new, o, next, rel, n)
    PROVE  Join(Run(o, next), new) = Run(o, rel + n)
<1> DEFINE a == Run(o, next)
           d == Run(o + rel, n)
           b == SubSeq(d, next - rel + 1, n)
           c == Run(o, rel + n)
<1> o \in Nat /\ next \in Nat /\ rel \in Nat /\ n \in Nat
  BY DEF Continues
<1>0. /\ o + rel \in Nat /\ rel + n \in Nat
      /\ rel <= next /\ next < rel + n /\ new.data = SubSeq(d, next - rel + 1, n)
  BY DEF Continues
<1>1. a \in Seq(Nat) /\ Len(a) = next /\ \A k \in 1 .. next : a[k] = o + k - 1
  BY RunType
<1>2. d \in Seq(Nat) /\ Len(d) = n /\ \A k \in 1 .. n : d[k] = (o + rel) + k - 1
  BY <1>0, RunType
<1>3. c \in Seq(Nat) /\ Len(c) = rel + n /\ \A k \in 1 .. rel + n : c[k] = o + k - 1
  BY <1>0, RunType
<1> HIDE DEF a, d, c
<1>4. /\ b \in Seq(Nat) /\ Len(b) = rel + n - next
      /\ \A k \in 1 .. rel + n - next : b[k] = d[next - rel + k]
  <2>1. next - rel + 1 \in Int /\ n \in Int /\ next - rel + 1 <= n
    BY <1>0
  <2>2. \A k \in next - rel + 1 .. n : d[k] \in Nat
    BY <1>0, <1>2
  <2>3. /\ b \in Seq(Nat) /\ Len(b) = n - (next - rel + 1) + 1
        /\ \A k \in 1 .. n - (next - rel + 1) + 1 : b[k] = d[(next - rel + 1) + k - 1]
    BY <2>1, <2>2, SubSeqProperties
  <2>4. n - (next - rel + 1) + 1 = rel + n - next
    OBVIOUS
  <2>5. \A k \in 1 .. rel + n - next : (next - rel + 1) + k - 1 = next - rel + k
    OBVIOUS
  <2> QED
    BY <2>3, <2>4, <2>5
<1> HIDE DEF b
<1>5. \A k \in 1 .. rel + n - next : b[k] = o + (next + k) - 1
  <2> SUFFICES ASSUME NEW k \in 1 .. rel + n - next PROVE b[k] = o + (next + k) - 1
    OBVIOUS
  <2>1. next - rel + k \in 1 .. n
    BY <1>0
  <2>2. b[k] = (o + rel) + (next - rel + k) - 1
    BY <1>2, <1>4, <2>1
  <2> QED
    BY <2>2
<1>6. /\ a \o b \in Seq(Nat) /\ Len(a \o b) = Len(a) + Len(b)
      /\ \A k \in 1 .. Len(a) + Len(b) : (a \o b)[k] = IF k <= Len(a) THEN a[k] ELSE b[k - Len(a)]
  BY <1>1, <1>4, ConcatProperties
<1>7. Len(a) + Len(b) = rel + n
  BY <1>1, <1>4
<1>8. \A k \in 1 .. rel + n : (a \o b)[k] = c[k]
  <2> SUFFICES ASSUME NEW k \in 1 .. rel + n PROVE (a \o b)[k] = c[k]
    OBVIOUS
  <2>1. c[k] = o + k - 1
    BY <1>3
  <2>2. CASE k <= next
    BY <1>1, <1>6, <1>7, <2>1, <2>2
  <2>3. CASE k > next
    <3>1. k - next \in 1 .. rel + n - next /\ ~(k <= Len(a)) /\ k - Len(a) = k - next
      BY <1>1, <2>3
    <3>2. (a \o b)[k] = b[k - next]
      BY <1>6, <1>7, <3>1
    <3>3. b[k - next] = o + (next + (k - next)) - 1
      BY <1>5, <3>1
    <3> QED
      BY <2>1, <3>2, <3>3
  <2>4. k <= next \/ k > next
    OBVIOUS
  <2> QED
    BY <2>2, <2>3, <2>4
<1>9. a \o b = c
  BY <1>3, <1>6, <1>7, <1>8, SeqEqual
<1> QED
  BY <1>0, <1>9 DEF a, b, c, d, Join

\* The stream and the chunks of one call of on_data, counting from byte o: base
\* was delivered before, the captured bytes are delivered or wait.
AccOK(acc, o, i, base, bytes) ==
    /\ acc = [st |-> acc.st, out |-> acc.out]
    /\ acc.out \in Seq(Chunk)
    /\ StreamOK(acc.st, o)
    /\ acc.st.started /\ ~acc.st.overflow /\ acc.st.isn = i
    /\ base \o Joined(acc.out) = Run(o, acc.st.next_rel)
    /\ Sized(acc.st)
    /\ Kept(acc.st, o, bytes)

\* The segment at offset rel holds the sender's bytes and reaches past the
\* stream's position without a gap.  The bytes of all are captured before or
\* with it.
Deliverable(acc, o, i, base, bytes, rel, data, all) ==
    /\ o \in Nat /\ base \in Seq(Nat) /\ bytes \subseteq Nat
    /\ AccOK(acc, o, i, base, bytes)
    /\ rel \in Nat /\ data \in Seq(Nat) /\ data = Run(o + rel, Len(data))
    /\ rel <= acc.st.next_rel /\ acc.st.next_rel < rel + Len(data)
    /\ \A n \in all : n \in bytes \/ n \in o + rel .. o + rel + Len(data) - 1

\* Delivering a segment that reaches past the position.
LEMMA DeliverOK ==
    ASSUME NEW acc, NEW o, NEW i, NEW base, NEW bytes, NEW rel, NEW data, NEW all,
           Deliverable(acc, o, i, base, bytes, rel, data, all),
           NEW d, d = Deliver(acc, rel, 0, data)
    PROVE  AccOK(d, o, i, base, all) /\ d.st.pending = acc.st.pending
<1> o \in Nat /\ base \in Seq(Nat) /\ bytes \subseteq Nat /\ rel \in Nat /\ data \in Seq(Nat)
  BY DEF Deliverable
<1> DEFINE next == acc.st.next_rel
           c == [ts |-> 0, data |-> SubSeq(data, next - rel + 1, Len(data))]
<1>0. /\ StreamOK(acc.st, o) /\ Sized(acc.st) /\ Kept(acc.st, o, bytes)
      /\ acc.st.started /\ ~acc.st.overflow /\ acc.st.isn = i
      /\ acc.out \in Seq(Chunk) /\ base \o Joined(acc.out) = Run(o, next)
      /\ data = Run(o + rel, Len(data)) /\ rel <= next /\ next < rel + Len(data)
      /\ \A n \in all : n \in bytes \/ n \in o + rel .. o + rel + Len(data) - 1
  BY DEF AccOK, Deliverable
<1>1. next \in Nat /\ Len(data) \in Nat /\ rel + Len(data) \in Nat
  BY <1>0 DEF StreamOK
<1>2. d = [st |-> [acc.st EXCEPT !.next_rel = rel + Len(data)], out |-> Append(acc.out, c)]
  BY DEF Deliver
<1> HIDE DEF c
<1>3. d.st = [acc.st EXCEPT !.next_rel = rel + Len(data)] /\ d.out = Append(acc.out, c)
  <2>1. PICK more, moved : more = Append(acc.out, c) /\ moved = [acc.st EXCEPT !.next_rel = rel + Len(data)]
    OBVIOUS
  <2>2. d = [st |-> moved, out |-> more]
    BY <1>2, <2>1
  <2>3. d.st = moved /\ d.out = more
    BY <2>2
  <2> QED
    BY <2>1, <2>3, Zenon
<1>4. c \in Chunk
  <2>1. \A k \in next - rel + 1 .. Len(data) : data[k] \in Nat
    BY <1>0, <1>1, ElementOfSeq
  <2>2. SubSeq(data, next - rel + 1, Len(data)) \in Seq(Nat)
    BY <1>1, <2>1, SubSeqProperties
  <2> QED
    BY <2>2 DEF Chunk, c
<1>5. /\ d.st.next_rel = rel + Len(data) /\ d.st.pending = acc.st.pending
      /\ d.st.started = acc.st.started /\ d.st.overflow = acc.st.overflow /\ d.st.isn = acc.st.isn
      /\ d.st.pending_bytes = acc.st.pending_bytes
      /\ d.st = [started |-> d.st.started, isn |-> d.st.isn, next_rel |-> d.st.next_rel, pending |-> d.st.pending,
                 pending_bytes |-> d.st.pending_bytes, overflow |-> d.st.overflow]
  <2>1. acc.st = [started |-> acc.st.started, isn |-> acc.st.isn, next_rel |-> acc.st.next_rel,
                  pending |-> acc.st.pending, pending_bytes |-> acc.st.pending_bytes, overflow |-> acc.st.overflow]
    BY <1>0 DEF StreamOK
  <2> QED
    BY <1>3, <2>1
<1>6. StreamOK(d.st, o)
  BY <1>0, <1>1, <1>5 DEF StreamOK
<1>7. Sized(d.st)
  BY <1>0, <1>5 DEF Sized, Sizes
<1>8. Kept(d.st, o, all)
  <2> SUFFICES ASSUME NEW n \in all, ~(n < o + d.st.next_rel)
               PROVE  \E r \in DOMAIN d.st.pending :
                          n \in o + r .. o + r + Len(d.st.pending[r].data) - 1
    BY DEF Kept
  <2>1. n \in bytes /\ ~(n < o + next)
    <3>1. n \in bytes \/ n \in o + rel .. o + rel + Len(data) - 1
      BY <1>0
    <3>2. ~(n < o + (rel + Len(data)))
      BY <1>5
    <3>3. n \in bytes
      BY <1>1, <3>1, <3>2
    <3>4. n \in Nat /\ next < rel + Len(data)
      BY <1>0, <3>3
    <3> QED
      BY <1>1, <3>2, <3>3, <3>4
  <2> QED
    BY <1>0, <1>5, <2>1 DEF Kept
<1>9. d.out \in Seq(Chunk)
  <2>1. Append(acc.out, c) \in Seq(Chunk)
    BY <1>0, <1>4, AppendProperties, Zenon
  <2> QED
    BY <1>3, <2>1
<1>10. base \o Joined(d.out) = Run(o, d.st.next_rel)
  <2>1. Joined(acc.out) \in Seq(Nat) /\ Joined(d.out) = Joined(acc.out) \o c.data
    BY <1>0, <1>3, <1>4, JoinedAppend
  <2>2. c.data \in Seq(Nat)
    BY <1>4 DEF Chunk
  <2>3. (base \o Joined(acc.out)) \o c.data = base \o (Joined(acc.out) \o c.data)
    BY <2>1, <2>2, BytesAssociative
  <2>4. Continues(c, o, next, rel, Len(data))
    BY <1>0, <1>1 DEF c, Continues
  <2>5. Join(Run(o, next), c) = Run(o, rel + Len(data))
    BY <2>4, RunExtends
  <2>6. Join(base \o Joined(acc.out), c) = base \o (Joined(acc.out) \o c.data)
    BY <2>3 DEF Join
  <2> QED
    BY <1>0, <1>5, <2>1, <2>5, <2>6
<1>11. d = [st |-> d.st, out |-> d.out]
  BY <1>2
<1> QED
  BY <1>0, <1>5, <1>6, <1>7, <1>8, <1>9, <1>10, <1>11 DEF AccOK

\* The streams s and t differ in the segment at rel only.
Removed(s, t, rel) ==
    /\ DOMAIN t.pending = DOMAIN s.pending \ {rel}
    /\ \A r \in DOMAIN t.pending : t.pending[r] = s.pending[r]
    /\ t.started = s.started /\ t.overflow = s.overflow /\ t.isn = s.isn
    /\ t.next_rel = s.next_rel

\* A segment that was reached leaves the buffer, with its size, and its bytes
\* are no longer kept by it.
LEMMA UnbufferOK ==
    ASSUME NEW s, NEW o \in Nat, StreamOK(s, o), Sized(s), NEW rel \in DOMAIN s.pending,
           NEW t, t = Unbuffer(s, rel)
    PROVE  StreamOK(t, o) /\ Sized(t) /\ Removed(s, t, rel)
<1> DEFINE rest == [k \in DOMAIN s.pending \ {rel} |-> s.pending[k]]
<1>1. s = [started |-> s.started, isn |-> s.isn, next_rel |-> s.next_rel, pending |-> s.pending,
           pending_bytes |-> s.pending_bytes, overflow |-> s.overflow]
  BY DEF StreamOK
<1>2. t = [s EXCEPT !.pending = rest, !.pending_bytes = @ - Len(s.pending[rel].data)]
  BY DEF Unbuffer
<1>3. /\ DOMAIN rest = DOMAIN s.pending \ {rel}
      /\ \A r \in DOMAIN rest : rest[r] = s.pending[r]
      /\ rest = [r \in DOMAIN rest |-> rest[r]]
  OBVIOUS
<1> HIDE DEF rest
<1>4. /\ t.started = s.started /\ t.overflow = s.overflow /\ t.isn = s.isn /\ t.next_rel = s.next_rel
      /\ t.pending = rest /\ t.pending_bytes = s.pending_bytes - Len(s.pending[rel].data)
      /\ t = [started |-> t.started, isn |-> t.isn, next_rel |-> t.next_rel, pending |-> t.pending,
              pending_bytes |-> t.pending_bytes, overflow |-> t.overflow]
  BY <1>1, <1>2
<1>5. IsFiniteSet(DOMAIN s.pending) /\ IsFiniteSet(DOMAIN t.pending)
  BY <1>3, <1>4, FS_RemoveElement DEF StreamOK
<1>6. StreamOK(t, o)
  BY <1>3, <1>4, <1>5 DEF StreamOK
<1>7. Sized(t)
  <2> DEFINE D == DOMAIN s.pending
  <2>1. \A r \in D : Sizes(s)[r] \in Nat
    <3>1. \A r \in D : s.pending[r].data \in Seq(Nat)
      BY DEF StreamOK, Chunk
    <3> QED
      BY <3>1, LenProperties DEF Sizes
  <2>2. \A r \in D : Sizes(s)[r] \in Int
    BY <2>1
  <2>3. Total(Sizes(s), D) = Sizes(s)[rel] + Total(Sizes(s), D \ {rel}) /\ Total(Sizes(s), D) \in Int
    BY <1>5, <2>2, TotalSplit
  <2>4. Total(Sizes(t), D \ {rel}) = Total(Sizes(s), D \ {rel})
    <3>1. \A r \in D \ {rel} : Sizes(s)[r] \in Int /\ Sizes(t)[r] = Sizes(s)[r]
      BY <1>3, <1>4, <2>2 DEF Sizes
    <3> QED
      BY <1>3, <1>4, <1>5, <3>1, TotalSame
  <2>5. Total(Sizes(s), D \ {rel}) \in Nat
    BY <1>3, <1>4, <1>5, <2>1, TotalNat
  <2>6. s.pending_bytes = Total(Sizes(s), D) /\ s.pending_bytes \in 0 .. MaxPending
    BY DEF Sized
  <2>7. Sizes(s)[rel] = Len(s.pending[rel].data)
    BY DEF Sizes
  <2>8. t.pending_bytes = Total(Sizes(t), D \ {rel})
    BY <1>4, <2>1, <2>3, <2>4, <2>5, <2>6, <2>7
  <2>9. t.pending_bytes \in 0 .. MaxPending
    BY <1>4, <2>1, <2>4, <2>5, <2>6, <2>7, <2>8, SpaceAssumption
  <2> QED
    BY <1>3, <1>4, <2>8, <2>9 DEF Sized
<1> QED
  BY <1>3, <1>4, <1>6, <1>7 DEF Removed

\* One round of drain keeps the accounts: a reached segment leaves the buffer,
\* what is new of it is delivered, and nothing else changes.
LEMMA DrainOneOK ==
    ASSUME NEW acc, NEW o \in Nat, NEW i, NEW base \in Seq(Nat), NEW bytes \in SUBSET Nat,
           AccOK(acc, o, i, base, bytes),
           NEW rel \in DOMAIN acc.st.pending, rel <= acc.st.next_rel,
           NEW d, d = DrainOne(acc, rel)
    PROVE  /\ AccOK(d, o, i, base, bytes)
           /\ DOMAIN d.st.pending = DOMAIN acc.st.pending \ {rel}
<1> DEFINE seg == acc.st.pending[rel]
           t == Unbuffer(acc.st, rel)
           rest == [acc EXCEPT !.st = t]
           own == o + rel .. o + rel + Len(seg.data) - 1
<1>1. /\ acc = [st |-> acc.st, out |-> acc.out] /\ acc.out \in Seq(Chunk)
      /\ StreamOK(acc.st, o) /\ Sized(acc.st) /\ Kept(acc.st, o, bytes)
      /\ acc.st.started /\ ~acc.st.overflow /\ acc.st.isn = i
      /\ base \o Joined(acc.out) = Run(o, acc.st.next_rel)
  BY DEF AccOK
<1>2. /\ acc.st.next_rel \in Nat /\ rel \in Nat /\ seg \in Chunk /\ seg.data # <<>>
      /\ seg.data = Run(o + rel, Len(seg.data))
  BY <1>1 DEF StreamOK
<1>3. seg.data \in Seq(Nat) /\ Len(seg.data) \in Nat /\ seg.ts = 0
  <2>1. seg.data \in Seq(Nat) /\ seg.ts = 0
    BY <1>2 DEF Chunk
  <2> QED
    BY <2>1, LenProperties
<1>0. t = Unbuffer(acc.st, rel)
  OBVIOUS
<1> HIDE DEF t
<1>4. /\ StreamOK(t, o) /\ Sized(t)
      /\ DOMAIN t.pending = DOMAIN acc.st.pending \ {rel}
      /\ \A r \in DOMAIN t.pending : t.pending[r] = acc.st.pending[r]
      /\ t.started = acc.st.started /\ t.overflow = acc.st.overflow /\ t.isn = acc.st.isn
      /\ t.next_rel = acc.st.next_rel
  <2>1. StreamOK(t, o) /\ Sized(t) /\ Removed(acc.st, t, rel)
    BY <1>0, <1>1, UnbufferOK
  <2> QED
    BY <2>1 DEF Removed
<1>5. ~(rel > acc.st.next_rel)
  BY <1>2
<1>6. d = IF rel + Len(seg.data) <= acc.st.next_rel THEN rest ELSE Deliver(rest, rel, seg.ts, seg.data)
  BY <1>5 DEF DrainOne, t
<1>7. rest.st = t /\ rest.out = acc.out /\ rest = [st |-> rest.st, out |-> rest.out]
  BY <1>1
<1> HIDE DEF seg, rest
<1>8. Kept(t, o, bytes \ own)
  <2> SUFFICES ASSUME NEW n \in bytes \ own, ~(n < o + t.next_rel)
               PROVE  \E r \in DOMAIN t.pending : n \in o + r .. o + r + Len(t.pending[r].data) - 1
    BY DEF Kept
  <2>1. PICK r \in DOMAIN acc.st.pending : n \in o + r .. o + r + Len(acc.st.pending[r].data) - 1
    BY <1>1, <1>4 DEF Kept
  <2>2. r # rel
    BY <2>1 DEF seg
  <2> QED
    BY <1>4, <2>1, <2>2
<1>9. AccOK(rest, o, i, base, bytes \ own)
  BY <1>1, <1>4, <1>7, <1>8 DEF AccOK
<1>10. CASE rel + Len(seg.data) <= acc.st.next_rel
  <2>1. d = rest
    BY <1>6, <1>10
  <2>2. Kept(t, o, bytes)
    <3> SUFFICES ASSUME NEW n \in bytes, ~(n < o + t.next_rel)
                 PROVE  \E r \in DOMAIN t.pending : n \in o + r .. o + r + Len(t.pending[r].data) - 1
      BY DEF Kept
    <3>1. n \notin own
      BY <1>2, <1>3, <1>4, <1>10
    <3> QED
      BY <1>8, <3>1 DEF Kept
  <2> QED
    BY <1>4, <1>7, <1>9, <2>1, <2>2 DEF AccOK
<1>11. CASE ~(rel + Len(seg.data) <= acc.st.next_rel)
  <2>1. d = Deliver(rest, rel, 0, seg.data)
    BY <1>3, <1>6, <1>11
  <2>2. rel <= rest.st.next_rel /\ rest.st.next_rel < rel + Len(seg.data)
    BY <1>2, <1>3, <1>4, <1>7, <1>11
  <2>3. PICK left \in SUBSET Nat : left = bytes \ own
    OBVIOUS
  <2>4. Deliverable(rest, o, i, base, left, rel, seg.data, bytes)
    BY <1>2, <1>3, <1>9, <2>2, <2>3 DEF Deliverable
  <2>5. AccOK(d, o, i, base, bytes) /\ d.st.pending = rest.st.pending
    BY <2>1, <2>4, DeliverOK
  <2> QED
    BY <1>4, <1>7, <2>5
<1> QED
  BY <1>10, <1>11

\* drain keeps the accounts and leaves no segment whose turn has come: every
\* round takes one out of the buffer or finds that the first is not reached.
LEMMA DrainOK ==
    ASSUME NEW acc, NEW o \in Nat, NEW i, NEW base \in Seq(Nat), NEW bytes \in SUBSET Nat,
           AccOK(acc, o, i, base, bytes)
    PROVE  AccOK(Drain(acc), o, i, base, bytes) /\ Ahead(Drain(acc).st)
<1> DEFINE Held(a) == DOMAIN a.st.pending
<1>0. ASSUME NEW a, AccOK(a, o, i, base, bytes)
      PROVE  /\ IsFiniteSet(Held(a)) /\ Held(a) \in SUBSET Nat /\ a.st.next_rel \in Nat
             /\ Cardinality(Held(a)) \in Nat /\ (Cardinality(Held(a)) = 0 <=> Held(a) = {})
  <2>1. IsFiniteSet(Held(a)) /\ Held(a) \in SUBSET Nat /\ a.st.next_rel \in Nat
    BY <1>0 DEF AccOK, StreamOK
  <2> QED
    BY <2>1, FS_CardinalityType, FS_EmptySet
<1>1. PICK len \in Nat : len = Cardinality(Held(acc))
  BY <1>0
<1>2. PICK u : /\ u[0] = acc
               /\ \A n \in 1 .. len : u[n] = DrainFirst(u[n - 1])
               /\ Drain(acc) = u[len]
  BY <1>1, DrainByRounds
<1> DEFINE Good(n) == /\ AccOK(u[n], o, i, base, bytes)
                      /\ Ahead(u[n].st) \/ Cardinality(Held(u[n])) = len - n
           N == {n \in Nat : n <= len => Good(n)}
<1>3. 0 \in N
  BY <1>1, <1>2
<1>4. ASSUME NEW n \in Nat, n \in N PROVE n + 1 \in N
  <2> SUFFICES ASSUME n + 1 <= len PROVE Good(n + 1)
    OBVIOUS
  <2>1. PICK a : a = u[n]
    OBVIOUS
  <2>2. AccOK(a, o, i, base, bytes) /\ (Ahead(a.st) \/ Cardinality(Held(a)) = len - n)
    BY <1>4, <2>1
  <2>3. PICK b : b = u[n + 1] /\ b = DrainFirst(a)
    <3>1. n + 1 \in 1 .. len /\ (n + 1) - 1 = n
      OBVIOUS
    <3> QED
      BY <1>2, <2>1, <3>1
  <2>4. CASE Held(a) = {}
    <3>1. b = a
      BY <2>3, <2>4 DEF DrainFirst
    <3>2. Ahead(a.st)
      BY <2>4 DEF Ahead
    <3> QED
      BY <2>2, <2>3, <3>1, <3>2
  <2>5. CASE Held(a) # {}
    <3>1. PICK m : m = Min(Held(a))
      OBVIOUS
    <3>2. m \in Held(a) /\ \A r \in Held(a) : m <= r
      BY <1>0, <2>2, <2>5, <3>1, MinIsLeast
    <3>3. b = DrainOne(a, m)
      BY <2>3, <2>5, <3>1 DEF DrainFirst
    <3>4. m \in Nat /\ a.st.next_rel \in Nat /\ Held(a) \in SUBSET Nat
      BY <1>0, <2>2, <3>2
    <3>5. CASE m > a.st.next_rel
      <4>1. b = a
        BY <3>3, <3>5 DEF DrainOne
      <4>2. Ahead(a.st)
        BY <3>2, <3>4, <3>5 DEF Ahead
      <4> QED
        BY <2>2, <2>3, <4>1, <4>2
    <3>6. CASE m <= a.st.next_rel
      <4>1. AccOK(b, o, i, base, bytes) /\ Held(b) = Held(a) \ {m}
        BY <2>2, <3>2, <3>3, <3>6, DrainOneOK
      <4>2. ~Ahead(a.st)
        BY <3>2, <3>4, <3>6 DEF Ahead
      <4>3. Cardinality(Held(a)) = len - n
        BY <2>2, <4>2
      <4>4. Cardinality(Held(a) \ {m}) = Cardinality(Held(a)) - 1
        BY <1>0, <2>2, <3>2, FS_RemoveElement
      <4>5. Cardinality(Held(b)) = len - (n + 1)
        BY <4>1, <4>3, <4>4
      <4> QED
        BY <2>3, <4>1, <4>5
    <3> QED
      BY <3>4, <3>5, <3>6
  <2> QED
    BY <2>4, <2>5
<1> HIDE DEF N
<1>5. len \in N
  BY <1>3, <1>4, NatSetInduction
<1>6. Good(len)
  BY <1>5 DEF N
<1>7. Ahead(u[len].st)
  <2>1. CASE Cardinality(Held(u[len])) = len - len
    <3>1. Held(u[len]) = {}
      BY <1>0, <1>6, <2>1
    <3> QED
      BY <3>1 DEF Ahead
  <2> QED
    BY <1>6, <2>1
<1> QED
  BY <1>2, <1>6, <1>7

-----------------------------------------------------------------------------
(* A segment ahead of the stream.                                          *)

\* The segment at offset rel is ahead of the stream.  Where a segment is known
\* by its first byte, the one in its place is the same.
Bufferable(s, o, rel, data) ==
    /\ o \in Nat /\ StreamOK(s, o) /\ Sized(s) /\ Ahead(s)
    /\ rel \in Nat /\ rel > s.next_rel
    /\ data \in Seq(Nat) /\ data # <<>> /\ data = Run(o + rel, Len(data))
    /\ [from |-> o + rel, len |-> Len(data)] \in scenario.segments

BufferedOK(s, t, o, rel, data) ==
    /\ StreamOK(t, o) /\ Sized(t) /\ Ahead(t)
    /\ t.started = s.started /\ t.isn = s.isn /\ t.next_rel = s.next_rel
    /\ ~t.overflow =>
          /\ \A r \in DOMAIN s.pending : r \in DOMAIN t.pending /\ t.pending[r] = s.pending[r]
          /\ rel \in DOMAIN t.pending
          /\ rel \in DOMAIN s.pending \/ t.pending[rel].data = data

\* Buffering it keeps the accounts, and what was buffered before, unless the
\* stream is given up.
LEMMA BufferOK ==
    ASSUME NEW s, NEW o, NEW rel, NEW data, Bufferable(s, o, rel, data),
           NEW t, t = Buffer(s, rel, 0, data)
    PROVE  BufferedOK(s, t, o, rel, data)
<1> /\ o \in Nat /\ StreamOK(s, o) /\ Sized(s) /\ Ahead(s)
    /\ rel \in Nat /\ rel > s.next_rel /\ data \in Seq(Nat)
  BY DEF Bufferable
<1>0. Len(data) \in Nat
  BY LenProperties
<1>1. s = [started |-> s.started, isn |-> s.isn, next_rel |-> s.next_rel, pending |-> s.pending,
           pending_bytes |-> s.pending_bytes, overflow |-> s.overflow]
  BY DEF StreamOK
<1>2. CASE s.pending_bytes + Len(data) > MaxPending
  <2>1. t = [s EXCEPT !.overflow = TRUE, !.pending = <<>>, !.pending_bytes = 0]
    BY <1>2 DEF Buffer
  <2>2. /\ t.started = s.started /\ t.isn = s.isn /\ t.next_rel = s.next_rel /\ t.overflow = TRUE
        /\ t.pending = <<>> /\ t.pending_bytes = 0
        /\ t = [started |-> t.started, isn |-> t.isn, next_rel |-> t.next_rel, pending |-> t.pending,
                pending_bytes |-> t.pending_bytes, overflow |-> t.overflow]
    BY <1>1, <2>1
  <2>3. DOMAIN t.pending = {} /\ t.pending = [r \in {} |-> t.pending[r]]
    BY <2>2
  <2>4. StreamOK(t, o)
    BY <2>2, <2>3, FS_EmptySet DEF StreamOK
  <2>5. Sized(t)
    BY <2>2, <2>3, TotalEmpty, SpaceAssumption DEF Sized
  <2> QED
    BY <2>2, <2>3, <2>4, <2>5 DEF BufferedOK, Ahead
<1>3. CASE ~(s.pending_bytes + Len(data) > MaxPending) /\ rel \in DOMAIN s.pending
  <2>1. t = s
    BY <1>3 DEF Buffer
  <2> QED
    BY <1>3, <2>1 DEF BufferedOK
<1>4. CASE ~(s.pending_bytes + Len(data) > MaxPending) /\ rel \notin DOMAIN s.pending
  <2> DEFINE D == DOMAIN s.pending
             more == [k \in D \cup {rel} |-> IF k = rel THEN [ts |-> 0, data |-> data] ELSE s.pending[k]]
  <2>1. t = [s EXCEPT !.pending_bytes = @ + Len(data), !.pending = more]
    BY <1>4 DEF Buffer
  <2>2. /\ DOMAIN more = D \cup {rel} /\ more = [r \in DOMAIN more |-> more[r]]
        /\ more[rel] = [ts |-> 0, data |-> data] /\ \A r \in D : more[r] = s.pending[r]
    BY <1>4
  <2> HIDE DEF more
  <2>3. /\ t.started = s.started /\ t.isn = s.isn /\ t.next_rel = s.next_rel /\ t.overflow = s.overflow
        /\ t.pending = more /\ t.pending_bytes = s.pending_bytes + Len(data)
        /\ t = [started |-> t.started, isn |-> t.isn, next_rel |-> t.next_rel, pending |-> t.pending,
                pending_bytes |-> t.pending_bytes, overflow |-> t.overflow]
    BY <1>1, <2>1
  <2>4. IsFiniteSet(D) /\ IsFiniteSet(D \cup {rel})
    <3>1. IsFiniteSet(D)
      BY DEF StreamOK
    <3> QED
      BY <3>1, FS_AddElement
  <2>5. more[rel] \in Chunk /\ more[rel].data = data
    BY <2>2 DEF Chunk
  <2>6. \A r \in DOMAIN t.pending :
           /\ r \in Nat /\ t.pending[r] \in Chunk /\ t.pending[r].data # <<>>
           /\ t.pending[r].data = Run(o + r, Len(t.pending[r].data))
           /\ [from |-> o + r, len |-> Len(t.pending[r].data)] \in scenario.segments
    <3> SUFFICES ASSUME NEW r \in DOMAIN t.pending
                 PROVE  /\ r \in Nat /\ t.pending[r] \in Chunk /\ t.pending[r].data # <<>>
                        /\ t.pending[r].data = Run(o + r, Len(t.pending[r].data))
                        /\ [from |-> o + r, len |-> Len(t.pending[r].data)] \in scenario.segments
      OBVIOUS
    <3>1. CASE r = rel
      <4>1. t.pending[r] \in Chunk /\ t.pending[r].data = data
        BY <2>3, <2>5, <3>1
      <4> QED
        BY <3>1, <4>1 DEF Bufferable
    <3>2. CASE r # rel
      <4>1. r \in D /\ t.pending[r] = s.pending[r]
        BY <2>2, <2>3, <3>2
      <4> QED
        BY <4>1 DEF StreamOK
    <3> QED
      BY <3>1, <3>2
  <2>7. StreamOK(t, o)
    BY <2>2, <2>3, <2>4, <2>6 DEF StreamOK
  <2>8. Sized(t)
    <3> DEFINE E == D \cup {rel}
    <3>1. \A r \in E : Sizes(t)[r] \in Nat /\ (r \in D => Sizes(t)[r] = Sizes(s)[r])
      <4>1. \A r \in E : t.pending[r].data \in Seq(Nat)
        BY <2>2, <2>3, <2>6 DEF Chunk
      <4>2. \A r \in E : Len(t.pending[r].data) \in Nat
        BY <4>1, LenProperties
      <4> QED
        BY <2>2, <2>3, <4>2 DEF Sizes
    <3>2. Total(Sizes(t), E) = Sizes(t)[rel] + Total(Sizes(t), E \ {rel})
      <4>1. rel \in E /\ \A r \in E : Sizes(t)[r] \in Int
        BY <3>1
      <4> QED
        BY <2>4, <4>1, TotalSplit
    <3>3. E \ {rel} = D
      BY <1>4
    <3>4. Total(Sizes(t), D) = Total(Sizes(s), D)
      <4>1. \A r \in D : Sizes(s)[r] \in Int /\ Sizes(t)[r] = Sizes(s)[r]
        BY <3>1
      <4> QED
        BY <2>4, <4>1, TotalSame
    <3>5. Sizes(t)[rel] = Len(data)
      BY <2>2, <2>3, <2>5 DEF Sizes
    <3>6. s.pending_bytes = Total(Sizes(s), D) /\ s.pending_bytes \in 0 .. MaxPending
      BY DEF Sized
    <3>7. Total(Sizes(t), E) = Len(data) + s.pending_bytes
      BY <3>2, <3>3, <3>4, <3>5, <3>6
    <3>8. t.pending_bytes = Total(Sizes(t), E) /\ t.pending_bytes \in 0 .. MaxPending
      BY <1>0, <1>4, <2>3, <3>6, <3>7, SpaceAssumption
    <3> QED
      BY <2>2, <2>3, <3>8 DEF Sized
  <2>9. Ahead(t)
    BY <2>2, <2>3 DEF Ahead
  <2> QED
    BY <2>2, <2>3, <2>5, <2>7, <2>8, <2>9 DEF BufferedOK
<1> QED
  BY <1>2, <1>3, <1>4

-----------------------------------------------------------------------------
(* The steps.                                                              *)

\* The stream on_data goes on with, and the byte it counts from.
On(s) == IF st.started THEN st
         ELSE [st EXCEPT !.started = TRUE, !.isn = (Isn + 1 + s.from) % M]

Origin(s) == IF st.started THEN origin ELSE s.from

Before == IF scenario.recut THEN {} ELSE seen

\* A segment finds its offset: the stream it goes on with counts from a byte at
\* or before its first one, and rel gives the distance.
LEMMA SegmentPlaced ==
    ASSUME StreamInv, NEW s \in scenario.segments, ~st.overflow,
           st.started => s.from >= origin /\ Distance(s.from - origin, st.next_rel) < M \div 2
    PROVE  /\ Origin(s) \in Nat /\ s.from - Origin(s) \in Nat
           /\ StreamOK(On(s), Origin(s)) /\ Sized(On(s)) /\ Ahead(On(s))
           /\ On(s).started /\ ~On(s).overflow /\ On(s).isn = (Isn + 1 + Origin(s)) % M
           /\ delivered = Run(Origin(s), On(s).next_rel)
           /\ Kept(On(s), Origin(s), Before)
           /\ Rel((Isn + 1 + s.from) % M, On(s).next_rel, On(s).isn) = s.from - Origin(s)
<1> DEFINE seq == (Isn + 1 + s.from) % M
<1>0. M \in Nat \ {0} /\ Isn \in Nat /\ s.from \in Nat /\ s.len \in Nat \ {0} /\ origin \in Nat
  <2>1. scenario.segments \subseteq [from : Nat, len : Nat \ {0}]
    BY ScenarioAssumption DEF StreamInv
  <2>2. s \in [from : Nat, len : Nat \ {0}]
    BY <2>1
  <2> QED
    BY <2>2, SpaceAssumption, ScenarioAssumption DEF StreamInv
<1>1. CASE st.started
  <2>1. On(s) = st /\ Origin(s) = origin
    BY <1>1 DEF On, Origin
  <2>2. st.isn = (Isn + 1 + origin) % M /\ st.next_rel \in Nat
    BY <1>1 DEF StreamInv, StreamOK
  <2>3. s.from - origin \in Nat /\ Distance(s.from - origin, st.next_rel) < M \div 2
    BY <1>0, <1>1
  <2>4. (seq - st.isn) % M = (s.from - origin) % M
    <3> DEFINE a == Isn + 1 + s.from
               b == Isn + 1 + origin
    <3>1. a \in Int /\ b \in Int /\ a - b = s.from - origin
      BY <1>0
    <3> HIDE DEF a, b
    <3>2. ((a % M) - (b % M)) % M = (a - b) % M
      BY <1>0, <3>1, ModDifference
    <3> QED
      BY <2>2, <3>1, <3>2 DEF a, b
  <2>5. Rel(seq, st.next_rel, st.isn) = s.from - origin
    <3>1. seq \in Int /\ st.isn \in Int
      <4>1. st.isn \in Int
        BY DEF StreamInv, StreamOK
      <4>2. Isn + 1 + s.from \in Int
        BY <1>0
      <4> QED
        BY <1>0, <4>1, <4>2, DivMod
    <3>2. Near(seq, st.next_rel, st.isn, s.from - origin)
      BY <2>2, <2>3, <2>4, <3>1 DEF Near
    <3> QED
      BY <3>2, RelIsOffset
  <2>6. /\ StreamOK(st, origin) /\ Sized(st) /\ Ahead(st)
        /\ delivered = Run(origin, st.next_rel) /\ (~scenario.recut => Kept(st, origin, seen))
    BY DEF StreamInv
  <2>7. Kept(st, origin, Before)
    BY <2>6 DEF Before, Kept
  <2> QED
    BY <1>0, <1>1, <2>1, <2>2, <2>3, <2>5, <2>6, <2>7
<1>2. CASE ~st.started
  <2>1. On(s) = [st EXCEPT !.started = TRUE, !.isn = seq] /\ Origin(s) = s.from
    BY <1>2 DEF On, Origin
  <2>2. seen = {} /\ st.next_rel = 0 /\ DOMAIN st.pending = {}
    BY <1>2 DEF StreamInv, Untouched
  <2>3. StreamOK(st, origin) /\ Sized(st) /\ Ahead(st) /\ delivered = Run(origin, st.next_rel)
    BY DEF StreamInv
  <2>4. st = [started |-> st.started, isn |-> st.isn, next_rel |-> st.next_rel, pending |-> st.pending,
              pending_bytes |-> st.pending_bytes, overflow |-> st.overflow]
    BY <2>3 DEF StreamOK
  <2>5. PICK t : t = On(s)
    OBVIOUS
  <2>6. /\ t.started = TRUE /\ t.isn = seq /\ t.next_rel = st.next_rel /\ t.pending = st.pending
        /\ t.pending_bytes = st.pending_bytes /\ t.overflow = st.overflow
        /\ t = [started |-> t.started, isn |-> t.isn, next_rel |-> t.next_rel, pending |-> t.pending,
                pending_bytes |-> t.pending_bytes, overflow |-> t.overflow]
    BY <2>1, <2>4, <2>5
  <2>7. seq \in 0 .. M - 1
    <3>1. Isn + 1 + s.from \in Int
      BY <1>0
    <3> QED
      BY <1>0, <3>1, DivMod
  <2>8. StreamOK(t, s.from)
    BY <2>2, <2>3, <2>6, <2>7 DEF StreamOK
  <2>9. Sized(t) /\ Ahead(t)
    BY <2>2, <2>3, <2>6 DEF Sized, Sizes, Ahead
  <2>10. delivered = Run(s.from, t.next_rel)
    BY <2>2, <2>3, <2>6 DEF Run
  <2>11. Kept(t, s.from, Before)
    BY <2>2 DEF Kept, Before
  <2>12. Rel(seq, t.next_rel, t.isn) = 0
    <3> HIDE DEF seq
    <3>1. (seq - seq) % M = 0 /\ 0 \div M = 0
      <4>1. seq - seq = 0
        BY <2>7
      <4>2. 0 % M = 0 /\ 0 \div M = 0
        BY <1>0
      <4> QED
        BY <4>1, <4>2
    <3>2. Distance(0 * M + 0 + M, 0) = M /\ Distance(0 * M + 0, 0) = 0 /\ 0 * M + 0 = 0
      BY <1>0 DEF Distance
    <3> QED
      BY <1>0, <2>2, <2>6, <3>1, <3>2 DEF Rel
  <2> QED
    BY <1>0, <2>1, <2>5, <2>6, <2>8, <2>9, <2>10, <2>11, <2>12
<1> QED
  BY <1>1, <1>2

\* What on_data leaves: the stream t, counting from o, and all that was delivered.
Result(t, o, isn, bytes, all) ==
    /\ StreamOK(t, o) /\ Sized(t) /\ Ahead(t)
    /\ t.started /\ t.isn = isn
    /\ bytes = Run(o, t.next_rel)
    /\ ~t.overflow => Kept(t, o, all)

\* on_data: a copy is ignored, what continues the stream is delivered together
\* with what waited for it, and what is ahead waits.
LEMMA SegmentTaken ==
    ASSUME StreamInv, NEW s \in scenario.segments, ~st.overflow,
           st.started => s.from >= origin /\ Distance(s.from - origin, st.next_rel) < M \div 2,
           NEW data, data = Run(s.from, s.len),
           NEW acc, acc = StreamData(st, 0, (Isn + 1 + s.from) % M, data),
           NEW all, all = IF scenario.recut THEN {} ELSE seen \cup ToSet(data)
    PROVE  Result(acc.st, Origin(s), (Isn + 1 + Origin(s)) % M, delivered \o Joined(acc.out), all)
<1>0. /\ s.from \in Nat /\ s.len \in Nat \ {0} /\ s = [from |-> s.from, len |-> s.len]
      /\ scenario.recut \/ \A g, h \in scenario.segments : g.from = h.from => g = h
  <2>1. /\ scenario.segments \subseteq [from : Nat, len : Nat \ {0}]
        /\ scenario.recut \/ \A g, h \in scenario.segments : g.from = h.from => g = h
    BY ScenarioAssumption DEF StreamInv
  <2>2. s \in [from : Nat, len : Nat \ {0}]
    BY <2>1
  <2> QED
    BY <2>1, <2>2
<1>1. PICK o, on : o = Origin(s) /\ on = On(s)
  OBVIOUS
<1>2. /\ o \in Nat /\ s.from - o \in Nat
      /\ StreamOK(on, o) /\ Sized(on) /\ Ahead(on)
      /\ on.started /\ ~on.overflow /\ on.isn = (Isn + 1 + o) % M
      /\ delivered = Run(o, on.next_rel)
      /\ Kept(on, o, Before)
      /\ Rel((Isn + 1 + s.from) % M, on.next_rel, on.isn) = s.from - o
  BY <1>1, SegmentPlaced
<1>3. PICK rel \in Nat : rel = s.from - o /\ o + rel = s.from
  BY <1>0, <1>2
<1>4. data = Run(o + rel, s.len) /\ data \in Seq(Nat) /\ Len(data) = s.len /\ data # <<>>
  <2>2. data \in Seq(Nat) /\ Len(data) = s.len
    <3>1. PICK b \in Nat, n \in Nat : b = s.from /\ n = s.len
      BY <1>0
    <3>2. Run(b, n) \in Seq(Nat) /\ Len(Run(b, n)) = n
      BY RunType
    <3> QED
      BY <3>1, <3>2
  <2>3. Len(data) # 0
    BY <1>0, <2>2
  <2> QED
    BY <1>3, <2>2, <2>3, EmptySeq
<1>5. \A n \in ToSet(data) : n \in o + rel .. o + rel + Len(data) - 1
  <2> SUFFICES ASSUME NEW k \in DOMAIN data PROVE data[k] \in o + rel .. o + rel + Len(data) - 1
    BY DEF ToSet
  <2>1. k \in 1 .. s.len /\ data[k] = s.from + k - 1
    BY DEF Run
  <2> QED
    BY <1>0, <1>3, <1>4, <2>1
<1>6. \A n \in all : n \in Before \/ n \in o + rel .. o + rel + Len(data) - 1
  BY <1>5 DEF Before
<1>7. Before \subseteq Nat /\ delivered \in Seq(Nat) /\ on.next_rel \in Nat
  <2>1. on.next_rel \in Nat
    BY <1>2 DEF StreamOK
  <2>2. delivered \in Seq(Nat)
    BY <1>2, <2>1, RunType
  <2> QED
    BY <2>1, <2>2 DEF Before, StreamInv
<1>8. PICK start : start = [st |-> on, out |-> <<>>]
  OBVIOUS
<1>9. acc = IF Stale(on, rel, data) THEN start
            ELSE IF rel <= on.next_rel THEN Drain(Deliver(start, rel, 0, data))
            ELSE [start EXCEPT !.st = Buffer(on, rel, 0, data)]
  BY <1>1, <1>2, <1>3, <1>4, <1>8 DEF StreamData, On
<1>10. delivered \o Joined(<<>>) = delivered
  <2>1. Joined(<<>>) = <<>>
    <3>1. <<>> \in Seq(Chunk)
      OBVIOUS
    <3> QED
      BY <3>1, JoinedAppend
  <2> QED
    BY <1>7, <2>1, ConcatEmptySeq
<1>11. start.st = on /\ start.out = <<>> /\ start = [st |-> start.st, out |-> start.out]
  BY <1>8
<1>12. CASE Stale(on, rel, data)
  <2>1. acc.st = on /\ acc.out = <<>>
    BY <1>9, <1>11, <1>12
  <2>2. Kept(on, o, all)
    <3> SUFFICES ASSUME NEW n \in all, ~(n < o + on.next_rel)
                 PROVE  \E r \in DOMAIN on.pending : n \in o + r .. o + r + Len(on.pending[r].data) - 1
      BY DEF Kept
    <3>1. rel + Len(data) <= on.next_rel /\ Len(data) \in Nat
      BY <1>0, <1>4, <1>12 DEF Stale
    <3>2. n \notin o + rel .. o + rel + Len(data) - 1
      <4>1. o \in Nat /\ on.next_rel \in Nat
        BY <1>2, <1>7
      <4>2. ASSUME n \in o + rel .. o + rel + Len(data) - 1 PROVE FALSE
        <5>1. n \in Int /\ n <= o + rel + Len(data) - 1
          BY <3>1, <4>1, <4>2
        <5>2. n < o + on.next_rel
          BY <3>1, <4>1, <5>1
        <5> QED
          BY <5>2
      <4> QED
        BY <4>2
    <3>3. n \in Before
      BY <1>6, <3>2
    <3> QED
      BY <1>2, <3>3 DEF Kept
  <2> QED
    BY <1>1, <1>2, <1>10, <2>1, <2>2 DEF Result
<1>13. CASE ~Stale(on, rel, data) /\ rel <= on.next_rel
  <2>1. AccOK(start, o, on.isn, delivered, Before)
    <3>1. start.out \in Seq(Chunk)
      BY <1>11
    <3> QED
      BY <1>2, <1>10, <1>11, <3>1 DEF AccOK
  <2>2. Deliverable(start, o, on.isn, delivered, Before, rel, data, all)
    <3>1. Len(data) \in Nat /\ on.next_rel < rel + Len(data)
      BY <1>0, <1>4, <1>7, <1>13 DEF Stale
    <3>2. data = Run(o + rel, Len(data))
      BY <1>4
    <3> QED
      BY <1>2, <1>4, <1>6, <1>7, <1>11, <1>13, <2>1, <3>1, <3>2 DEF Deliverable
  <2>3. PICK d : d = Deliver(start, rel, 0, data)
    OBVIOUS
  <2>4. AccOK(d, o, on.isn, delivered, all)
    BY <2>2, <2>3, DeliverOK
  <2>5. all \in SUBSET Nat
    <3> SUFFICES ASSUME NEW n \in all PROVE n \in Nat
      OBVIOUS
    <3>1. o + rel \in Nat /\ Len(data) \in Nat
      BY <1>0, <1>2, <1>4
    <3>2. n \in o + rel .. o + rel + Len(data) - 1 => n \in Nat
      BY <3>1
    <3> QED
      BY <1>6, <1>7, <3>2
  <2>6. acc = Drain(d)
    BY <1>9, <1>13, <2>3
  <2>7. AccOK(acc, o, on.isn, delivered, all) /\ Ahead(acc.st)
    BY <1>2, <1>7, <2>4, <2>5, <2>6, DrainOK
  <2> QED
    BY <1>1, <1>2, <2>7 DEF AccOK, Result
<1>14. CASE ~Stale(on, rel, data) /\ ~(rel <= on.next_rel)
  <2>1. PICK t : t = Buffer(on, rel, 0, data)
    OBVIOUS
  <2>2. acc.st = t /\ acc.out = <<>>
    <3>1. acc = [start EXCEPT !.st = t]
      BY <1>9, <1>14, <2>1
    <3> QED
      BY <1>11, <3>1
  <2>3. Bufferable(on, o, rel, data)
    <3>1. [from |-> o + rel, len |-> Len(data)] = s
      BY <1>0, <1>3, <1>4
    <3>2. [from |-> o + rel, len |-> Len(data)] \in scenario.segments
      BY <3>1
    <3>3. data = Run(o + rel, Len(data))
      BY <1>4
    <3>4. rel > on.next_rel
      BY <1>7, <1>14
    <3> QED
      BY <1>2, <1>4, <3>2, <3>3, <3>4 DEF Bufferable
  <2>4. BufferedOK(on, t, o, rel, data)
    BY <2>1, <2>3, BufferOK
  <2>5. ASSUME ~t.overflow PROVE Kept(t, o, all)
    <3>1. /\ \A r \in DOMAIN on.pending : r \in DOMAIN t.pending /\ t.pending[r] = on.pending[r]
          /\ rel \in DOMAIN t.pending
          /\ rel \in DOMAIN on.pending \/ t.pending[rel].data = data
      BY <2>4, <2>5 DEF BufferedOK
    <3>2. ~scenario.recut => Len(t.pending[rel].data) = Len(data)
      <4> SUFFICES ASSUME ~scenario.recut, rel \in DOMAIN on.pending
                   PROVE  Len(t.pending[rel].data) = Len(data)
        BY <3>1
      <4>1. PICK g \in scenario.segments : g = [from |-> o + rel, len |-> Len(on.pending[rel].data)]
        BY <1>2 DEF StreamOK
      <4>2. g.from = s.from /\ g.len = Len(on.pending[rel].data)
        BY <1>3, <4>1
      <4>3. g = s
        BY <1>0, <4>1, <4>2
      <4> QED
        BY <1>4, <3>1, <4>2, <4>3
    <3> SUFFICES ASSUME NEW n \in all, ~(n < o + t.next_rel)
                 PROVE  \E r \in DOMAIN t.pending : n \in o + r .. o + r + Len(t.pending[r].data) - 1
      BY DEF Kept
    <3>3. t.next_rel = on.next_rel /\ ~scenario.recut
      BY <2>4 DEF BufferedOK
    <3>4. CASE n \in Before
      <4>1. PICK r \in DOMAIN on.pending : n \in o + r .. o + r + Len(on.pending[r].data) - 1
        BY <1>2, <3>3, <3>4 DEF Kept
      <4> QED
        BY <3>1, <4>1
    <3>5. CASE n \in o + rel .. o + rel + Len(data) - 1
      BY <3>1, <3>2, <3>3, <3>5
    <3> QED
      BY <1>6, <3>4, <3>5
  <2> QED
    BY <1>1, <1>2, <1>10, <2>2, <2>4, <2>5 DEF Result, BufferedOK
<1> QED
  BY <1>12, <1>13, <1>14

\* A captured segment keeps the invariant.
LEMMA DataStep ==
    ASSUME StreamInv, NEW s \in scenario.segments, OnData(s)
    PROVE  StreamInv'
<1>1. PICK data, acc :
          /\ data = Run(s.from, s.len)
          /\ acc = StreamData(st, 0, (Isn + 1 + s.from) % M, data)
          /\ st' = acc.st /\ delivered' = delivered \o Joined(acc.out)
          /\ seen' = IF st.overflow THEN seen ELSE seen \cup ToSet(data)
  BY DEF OnData, Run
<1>2. /\ st.started \/ ~scenario.synCaptured
      /\ st.started => s.from >= origin /\ Distance(s.from - origin, st.next_rel) < M \div 2
      /\ origin' = Origin(s) /\ scenario' = scenario
  BY DEF OnData, Origin
<1>3. s.from \in Nat /\ s.len \in Nat \ {0}
  <2>1. scenario.segments \subseteq [from : Nat, len : Nat \ {0}]
    BY ScenarioAssumption DEF StreamInv
  <2> QED
    BY <2>1
<1>4. scenario' \in Scenarios /\ origin' \in Nat /\ (scenario'.synCaptured => origin' = 0)
  BY <1>2, <1>3 DEF StreamInv, Origin
<1>5. CASE st.overflow
  <2>1. st.started
    BY <1>5 DEF StreamInv, Untouched
  <2>2. acc = [st |-> st, out |-> <<>>]
    BY <1>1, <1>5 DEF StreamData
  <2>3. delivered \o Joined(<<>>) = delivered
    <3>1. <<>> \in Seq(Chunk)
      OBVIOUS
    <3>2. Joined(<<>>) = <<>>
      BY <3>1, JoinedAppend
    <3>3. delivered \in Seq(Nat)
      BY RunType DEF StreamInv, StreamOK
    <3> QED
      BY <3>2, <3>3, ConcatEmptySeq
  <2>4. st' = st /\ delivered' = delivered /\ seen' = seen /\ origin' = origin
    <3>1. acc.st = st /\ acc.out = <<>>
      BY <2>2
    <3>2. delivered' = delivered \o Joined(<<>>)
      BY <1>1, <3>1
    <3> QED
      BY <1>1, <1>2, <1>5, <2>1, <2>3, <3>1, <3>2 DEF Origin
  <2> QED
    BY <1>2, <2>4 DEF StreamInv, StreamOK, Sized, Sizes, Ahead, Kept, Untouched
<1>6. CASE ~st.overflow
  <2>1. PICK all : all = IF scenario.recut THEN {} ELSE seen \cup ToSet(data)
    OBVIOUS
  <2>2. Result(acc.st, Origin(s), (Isn + 1 + Origin(s)) % M, delivered \o Joined(acc.out), all)
    BY <1>1, <1>2, <1>6, <2>1, SegmentTaken
  <2>3. Result(st', origin', (Isn + 1 + origin') % M, delivered', all)
    BY <1>1, <1>2, <2>2
  <2>4. /\ StreamOK(st', origin') /\ Sized(st') /\ Ahead(st') /\ st'.started
        /\ st'.isn = (Isn + 1 + origin') % M /\ delivered' = Run(origin', st'.next_rel)
        /\ ~st'.overflow => Kept(st', origin', all)
    BY <2>3 DEF Result
  <2>5. StreamOK(st, origin)'
    BY <1>2, <2>4 DEF StreamOK
  <2>6. (~st.overflow /\ ~scenario.recut => Kept(st, origin, seen))'
    <3> SUFFICES ASSUME ~st'.overflow, ~scenario.recut PROVE Kept(st', origin', seen')
      BY <1>2
    <3>1. all = seen'
      BY <1>1, <1>6, <2>1
    <3> QED
      BY <2>4, <3>1
  <2>7. ToSet(data) \subseteq Nat /\ ToSet(data) # {}
    <3>1. \A k \in 1 .. s.len : data[k] \in Nat
      BY <1>1, <1>3 DEF Run
    <3>2. DOMAIN data = 1 .. s.len /\ 1 \in 1 .. s.len
      BY <1>1, <1>3 DEF Run
    <3>3. ToSet(data) = {data[k] : k \in 1 .. s.len}
      BY <3>2 DEF ToSet
    <3> QED
      BY <3>1, <3>2, <3>3
  <2>8. seen' \subseteq Nat /\ seen' # {}
    BY <1>1, <1>6, <2>7 DEF StreamInv
  <2>9. Sized(st)' /\ Ahead(st)'
    BY <2>4
  <2> QED
    BY <1>4, <2>4, <2>5, <2>6, <2>8, <2>9 DEF StreamInv
<1> QED
  BY <1>5, <1>6

\* The SYN, or a copy of it before data, keeps the invariant.
LEMMA SynStep ==
    ASSUME StreamInv, OnSyn
    PROVE  StreamInv'
<1>1. /\ seen = {} /\ scenario.synCaptured /\ st' = StreamSyn(st, Isn)
      /\ scenario' = scenario /\ delivered' = delivered /\ seen' = seen /\ origin' = origin
  BY DEF OnSyn
<1>2. /\ scenario \in Scenarios /\ origin = 0 /\ st.next_rel = 0 /\ ~st.overflow
      /\ delivered = Run(origin, st.next_rel)
  BY <1>1 DEF StreamInv, Untouched
<1>3. M \in Nat \ {0} /\ Isn \in Int /\ (Isn + 1) % M \in 0 .. M - 1
  <2>1. M \in Nat \ {0} /\ Isn \in Int /\ Isn + 1 \in Int
    BY SpaceAssumption, ScenarioAssumption
  <2> QED
    BY <2>1, DivMod
<1>4. /\ st'.started = TRUE /\ st'.isn = (Isn + 1) % M /\ st'.next_rel = 0 /\ st'.pending = <<>>
      /\ st'.pending_bytes = 0 /\ st'.overflow = st.overflow
      /\ st' = [started |-> st'.started, isn |-> st'.isn, next_rel |-> st'.next_rel, pending |-> st'.pending,
                pending_bytes |-> st'.pending_bytes, overflow |-> st'.overflow]
  BY <1>1 DEF StreamSyn, NewStream
<1>5. DOMAIN st'.pending = {} /\ st'.pending = [r \in {} |-> st'.pending[r]]
  BY <1>4
<1>6. st.overflow \in BOOLEAN
  BY DEF StreamInv, StreamOK
<1>7. StreamOK(st, origin)'
  <2>1. {st'.started, st'.overflow} \subseteq BOOLEAN /\ st'.isn \in 0 .. M - 1 /\ st'.next_rel \in Nat
    <3>1. st'.started \in BOOLEAN /\ st'.overflow \in BOOLEAN
      BY <1>4, <1>6, Zenon
    <3>2. st'.isn \in 0 .. M - 1 /\ st'.next_rel \in Nat
      BY <1>3, <1>4
    <3> QED
      BY <3>1, <3>2
  <2>2. IsFiniteSet(DOMAIN st'.pending) /\ st'.pending = [r \in DOMAIN st'.pending |-> st'.pending[r]]
    BY <1>5, FS_EmptySet
  <2> QED
    BY <1>4, <1>5, <2>1, <2>2 DEF StreamOK
<1>8. Sized(st)' /\ Ahead(st)'
  BY <1>4, <1>5, TotalEmpty, SpaceAssumption DEF Sized, Ahead
<1>9. Isn + 1 + origin = Isn + 1
  BY <1>2, <1>3
<1>10. Kept(st, origin, seen)' /\ Untouched(st)'
  BY <1>1, <1>2, <1>4, <1>5 DEF Kept, Untouched
<1> QED
  BY <1>1, <1>2, <1>4, <1>7, <1>8, <1>9, <1>10 DEF StreamInv

\* Nothing is captured at first.
LEMMA StreamInit == Init => StreamInv
<1> SUFFICES ASSUME Init PROVE StreamInv
  OBVIOUS
<1>1. /\ st.started = FALSE /\ st.isn = 0 /\ st.next_rel = 0 /\ st.pending = <<>> /\ st.pending_bytes = 0
      /\ st.overflow = FALSE
      /\ st = [started |-> st.started, isn |-> st.isn, next_rel |-> st.next_rel, pending |-> st.pending,
               pending_bytes |-> st.pending_bytes, overflow |-> st.overflow]
  BY DEF Init, NewStream
<1>2. DOMAIN st.pending = {} /\ st.pending = [r \in {} |-> st.pending[r]]
  BY <1>1
<1>3. StreamOK(st, origin)
  <2>1. {st.started, st.overflow} \subseteq BOOLEAN /\ st.isn \in 0 .. M - 1 /\ st.next_rel \in Nat
    <3>1. st.started \in BOOLEAN /\ st.overflow \in BOOLEAN
      BY <1>1, Zenon
    <3>2. st.isn \in 0 .. M - 1 /\ st.next_rel \in Nat
      BY <1>1, SpaceAssumption
    <3> QED
      BY <3>1, <3>2
  <2>2. IsFiniteSet(DOMAIN st.pending) /\ st.pending = [r \in DOMAIN st.pending |-> st.pending[r]]
    BY <1>2, FS_EmptySet
  <2> QED
    BY <1>1, <1>2, <2>1, <2>2 DEF StreamOK
<1>4. Sized(st) /\ Ahead(st)
  BY <1>1, <1>2, TotalEmpty, SpaceAssumption DEF Sized, Ahead
<1>5. delivered = Run(origin, st.next_rel)
  <2>1. delivered = <<>> /\ origin = 0
    BY DEF Init
  <2>2. Run(0, 0) = <<>>
    BY DEF Run
  <2> QED
    BY <1>1, <2>1, <2>2
<1> QED
  BY <1>1, <1>2, <1>3, <1>4, <1>5 DEF Init, StreamInv, Kept, Untouched

\* The reassembler's invariant, for every sequence space, cap and set of
\* segments: the buffered segments hold the sender's bytes from their offset on,
\* what was delivered is the sender's bytes up to next_rel, the size of the
\* buffer is right, and no captured byte is dropped.
THEOREM StreamInvariant == Spec => []StreamInv
<1>1. StreamInv /\ [Next]_vars => StreamInv'
  <2> SUFFICES ASSUME StreamInv, [Next]_vars PROVE StreamInv'
    OBVIOUS
  <2>1. CASE OnSyn
    BY <2>1, SynStep
  <2>2. ASSUME NEW s \in scenario.segments, OnData(s) PROVE StreamInv'
    BY <2>2, DataStep
  <2>3. CASE UNCHANGED vars
    BY <2>3 DEF vars, StreamInv, StreamOK, Sized, Sizes, Ahead, Kept, Untouched
  <2> QED
    BY <2>1, <2>2, <2>3 DEF Next
<1> QED
  BY <1>1, StreamInit, PTL DEF Spec

\* The decoder gets the sender's bytes: every byte once, in order and without a
\* hole, whatever the capture holds twice, late, cut differently or not at all.
THEOREM InOrder == Spec => []DeliveredInOrder
<1>1. StreamInv => DeliveredInOrder
  BY DEF StreamInv, DeliveredInOrder, Run
<1> QED
  BY <1>1, StreamInvariant, PTL

\* pending_bytes is the size of the buffer and within the cap, and no buffered
\* segment is left behind once it was reached.
THEOREM BufferIsExact == Spec => []BufferExact
<1>1. StreamInv => BufferExact
  <2> SUFFICES ASSUME StreamInv PROVE BufferExact
    OBVIOUS
  <2>1. st.pending_bytes = Total(Sizes(st), DOMAIN st.pending) /\ st.pending_bytes <= MaxPending
    BY SpaceAssumption DEF StreamInv, Sized
  <2>2. ASSUME NEW r \in DOMAIN st.pending
        PROVE  r > st.next_rel /\ Head(st.pending[r].data) = origin + r
    <3>1. PICK d : d = st.pending[r].data
      OBVIOUS
    <3>2. r > st.next_rel /\ r \in Nat /\ origin \in Nat
      BY DEF StreamInv, Ahead, StreamOK
    <3>3. d \in Seq(Nat) /\ d # <<>> /\ d = Run(origin + r, Len(d))
      BY <3>1 DEF StreamInv, StreamOK, Chunk
    <3>4. Len(d) \in Nat \ {0}
      BY <3>3, EmptySeq
    <3>5. Head(d) = d[1] /\ 1 \in 1 .. Len(d)
      BY <3>3, <3>4
    <3>6. d[1] = (origin + r) + 1 - 1
      BY <3>3, <3>5 DEF Run
    <3> QED
      BY <3>1, <3>2, <3>5, <3>6
  <2> QED
    BY <2>1, <2>2 DEF BufferExact, Sizes
<1> QED
  BY <1>1, StreamInvariant, PTL

\* Where retransmissions repeat the original segments, a byte is delivered as
\* soon as it and all bytes before it were captured: a filled gap never leaves
\* the stream waiting.
THEOREM GapFilled == Spec => []GapFilledDelivers
<1>1. StreamInv => GapFilledDelivers
  <2> SUFFICES ASSUME StreamInv, ~st.overflow, ~scenario.recut, NEW n \in seen,
                      FilledUpTo(n), ~(n < origin + st.next_rel)
               PROVE  FALSE
    BY DEF GapFilledDelivers
  <2>1. origin \in Nat /\ st.next_rel \in Nat /\ n \in Nat
    BY DEF StreamInv, StreamOK
  <2>2. origin + st.next_rel \in seen
    BY <2>1 DEF FilledUpTo
  <2>3. PICK r \in DOMAIN st.pending :
            origin + st.next_rel \in origin + r .. origin + r + Len(st.pending[r].data) - 1
    <3>1. ~(origin + st.next_rel < origin + st.next_rel)
      BY <2>1
    <3>2. Kept(st, origin, seen)
      BY DEF StreamInv
    <3> QED
      BY <2>2, <3>1, <3>2 DEF Kept
  <2>4. r > st.next_rel /\ r \in Nat
    BY DEF StreamInv, Ahead, StreamOK
  <2> QED
    BY <2>1, <2>3, <2>4
<1> QED
  BY <1>1, StreamInvariant, PTL
=============================================================================
