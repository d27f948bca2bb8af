-------------------------- MODULE PcapEngineProofs --------------------------
(***************************************************************************)
(* Proofs about the capture of a pcap file, for any traffic and any        *)
(* faults: every connection is counted once when it is opened and once     *)
(* when it is closed, and what is handed to the sink goes out under one    *)
(* session id for each connection.                                         *)
(*                                                                         *)
(* The proof goes up the layers of the model: the loops, the assembler     *)
(* and the decoder, the events of one connection, the engine's counters    *)
(* and sessions, one packet, the end of the file, and the steps.           *)
(***************************************************************************)
EXTENDS PcapEngine, ReassemblyProofs, Sums

-----------------------------------------------------------------------------
(* The folds the decoder and the engine are written with.                  *)

\* One round of each of the loops: over the packets in the buffer, the messages
\* of a chunk, the requests in flight, the chunks of a segment and the
\* connections at the end.  dir is the direction, where the loop has one.
Round(loop, dir, acc, x) ==
    CASE loop = "take" ->
            IF ~acc.asm.broken /\ HasPacket(acc.asm) THEN TakePacket(acc) ELSE acc
      [] loop = "packet" ->
            IF ~Decoding(acc.dec) THEN acc
            ELSE IF dir = "client" THEN [acc EXCEPT !.dec = OnClientPacket(acc.dec, x)]
            ELSE OnServerPacket(acc, x)
      [] loop = "flush" ->
            IF x.request.kind # "event" THEN acc
            ELSE [dec |-> [acc.dec EXCEPT !.stats.missing = @ + 1], out |-> Append(acc.out, x.request.event)]
      [] loop = "chunk" -> DecodeChunk(acc, dir, x.ts, x.data)
      [] loop = "close" ->
            LET c == Finalize([conn |-> acc.eng.conns[x], eng |-> acc.eng, out |-> acc.out], <<>>)
            IN  [eng |-> [c.eng EXCEPT !.conns = Without(@, x)], out |-> c.out]

\* g is the table a fold from base over the first len elements of q builds.
FoldTable(g, loop, dir, base, q, len) ==
    g = [s \in SUBSET (1 .. len) |->
            IF s = {} THEN base ELSE Round(loop, dir, g[s \ {Max(s)}], q[Max(s)])]

\* Max of a set of positions that ends at n is n.
LEMMA MaxOfPrefix ==
    ASSUME NEW n \in Nat, NEW s \in SUBSET (1 .. n), n \in s
    PROVE  Max(s) = n
<1>1. \A y \in s : n >= y
  OBVIOUS
<1>2. \A x \in s : (\A y \in s : x >= y) => x = n
  OBVIOUS
<1> QED
  BY <1>1, <1>2 DEF Max

\* The table exists, whatever the loop does.
LEMMA FoldTableExists ==
    ASSUME NEW loop, NEW dir, NEW base, NEW q, NEW len \in Nat
    PROVE  \E g : FoldTable(g, loop, dir, base, q, len)
<1> DEFINE N == {n \in Nat : \E g : FoldTable(g, loop, dir, base, q, n)}
<1>1. 0 \in N
  <2>1. SUBSET (1 .. 0) = {{}}
    OBVIOUS
  <2>2. FoldTable([s \in SUBSET (1 .. 0) |-> base], loop, dir, base, q, 0)
    BY <2>1 DEF FoldTable
  <2> QED
    BY <2>2
<1>2. ASSUME NEW n \in Nat, n \in N PROVE n + 1 \in N
  <2>1. PICK g : FoldTable(g, loop, dir, base, q, n)
    BY <1>2
  <2> DEFINE h == [s \in SUBSET (1 .. n + 1) |->
                      IF n + 1 \in s THEN Round(loop, dir, g[s \ {n + 1}], q[n + 1]) ELSE g[s]]
  <2>2. \A s \in SUBSET (1 .. n) :
            /\ s \in SUBSET (1 .. n + 1) /\ h[s] = g[s]
            /\ g[s] = IF s = {} THEN base ELSE Round(loop, dir, g[s \ {Max(s)}], q[Max(s)])
    <3>1. \A s \in SUBSET (1 .. n) : s \in SUBSET (1 .. n + 1) /\ n + 1 \notin s
      OBVIOUS
    <3>2. \A s \in SUBSET (1 .. n) :
              g[s] = IF s = {} THEN base ELSE Round(loop, dir, g[s \ {Max(s)}], q[Max(s)])
      BY <2>1 DEF FoldTable
    <3> QED
      BY <3>1, <3>2
  <2>3. \A s \in SUBSET (1 .. n + 1) :
            h[s] = IF s = {} THEN base ELSE Round(loop, dir, h[s \ {Max(s)}], q[Max(s)])
    <3> SUFFICES ASSUME NEW s \in SUBSET (1 .. n + 1)
                 PROVE  h[s] = IF s = {} THEN base ELSE Round(loop, dir, h[s \ {Max(s)}], q[Max(s)])
      OBVIOUS
    <3>1. CASE n + 1 \in s
      <4>1. Max(s) = n + 1 /\ s # {}
        BY <3>1, MaxOfPrefix
      <4>2. h[s] = Round(loop, dir, g[s \ {n + 1}], q[n + 1])
        BY <3>1
      <4>3. s \ {n + 1} \in SUBSET (1 .. n)
        OBVIOUS
      <4>4. h[s \ {n + 1}] = g[s \ {n + 1}]
        BY <2>2, <4>3
      <4> HIDE DEF h
      <4> QED
        BY <4>1, <4>2, <4>4
    <3>2. CASE n + 1 \notin s
      <4>1. \A i \in s : i \in 1 .. n
        BY <3>2
      <4>2. s \in SUBSET (1 .. n) /\ s \ {Max(s)} \in SUBSET (1 .. n)
        BY <4>1
      <4> HIDE DEF h
      <4> QED
        BY <2>2, <4>2
    <3> QED
      BY <3>1, <3>2
  <2>4. h = [s \in SUBSET (1 .. n + 1) |-> h[s]]
    OBVIOUS
  <2> HIDE DEF h
  <2>5. FoldTable(h, loop, dir, base, q, n + 1)
    BY <2>3, <2>4 DEF FoldTable
  <2> QED
    BY <2>5
<1> HIDE DEF N
<1>3. len \in N
  BY <1>1, <1>2, NatSetInduction
<1> QED
  BY <1>3 DEF N

\* Its entries for the first positions are the rounds of the loop, one by one.
Rounds(u, loop, dir, base, q, len) ==
    /\ u[0] = base
    /\ \A n \in 1 .. len : u[n] = Round(loop, dir, u[n - 1], q[n])

\* The table's entry for all positions is what the last round leaves.
LEMMA TableIsRounds ==
    ASSUME NEW loop, NEW dir, NEW base, NEW q, NEW len \in Nat, NEW g,
           FoldTable(g, loop, dir, base, q, len)
    PROVE  \E u : Rounds(u, loop, dir, base, q, len) /\ u[len] = g[1 .. len]
<1> DEFINE u == [n \in 0 .. len |-> g[1 .. n]]
<1>1. \A s \in SUBSET (1 .. len) :
          g[s] = IF s = {} THEN base ELSE Round(loop, dir, g[s \ {Max(s)}], q[Max(s)])
  BY DEF FoldTable
<1>2. u[0] = base
  <2>1. 1 .. 0 = {}
    OBVIOUS
  <2> QED
    BY <1>1, <2>1
<1>3. ASSUME NEW n \in 1 .. len PROVE u[n] = Round(loop, dir, u[n - 1], q[n])
  <2>1. n \in Nat /\ 1 .. n \in SUBSET (1 .. n) /\ n \in 1 .. n /\ 1 .. n # {}
    OBVIOUS
  <2>2. Max(1 .. n) = n
    BY <2>1, MaxOfPrefix
  <2>3. (1 .. n) \ {n} = 1 .. (n - 1)
    OBVIOUS
  <2>4. 1 .. n \in SUBSET (1 .. len)
    OBVIOUS
  <2>5. g[1 .. n] = Round(loop, dir, g[1 .. (n - 1)], q[n])
    BY <1>1, <2>1, <2>2, <2>3, <2>4
  <2>6. u[n] = g[1 .. n] /\ u[n - 1] = g[1 .. (n - 1)]
    BY <2>1
  <2> QED
    BY <2>5, <2>6
<1>4. u[len] = g[1 .. len]
  OBVIOUS
<1> HIDE DEF u
<1> QED
  BY <1>2, <1>3, <1>4 DEF Rounds

\* The loops of the code, as their rounds.
LEMMA PacketRounds ==
    ASSUME NEW acc, NEW dir, NEW q, NEW len \in Nat, DOMAIN q = 1 .. len
    PROVE  \E u : Rounds(u, "packet", dir, acc, q, len) /\ OnPackets(acc, dir, q) = u[len]
<1> DEFINE handle(r, pkt) ==
             IF ~Decoding(r.dec) THEN r
             ELSE IF dir = "client" THEN [r EXCEPT !.dec = OnClientPacket(r.dec, pkt)]
             ELSE OnServerPacket(r, pkt)
           g == CHOOSE iter : iter = [s \in SUBSET (1 .. len) |->
                    IF s = {} THEN acc ELSE handle(iter[s \ {Max(s)}], q[Max(s)])]
<1>1. OnPackets(acc, dir, q) = g[1 .. len]
  BY DEF OnPackets, FoldLeft, MapThenFoldSet
<1>2. \A h : h = [s \in SUBSET (1 .. len) |->
                    IF s = {} THEN acc ELSE handle(h[s \ {Max(s)}], q[Max(s)])]
             <=> FoldTable(h, "packet", dir, acc, q, len)
  BY DEF FoldTable, Round
<1>3. g = CHOOSE h : FoldTable(h, "packet", dir, acc, q, len)
  BY <1>2
<1> HIDE DEF g
<1>4. FoldTable(g, "packet", dir, acc, q, len)
  BY <1>3, FoldTableExists
<1>5. PICK u : Rounds(u, "packet", dir, acc, q, len) /\ u[len] = g[1 .. len]
  BY <1>4, TableIsRounds
<1> QED
  BY <1>1, <1>5

\* Feed takes one packet after the other off the buffer.
LEMMA TakeRounds ==
    ASSUME NEW a, NEW len \in Nat, len = Len(a.buf)
    PROVE  \E u, q : Rounds(u, "take", "any", [asm |-> a, out |-> <<>>], q, len) /\ TakePackets(a) = u[len]
<1> DEFINE take(r, k) ==
             IF ~r.asm.broken /\ HasPacket(r.asm) THEN TakePacket(r) ELSE r
           base == [asm |-> a, out |-> <<>>]
           idx == [k \in 1 .. Len(a.buf) |-> k]
           g == CHOOSE iter : iter = [s \in SUBSET DOMAIN idx |->
                    IF s = {} THEN base ELSE take(iter[s \ {Max(s)}], idx[Max(s)])]
<1>1. TakePackets(a) = g[DOMAIN idx]
  BY DEF TakePackets, FoldLeft, MapThenFoldSet
<1>2. DOMAIN idx = 1 .. len
  OBVIOUS
<1> HIDE DEF idx
<1>3. \A h : h = [s \in SUBSET DOMAIN idx |->
                    IF s = {} THEN base ELSE take(h[s \ {Max(s)}], idx[Max(s)])]
             <=> FoldTable(h, "take", "any", base, idx, len)
  BY <1>2 DEF FoldTable, Round
<1>4. g = CHOOSE h : FoldTable(h, "take", "any", base, idx, len)
  BY <1>3
<1> HIDE DEF g, base
<1>5. FoldTable(g, "take", "any", base, idx, len)
  BY <1>4, FoldTableExists
<1>6. PICK u : Rounds(u, "take", "any", base, idx, len) /\ u[len] = g[1 .. len]
  BY <1>5, TableIsRounds
<1> QED
  BY <1>1, <1>2, <1>6, Zenon DEF base

\* FinishDecoder flushes one request after the other.
LEMMA FlushRounds ==
    ASSUME NEW acc, ~acc.dec.finished, NEW base, NEW len \in Nat, DOMAIN acc.dec.pending = 1 .. len,
           base = [acc EXCEPT !.dec = [@ EXCEPT !.finished = TRUE, !.pending = <<>>]]
    PROVE  \E u : Rounds(u, "flush", "any", base, acc.dec.pending, len) /\ FinishDecoder(acc) = u[len]
<1> DEFINE flush(r, p) ==
             IF p.request.kind # "event" THEN r
             ELSE [dec |-> [r.dec EXCEPT !.stats.missing = @ + 1], out |-> Append(r.out, p.request.event)]
           g == CHOOSE iter : iter = [s \in SUBSET (1 .. len) |->
                    IF s = {} THEN base ELSE flush(iter[s \ {Max(s)}], acc.dec.pending[Max(s)])]
<1>1. FinishDecoder(acc) = g[1 .. len]
  BY DEF FinishDecoder, FoldLeft, MapThenFoldSet
<1>2. \A h : h = [s \in SUBSET (1 .. len) |->
                    IF s = {} THEN base ELSE flush(h[s \ {Max(s)}], acc.dec.pending[Max(s)])]
             <=> FoldTable(h, "flush", "any", base, acc.dec.pending, len)
  BY DEF FoldTable, Round
<1>3. g = CHOOSE h : FoldTable(h, "flush", "any", base, acc.dec.pending, len)
  BY <1>2
<1> HIDE DEF g
<1>4. FoldTable(g, "flush", "any", base, acc.dec.pending, len)
  BY <1>3, FoldTableExists
<1>5. PICK u : Rounds(u, "flush", "any", base, acc.dec.pending, len) /\ u[len] = g[1 .. len]
  BY <1>4, TableIsRounds
<1> QED
  BY <1>1, <1>5

\* DecodeAll decodes one chunk after the other.
LEMMA ChunkRounds ==
    ASSUME NEW conn, NEW f, NEW fed, NEW len \in Nat, DOMAIN fed.out = 1 .. len
    PROVE  \E u : Rounds(u, "chunk", f.dir, [dec |-> conn.dec, out |-> <<>>], fed.out, len) /\ DecodeAll(conn, f, fed) = [st |-> fed.st, read |-> u[len]]
<1> DEFINE read(r, chunk) ==
             DecodeChunk(r, f.dir, chunk.ts, chunk.data)
           g == CHOOSE iter : iter = [s \in SUBSET (1 .. len) |->
                    IF s = {} THEN [dec |-> conn.dec, out |-> <<>>] ELSE read(iter[s \ {Max(s)}], fed.out[Max(s)])]
<1>1. DecodeAll(conn, f, fed) = [st |-> fed.st, read |-> g[1 .. len]]
  BY DEF DecodeAll, FoldLeft, MapThenFoldSet
<1>2. \A h : h = [s \in SUBSET (1 .. len) |->
                    IF s = {} THEN [dec |-> conn.dec, out |-> <<>>] ELSE read(h[s \ {Max(s)}], fed.out[Max(s)])]
             <=> FoldTable(h, "chunk", f.dir, [dec |-> conn.dec, out |-> <<>>], fed.out, len)
  BY DEF FoldTable, Round
<1>3. g = CHOOSE h : FoldTable(h, "chunk", f.dir, [dec |-> conn.dec, out |-> <<>>], fed.out, len)
  BY <1>2
<1> HIDE DEF g
<1>4. FoldTable(g, "chunk", f.dir, [dec |-> conn.dec, out |-> <<>>], fed.out, len)
  BY <1>3, FoldTableExists
<1>5. PICK u : Rounds(u, "chunk", f.dir, [dec |-> conn.dec, out |-> <<>>], fed.out, len) /\ u[len] = g[1 .. len]
  BY <1>4, TableIsRounds
<1> QED
  BY <1>1, <1>5

\* FinishEngine closes one connection after the other.
LEMMA CloseRounds ==
    ASSUME NEW acc, NEW order, NEW len \in Nat, DOMAIN order = 1 .. len
    PROVE  \E u : Rounds(u, "close", "any", acc, order, len) /\ FinishEngine(acc, order) = u[len]
<1> DEFINE close(r, k) ==
             LET c == Finalize([conn |-> r.eng.conns[k], eng |-> r.eng, out |-> r.out], <<>>)
             IN  [eng |-> [c.eng EXCEPT !.conns = Without(@, k)], out |-> c.out]
           g == CHOOSE iter : iter = [s \in SUBSET (1 .. len) |->
                    IF s = {} THEN acc ELSE close(iter[s \ {Max(s)}], order[Max(s)])]
<1>1. FinishEngine(acc, order) = g[1 .. len]
  BY DEF FinishEngine, FoldLeft, MapThenFoldSet
<1>2. \A h : h = [s \in SUBSET (1 .. len) |->
                    IF s = {} THEN acc ELSE close(h[s \ {Max(s)}], order[Max(s)])]
             <=> FoldTable(h, "close", "any", acc, order, len)
  BY DEF FoldTable, Round
<1>3. g = CHOOSE h : FoldTable(h, "close", "any", acc, order, len)
  BY <1>2
<1> HIDE DEF g
<1>4. FoldTable(g, "close", "any", acc, order, len)
  BY <1>3, FoldTableExists
<1>5. PICK u : Rounds(u, "close", "any", acc, order, len) /\ u[len] = g[1 .. len]
  BY <1>4, TableIsRounds
<1> QED
  BY <1>1, <1>5

-----------------------------------------------------------------------------
(* What a sequence of cells may hold.  W is a set of connections.          *)

\* A packet's header says how long the packet is.
CellSizes(C) == \A c \in C : "len" \in DOMAIN c => c.len \in Nat

\* The cells of the clients and servers of the connections in W.
Sources(W, C, S) ==
    /\ CellSizes(C) /\ CellSizes(S)
    /\ \A c \in C : "cmd" \in DOMAIN c /\ c.cmd \in {"query", "init_db", "execute"} => c.req[1] \in W
    /\ \A c \in S : "reply" \in DOMAIN c /\ c.reply = "greeting" => c.thread \in 0 .. SynthBase - 1

\* The messages taken off an assembler's buffer, the assembler, and both.
MessagesOf(out, C) == IsSeq(out) /\ \A i \in DOMAIN out : out[i].payload \in Seq(C)

AssemblerOf(a, C) ==
    /\ DOMAIN a = {"buf", "marks", "consumed", "partial", "broken"}
    /\ a.buf \in Seq(C)
    /\ a.partial # <<>> => /\ {"payload", "last_seq"} \subseteq DOMAIN a.partial[1]
                           /\ a.partial[1].payload \in Seq(C)

TakenOf(acc, C) ==
    DOMAIN acc = {"asm", "out"} /\ AssemblerOf(acc.asm, C) /\ MessagesOf(acc.out, C)

\* One message more, of the same cells.
LEMMA MessagesAppend ==
    ASSUME NEW out, NEW C, MessagesOf(out, C), NEW m, m.payload \in Seq(C)
    PROVE  MessagesOf(Append(out, m), C)
<1>1. IsSeq(out) /\ Len(out) \in Nat /\ DOMAIN out = 1 .. Len(out)
  BY SeqHas DEF MessagesOf
<1>2. /\ IsSeq(Append(out, m)) /\ DOMAIN Append(out, m) = 1 .. Len(out) + 1
      /\ Append(out, m)[Len(out) + 1] = m
      /\ \A i \in 1 .. Len(out) : Append(out, m)[i] = out[i]
  BY <1>1, SeqAppend
<1>3. ASSUME NEW i \in DOMAIN Append(out, m) PROVE Append(out, m)[i].payload \in Seq(C)
  <2>1. CASE i = Len(out) + 1
    BY <1>2, <2>1
  <2>2. CASE i # Len(out) + 1
    <3>1. i \in 1 .. Len(out)
      BY <1>1, <1>2, <2>2
    <3> QED
      BY <1>1, <1>2, <3>1 DEF MessagesOf
  <2> QED
    BY <2>1, <2>2
<1> QED
  BY <1>2, <1>3 DEF MessagesOf

\* The packet that feed takes off the buffer is made of the buffer's cells, and so
\* is what stays.
LEMMA TakeOne ==
    ASSUME NEW C, CellSizes(C), NEW acc, TakenOf(acc, C), HasPacket(acc.asm)
    PROVE  TakenOf(TakePacket(acc), C)
<1> DEFINE a       == acc.asm
           head    == Head(a.buf)
           payload == SubSeq(a.buf, 2, 1 + head.len)
           msg     == IF a.partial = <<>>
                      THEN [first_seq |-> head.seq, last_seq |-> head.seq,
                            ts |-> TsFor(a, a.consumed), payload |-> payload]
                      ELSE [a.partial[1] EXCEPT !.last_seq = head.seq, !.payload = @ \o payload]
           rest    == [a EXCEPT !.buf = SubSeq(a.buf, 2 + head.len, Len(a.buf)),
                                !.consumed = @ + 1 + head.len]
<1>1. /\ DOMAIN a = {"buf", "marks", "consumed", "partial", "broken"} /\ a.buf \in Seq(C)
      /\ a.buf # <<>> /\ "len" \in DOMAIN head /\ Len(a.buf) >= 1 + head.len
  BY DEF TakenOf, AssemblerOf, HasPacket
<1>2. head \in C
  BY <1>1
<1>3. head.len \in Nat
  BY <1>1, <1>2 DEF CellSizes
<1>4. payload \in Seq(C)
  <2>1. 2 \in 1 .. Len(a.buf) + 1 /\ 1 + head.len \in 1 .. Len(a.buf)
    BY <1>1, <1>3
  <2> HIDE DEF a, head
  <2> QED
    BY <1>1, <1>3, <2>1, SubSeqProperties
<1>5. SubSeq(a.buf, 2 + head.len, Len(a.buf)) \in Seq(C)
  <2>1. 2 + head.len \in 1 .. Len(a.buf) + 1
    BY <1>1, <1>3
  <2> HIDE DEF a, head
  <2> QED
    BY <1>1, <1>3, <2>1, SubSeqProperties
<1>6. msg.payload \in Seq(C) /\ {"payload", "last_seq"} \subseteq DOMAIN msg
  <2>1. CASE a.partial = <<>>
    <3> HIDE DEF payload, head, a
    <3> QED
      BY <2>1, <1>4
  <2>2. CASE a.partial # <<>>
    <3>1. /\ {"payload", "last_seq"} \subseteq DOMAIN a.partial[1]
          /\ a.partial[1].payload \in Seq(C)
      BY <2>2 DEF TakenOf, AssemblerOf
    <3> HIDE DEF payload, head, a
    <3>2. msg = [a.partial[1] EXCEPT !.last_seq = head.seq, !.payload = @ \o payload]
      BY <2>2
    <3>3. a.partial[1].payload \o payload \in Seq(C)
      BY <1>4, <3>1, ConcatProperties
    <3> QED
      BY <3>1, <3>2, <3>3
  <2> QED
    BY <2>1, <2>2
<1>7. /\ DOMAIN rest = {"buf", "marks", "consumed", "partial", "broken"} /\ rest.buf \in Seq(C)
  <2> HIDE DEF a, head
  <2> QED
    BY <1>1, <1>5
<1>8. TakePacket(acc) =
        IF a.partial # <<>> /\ Len(msg.payload) > MaxLogical
        THEN [acc EXCEPT !.asm.broken = TRUE]
        ELSE IF head.len = FullLen
        THEN [acc EXCEPT !.asm = [rest EXCEPT !.partial = <<msg>>]]
        ELSE [asm |-> [rest EXCEPT !.partial = <<>>], out |-> Append(acc.out, msg)]
  BY DEF TakePacket
<1> HIDE DEF a, head, payload, msg, rest
<1>9. DOMAIN acc = {"asm", "out"} /\ MessagesOf(acc.out, C) /\ acc.asm = a /\ AssemblerOf(a, C)
  BY DEF TakenOf, a
<1>10. CASE a.partial # <<>> /\ Len(msg.payload) > MaxLogical
  <2>1. TakePacket(acc) = [acc EXCEPT !.asm.broken = TRUE]
    BY <1>8, <1>10
  <2> QED
    BY ONLY <1>1, <1>9, <2>1 DEF TakenOf, AssemblerOf
<1>11. CASE ~(a.partial # <<>> /\ Len(msg.payload) > MaxLogical) /\ head.len = FullLen
  <2>1. TakePacket(acc) = [acc EXCEPT !.asm = [rest EXCEPT !.partial = <<msg>>]]
    BY <1>8, <1>11
  <2>2. AssemblerOf([rest EXCEPT !.partial = <<msg>>], C)
    BY ONLY <1>6, <1>7 DEF AssemblerOf
  <2> QED
    BY ONLY <1>9, <2>1, <2>2 DEF TakenOf
<1>12. CASE ~(a.partial # <<>> /\ Len(msg.payload) > MaxLogical) /\ head.len # FullLen
  <2>1. TakePacket(acc) = [asm |-> [rest EXCEPT !.partial = <<>>], out |-> Append(acc.out, msg)]
    BY <1>8, <1>12
  <2>2. AssemblerOf([rest EXCEPT !.partial = <<>>], C)
    BY ONLY <1>7 DEF AssemblerOf
  <2>3. MessagesOf(Append(acc.out, msg), C)
    BY <1>6, <1>9, MessagesAppend
  <2> QED
    BY ONLY <2>1, <2>2, <2>3 DEF TakenOf
<1> QED
  BY <1>10, <1>11, <1>12

\* Feed completes messages of the cells it is given.
LEMMA FeedOf ==
    ASSUME NEW C, CellSizes(C), NEW a, AssemblerOf(a, C), NEW ts, NEW data \in Seq(C)
    PROVE  TakenOf(Feed(a, ts, data), C)
<1>1. CASE a.broken \/ data = <<>>
  <2>1. Feed(a, ts, data) = [asm |-> a, out |-> <<>>]
    BY <1>1 DEF Feed
  <2> QED
    BY <2>1, SeqEmpty DEF TakenOf, MessagesOf
<1>2. CASE ~(a.broken \/ data = <<>>)
  <2> DEFINE b == Received(a, ts, data)
  <2>1. AssemblerOf(b, C)
    <3>1. a.buf \o data \in Seq(C)
      BY ConcatProperties DEF AssemblerOf
    <3> QED
      BY <3>1 DEF Received, AssemblerOf
  <2>2. Feed(a, ts, data) = Bounded(TakePackets(b))
    BY <1>2 DEF Feed
  <2> HIDE DEF b
  <2> DEFINE len == Len(b.buf)
  <2>3. len \in Nat
    BY <2>1 DEF AssemblerOf
  <2>4. PICK u, q : Rounds(u, "take", "any", [asm |-> b, out |-> <<>>], q, len) /\ TakePackets(b) = u[len]
    BY <2>3, TakeRounds
  <2> HIDE DEF len
  <2>5. TakenOf([asm |-> b, out |-> <<>>], C)
    BY <2>1, SeqEmpty DEF TakenOf, MessagesOf
  <2>6. \A n \in 1 .. len : TakenOf(u[n - 1], C) => TakenOf(u[n], C)
    <3> SUFFICES ASSUME NEW n \in 1 .. len, TakenOf(u[n - 1], C) PROVE TakenOf(u[n], C)
      OBVIOUS
    <3>1. u[n] = IF ~u[n - 1].asm.broken /\ HasPacket(u[n - 1].asm) THEN TakePacket(u[n - 1]) ELSE u[n - 1]
      BY <2>4 DEF Rounds, Round
    <3>2. CASE ~u[n - 1].asm.broken /\ HasPacket(u[n - 1].asm)
      BY <3>1, <3>2, TakeOne
    <3>3. CASE ~(~u[n - 1].asm.broken /\ HasPacket(u[n - 1].asm))
      BY <3>1, <3>3
    <3> QED
      BY <3>2, <3>3
  <2>7. TakenOf(u[len], C)
    <3> DEFINE N == {n \in Nat : n <= len => TakenOf(u[n], C)}
    <3>1. 0 \in N
      BY <2>4, <2>5 DEF Rounds
    <3>2. ASSUME NEW n \in Nat, n \in N PROVE n + 1 \in N
      <4> SUFFICES ASSUME n + 1 <= len PROVE TakenOf(u[n + 1], C)
        OBVIOUS
      <4>1. TakenOf(u[n], C) /\ n + 1 \in 1 .. len /\ (n + 1) - 1 = n
        BY <2>3, <3>2
      <4> QED
        BY <2>6, <4>1
    <3> HIDE DEF N
    <3>3. len \in N
      BY <2>3, <3>1, <3>2, NatSetInduction
    <3> QED
      BY <2>3, <3>3 DEF N
  <2>8. ASSUME NEW acc, TakenOf(acc, C) PROVE TakenOf(Bounded(acc), C)
    <3> DEFINE t == TrimMarks(acc.asm)
               l == Len(t.buf) > MaxLogical
    <3>1. AssemblerOf(t, C)
      BY <2>8 DEF TrimMarks, TakenOf, AssemblerOf
    <3>2. Bounded(acc) = IF acc.asm.broken THEN acc ELSE [acc EXCEPT !.asm = [t EXCEPT !.broken = l]]
      BY DEF Bounded
    <3> HIDE DEF t, l
    <3>3. AssemblerOf([t EXCEPT !.broken = l], C)
      BY <3>1 DEF AssemblerOf
    <3> QED
      BY <2>8, <3>2, <3>3 DEF TakenOf
  <2> QED
    BY <2>2, <2>4, <2>7, <2>8
<1> QED
  BY <1>1, <1>2

-----------------------------------------------------------------------------
(* The decoder.                                                            *)

\* A request in flight, and an event, are those of a connection in W.
RequestOf(p, W) ==
    /\ p.request.kind \in {"event", "prepare", "silent"}
    /\ p.request.kind = "event" => "req" \in DOMAIN p.request.event /\ p.request.event.req[1] \in W

PendingOf(q, W) == IsSeq(q) /\ \A i \in DOMAIN q : RequestOf(q[i], W)

EventsOf(out, W) == IsSeq(out) /\ \A i \in DOMAIN out : out[i].req[1] \in W

DecoderFields ==
    {"phase", "client", "server", "disposition", "server_attrs", "query_attrs", "user", "db",
     "server_version", "thread_id", "stmts", "long_data", "pending", "server_cont_seq", "stats",
     "finished"}

DecoderOf(dec, W, C, S) ==
    /\ DOMAIN dec = DecoderFields
    /\ dec.disposition \in {"active", "bad_handshake", "tls", "compressed", "broken"}
    /\ dec.phase \in {"greeting", "login", "established"}
    /\ dec.thread_id \in {NoSeq} \cup (0 .. SynthBase - 1)
    /\ PendingOf(dec.pending, W)
    /\ AssemblerOf(dec.client, C)
    /\ AssemblerOf(dec.server, S)

ReadOf(acc, W, C, S) ==
    DOMAIN acc = {"dec", "out"} /\ DecoderOf(acc.dec, W, C, S) /\ EventsOf(acc.out, W)

\* e agrees with d in everything DecoderOf speaks of.
SameSession(e, d) ==
    /\ DOMAIN e = DOMAIN d
    /\ e.disposition = d.disposition /\ e.phase = d.phase /\ e.thread_id = d.thread_id
    /\ e.pending = d.pending /\ e.client = d.client /\ e.server = d.server

\* A decoder that differs in nothing DecoderOf speaks of is one too.
LEMMA SameOf ==
    ASSUME NEW W, NEW C, NEW S, NEW d, DecoderOf(d, W, C, S), NEW e, SameSession(e, d)
    PROVE  DecoderOf(e, W, C, S)
BY DEF SameSession, DecoderOf

\* One event, and one request in flight, more.
LEMMA EventsAppend ==
    ASSUME NEW out, NEW W, EventsOf(out, W), NEW ev, ev.req[1] \in W
    PROVE  EventsOf(Append(out, ev), W)
<1>1. IsSeq(out) /\ Len(out) \in Nat /\ DOMAIN out = 1 .. Len(out)
  BY SeqHas DEF EventsOf
<1>2. /\ IsSeq(Append(out, ev)) /\ DOMAIN Append(out, ev) = 1 .. Len(out) + 1
      /\ Append(out, ev)[Len(out) + 1] = ev
      /\ \A i \in 1 .. Len(out) : Append(out, ev)[i] = out[i]
  BY <1>1, SeqAppend
<1>3. ASSUME NEW i \in DOMAIN Append(out, ev) PROVE Append(out, ev)[i].req[1] \in W
  <2>1. CASE i = Len(out) + 1
    BY <1>2, <2>1
  <2>2. CASE i # Len(out) + 1
    <3>1. i \in 1 .. Len(out)
      BY <1>1, <1>2, <2>2
    <3> QED
      BY <1>1, <1>2, <3>1 DEF EventsOf
  <2> QED
    BY <2>1, <2>2
<1> QED
  BY <1>2, <1>3 DEF EventsOf

\* A request more in flight.
LEMMA PendingAppend ==
    ASSUME NEW q, NEW W, PendingOf(q, W), NEW p, RequestOf(p, W)
    PROVE  PendingOf(Append(q, p), W)
<1>1. IsSeq(q) /\ Len(q) \in Nat /\ DOMAIN q = 1 .. Len(q)
  BY SeqHas DEF PendingOf
<1>2. /\ IsSeq(Append(q, p)) /\ DOMAIN Append(q, p) = 1 .. Len(q) + 1
      /\ Append(q, p)[Len(q) + 1] = p
      /\ \A i \in 1 .. Len(q) : Append(q, p)[i] = q[i]
  BY <1>1, SeqAppend
<1>3. ASSUME NEW i \in DOMAIN Append(q, p) PROVE RequestOf(Append(q, p)[i], W)
  <2>1. CASE i = Len(q) + 1
    BY <1>2, <2>1
  <2>2. CASE i # Len(q) + 1
    <3>1. i \in 1 .. Len(q)
      BY <1>1, <1>2, <2>2
    <3> QED
      BY <1>1, <1>2, <3>1 DEF PendingOf
  <2> QED
    BY <2>1, <2>2
<1> QED
  BY <1>2, <1>3 DEF PendingOf

\* The oldest request in flight, and those behind it.
LEMMA PendingTail ==
    ASSUME NEW q, NEW W, PendingOf(q, W), q # <<>>
    PROVE  PendingOf(Tail(q), W) /\ RequestOf(Head(q), W)
<1>1. IsSeq(q)
  BY DEF PendingOf
<1>2. /\ IsSeq(Tail(q)) /\ 1 \in DOMAIN q
      /\ \A i \in DOMAIN Tail(q) : i + 1 \in DOMAIN q /\ Tail(q)[i] = q[i + 1]
  BY <1>1, SeqTail
<1>3. PendingOf(Tail(q), W)
  BY <1>2 DEF PendingOf
<1>4. Head(q) = q[1]
  BY <1>1 DEF IsSeq
<1> QED
  BY <1>2, <1>3, <1>4 DEF PendingOf

\* push_pending: the decoder waits for one response more.
LEMMA PushOf ==
    ASSUME NEW W, NEW C, NEW S, NEW dec, DecoderOf(dec, W, C, S), NEW resp_seq, NEW request,
           RequestOf([resp_seq |-> resp_seq, request |-> request], W)
    PROVE  DecoderOf(PushPending(dec, resp_seq, request), W, C, S)
<1> DEFINE q == Append(dec.pending, [resp_seq |-> resp_seq, request |-> request])
<1>1. PendingOf(q, W)
  BY PendingAppend DEF DecoderOf
<1>2. PushPending(dec, resp_seq, request) = [dec EXCEPT !.pending = q]
  BY DEF PushPending
<1> HIDE DEF q
<1> QED
  BY <1>1, <1>2 DEF DecoderOf, DecoderFields

\* It waits for a response that makes no event.
LEMMA SilentOf ==
    ASSUME NEW W, NEW C, NEW S, NEW dec, DecoderOf(dec, W, C, S), NEW resp_seq
    PROVE  DecoderOf(PushPending(dec, resp_seq, Silent), W, C, S)
<1>1. RequestOf([resp_seq |-> resp_seq, request |-> Silent], W)
  BY DEF RequestOf, Silent
<1> QED
  BY <1>1, PushOf

\* What the handlers do to the other fields.
LEMMA OtherFields ==
    ASSUME NEW W, NEW C, NEW S, NEW dec, DecoderOf(dec, W, C, S)
    PROVE  /\ \A x : /\ SameSession([dec EXCEPT !.stats = x], dec)
                     /\ SameSession([dec EXCEPT !.db = x], dec)
                     /\ SameSession([dec EXCEPT !.stmts = x], dec)
                     /\ SameSession([dec EXCEPT !.long_data = x], dec)
                     /\ SameSession([dec EXCEPT !.finished = x], dec)
                     /\ SameSession([dec EXCEPT !.server_cont_seq = x], dec)
           /\ \A x : SameSession(ForgetLongData(dec, x), dec)
           /\ SameSession(Settle(dec), dec) /\ SameSession(dec, dec)
BY DEF SameSession, ForgetLongData, Settle, DecoderOf, DecoderFields

\* queue_event: a statement in flight is one of the connection that sent it.
LEMMA QueueOf ==
    ASSUME NEW W, NEW C, NEW S, NEW dec, DecoderOf(dec, W, C, S), NEW resp_seq, NEW pkt, NEW text,
           pkt.payload[1].req[1] \in W
    PROVE  DecoderOf(QueueEvent(dec, resp_seq, pkt, text), W, C, S)
<1> DEFINE target == ParseUseTarget(text)
           moved  == IF target = None THEN dec ELSE [dec EXCEPT !.db = target]
           event  == [ts |-> pkt.ts, query |-> text, latency |-> 0, seen |-> FALSE,
                      db |-> moved.db, user |-> moved.user, req |-> pkt.payload[1].req]
           request == [kind |-> "event", event |-> event]
<1>1. DecoderOf(moved, W, C, S)
  <2> HIDE DEF target
  <2> QED
    BY OtherFields, SameOf
<1>2. "req" \in DOMAIN event /\ event.req[1] \in W
  <2> HIDE DEF moved
  <2> QED
    OBVIOUS
<1>3. QueueEvent(dec, resp_seq, pkt, text) = PushPending(moved, resp_seq, request)
  BY DEF QueueEvent
<1> HIDE DEF moved, event
<1>4. RequestOf([resp_seq |-> resp_seq, request |-> request], W)
  BY <1>2 DEF RequestOf
<1> HIDE DEF request
<1> QED
  BY <1>1, <1>3, <1>4, PushOf

\* A command the capture skips, or cannot expand, only moves counters.
LEMMA IgnoredOf ==
    ASSUME NEW W, NEW C, NEW S, NEW dec, DecoderOf(dec, W, C, S), NEW resp_seq
    PROVE  /\ DecoderOf(Ignored(dec, resp_seq), W, C, S)
           /\ DecoderOf(Inexpandable(dec, resp_seq), W, C, S)
<1>1. ASSUME NEW x PROVE DecoderOf(PushPending([dec EXCEPT !.stats = x], resp_seq, Silent), W, C, S)
  BY OtherFields, SameOf, SilentOf
<1>2. /\ \E x : Ignored(dec, resp_seq) = PushPending([dec EXCEPT !.stats = x], resp_seq, Silent)
      /\ \E x : Inexpandable(dec, resp_seq) = PushPending([dec EXCEPT !.stats = x], resp_seq, Silent)
  BY Zenon DEF Ignored, Inexpandable
<1> QED
  BY <1>1, <1>2

\* Expanding an execute reads the statement, or drops it with its long data.
LEMMA ExecuteOf ==
    ASSUME NEW W, NEW C, NEW S, NEW dec, DecoderOf(dec, W, C, S), NEW c
    PROVE  DecoderOf(DecodeExecute(dec, c).dec, W, C, S)
<1>1. \E x : \/ DecodeExecute(dec, c).dec = dec
             \/ DecodeExecute(dec, c).dec = [dec EXCEPT !.stmts = x]
             \/ DecodeExecute(dec, c).dec = ForgetLongData(dec, c.id)
             \/ DecodeExecute(dec, c).dec = ForgetLongData([dec EXCEPT !.stmts = x], c.id)
  BY Zenon DEF DecodeExecute
<1>2. ASSUME NEW x PROVE DecoderOf([dec EXCEPT !.stmts = x], W, C, S)
  BY OtherFields, SameOf
<1>3. ASSUME NEW x, NEW y PROVE DecoderOf(ForgetLongData([dec EXCEPT !.stmts = x], y), W, C, S)
  BY <1>2, OtherFields, SameOf
<1>4. ASSUME NEW y PROVE DecoderOf(ForgetLongData(dec, y), W, C, S)
  BY OtherFields, SameOf
<1> QED
  BY <1>1, <1>2, <1>3, <1>4

\* A command of the client.
LEMMA CommandOf ==
    ASSUME NEW W, NEW C, NEW S, Sources(W, C, S), NEW before, DecoderOf(before, W, C, S),
           NEW pkt, pkt.payload \in Seq(C)
    PROVE  DecoderOf(OnCommand(before, pkt), W, C, S)
<1> DEFINE dec      == Settle(before)
           resp_seq == NextSeq(pkt.last_seq)
           c        == pkt.payload[1]
           cmd      == Field(pkt.payload, "cmd")
<1>1. DecoderOf(dec, W, C, S)
  BY OtherFields, SameOf
<1>2. OnCommand(before, pkt) =
        IF pkt.payload = <<>> THEN dec
        ELSE CASE cmd = "query"     -> OnQuery(dec, resp_seq, pkt)
               [] cmd = "init_db"   -> QueueEvent([dec EXCEPT !.db = c.db], resp_seq, pkt, UseText(c.db))
               [] cmd = "prepare"   -> PushPending(dec, resp_seq, [kind |-> "prepare", sql |-> c.sql])
               [] cmd = "execute"   -> OnExecute(dec, resp_seq, pkt)
               [] cmd = "long_data" -> OnLongData(dec, c)
               [] cmd = "close"     -> CloseStatement(dec, c.id)
               [] cmd = "reset"     -> PushPending(ForgetLongData(dec, c.id), resp_seq, Silent)
               [] cmd = "quit"      -> [dec EXCEPT !.finished = TRUE]
               [] OTHER             -> Ignored(dec, resp_seq)
  BY DEF OnCommand
<1>3. pkt.payload # <<>> => c \in C
  BY DEF Sources
<1>4. pkt.payload # <<>> /\ cmd \in {"query", "init_db", "execute"} => c.req[1] \in W
  BY <1>3 DEF Sources, Field
<1> HIDE DEF dec, resp_seq, cmd
<1>5. CASE pkt.payload = <<>>
  BY <1>1, <1>2, <1>5
<1>6. CASE pkt.payload # <<>> /\ cmd = "query"
  <2>1. OnCommand(before, pkt) = OnQuery(dec, resp_seq, pkt)
    BY <1>2, <1>6
  <2>2. \A text : DecoderOf(QueueEvent(dec, resp_seq, pkt, text), W, C, S)
    BY <1>1, <1>4, <1>6, QueueOf
  <2>3. DecoderOf(Ignored(dec, resp_seq), W, C, S)
    BY <1>1, IgnoredOf
  <2> QED
    BY <2>1, <2>2, <2>3 DEF OnQuery
<1>7. CASE pkt.payload # <<>> /\ cmd = "init_db"
  <2>1. OnCommand(before, pkt) = QueueEvent([dec EXCEPT !.db = c.db], resp_seq, pkt, UseText(c.db))
    BY <1>2, <1>7
  <2>2. DecoderOf([dec EXCEPT !.db = c.db], W, C, S)
    BY <1>1, OtherFields, SameOf
  <2>3. pkt.payload[1].req[1] \in W
    BY <1>4, <1>7
  <2> QED
    BY <2>1, <2>2, <2>3, QueueOf
<1>8. CASE pkt.payload # <<>> /\ cmd = "prepare"
  <2>1. OnCommand(before, pkt) = PushPending(dec, resp_seq, [kind |-> "prepare", sql |-> c.sql])
    BY <1>2, <1>8
  <2>2. RequestOf([resp_seq |-> resp_seq, request |-> [kind |-> "prepare", sql |-> c.sql]], W)
    BY DEF RequestOf
  <2> QED
    BY <1>1, <2>1, <2>2, PushOf
<1>9. CASE pkt.payload # <<>> /\ cmd = "execute"
  <2> DEFINE x == DecodeExecute(dec, c)
             d == x.dec
             text == x.text
  <2>1. OnCommand(before, pkt) = OnExecute(dec, resp_seq, pkt)
    BY <1>2, <1>9
  <2>2. DecoderOf(d, W, C, S)
    BY <1>1, ExecuteOf
  <2>3. pkt.payload[1].req[1] \in W
    BY <1>4, <1>9
  <2>4. \/ OnExecute(dec, resp_seq, pkt) = Inexpandable(d, resp_seq)
        \/ \E y : OnExecute(dec, resp_seq, pkt) = QueueEvent([d EXCEPT !.stats = y], resp_seq, pkt, text[1])
    BY Zenon DEF OnExecute
  <2> HIDE DEF x, d, text
  <2>5. ASSUME NEW y PROVE DecoderOf(QueueEvent([d EXCEPT !.stats = y], resp_seq, pkt, text[1]), W, C, S)
    <3>1. DecoderOf([d EXCEPT !.stats = y], W, C, S)
      BY <2>2, OtherFields, SameOf
    <3> QED
      BY <2>3, <3>1, QueueOf
  <2>6. DecoderOf(Inexpandable(d, resp_seq), W, C, S)
    BY <2>2, IgnoredOf
  <2> QED
    BY <2>1, <2>4, <2>5, <2>6
<1>10. CASE pkt.payload # <<>> /\ cmd = "long_data"
  <2>1. OnCommand(before, pkt) = OnLongData(dec, c)
    BY <1>2, <1>10
  <2>2. \E x : OnLongData(dec, c) = [dec EXCEPT !.long_data = x]
    BY Zenon DEF OnLongData
  <2> QED
    BY <1>1, <2>1, <2>2, OtherFields, SameOf
<1>11. CASE pkt.payload # <<>> /\ cmd = "close"
  <2>1. OnCommand(before, pkt) = CloseStatement(dec, c.id)
    BY <1>2, <1>11
  <2>2. \E x : CloseStatement(dec, c.id) = ForgetLongData([dec EXCEPT !.stmts = x], c.id)
    BY Zenon DEF CloseStatement
  <2>3. ASSUME NEW x PROVE DecoderOf(ForgetLongData([dec EXCEPT !.stmts = x], c.id), W, C, S)
    <3>1. DecoderOf([dec EXCEPT !.stmts = x], W, C, S)
      BY <1>1, OtherFields, SameOf
    <3> QED
      BY <3>1, OtherFields, SameOf
  <2> QED
    BY <2>1, <2>2, <2>3
<1>12. CASE pkt.payload # <<>> /\ cmd = "reset"
  <2>1. OnCommand(before, pkt) = PushPending(ForgetLongData(dec, c.id), resp_seq, Silent)
    BY <1>2, <1>12
  <2>2. DecoderOf(ForgetLongData(dec, c.id), W, C, S)
    BY <1>1, OtherFields, SameOf
  <2> QED
    BY <2>1, <2>2, SilentOf
<1>13. CASE pkt.payload # <<>> /\ cmd = "quit"
  <2>1. OnCommand(before, pkt) = [dec EXCEPT !.finished = TRUE]
    BY <1>2, <1>13
  <2> QED
    BY <1>1, <2>1, OtherFields, SameOf
<1>14. CASE /\ pkt.payload # <<>>
            /\ cmd \notin {"query", "init_db", "prepare", "execute", "long_data", "close", "reset", "quit"}
  <2>1. OnCommand(before, pkt) = Ignored(dec, resp_seq)
    BY <1>2, <1>14
  <2> QED
    BY <1>1, <2>1, IgnoredOf
<1> QED
  BY <1>5, <1>6, <1>7, <1>8, <1>9, <1>10, <1>11, <1>12, <1>13, <1>14

\* A message of the client.
LEMMA ClientPacketOf ==
    ASSUME NEW W, NEW C, NEW S, Sources(W, C, S), NEW dec, DecoderOf(dec, W, C, S),
           NEW pkt, pkt.payload \in Seq(C)
    PROVE  DecoderOf(OnClientPacket(dec, pkt), W, C, S)
<1>1. CASE dec.phase = "greeting"
  <2>1. OnClientPacket(dec, pkt) = [dec EXCEPT !.disposition = "bad_handshake"]
    BY <1>1 DEF OnClientPacket
  <2> QED
    BY ONLY <2>1, DecoderOf(dec, W, C, S) DEF DecoderOf, DecoderFields
<1>2. CASE dec.phase = "login"
  <2>1. OnClientPacket(dec, pkt) = OnLogin(dec, pkt.payload)
    BY <1>2 DEF OnClientPacket
  <2>2. \/ \E d \in {"bad_handshake", "tls", "compressed"} :
               OnLogin(dec, pkt.payload) = [dec EXCEPT !.disposition = d]
        \/ \E x, y, z :
               OnLogin(dec, pkt.payload) =
                  [dec EXCEPT !.phase = "established", !.user = x, !.db = y, !.query_attrs = z]
    BY Zenon DEF OnLogin
  <2>3. ASSUME NEW d \in {"bad_handshake", "tls", "compressed"}
        PROVE  DecoderOf([dec EXCEPT !.disposition = d], W, C, S)
    BY ONLY DecoderOf(dec, W, C, S), d \in {"bad_handshake", "tls", "compressed"} DEF DecoderOf, DecoderFields
  <2>4. ASSUME NEW x, NEW y, NEW z
        PROVE  DecoderOf([dec EXCEPT !.phase = "established", !.user = x, !.db = y, !.query_attrs = z], W, C, S)
    BY ONLY DecoderOf(dec, W, C, S) DEF DecoderOf, DecoderFields
  <2>5. CASE \E d \in {"bad_handshake", "tls", "compressed"} :
                OnLogin(dec, pkt.payload) = [dec EXCEPT !.disposition = d]
    <3>1. PICK d \in {"bad_handshake", "tls", "compressed"} :
              OnLogin(dec, pkt.payload) = [dec EXCEPT !.disposition = d]
      BY <2>5
    <3> QED
      BY ONLY <2>1, <2>3, <3>1
  <2>6. CASE \E x, y, z :
                OnLogin(dec, pkt.payload) =
                  [dec EXCEPT !.phase = "established", !.user = x, !.db = y, !.query_attrs = z]
    <3>1. PICK x, y, z :
              OnLogin(dec, pkt.payload) =
                [dec EXCEPT !.phase = "established", !.user = x, !.db = y, !.query_attrs = z]
      BY <2>6
    <3>2. DecoderOf([dec EXCEPT !.phase = "established", !.user = x, !.db = y,
                                !.query_attrs = z], W, C, S)
      BY <2>4
    <3> QED
      BY ONLY <2>1, <3>1, <3>2
  <2> QED
    BY ONLY <2>2, <2>5, <2>6
<1>3. CASE dec.phase = "established"
  <2>1. OnClientPacket(dec, pkt) = IF pkt.first_seq # 0 THEN dec ELSE OnCommand(dec, pkt)
    BY <1>3 DEF OnClientPacket
  <2> QED
    BY <2>1, CommandOf
<1> QED
  BY <1>1, <1>2, <1>3 DEF DecoderOf

\* The server's greeting.
LEMMA GreetingOf ==
    ASSUME NEW W, NEW C, NEW S, Sources(W, C, S), NEW dec, DecoderOf(dec, W, C, S),
           NEW payload \in Seq(S)
    PROVE  DecoderOf(OnGreeting(dec, payload), W, C, S)
<1>1. CASE Field(payload, "reply") # "greeting"
  <2>1. OnGreeting(dec, payload) = [dec EXCEPT !.disposition = "bad_handshake"]
    BY <1>1 DEF OnGreeting
  <2> QED
    BY ONLY <2>1, DecoderOf(dec, W, C, S) DEF DecoderOf, DecoderFields
<1>2. CASE Field(payload, "reply") = "greeting"
  <2>1. payload # <<>> /\ "reply" \in DOMAIN payload[1] /\ payload[1].reply = "greeting"
    BY <1>2 DEF Field
  <2>2. payload[1] \in S
    BY <2>1
  <2>3. payload[1].thread \in 0 .. SynthBase - 1
    BY <2>1, <2>2 DEF Sources
  <2> DEFINE version == payload[1].version
             thread == payload[1].thread
             attrs == payload[1].attrs
  <2>4. OnGreeting(dec, payload) = [dec EXCEPT !.phase = "login", !.server_version = version,
                                               !.thread_id = thread, !.server_attrs = attrs]
    BY <1>2, Zenon DEF OnGreeting
  <2>5. thread \in 0 .. SynthBase - 1
    BY <2>3
  <2> HIDE DEF version, thread, attrs
  <2> QED
    BY ONLY <2>4, <2>5, DecoderOf(dec, W, C, S) DEF DecoderOf, DecoderFields
<1> QED
  BY <1>1, <1>2

\* The response to the oldest request in flight.
LEMMA ResponseOf ==
    ASSUME NEW W, NEW C, NEW S, NEW acc, ReadOf(acc, W, C, S), NEW pkt, acc.dec.pending # <<>>
    PROVE  ReadOf(OnResponse(acc, pkt), W, C, S)
<1> DEFINE front == Head(acc.dec.pending)
           rest  == Tail(acc.dec.pending)
           dec   == [acc.dec EXCEPT !.pending = Tail(@), !.server_cont_seq = NextSeq(pkt.last_seq)]
           late  == pkt.ts - front.request.event.ts
           event == [front.request.event EXCEPT !.latency = IF late > 0 THEN late ELSE 0, !.seen = TRUE]
<1>1. DOMAIN acc = {"dec", "out"} /\ DecoderOf(acc.dec, W, C, S) /\ EventsOf(acc.out, W)
  BY DEF ReadOf
<1>2. PendingOf(rest, W) /\ RequestOf(front, W)
  BY <1>1, PendingTail DEF DecoderOf
<1>3. DecoderOf(dec, W, C, S)
  <2>1. PICK x, y : dec = [acc.dec EXCEPT !.pending = x, !.server_cont_seq = y] /\ PendingOf(x, W)
    BY <1>2
  <2> HIDE DEF dec
  <2> QED
    BY ONLY <1>1, <2>1 DEF DecoderOf, DecoderFields
<1>4. OnResponse(acc, pkt) =
        CASE front.request.kind = "event" -> [dec |-> dec, out |-> Append(acc.out, event)]
          [] front.request.kind = "prepare" ->
                IF Field(pkt.payload, "reply") # "prepared" THEN [acc EXCEPT !.dec = dec]
                ELSE [acc EXCEPT !.dec = [dec EXCEPT !.stmts = Put(@, pkt.payload[1].id,
                        [sql |-> front.request.sql, num_params |-> pkt.payload[1].params, param_types |-> <<>>])]]
          [] front.request.kind = "silent" -> [acc EXCEPT !.dec = dec]
  BY DEF OnResponse
<1>5. front.request.kind = "event" => event.req[1] \in W
  <2> HIDE DEF late
  <2> QED
    BY <1>2 DEF RequestOf
<1> HIDE DEF front, rest, dec, late, event
<1>6. CASE front.request.kind = "event"
  <2>1. OnResponse(acc, pkt) = [dec |-> dec, out |-> Append(acc.out, event)]
    BY <1>4, <1>6
  <2>2. EventsOf(Append(acc.out, event), W)
    BY <1>1, <1>5, <1>6, EventsAppend
  <2> QED
    BY <1>3, <2>1, <2>2 DEF ReadOf
<1>7. CASE front.request.kind = "prepare"
  <2>1. \/ OnResponse(acc, pkt) = [acc EXCEPT !.dec = dec]
        \/ \E x : OnResponse(acc, pkt) = [acc EXCEPT !.dec = [dec EXCEPT !.stmts = x]]
    <3>1. OnResponse(acc, pkt) =
            IF Field(pkt.payload, "reply") # "prepared" THEN [acc EXCEPT !.dec = dec]
            ELSE [acc EXCEPT !.dec = [dec EXCEPT !.stmts = Put(@, pkt.payload[1].id,
                    [sql |-> front.request.sql, num_params |-> pkt.payload[1].params, param_types |-> <<>>])]]
      BY <1>4, <1>7
    <3> QED
      BY <3>1, Zenon
  <2>2. ASSUME NEW x PROVE DecoderOf([dec EXCEPT !.stmts = x], W, C, S)
    BY <1>3, OtherFields, SameOf
  <2>3. ASSUME NEW d, DecoderOf(d, W, C, S) PROVE ReadOf([acc EXCEPT !.dec = d], W, C, S)
    BY <1>1, <2>3 DEF ReadOf
  <2> QED
    BY <1>3, <2>1, <2>2, <2>3
<1>8. CASE front.request.kind = "silent"
  <2>1. OnResponse(acc, pkt) = [acc EXCEPT !.dec = dec]
    BY <1>4, <1>8
  <2> QED
    BY <1>1, <1>3, <2>1 DEF ReadOf
<1> QED
  BY <1>2, <1>6, <1>7, <1>8 DEF RequestOf

\* A message of the server.
LEMMA ServerPacketOf ==
    ASSUME NEW W, NEW C, NEW S, Sources(W, C, S), NEW acc, ReadOf(acc, W, C, S),
           NEW pkt, pkt.payload \in Seq(S)
    PROVE  ReadOf(OnServerPacket(acc, pkt), W, C, S)
<1>1. DOMAIN acc = {"dec", "out"} /\ DecoderOf(acc.dec, W, C, S) /\ EventsOf(acc.out, W)
  BY DEF ReadOf
<1>2. ASSUME NEW d, DecoderOf(d, W, C, S) PROVE ReadOf([acc EXCEPT !.dec = d], W, C, S)
  BY <1>1, <1>2 DEF ReadOf
<1>3. CASE acc.dec.phase = "greeting"
  <2>1. OnServerPacket(acc, pkt) = [acc EXCEPT !.dec = OnGreeting(acc.dec, pkt.payload)]
    BY <1>3 DEF OnServerPacket
  <2> QED
    BY <1>1, <1>2, <2>1, GreetingOf
<1>4. CASE acc.dec.phase = "login"
  <2>1. OnServerPacket(acc, pkt) = [acc EXCEPT !.dec = [acc.dec EXCEPT !.disposition = "bad_handshake"]]
    BY <1>4 DEF OnServerPacket
  <2>2. DecoderOf([acc.dec EXCEPT !.disposition = "bad_handshake"], W, C, S)
    BY ONLY <1>1 DEF DecoderOf, DecoderFields
  <2> QED
    BY <1>2, <2>1, <2>2
<1>5. CASE acc.dec.phase = "established"
  <2>1. \/ OnServerPacket(acc, pkt) = [acc EXCEPT !.dec = [acc.dec EXCEPT !.server_cont_seq = NextSeq(pkt.last_seq)]]
        \/ OnServerPacket(acc, pkt) = [acc EXCEPT !.dec = [acc.dec EXCEPT !.server_cont_seq = NoSeq]]
        \/ acc.dec.pending # <<>> /\ OnServerPacket(acc, pkt) = OnResponse(acc, pkt)
    <3>1. OnServerPacket(acc, pkt) =
            IF acc.dec.server_cont_seq = pkt.first_seq
            THEN [acc EXCEPT !.dec.server_cont_seq = NextSeq(pkt.last_seq)]
            ELSE IF acc.dec.pending = <<>> \/ Head(acc.dec.pending).resp_seq # pkt.first_seq
            THEN [acc EXCEPT !.dec.server_cont_seq = NoSeq]
            ELSE OnResponse(acc, pkt)
      BY <1>5 DEF OnServerPacket
    <3> QED
      BY <3>1, Zenon
  <2>2. ASSUME NEW x PROVE DecoderOf([acc.dec EXCEPT !.server_cont_seq = x], W, C, S)
    BY <1>1, OtherFields, SameOf
  <2>3. CASE OnServerPacket(acc, pkt) = [acc EXCEPT !.dec = [acc.dec EXCEPT !.server_cont_seq = NextSeq(pkt.last_seq)]]
    <3>1. DecoderOf([acc.dec EXCEPT !.server_cont_seq = NextSeq(pkt.last_seq)], W, C, S)
      BY <2>2
    <3> QED
      BY <1>2, <2>3, <3>1
  <2>4. CASE OnServerPacket(acc, pkt) = [acc EXCEPT !.dec = [acc.dec EXCEPT !.server_cont_seq = NoSeq]]
    <3>1. DecoderOf([acc.dec EXCEPT !.server_cont_seq = NoSeq], W, C, S)
      BY <2>2
    <3> QED
      BY <1>2, <2>4, <3>1
  <2>5. CASE acc.dec.pending # <<>> /\ OnServerPacket(acc, pkt) = OnResponse(acc, pkt)
    BY <2>5, ResponseOf
  <2> QED
    BY <2>1, <2>3, <2>4, <2>5
<1> QED
  BY <1>1, <1>3, <1>4, <1>5 DEF DecoderOf

\* The messages a chunk completes.
LEMMA PacketsOf ==
    ASSUME NEW W, NEW C, NEW S, Sources(W, C, S), NEW acc, ReadOf(acc, W, C, S),
           NEW dir \in {"client", "server"}, NEW q, MessagesOf(q, IF dir = "client" THEN C ELSE S)
    PROVE  ReadOf(OnPackets(acc, dir, q), W, C, S)
<1> DEFINE len == Len(q)
<1>1. len \in Nat /\ DOMAIN q = 1 .. len
  BY SeqHas DEF MessagesOf
<1> HIDE DEF len
<1>2. PICK u : Rounds(u, "packet", dir, acc, q, len) /\ OnPackets(acc, dir, q) = u[len]
  BY <1>1, PacketRounds
<1>3. ASSUME NEW n \in 1 .. len, ReadOf(u[n - 1], W, C, S) PROVE ReadOf(u[n], W, C, S)
  <2> DEFINE r == u[n - 1]
             pkt == q[n]
  <2>1. u[n] = IF ~Decoding(r.dec) THEN r
               ELSE IF dir = "client" THEN [r EXCEPT !.dec = OnClientPacket(r.dec, pkt)]
               ELSE OnServerPacket(r, pkt)
    BY <1>2 DEF Rounds, Round
  <2>2. pkt.payload \in Seq(IF dir = "client" THEN C ELSE S)
    BY <1>1 DEF MessagesOf
  <2>3. ReadOf(r, W, C, S)
    BY <1>3
  <2> HIDE DEF r, pkt
  <2>4. CASE dir = "client"
    <3>1. DecoderOf(OnClientPacket(r.dec, pkt), W, C, S)
      BY <2>2, <2>3, <2>4, ClientPacketOf DEF ReadOf
    <3>2. ReadOf([r EXCEPT !.dec = OnClientPacket(r.dec, pkt)], W, C, S)
      BY <2>3, <3>1 DEF ReadOf
    <3> QED
      BY <2>1, <2>3, <2>4, <3>2
  <2>5. CASE dir = "server"
    <3>1. ReadOf(OnServerPacket(r, pkt), W, C, S)
      BY <2>2, <2>3, <2>5, ServerPacketOf
    <3> QED
      BY <2>1, <2>3, <2>5, <3>1
  <2> QED
    BY <2>4, <2>5
<1> DEFINE N == {n \in Nat : n <= len => ReadOf(u[n], W, C, S)}
<1>4. 0 \in N
  BY <1>2 DEF Rounds
<1>5. ASSUME NEW n \in Nat, n \in N PROVE n + 1 \in N
  <2> SUFFICES ASSUME n + 1 <= len PROVE ReadOf(u[n + 1], W, C, S)
    OBVIOUS
  <2>1. ReadOf(u[n], W, C, S) /\ n + 1 \in 1 .. len /\ (n + 1) - 1 = n
    BY <1>1, <1>5
  <2> QED
    BY <1>3, <2>1
<1> HIDE DEF N
<1>6. len \in N
  BY <1>1, <1>4, <1>5, NatSetInduction
<1>7. ReadOf(u[len], W, C, S)
  BY <1>1, <1>6 DEF N
<1> QED
  BY <1>2, <1>7

\* One chunk of a direction's stream.
LEMMA ChunkOf ==
    ASSUME NEW W, NEW C, NEW S, Sources(W, C, S), NEW acc, ReadOf(acc, W, C, S),
           NEW dir \in {"client", "server"}, NEW ts, NEW data \in Seq(IF dir = "client" THEN C ELSE S)
    PROVE  ReadOf(DecodeChunk(acc, dir, ts, data), W, C, S)
<1> DEFINE X == IF dir = "client" THEN C ELSE S
           fed == Feed(acc.dec[dir], ts, data)
           on == [acc.dec EXCEPT ![dir] = fed.asm]
<1>1. DOMAIN acc = {"dec", "out"} /\ DecoderOf(acc.dec, W, C, S) /\ EventsOf(acc.out, W)
  BY DEF ReadOf
<1>2. TakenOf(fed, X)
  <2>1. CASE dir = "client"
    <3>1. AssemblerOf(acc.dec.client, C) /\ CellSizes(C) /\ data \in Seq(C)
      BY <1>1, <2>1 DEF DecoderOf, Sources
    <3>2. TakenOf(Feed(acc.dec.client, ts, data), C)
      BY <3>1, FeedOf
    <3> QED
      BY <2>1, <3>2
  <2>2. CASE dir = "server"
    <3>1. AssemblerOf(acc.dec.server, S) /\ CellSizes(S) /\ data \in Seq(S)
      BY <1>1, <2>2 DEF DecoderOf, Sources
    <3>2. TakenOf(Feed(acc.dec.server, ts, data), S)
      BY <3>1, FeedOf
    <3> QED
      BY <2>2, <3>2
  <2> QED
    BY <2>1, <2>2
<1>3. DecodeChunk(acc, dir, ts, data) =
        IF ~Decoding(acc.dec) THEN acc
        ELSE IF on.client.broken \/ on.server.broken
        THEN [acc EXCEPT !.dec = [on EXCEPT !.disposition = "broken"]]
        ELSE OnPackets([acc EXCEPT !.dec = on], dir, fed.out)
  BY DEF DecodeChunk, AfterFeed
<1> HIDE DEF fed
<1>4. DecoderOf(on, W, C, S)
  <2>1. CASE dir = "client"
    <3>1. AssemblerOf(fed.asm, C) /\ on = [acc.dec EXCEPT !.client = fed.asm]
      BY <1>2, <2>1 DEF TakenOf
    <3> HIDE DEF on
    <3> QED
      BY ONLY <1>1, <3>1 DEF DecoderOf, DecoderFields
  <2>2. CASE dir = "server"
    <3>1. AssemblerOf(fed.asm, S) /\ on = [acc.dec EXCEPT !.server = fed.asm]
      BY <1>2, <2>2 DEF TakenOf
    <3> HIDE DEF on
    <3> QED
      BY ONLY <1>1, <3>1 DEF DecoderOf, DecoderFields
  <2> QED
    BY <2>1, <2>2
<1> HIDE DEF on
<1>5. ReadOf([acc EXCEPT !.dec = [on EXCEPT !.disposition = "broken"]], W, C, S)
  <2>1. DecoderOf([on EXCEPT !.disposition = "broken"], W, C, S)
    BY ONLY <1>4 DEF DecoderOf, DecoderFields
  <2> QED
    BY <1>1, <2>1 DEF ReadOf
<1>6. ReadOf(OnPackets([acc EXCEPT !.dec = on], dir, fed.out), W, C, S)
  <2>1. ReadOf([acc EXCEPT !.dec = on], W, C, S)
    BY <1>1, <1>4 DEF ReadOf
  <2>2. MessagesOf(fed.out, X)
    BY <1>2 DEF TakenOf
  <2> QED
    BY <2>1, <2>2, PacketsOf
<1> QED
  BY <1>3, <1>5, <1>6

\* The requests in flight go out at the end; nothing else changes but counters.
LEMMA FinishOf ==
    ASSUME NEW W, NEW C, NEW S, NEW acc, ReadOf(acc, W, C, S)
    PROVE  /\ ReadOf(FinishDecoder(acc), W, C, S)
           /\ FinishDecoder(acc).dec.disposition = acc.dec.disposition
           /\ FinishDecoder(acc).dec.thread_id = acc.dec.thread_id
<1> DEFINE Flushed(r) == /\ ReadOf(r, W, C, S)
                         /\ r.dec.disposition = acc.dec.disposition
                         /\ r.dec.thread_id = acc.dec.thread_id
<1>1. CASE acc.dec.finished
  BY <1>1 DEF FinishDecoder
<1>2. CASE ~acc.dec.finished
  <2> DEFINE q == acc.dec.pending
             len == Len(q)
             base == [acc EXCEPT !.dec = [@ EXCEPT !.finished = TRUE, !.pending = <<>>]]
  <2>1. PendingOf(q, W)
    BY DEF ReadOf, DecoderOf
  <2>2. len \in Nat /\ DOMAIN q = 1 .. len
    BY <2>1, SeqHas DEF PendingOf
  <2> HIDE DEF len
  <2>3. PICK u : Rounds(u, "flush", "any", base, q, len) /\ FinishDecoder(acc) = u[len]
    BY <1>2, <2>2, FlushRounds
  <2>4. Flushed(base)
    <3>1. PendingOf(<<>>, W)
      BY SeqEmpty DEF PendingOf
    <3>2. DOMAIN acc = {"dec", "out"} /\ DecoderOf(acc.dec, W, C, S)
      BY DEF ReadOf
    <3>3. /\ DecoderOf([acc.dec EXCEPT !.finished = TRUE, !.pending = <<>>], W, C, S)
          /\ [acc.dec EXCEPT !.finished = TRUE, !.pending = <<>>].disposition = acc.dec.disposition
          /\ [acc.dec EXCEPT !.finished = TRUE, !.pending = <<>>].thread_id = acc.dec.thread_id
      BY ONLY <3>1, <3>2 DEF DecoderOf, DecoderFields
    <3>4. base = [acc EXCEPT !.dec = [acc.dec EXCEPT !.finished = TRUE, !.pending = <<>>]]
      OBVIOUS
    <3> HIDE DEF base
    <3> QED
      BY <3>2, <3>3, <3>4 DEF ReadOf
  <2> HIDE DEF base
  <2>5. ASSUME NEW n \in 1 .. len, Flushed(u[n - 1]) PROVE Flushed(u[n])
    <3> DEFINE r == u[n - 1]
               p == q[n]
    <3>1. \/ u[n] = r
          \/ /\ p.request.kind = "event"
             /\ \E x : u[n] = [dec |-> [r.dec EXCEPT !.stats = x], out |-> Append(r.out, p.request.event)]
      <4>1. u[n] = IF p.request.kind # "event" THEN r
                   ELSE [dec |-> [r.dec EXCEPT !.stats.missing = @ + 1], out |-> Append(r.out, p.request.event)]
        BY <2>3 DEF Rounds, Round
      <4> HIDE DEF r, p
      <4> QED
        BY <4>1, Zenon
    <3>2. RequestOf(p, W)
      BY <2>1, <2>2 DEF PendingOf
    <3>3. Flushed(r)
      BY <2>5
    <3> HIDE DEF r, p
    <3>4. ASSUME NEW x, p.request.kind = "event"
          PROVE  Flushed([dec |-> [r.dec EXCEPT !.stats = x], out |-> Append(r.out, p.request.event)])
      <4>1. EventsOf(Append(r.out, p.request.event), W)
        BY <3>2, <3>3, <3>4, EventsAppend DEF RequestOf, ReadOf
      <4>2. SameSession([r.dec EXCEPT !.stats = x], r.dec) /\ DecoderOf([r.dec EXCEPT !.stats = x], W, C, S)
        BY <3>3, OtherFields, SameOf DEF ReadOf
      <4> QED
        BY <3>3, <4>1, <4>2 DEF ReadOf, SameSession
    <3> QED
      BY <3>1, <3>3, <3>4
  <2> DEFINE N == {n \in Nat : n <= len => Flushed(u[n])}
  <2>6. 0 \in N
    BY <2>3, <2>4 DEF Rounds
  <2>7. ASSUME NEW n \in Nat, n \in N PROVE n + 1 \in N
    <3> SUFFICES ASSUME n + 1 <= len PROVE Flushed(u[n + 1])
      OBVIOUS
    <3>1. Flushed(u[n]) /\ n + 1 \in 1 .. len /\ (n + 1) - 1 = n
      BY <2>2, <2>7
    <3> HIDE DEF Flushed
    <3> QED
      BY <2>5, <3>1
  <2> HIDE DEF N
  <2>8. len \in N
    BY <2>2, <2>6, <2>7, NatSetInduction
  <2>9. Flushed(u[len])
    BY <2>2, <2>8 DEF N
  <2> QED
    BY <2>3, <2>9
<1> QED
  BY <1>1, <1>2

-----------------------------------------------------------------------------
(* The connection and the counters.                                        *)

\* A connection that decodes streams of the cells in C and S.
ConnIs(conn, W, C, S) ==
    /\ DOMAIN conn = {"dec", "c2s", "s2c", "session_id", "fin_client", "fin_server", "finished",
                      "version_recorded"}
    /\ DecoderOf(conn.dec, W, C, S)
    /\ StreamIs(conn.c2s, C) /\ StreamIs(conn.s2c, S)
    /\ conn.finished \in BOOLEAN

\* The engine's counters.
Books(e) ==
    /\ DOMAIN e = {"conns", "used", "synthetic_next", "stats"}
    /\ {"connections", "closed"} \subseteq DOMAIN e.stats
    /\ e.stats.connections \in Nat
    /\ e.stats.closed \in [Dispositions -> Nat]

AccIs(acc, W, C, S) ==
    DOMAIN acc = {"conn", "eng", "out"} /\ ConnIs(acc.conn, W, C, S) /\ Books(acc.eng)

\* r comes from acc without touching the connections that are stored, and counts
\* at most this one as closed.
Handled(r, acc) ==
    /\ r.eng.conns = acc.eng.conns
    /\ r.eng.stats.connections = acc.eng.stats.connections
    /\ \/ r.eng.stats.closed = acc.eng.stats.closed /\ r.conn.finished = acc.conn.finished
       \/ /\ ~acc.conn.finished /\ r.conn.finished
          /\ \E d \in Dispositions :
                r.eng.stats.closed = [acc.eng.stats.closed EXCEPT ![d] = @ + 1]

\* The connection a frame opens has decoded nothing.
LEMMA NewConnIs ==
    ASSUME NEW W, NEW C, NEW S
    PROVE  ConnIs(NewConn, W, C, S)
<1>1. StreamIs(NewStream, C) /\ StreamIs(NewStream, S)
  BY SynGives, 0 \in Int
<1>2. AssemblerOf(NewAssembler, C) /\ AssemblerOf(NewAssembler, S)
  BY DEF AssemblerOf, NewAssembler
<1>3. PendingOf(<<>>, W)
  BY SeqEmpty DEF PendingOf
<1>4. DecoderOf(NewDecoder, W, C, S)
  BY <1>2, <1>3 DEF DecoderOf, DecoderFields, NewDecoder
<1>5. NewConn = [dec |-> NewDecoder, c2s |-> NewStream, s2c |-> NewStream, session_id |-> NoSeq,
                 fin_client |-> FALSE, fin_server |-> FALSE, finished |-> FALSE, version_recorded |-> FALSE]
  BY DEF NewConn
<1> QED
  BY <1>1, <1>4, <1>5 DEF ConnIs

\* The events of a connection go out under its session id.
LEMMA DrainKeeps ==
    ASSUME NEW W, NEW C, NEW S, NEW acc, AccIs(acc, W, C, S), NEW events
    PROVE  /\ AccIs(DrainEvents(acc, events), W, C, S) /\ Handled(DrainEvents(acc, events), acc)
           /\ DrainEvents(acc, events).eng.stats = acc.eng.stats
           /\ DrainEvents(acc, events).conn.finished = acc.conn.finished
           /\ DrainEvents(acc, events).conn.dec = acc.conn.dec
           /\ DrainEvents(acc, events).conn.c2s = acc.conn.c2s
<1>1. CASE events = <<>>
  BY <1>1 DEF DrainEvents, Handled
<1>2. CASE events # <<>>
  <2>1. \E sid, used, next, out : DrainEvents(acc, events) =
            [conn |-> [acc.conn EXCEPT !.session_id = sid],
             eng  |-> [acc.eng EXCEPT !.used = used, !.synthetic_next = next],
             out  |-> out]
    BY <1>2, Zenon DEF DrainEvents
  <2>2. PICK sid, used, next, out : DrainEvents(acc, events) =
            [conn |-> [acc.conn EXCEPT !.session_id = sid],
             eng  |-> [acc.eng EXCEPT !.used = used, !.synthetic_next = next],
             out  |-> out]
    BY <2>1
  <2>3. ConnIs(acc.conn, W, C, S) /\ Books(acc.eng)
    BY DEF AccIs
  <2> DEFINE c == [acc.conn EXCEPT !.session_id = sid]
             e == [acc.eng EXCEPT !.used = used, !.synthetic_next = next]
  <2>4. /\ ConnIs(c, W, C, S) /\ c.finished = acc.conn.finished /\ c.dec = acc.conn.dec
        /\ c.c2s = acc.conn.c2s
    BY <2>3 DEF ConnIs
  <2>5. Books(e) /\ e.stats = acc.eng.stats /\ e.conns = acc.eng.conns
    BY <2>3 DEF Books
  <2>6. DrainEvents(acc, events) = [conn |-> c, eng |-> e, out |-> out]
    BY <2>2
  <2> HIDE DEF c, e
  <2> QED
    BY <2>4, <2>5, <2>6 DEF AccIs, Handled
<1> QED
  BY <1>1, <1>2

\* A connection is counted under one disposition.
LEMMA CountedAsOne ==
    ASSUME NEW W, NEW C, NEW S, NEW conn, ConnIs(conn, W, C, S)
    PROVE  CountedAs(conn) \in Dispositions
BY DEF ConnIs, DecoderOf, CountedAs, Dispositions

\* Finalize keeps what it closes a connection of the same streams.
LEMMA FinalizeKeeps ==
    ASSUME NEW W, NEW C, NEW S, NEW acc, AccIs(acc, W, C, S), NEW events, EventsOf(events, W)
    PROVE  /\ AccIs(Finalize(acc, events), W, C, S) /\ Handled(Finalize(acc, events), acc)
           /\ Finalize(acc, events).conn.finished
           /\ Finalize(acc, events).conn.c2s = acc.conn.c2s
<1>1. CASE acc.conn.finished
  BY <1>1 DEF Finalize, Handled, AccIs, ConnIs
<1>2. CASE ~acc.conn.finished
  <2> DEFINE flushed == FinishDecoder([dec |-> acc.conn.dec, out |-> events])
             c == [acc.conn EXCEPT !.finished = TRUE, !.dec = flushed.dec]
             base == [acc EXCEPT !.conn = c]
             drained == DrainEvents(base, flushed.out)
             d == CountedAs(drained.conn)
  <2>1. ReadOf(flushed, W, C, S)
    <3>1. ReadOf([dec |-> acc.conn.dec, out |-> events], W, C, S)
      BY DEF AccIs, ConnIs, ReadOf
    <3> QED
      BY <3>1, FinishOf
  <2>2. Finalize(acc, events) = [drained EXCEPT !.eng.stats = CountClosed(@, drained.conn)]
    BY <1>2 DEF Finalize
  <2> HIDE DEF flushed
  <2>3. ConnIs(c, W, C, S) /\ c.finished = TRUE /\ c.c2s = acc.conn.c2s
    BY <2>1 DEF AccIs, ConnIs, ReadOf
  <2> HIDE DEF c
  <2>4. AccIs(base, W, C, S) /\ base.conn = c /\ base.eng = acc.eng
    BY <2>3 DEF AccIs
  <2> HIDE DEF base
  <2>5. AccIs(drained, W, C, S) /\ Handled(drained, base) /\ drained.eng.stats = acc.eng.stats
        /\ drained.conn.finished = TRUE /\ drained.conn.c2s = base.conn.c2s
    BY <2>3, <2>4, DrainKeeps
  <2>6. d \in Dispositions
    BY <2>5, CountedAsOne DEF AccIs
  <2>7. drained.conn.c2s = acc.conn.c2s /\ drained.eng.conns = acc.eng.conns
    BY <2>3, <2>4, <2>5 DEF Handled
  <2> DEFINE old == drained.eng.stats
             new == [old EXCEPT !.closed[d] = @ + 1]
             stats == CountClosed(old, drained.conn)
  <2> HIDE DEF drained
  <2>8. Finalize(acc, events) = [drained EXCEPT !.eng = [drained.eng EXCEPT !.stats = stats]]
    BY <2>2
  <2>19. stats = Accumulate(new, drained.conn.dec.stats)
    BY DEF CountClosed
  <2> HIDE DEF d, stats
  <2>9. Books(drained.eng)
    BY <2>5 DEF AccIs
  <2>10. /\ {"connections", "closed"} \subseteq DOMAIN new
         /\ new.connections = acc.eng.stats.connections
         /\ new.closed = [acc.eng.stats.closed EXCEPT ![d] = @ + 1]
    BY <2>5, <2>9 DEF Books
  <2>11. /\ {"connections", "closed"} \subseteq DOMAIN stats
         /\ stats.connections = new.connections /\ stats.closed = new.closed
    <3>1. PICK w, x, y, z : stats = [new EXCEPT !.expanded = w, !.inexpandable = x, !.ignored = y, !.missing = z]
      BY <2>19, Zenon DEF Accumulate
    <3> HIDE DEF new, stats
    <3> QED
      BY <2>10, <3>1
  <2>12. [acc.eng.stats.closed EXCEPT ![d] = @ + 1] \in [Dispositions -> Nat]
    BY <2>5, <2>6, <2>9 DEF Books
  <2>13. acc.eng.stats.connections \in Nat
    BY DEF AccIs, Books
  <2> HIDE DEF old, new, stats
  <2>14. Books([drained.eng EXCEPT !.stats = stats])
    BY <2>9, <2>10, <2>11, <2>12, <2>13 DEF Books
  <2> DEFINE e == [drained.eng EXCEPT !.stats = stats]
  <2>15. e.stats = stats /\ e.conns = drained.eng.conns
    BY <2>9 DEF Books
  <2>16. Finalize(acc, events) = [drained EXCEPT !.eng = e] /\ Books(e)
    BY <2>8, <2>14
  <2> HIDE DEF e
  <2>17. /\ Finalize(acc, events).conn = drained.conn /\ Finalize(acc, events).eng = e
         /\ AccIs(Finalize(acc, events), W, C, S)
    BY <2>5, <2>16 DEF AccIs
  <2>18. Handled(Finalize(acc, events), acc)
    BY <1>2, <2>5, <2>6, <2>7, <2>10, <2>11, <2>15, <2>17 DEF Handled
  <2> QED
    BY <2>5, <2>7, <2>17, <2>18
<1> QED
  BY <1>1, <1>2 DEF AccIs, ConnIs

-----------------------------------------------------------------------------
(* Sessions.  out is what the sink was handed; ids are the session ids of  *)
(* the connections that are tracked and own names the connection behind a  *)
(* key; K holds the connections that were seen.                            *)

\* Events go out under one session exactly when they are of one connection.
Apart(out) ==
    \A i, j \in DOMAIN out : out[i].sid = out[j].sid <=> out[i].ev.req[1] = out[j].ev.req[1]

\* Ids in use lie below the next synthetic one; a tracked connection has an id
\* exactly when an event of it went out.
Sessions(used, next, out, ids, own, K) ==
    /\ next \in Int /\ next >= SynthBase
    /\ \A u \in used : u \in Nat /\ u < next
    /\ IsSeq(out) /\ Apart(out)
    /\ \A i \in DOMAIN out : out[i].sid \in used /\ out[i].ev.req[1] \in K
    /\ \A k \in DOMAIN ids : own[k] \in K
    /\ \A k \in DOMAIN ids : ids[k] = NoSeq => \A i \in DOMAIN out : out[i].ev.req[1] # own[k]
    /\ \A k \in DOMAIN ids : ids[k] # NoSeq =>
          \E i \in DOMAIN out : out[i].sid = ids[k] /\ out[i].ev.req[1] = own[k]
    /\ \A j, k \in DOMAIN ids : own[j] = own[k] => j = k

\* The events of one connection under an id that is its own.
LEMMA SessionsGrow ==
    ASSUME NEW used, NEW next, NEW out, NEW ids, NEW own, NEW K,
           Sessions(used, next, out, ids, own, K), NEW k \in DOMAIN ids,
           NEW sid \in Nat, NEW next2 \in Int, next <= next2, sid < next2,
           \A i \in DOMAIN out : out[i].sid = sid <=> out[i].ev.req[1] = own[k],
           NEW more, IsSeq(more), more # <<>>,
           \A i \in DOMAIN more : more[i].sid = sid /\ more[i].ev.req[1] = own[k],
           NEW ids2, DOMAIN ids2 = DOMAIN ids, ids2[k] = sid,
           \A j \in DOMAIN ids : j # k => ids2[j] = ids[j]
    PROVE  Sessions(used \cup {sid}, next2, out \o more, ids2, own, K)
<1> DEFINE out2 == out \o more
<1>1. IsSeq(out) /\ Len(out) \in Nat /\ DOMAIN out = 1 .. Len(out)
  BY SeqHas DEF Sessions
<1>2. Len(more) \in Nat /\ DOMAIN more = 1 .. Len(more) /\ 1 \in DOMAIN more
  BY SeqHas, SeqTail
<1>3. /\ IsSeq(out2) /\ DOMAIN out2 = 1 .. Len(out) + Len(more)
      /\ \A i \in 1 .. Len(out) : out2[i] = out[i]
      /\ \A i \in 1 .. Len(more) : out2[Len(out) + i] = more[i]
  BY <1>1, SeqConcat
<1> HIDE DEF out2
<1>4. \A i \in DOMAIN out : i \in DOMAIN out2 /\ out2[i] = out[i]
  BY <1>1, <1>2, <1>3
<1>5. \A i \in DOMAIN out2 : i \notin DOMAIN out => out2[i].sid = sid /\ out2[i].ev.req[1] = own[k]
  <2> SUFFICES ASSUME NEW i \in DOMAIN out2, i \notin DOMAIN out
               PROVE  out2[i].sid = sid /\ out2[i].ev.req[1] = own[k]
    OBVIOUS
  <2>1. i - Len(out) \in 1 .. Len(more) /\ Len(out) + (i - Len(out)) = i
    BY <1>1, <1>2, <1>3
  <2>2. out2[i] = more[i - Len(out)]
    BY <1>3, <2>1
  <2> QED
    BY <1>2, <2>1, <2>2
<1>6. \E i \in DOMAIN out2 : out2[i].sid = sid /\ out2[i].ev.req[1] = own[k]
  <2>1. Len(out) + 1 \in DOMAIN out2 /\ Len(out) + 1 \notin DOMAIN out
    BY <1>1, <1>2, <1>3
  <2> QED
    BY <1>5, <2>1
<1>7. Apart(out2)
  <2> SUFFICES ASSUME NEW i \in DOMAIN out2, NEW j \in DOMAIN out2
               PROVE  out2[i].sid = out2[j].sid <=> out2[i].ev.req[1] = out2[j].ev.req[1]
    BY DEF Apart
  <2>1. CASE i \in DOMAIN out /\ j \in DOMAIN out
    BY <1>4, <2>1 DEF Sessions, Apart
  <2>2. CASE i \in DOMAIN out /\ j \notin DOMAIN out
    BY <1>4, <1>5, <2>2
  <2>3. CASE i \notin DOMAIN out /\ j \in DOMAIN out
    BY <1>4, <1>5, <2>3
  <2>4. CASE i \notin DOMAIN out /\ j \notin DOMAIN out
    BY <1>5, <2>4
  <2> QED
    BY <2>1, <2>2, <2>3, <2>4
<1>8. next2 \in Int /\ next2 >= SynthBase /\ \A u \in used \cup {sid} : u \in Nat /\ u < next2
  <2>1. SynthBase \in Nat
    BY EngineAssumption
  <2> QED
    BY <2>1 DEF Sessions
<1>9. \A i \in DOMAIN out2 : out2[i].sid \in used \cup {sid} /\ out2[i].ev.req[1] \in K
  BY <1>4, <1>5 DEF Sessions
<1>10. \A j \in DOMAIN ids2 : ids2[j] = NoSeq => \A i \in DOMAIN out2 : out2[i].ev.req[1] # own[j]
  <2> SUFFICES ASSUME NEW j \in DOMAIN ids2, ids2[j] = NoSeq, NEW i \in DOMAIN out2
               PROVE  out2[i].ev.req[1] # own[j]
    OBVIOUS
  <2>1. j # k
    BY DEF NoSeq
  <2>2. ids[j] = NoSeq /\ own[j] # own[k] /\ j \in DOMAIN ids
    BY <2>1 DEF Sessions
  <2>3. CASE i \in DOMAIN out
    BY <1>4, <2>2, <2>3 DEF Sessions
  <2>4. CASE i \notin DOMAIN out
    BY <1>5, <2>2, <2>4
  <2> QED
    BY <2>3, <2>4
<1>11. \A j \in DOMAIN ids2 : ids2[j] # NoSeq =>
          \E i \in DOMAIN out2 : out2[i].sid = ids2[j] /\ out2[i].ev.req[1] = own[j]
  <2> SUFFICES ASSUME NEW j \in DOMAIN ids2, ids2[j] # NoSeq
               PROVE  \E i \in DOMAIN out2 : out2[i].sid = ids2[j] /\ out2[i].ev.req[1] = own[j]
    OBVIOUS
  <2>1. CASE j = k
    BY <1>6, <2>1
  <2>2. CASE j # k
    <3>1. PICK i \in DOMAIN out : out[i].sid = ids[j] /\ out[i].ev.req[1] = own[j]
      BY <2>2 DEF Sessions
    <3> QED
      BY <1>4, <2>2, <3>1
  <2> QED
    BY <2>1, <2>2
<1>12. (\A j \in DOMAIN ids2 : own[j] \in K) /\ (\A i, j \in DOMAIN ids2 : own[i] = own[j] => i = j)
  BY DEF Sessions
<1>13. Sessions(used \cup {sid}, next2, out2, ids2, own, K)
  BY <1>3, <1>7, <1>8, <1>9, <1>10, <1>11, <1>12 DEF Sessions
<1> QED
  BY <1>13 DEF out2

\* The same sessions under the same ids.
LEMMA SessionsSame ==
    ASSUME NEW used, NEW next, NEW out, NEW ids, NEW own, NEW K,
           Sessions(used, next, out, ids, own, K),
           NEW ids2, DOMAIN ids2 \subseteq DOMAIN ids, \A j \in DOMAIN ids2 : ids2[j] = ids[j]
    PROVE  Sessions(used, next, out, ids2, own, K)
BY DEF Sessions

\* A connection that was not seen before has no session yet.
LEMMA SessionsOpen ==
    ASSUME NEW used, NEW next, NEW out, NEW ids, NEW own, NEW K,
           Sessions(used, next, out, ids, own, K),
           NEW k, k \notin DOMAIN ids, NEW c, c \notin K,
           NEW own2, own2[k] = c, \A j \in DOMAIN ids : own2[j] = own[j],
           NEW ids2, DOMAIN ids2 = DOMAIN ids \cup {k}, ids2[k] = NoSeq,
           \A j \in DOMAIN ids : ids2[j] = ids[j]
    PROVE  Sessions(used, next, out, ids2, own2, K \cup {c})
<1>1. \A j \in DOMAIN ids2 : ids2[j] = NoSeq => \A i \in DOMAIN out : out[i].ev.req[1] # own2[j]
  BY DEF Sessions
<1>2. \A j \in DOMAIN ids2 : ids2[j] # NoSeq =>
          \E i \in DOMAIN out : out[i].sid = ids2[j] /\ out[i].ev.req[1] = own2[j]
  BY DEF Sessions
<1>3. /\ \A j \in DOMAIN ids2 : own2[j] \in K \cup {c}
      /\ \A i, j \in DOMAIN ids2 : own2[i] = own2[j] => i = j
  BY DEF Sessions
<1>4. \A i \in DOMAIN out : out[i].sid \in used /\ out[i].ev.req[1] \in K \cup {c}
  BY DEF Sessions
<1> QED
  BY <1>1, <1>2, <1>3, <1>4 DEF Sessions

\* The id DrainEvents chooses is the connection's own.
LEMMA DrainSessions ==
    ASSUME NEW W, NEW C, NEW S, NEW acc, AccIs(acc, W, C, S), NEW ids, NEW own, NEW K,
           Sessions(acc.eng.used, acc.eng.synthetic_next, acc.out, ids, own, K),
           NEW k \in DOMAIN ids, ids[k] = acc.conn.session_id, NEW events, EventsOf(events, {own[k]}),
           NEW ids2, DOMAIN ids2 = DOMAIN ids, ids2[k] = DrainEvents(acc, events).conn.session_id,
           \A j \in DOMAIN ids : j # k => ids2[j] = ids[j]
    PROVE  LET r == DrainEvents(acc, events)
           IN  Sessions(r.eng.used, r.eng.synthetic_next, r.out, ids2, own, K)
<1> DEFINE r == DrainEvents(acc, events)
           used == acc.eng.used
           next == acc.eng.synthetic_next
<1>1. CASE events = <<>>
  <2>1. r = acc
    BY <1>1 DEF DrainEvents
  <2>2. DOMAIN ids2 \subseteq DOMAIN ids /\ \A j \in DOMAIN ids2 : ids2[j] = ids[j]
    BY <2>1
  <2> HIDE DEF r
  <2>3. Sessions(acc.eng.used, acc.eng.synthetic_next, acc.out, ids2, own, K)
    BY <2>2, SessionsSame
  <2> QED
    BY <2>1, <2>3 DEF r
<1>2. CASE events # <<>>
  <2> DEFINE fresh == acc.conn.session_id = NoSeq
             thread == acc.conn.dec.thread_id
             mine == ChooseId(used, thread)
             sid == IF ~fresh THEN acc.conn.session_id ELSE IF mine THEN thread ELSE next
             next2 == IF fresh /\ ~mine THEN next + 1 ELSE next
             more == [i \in DOMAIN events |-> [sid |-> sid, ev |-> events[i]]]
  <2>1. r = [conn |-> [acc.conn EXCEPT !.session_id = sid],
             eng  |-> [acc.eng EXCEPT !.used = @ \cup {sid}, !.synthetic_next = next2],
             out  |-> acc.out \o more]
    BY <1>2 DEF DrainEvents
  <2> HIDE DEF r
  <2>2. thread \in {NoSeq} \cup (0 .. SynthBase - 1)
    BY DEF AccIs, ConnIs, DecoderOf
  <2>3. next \in Int /\ next >= SynthBase /\ SynthBase \in Nat /\ \A u \in used : u \in Nat /\ u < next
    BY EngineAssumption DEF Sessions
  <2>4. ~fresh => acc.conn.session_id \in used /\
            \E i \in DOMAIN acc.out : acc.out[i].sid = acc.conn.session_id /\ acc.out[i].ev.req[1] = own[k]
    BY DEF Sessions
  <2>5. mine => thread \in 0 .. SynthBase - 1 /\ thread \notin used
    BY <2>2 DEF ChooseId
  <2>6. /\ sid \in Nat /\ next2 \in Int /\ next <= next2 /\ sid < next2
        /\ fresh => sid \notin used
        /\ ~fresh => sid = acc.conn.session_id
    <3> HIDE DEF fresh, thread, mine, used, next
    <3>1. CASE ~fresh
      BY <2>3, <2>4, <3>1
    <3>2. CASE fresh /\ mine
      BY <2>3, <2>5, <3>2
    <3>3. CASE fresh /\ ~mine
      BY <2>3, <3>3
    <3> QED
      BY <3>1, <3>2, <3>3
  <2>7. IsSeq(events) /\ Len(events) \in Nat /\ DOMAIN events = 1 .. Len(events)
        /\ \A i \in DOMAIN events : events[i].req[1] = own[k]
    BY SeqHas DEF EventsOf
  <2>8. 1 \in DOMAIN events
    BY <1>2, <2>7, SeqTail
  <2> HIDE DEF thread, mine, sid, next2
  <2>9. /\ IsSeq(more) /\ more # <<>>
        /\ \A i \in DOMAIN more : more[i].sid = sid /\ more[i].ev.req[1] = own[k]
    <3>1. \A i \in DOMAIN more : more[i].sid = sid /\ more[i].ev.req[1] = own[k]
      BY <2>7
    <3>2. more \in [1 .. Len(events) -> {more[i] : i \in DOMAIN more}]
      BY <2>7
    <3>3. DOMAIN more = 1 .. Len(events)
      BY <2>7
    <3> HIDE DEF more
    <3>4. more \in Seq({more[i] : i \in DOMAIN more})
      BY <2>7, <3>2
    <3>5. more # <<>>
      BY <2>7, <2>8, <3>3
    <3> QED
      BY <3>1, <3>4, <3>5 DEF IsSeq
  <2> HIDE DEF more
  <2>10. \A i \in DOMAIN acc.out : acc.out[i].sid = sid <=> acc.out[i].ev.req[1] = own[k]
    <3>1. CASE fresh
      BY <2>6, <3>1 DEF Sessions
    <3>2. CASE ~fresh
      BY <2>4, <2>6, <3>2 DEF Sessions, Apart
    <3> QED
      BY <3>1, <3>2
  <2>11. /\ r.conn.session_id = sid /\ r.out = acc.out \o more
         /\ r.eng.used = used \cup {sid} /\ r.eng.synthetic_next = next2
    BY <2>1 DEF AccIs, ConnIs, Books
  <2>12. ids2[k] = sid
    BY <2>11 DEF r
  <2>13. Sessions(used \cup {sid}, next2, acc.out \o more, ids2, own, K)
    BY <2>6, <2>9, <2>10, <2>12, SessionsGrow
  <2> QED
    BY <2>11, <2>13 DEF r
<1> QED
  BY <1>1, <1>2

\* Finalize hands out what is left of the connection under its own id.
LEMMA FinalizeSessions ==
    ASSUME NEW W, NEW C, NEW S, NEW acc, AccIs(acc, W, C, S), NEW ids, NEW own, NEW K,
           Sessions(acc.eng.used, acc.eng.synthetic_next, acc.out, ids, own, K),
           NEW k \in DOMAIN ids, ids[k] = acc.conn.session_id, W = {own[k]},
           NEW events, EventsOf(events, W),
           NEW ids2, DOMAIN ids2 = DOMAIN ids, ids2[k] = Finalize(acc, events).conn.session_id,
           \A j \in DOMAIN ids : j # k => ids2[j] = ids[j]
    PROVE  LET r == Finalize(acc, events)
           IN  Sessions(r.eng.used, r.eng.synthetic_next, r.out, ids2, own, K)
<1> DEFINE r == Finalize(acc, events)
<1>1. CASE acc.conn.finished
  <2>1. r = acc
    BY <1>1 DEF Finalize
  <2>2. DOMAIN ids2 \subseteq DOMAIN ids /\ \A j \in DOMAIN ids2 : ids2[j] = ids[j]
    BY <2>1
  <2> HIDE DEF r
  <2>3. Sessions(acc.eng.used, acc.eng.synthetic_next, acc.out, ids2, own, K)
    BY <2>2, SessionsSame
  <2> QED
    BY <2>1, <2>3 DEF r
<1>2. CASE ~acc.conn.finished
  <2> DEFINE flushed == FinishDecoder([dec |-> acc.conn.dec, out |-> events])
             c == [acc.conn EXCEPT !.finished = TRUE, !.dec = flushed.dec]
             base == [acc EXCEPT !.conn = c]
             drained == DrainEvents(base, flushed.out)
  <2>1. ReadOf(flushed, W, C, S)
    <3>1. ReadOf([dec |-> acc.conn.dec, out |-> events], W, C, S)
      BY DEF AccIs, ConnIs, ReadOf
    <3> QED
      BY <3>1, FinishOf
  <2>2. r = [drained EXCEPT !.eng.stats = CountClosed(@, drained.conn)]
    BY <1>2 DEF Finalize
  <2> HIDE DEF flushed, r
  <2>3. ConnIs(c, W, C, S) /\ c.session_id = acc.conn.session_id
    BY <2>1 DEF AccIs, ConnIs, ReadOf
  <2> HIDE DEF c
  <2>4. AccIs(base, W, C, S) /\ base.conn = c /\ base.eng = acc.eng /\ base.out = acc.out
    BY <2>3 DEF AccIs
  <2> HIDE DEF base
  <2>5. AccIs(drained, W, C, S)
    BY <2>4, DrainKeeps
  <2> DEFINE stats == CountClosed(drained.eng.stats, drained.conn)
  <2> HIDE DEF drained
  <2>6. r = [drained EXCEPT !.eng = [drained.eng EXCEPT !.stats = stats]]
    BY <2>2
  <2> HIDE DEF stats
  <2>7. /\ r.eng.used = drained.eng.used /\ r.eng.synthetic_next = drained.eng.synthetic_next
        /\ r.out = drained.out /\ r.conn = drained.conn
    BY <2>5, <2>6 DEF AccIs, Books
  <2>8. ids2[k] = DrainEvents(base, flushed.out).conn.session_id
    BY <2>7 DEF r, drained
  <2>9. EventsOf(flushed.out, {own[k]}) /\ ids[k] = base.conn.session_id
    BY <2>1, <2>3, <2>4 DEF ReadOf
  <2>10. Sessions(base.eng.used, base.eng.synthetic_next, base.out, ids, own, K)
    BY <2>4
  <2>11. Sessions(drained.eng.used, drained.eng.synthetic_next, drained.out, ids2, own, K)
    BY <2>4, <2>8, <2>9, <2>10, DrainSessions DEF drained
  <2> QED
    BY <2>7, <2>11 DEF r
<1> QED
  BY <1>1, <1>2 DEF AccIs, ConnIs

-----------------------------------------------------------------------------
(* A segment of a connection that is tracked.                              *)

\* What the code knows of a frame's payload.
FrameIs(f, C, S) ==
    /\ f.dir \in {"client", "server"} /\ f.seq \in Int
    /\ f.data \in Seq(IF f.dir = "client" THEN C ELSE S)

\* The chunks a stream delivers, decoded one by one, make events of the
\* connection alone.
LEMMA ReadAll ==
    ASSUME NEW W, NEW C, NEW S, Sources(W, C, S), NEW conn, ConnIs(conn, W, C, S),
           NEW f, FrameIs(f, C, S), NEW fed, ChunksOf(fed.out, IF f.dir = "client" THEN C ELSE S)
    PROVE  /\ DecodeAll(conn, f, fed).st = fed.st
           /\ ReadOf(DecodeAll(conn, f, fed).read, W, C, S)
<1> DEFINE len == Len(fed.out)
           q == fed.out
           base == [dec |-> conn.dec, out |-> <<>>]
<1>1. len \in Nat /\ DOMAIN q = 1 .. len
  BY SeqHas DEF ChunksOf
<1> HIDE DEF len
<1>2. PICK u : Rounds(u, "chunk", f.dir, base, q, len) /\ DecodeAll(conn, f, fed) = [st |-> fed.st, read |-> u[len]]
  BY <1>1, ChunkRounds
<1>3. ReadOf(base, W, C, S)
  BY SeqEmpty DEF ReadOf, ConnIs, EventsOf
<1>4. ASSUME NEW n \in 1 .. len, ReadOf(u[n - 1], W, C, S) PROVE ReadOf(u[n], W, C, S)
  <2>1. u[n] = DecodeChunk(u[n - 1], f.dir, q[n].ts, q[n].data)
    BY <1>2 DEF Rounds, Round
  <2>2. f.dir \in {"client", "server"} /\ q[n].data \in Seq(IF f.dir = "client" THEN C ELSE S)
    BY <1>1 DEF ChunksOf, FrameIs
  <2> QED
    BY <1>4, <2>1, <2>2, ChunkOf
<1> DEFINE N == {n \in Nat : n <= len => ReadOf(u[n], W, C, S)}
<1>5. 0 \in N
  BY <1>2, <1>3 DEF Rounds
<1>6. ASSUME NEW n \in Nat, n \in N PROVE n + 1 \in N
  <2> SUFFICES ASSUME n + 1 <= len PROVE ReadOf(u[n + 1], W, C, S)
    OBVIOUS
  <2>1. ReadOf(u[n], W, C, S) /\ n + 1 \in 1 .. len /\ (n + 1) - 1 = n
    BY <1>1, <1>6
  <2> QED
    BY <1>4, <2>1
<1> HIDE DEF N
<1>7. len \in N
  BY <1>1, <1>5, <1>6, NatSetInduction
<1>8. ReadOf(u[len], W, C, S)
  BY <1>1, <1>7 DEF N
<1> QED
  BY <1>2, <1>8

\* The origin of the client's stream, as a SYN or an earlier one sets it.
Origin(c2s, f, before) ==
    /\ f.dir = "client" /\ f.syn => c2s.started /\ c2s.isn = (f.seq + 1) % M
    /\ ~(f.dir = "client" /\ f.syn) /\ before.started => c2s.started /\ c2s.isn = before.isn

\* The stream a segment goes to, started over by a SYN.
LEMMA StreamOfIs ==
    ASSUME NEW W, NEW C, NEW S, NEW conn, ConnIs(conn, W, C, S), NEW f, FrameIs(f, C, S)
    PROVE  /\ StreamIs(StreamOf(conn, f), IF f.dir = "client" THEN C ELSE S)
           /\ f.dir = "client" => Origin(StreamOf(conn, f), f, conn.c2s)
<1>1. f.seq \in Int /\ StreamIs(conn.c2s, C) /\ StreamIs(conn.s2c, S)
  BY DEF FrameIs, ConnIs
<1>2. \A X, st : /\ StreamIs(StreamSyn(st, f.seq), X)
                 /\ StreamSyn(st, f.seq).started /\ StreamSyn(st, f.seq).isn = (f.seq + 1) % M
  BY <1>1, SynGives
<1> QED
  BY <1>1, <1>2 DEF StreamOf, Origin

\* The connection with what the segment brought, and the events it released.
Segmented(base, events, acc, ts, f, W, C, S) ==
    /\ OnSegment(acc, ts, f) = CloseOrDrain(base, f, events)
    /\ AccIs(base, W, C, S) /\ EventsOf(events, W)
    /\ base.out = acc.out /\ base.eng.conns = acc.eng.conns
    /\ base.eng.used = acc.eng.used /\ base.eng.synthetic_next = acc.eng.synthetic_next
    /\ base.eng.stats.connections = acc.eng.stats.connections
    /\ base.eng.stats.closed = acc.eng.stats.closed
    /\ base.conn.session_id = acc.conn.session_id /\ base.conn.finished = FALSE
    /\ Origin(base.conn.c2s, f, acc.conn.c2s)

\* A segment goes through its stream and the decoder; what follows is closing
\* the connection or handing out its events.
LEMMA SegmentIs ==
    ASSUME NEW W, NEW C, NEW S, Sources(W, C, S), NEW acc, AccIs(acc, W, C, S), ~acc.conn.finished,
           NEW f, FrameIs(f, C, S), NEW ts
    PROVE  \E base, events : Segmented(base, events, acc, ts, f, W, C, S)
<1> DEFINE st == StreamOf(acc.conn, f)
           fed == StreamData(st, ts, f.seq, f.data)
           r == DecodeAll(acc.conn, f, fed)
           conn == AfterSegment(acc.conn, f, r.st, r.read.dec)
           base == Versioned(acc, conn)
           events == r.read.out
           X == IF f.dir = "client" THEN C ELSE S
<1>1. ConnIs(acc.conn, W, C, S) /\ Books(acc.eng) /\ DOMAIN acc = {"conn", "eng", "out"}
  BY DEF AccIs
<1>2. OnSegment(acc, ts, f) = CloseOrDrain(base, f, events)
  BY DEF OnSegment, AfterRead
<1>3. StreamIs(st, X) /\ (f.dir = "client" => Origin(st, f, acc.conn.c2s))
  BY <1>1, StreamOfIs
<1> HIDE DEF st
<1>4. f.seq \in Int /\ f.data \in Seq(X) /\ f.dir \in {"client", "server"}
  BY DEF FrameIs
<1>5. /\ StreamIs(fed.st, X) /\ ChunksOf(fed.out, X)
      /\ st.started => fed.st.started /\ fed.st.isn = st.isn
  <2> HIDE DEF X
  <2> QED
    BY <1>3, <1>4, DataGives
<1> HIDE DEF fed
<1>6. r.st = fed.st /\ ReadOf(r.read, W, C, S)
  BY <1>1, <1>5, ReadAll
<1> HIDE DEF r
<1>7. f.dir = "client" => Origin(r.st, f, acc.conn.c2s)
  BY <1>3, <1>5, <1>6 DEF Origin
<1>8. /\ ConnIs(conn, W, C, S) /\ Origin(conn.c2s, f, acc.conn.c2s)
      /\ conn.session_id = acc.conn.session_id /\ conn.finished = FALSE
  <2>1. DecoderOf(r.read.dec, W, C, S)
    BY <1>6 DEF ReadOf
  <2>2. CASE f.dir = "client"
    <3>1. StreamIs(r.st, C)
      BY <1>5, <1>6, <2>2
    <3>2. PICK x, y : conn = [acc.conn EXCEPT !.dec = r.read.dec, !.c2s = r.st, !.s2c = acc.conn.s2c,
                                              !.fin_client = x, !.fin_server = y]
      BY <2>2 DEF AfterSegment
    <3> HIDE DEF conn
    <3>3. /\ ConnIs(conn, W, C, S) /\ conn.c2s = r.st
          /\ conn.session_id = acc.conn.session_id /\ conn.finished = acc.conn.finished
      BY ONLY <1>1, <2>1, <3>1, <3>2 DEF ConnIs
    <3> QED
      BY <1>1, <1>7, <2>2, <3>3 DEF ConnIs
  <2>3. CASE f.dir = "server"
    <3>1. StreamIs(r.st, S)
      BY <1>5, <1>6, <2>3
    <3>2. PICK x, y : conn = [acc.conn EXCEPT !.dec = r.read.dec, !.c2s = acc.conn.c2s, !.s2c = r.st,
                                              !.fin_client = x, !.fin_server = y]
      BY <2>3 DEF AfterSegment
    <3> HIDE DEF conn
    <3>3. /\ ConnIs(conn, W, C, S) /\ conn.c2s = acc.conn.c2s
          /\ conn.session_id = acc.conn.session_id /\ conn.finished = acc.conn.finished
      BY ONLY <1>1, <2>1, <3>1, <3>2 DEF ConnIs
    <3> QED
      BY <1>1, <2>3, <3>3 DEF ConnIs, Origin
  <2> QED
    BY <1>4, <2>2, <2>3
<1> HIDE DEF conn
<1>9. /\ AccIs(base, W, C, S)
      /\ base.out = acc.out /\ base.eng.conns = acc.eng.conns
      /\ base.eng.used = acc.eng.used /\ base.eng.synthetic_next = acc.eng.synthetic_next
      /\ base.eng.stats.connections = acc.eng.stats.connections
      /\ base.eng.stats.closed = acc.eng.stats.closed
      /\ base.conn.session_id = conn.session_id /\ base.conn.finished = conn.finished
      /\ base.conn.c2s = conn.c2s
  <2> DEFINE c == [conn EXCEPT !.version_recorded = @ \/ conn.dec.server_version # None]
             stats == RecordVersion(acc.eng.stats, conn)
             e == [acc.eng EXCEPT !.stats = stats]
  <2>1. base = [acc EXCEPT !.conn = c, !.eng = e]
    BY DEF Versioned
  <2>2. /\ ConnIs(c, W, C, S) /\ c.session_id = conn.session_id /\ c.finished = conn.finished
        /\ c.c2s = conn.c2s
    <3>1. PICK x : c = [conn EXCEPT !.version_recorded = x]
      OBVIOUS
    <3> HIDE DEF c
    <3> QED
      BY ONLY <1>8, <3>1 DEF ConnIs
  <2>3. \/ stats = acc.eng.stats
        \/ \E x : stats = [acc.eng.stats EXCEPT !.versions = x]
    BY Zenon DEF RecordVersion
  <2>4. /\ {"connections", "closed"} \subseteq DOMAIN stats
        /\ stats.connections = acc.eng.stats.connections /\ stats.closed = acc.eng.stats.closed
    <3> HIDE DEF stats
    <3> QED
      BY <1>1, <2>3 DEF Books
  <2> HIDE DEF stats
  <2>5. /\ Books(e) /\ e.conns = acc.eng.conns /\ e.used = acc.eng.used
        /\ e.synthetic_next = acc.eng.synthetic_next /\ e.stats = stats
    BY <1>1, <2>4 DEF Books
  <2> HIDE DEF c, e, base
  <2> QED
    BY <1>1, <2>1, <2>2, <2>4, <2>5 DEF AccIs
<1>10. EventsOf(events, W)
  BY <1>6 DEF ReadOf
<1> HIDE DEF base, events
<1> QED
  BY <1>2, <1>8, <1>9, <1>10 DEF Segmented

-----------------------------------------------------------------------------
(* The counters of closed connections.                                     *)

\* There are finitely many dispositions.
LEMMA DispositionsFinite == IsFiniteSet(Dispositions)
<1>1. \A x : IsFiniteSet({x})
  BY FS_Singleton
<1>2. \A S, T : IsFiniteSet(S) /\ IsFiniteSet(T) => IsFiniteSet(S \cup T)
  BY FS_Union
<1> DEFINE A == {"decoded"} \cup {"tls"}
           B == A \cup {"compressed"}
           C == B \cup {"midstream"}
           D == C \cup {"broken"}
<1>3. IsFiniteSet(A)
  BY <1>1, <1>2
<1> HIDE DEF A
<1>4. IsFiniteSet(B)
  BY <1>1, <1>2, <1>3
<1> HIDE DEF B
<1>5. IsFiniteSet(C)
  BY <1>1, <1>2, <1>4
<1> HIDE DEF C
<1>6. IsFiniteSet(D)
  BY <1>1, <1>2, <1>5
<1>7. Dispositions = D
  BY DEF Dispositions, A, B, C
<1> QED
  BY <1>6, <1>7

\* One more under one of them is one more in total.
LEMMA ClosedOneMore ==
    ASSUME NEW m, NEW m2, NEW d \in Dispositions, \A y \in Dispositions : m[y] \in Int,
           m2[d] = m[d] + 1, \A y \in Dispositions \ {d} : m2[y] = m[y]
    PROVE  Total(m2, Dispositions) = Total(m, Dispositions) + 1
<1>1. \A y \in Dispositions : m[y] \in Int /\ m2[y] \in Int
  OBVIOUS
<1>2. d \in Dispositions /\ \A y \in Dispositions \ {d} : m2[y] = m[y]
  OBVIOUS
<1>3. Total(m2, Dispositions) = Total(m, Dispositions) + m2[d] - m[d]
  BY ONLY <1>1, <1>2, DispositionsFinite, TotalUpdate
<1>4. Total(m, Dispositions) \in Int
  BY ONLY <1>1, DispositionsFinite, TotalSplit
<1> QED
  BY <1>3, <1>4

\* The total of the counters, and of the counters after one connection more.
LEMMA ClosedTotal ==
    ASSUME NEW closed \in [Dispositions -> Nat]
    PROVE  /\ Total(closed, Dispositions) \in Nat
           /\ \A d \in Dispositions :
                Total([closed EXCEPT ![d] = @ + 1], Dispositions) = Total(closed, Dispositions) + 1
<1>1. Total(closed, Dispositions) \in Nat
  BY DispositionsFinite, TotalNat
<1>2. ASSUME NEW d \in Dispositions, NEW more, more = [closed EXCEPT ![d] = @ + 1]
      PROVE  Total(more, Dispositions) = Total(closed, Dispositions) + 1
  <2>1. /\ \A y \in Dispositions : closed[y] \in Int
        /\ \A y \in Dispositions \ {d} : more[y] = closed[y]
        /\ more[d] = closed[d] + 1
    BY <1>2
  <2> QED
    BY <2>1, ClosedOneMore
<1> QED
  BY <1>1, <1>2

-----------------------------------------------------------------------------
(* A segment of a connection, to its end.                                  *)

\* A connection that is not finished takes a segment.
LEMMA SegmentKeeps ==
    ASSUME NEW W, NEW C, NEW S, Sources(W, C, S), NEW acc, AccIs(acc, W, C, S), ~acc.conn.finished,
           NEW f, FrameIs(f, C, S), NEW ts
    PROVE  LET r == OnSegment(acc, ts, f)
           IN  AccIs(r, W, C, S) /\ Handled(r, acc) /\ Origin(r.conn.c2s, f, acc.conn.c2s)
<1>1. PICK base, events : Segmented(base, events, acc, ts, f, W, C, S)
  BY SegmentIs
<1> DEFINE r == OnSegment(acc, ts, f)
<1>2. r = Finalize(base, events) \/ r = DrainEvents(base, events)
  BY <1>1 DEF CloseOrDrain, Segmented
<1> HIDE DEF r
<1>3. AccIs(r, W, C, S) /\ Handled(r, base) /\ r.conn.c2s = base.conn.c2s
  BY <1>1, <1>2, FinalizeKeeps, DrainKeeps DEF Segmented
<1>4. acc.conn.finished = FALSE
  BY DEF AccIs, ConnIs
<1>5. Handled(r, acc)
  BY <1>1, <1>3, <1>4 DEF Handled, Segmented
<1> QED
  BY <1>1, <1>3, <1>5 DEF r, Segmented

\* Its events go out under the session id that is its own.
LEMMA SegmentSessions ==
    ASSUME NEW W, NEW C, NEW S, Sources(W, C, S), NEW acc, AccIs(acc, W, C, S), ~acc.conn.finished,
           NEW f, FrameIs(f, C, S), NEW ts, NEW ids, NEW own, NEW K,
           Sessions(acc.eng.used, acc.eng.synthetic_next, acc.out, ids, own, K),
           NEW k \in DOMAIN ids, ids[k] = acc.conn.session_id, W = {own[k]},
           NEW ids2, DOMAIN ids2 = DOMAIN ids, ids2[k] = OnSegment(acc, ts, f).conn.session_id,
           \A j \in DOMAIN ids : j # k => ids2[j] = ids[j]
    PROVE  LET r == OnSegment(acc, ts, f)
           IN  Sessions(r.eng.used, r.eng.synthetic_next, r.out, ids2, own, K)
<1>1. PICK base, events : Segmented(base, events, acc, ts, f, W, C, S)
  BY SegmentIs
<1>2. Sessions(base.eng.used, base.eng.synthetic_next, base.out, ids, own, K) /\ ids[k] = base.conn.session_id
  BY <1>1 DEF Segmented
<1>3. AccIs(base, W, C, S) /\ EventsOf(events, W)
  BY <1>1 DEF Segmented
<1>8. EventsOf(events, {own[k]})
  BY <1>3
<1> DEFINE r == OnSegment(acc, ts, f)
<1>4. r = Finalize(base, events) \/ r = DrainEvents(base, events)
  BY <1>1 DEF Segmented, CloseOrDrain
<1>5. ids2[k] = r.conn.session_id
  OBVIOUS
<1> HIDE DEF r
<1>6. CASE r = Finalize(base, events)
  <2>1. ids2[k] = Finalize(base, events).conn.session_id
    BY <1>5, <1>6
  <2>2. LET x == Finalize(base, events)
        IN  Sessions(x.eng.used, x.eng.synthetic_next, x.out, ids2, own, K)
    BY <1>2, <1>3, <2>1, FinalizeSessions
  <2> QED
    BY <1>6, <2>2 DEF r
<1>7. CASE r = DrainEvents(base, events)
  <2>1. ids2[k] = DrainEvents(base, events).conn.session_id
    BY <1>5, <1>7
  <2>2. LET x == DrainEvents(base, events)
        IN  Sessions(x.eng.used, x.eng.synthetic_next, x.out, ids2, own, K)
    BY <1>2, <1>3, <1>8, <2>1, DrainSessions
  <2> QED
    BY <1>7, <2>2 DEF r
<1> QED
  BY <1>4, <1>6, <1>7

-----------------------------------------------------------------------------
(* The engine.  acc holds it and what was handed to the sink; w names the  *)
(* connections whose segments an entry may have been given; t is the       *)
(* traffic.                                                                *)

\* The payloads of some frames, and of the clients and servers of connections.
CellsOf(frames) == UNION {{f.data[i] : i \in DOMAIN f.data} : f \in frames}

ClientCells(t, W) == CellsOf({f \in SegmentsOf(t) : f.dir = "client" /\ f.conn \in W})
ServerCells(t) == CellsOf({f \in SegmentsOf(t) : f.dir = "server"})

\* Every entry decodes segments of its own.
Entry(conn, W, t) == ConnIs(conn, W, ClientCells(t, W), ServerCells(t))

Live(conns) == {k \in DOMAIN conns : ~conns[k].finished}

\* Every connection is open or counted as closed.
Balanced(e) ==
    /\ IsFiniteSet(DOMAIN e.conns)
    /\ e.stats.connections = Total(e.stats.closed, Dispositions) + Cardinality(Live(e.conns))

\* The engine: its counters are in balance and its entries are connections.
EngineIs(acc, w, t) ==
    /\ DOMAIN acc = {"eng", "out"}
    /\ Books(acc.eng) /\ Balanced(acc.eng)
    /\ \A k \in DOMAIN acc.eng.conns : Entry(acc.eng.conns[k], w[k], t)

\* The sessions of its entries, each opened by the connection own names.
IdsOf(conns) == [k \in DOMAIN conns |-> conns[k].session_id]

OwnSessions(acc, own, K) ==
    Sessions(acc.eng.used, acc.eng.synthetic_next, acc.out, IdsOf(acc.eng.conns), own, K)

\* The counters closed2 come from closed by closing n connections at most.
Grown(closed2, closed, n) ==
    /\ closed2 \in [Dispositions -> Nat]
    /\ \A d \in Dispositions : closed2[d] >= closed[d]
    /\ Total(closed2, Dispositions) - Total(closed, Dispositions) <= n

\* An entry taken out to be worked on.
Taken(acc, k) == [conn |-> acc.eng.conns[k], eng |-> acc.eng, out |-> acc.out]

\* An entry that is taken out decodes its own cells.
LEMMA TakenIs ==
    ASSUME NEW acc, NEW w, NEW t, EngineIs(acc, w, t), NEW k \in DOMAIN acc.eng.conns
    PROVE  AccIs(Taken(acc, k), w[k], ClientCells(t, w[k]), ServerCells(t))
BY DEF EngineIs, AccIs, Entry, Taken

\* Handling an entry closes one connection at most.
LEMMA HandledGrows ==
    ASSUME NEW acc, Books(acc.eng), NEW r, Handled(r, acc)
    PROVE  Grown(r.eng.stats.closed, acc.eng.stats.closed, 1)
<1> DEFINE c == acc.eng.stats.closed
<1>1. c \in [Dispositions -> Nat]
  BY DEF Books
<1> HIDE DEF c
<1>2. Total(c, Dispositions) \in Nat
  BY <1>1, ClosedTotal
<1>3. CASE r.eng.stats.closed = c
  <2>1. Grown(c, c, 1)
    BY <1>1, <1>2 DEF Grown
  <2> QED
    BY <1>3, <2>1 DEF c
<1>4. ASSUME NEW d \in Dispositions, r.eng.stats.closed = [c EXCEPT ![d] = @ + 1]
      PROVE  Grown(r.eng.stats.closed, c, 1)
  <2> DEFINE more == [c EXCEPT ![d] = @ + 1]
  <2>1. more \in [Dispositions -> Nat] /\ \A x \in Dispositions : more[x] >= c[x]
    BY <1>1
  <2>2. Total(more, Dispositions) = Total(c, Dispositions) + 1
    BY <1>1, ClosedTotal
  <2> HIDE DEF more
  <2>3. Grown(more, c, 1)
    BY <1>2, <2>1, <2>2 DEF Grown
  <2> QED
    BY <1>4, <2>3 DEF more
<1> QED
  BY <1>3, <1>4 DEF Handled, c

\* The balance after an entry was handled, where L is what is live then.
LEMMA HandledBalance ==
    ASSUME NEW acc, NEW w, NEW t, EngineIs(acc, w, t), NEW k \in DOMAIN acc.eng.conns,
           NEW r, Handled(r, Taken(acc, k)), NEW L,
           L \ {k} = Live(acc.eng.conns) \ {k}, k \in L <=> ~r.conn.finished
    PROVE  r.eng.stats.connections = Total(r.eng.stats.closed, Dispositions) + Cardinality(L)
<1> DEFINE c == acc.eng.stats.closed
           L0 == Live(acc.eng.conns)
<1>1. /\ c \in [Dispositions -> Nat] /\ IsFiniteSet(DOMAIN acc.eng.conns)
      /\ acc.eng.stats.connections = Total(c, Dispositions) + Cardinality(L0)
      /\ acc.eng.stats.connections \in Nat
  BY DEF EngineIs, Books, Balanced
<1>2. IsFiniteSet(L0)
  BY <1>1, FS_Subset DEF Live
<1>3. k \in L0 <=> ~acc.eng.conns[k].finished
  BY DEF Live
<1>4. acc.eng.conns[k].finished \in BOOLEAN
  BY DEF EngineIs, Entry, ConnIs
<1> HIDE DEF c, L0
<1>5. Total(c, Dispositions) \in Nat /\ Cardinality(L0) \in Nat
  BY <1>1, <1>2, ClosedTotal, FS_CardinalityType
<1>6. /\ r.eng.stats.connections = acc.eng.stats.connections
      /\ \/ r.eng.stats.closed = c /\ r.conn.finished = acc.eng.conns[k].finished
         \/ /\ ~acc.eng.conns[k].finished /\ r.conn.finished
            /\ \E d \in Dispositions : r.eng.stats.closed = [c EXCEPT ![d] = @ + 1]
  BY DEF Handled, Taken, c
<1>7. L \ {k} = L0 \ {k}
  BY DEF L0
<1>8. CASE r.eng.stats.closed = c /\ r.conn.finished = acc.eng.conns[k].finished
  <2>1. L = L0
    BY <1>3, <1>7, <1>8
  <2> QED
    BY <1>1, <1>6, <1>8, <2>1
<1>9. ASSUME ~acc.eng.conns[k].finished, r.conn.finished,
             NEW d \in Dispositions, r.eng.stats.closed = [c EXCEPT ![d] = @ + 1]
      PROVE  r.eng.stats.connections = Total(r.eng.stats.closed, Dispositions) + Cardinality(L)
  <2>1. k \in L0 /\ L = L0 \ {k}
    BY <1>3, <1>7, <1>9
  <2>2. Cardinality(L) = Cardinality(L0) - 1
    BY <1>2, <2>1, FS_RemoveElement
  <2>3. Total(r.eng.stats.closed, Dispositions) = Total(c, Dispositions) + 1
    BY <1>1, <1>9, ClosedTotal
  <2> QED
    BY <1>1, <1>5, <1>6, <2>2, <2>3
<1> QED
  BY <1>6, <1>8, <1>9

\* The entry goes back to its key.
LEMMA StoreKeeps ==
    ASSUME NEW acc, NEW w, NEW t, EngineIs(acc, w, t), NEW k \in DOMAIN acc.eng.conns,
           NEW r, AccIs(r, w[k], ClientCells(t, w[k]), ServerCells(t)), Handled(r, Taken(acc, k))
    PROVE  LET s == StoreConn(r, k)
           IN  /\ EngineIs(s, w, t) /\ s.out = r.out
               /\ s.eng.stats = r.eng.stats /\ s.eng.used = r.eng.used
               /\ s.eng.synthetic_next = r.eng.synthetic_next
               /\ DOMAIN s.eng.conns = DOMAIN acc.eng.conns /\ s.eng.conns[k] = r.conn
               /\ \A j \in DOMAIN acc.eng.conns : j # k => s.eng.conns[j] = acc.eng.conns[j]
<1> DEFINE conns == Put(r.eng.conns, k, r.conn)
           e == [r.eng EXCEPT !.conns = conns]
<1>1. Books(r.eng) /\ r.eng.conns = acc.eng.conns /\ Entry(r.conn, w[k], t)
  BY DEF AccIs, Handled, Taken, Entry
<1>2. /\ DOMAIN conns = DOMAIN acc.eng.conns /\ conns[k] = r.conn
      /\ \A j \in DOMAIN acc.eng.conns : j # k => conns[j] = acc.eng.conns[j]
  BY <1>1 DEF Put
<1> HIDE DEF conns
<1>3. /\ Books(e) /\ e.conns = conns /\ e.stats = r.eng.stats /\ e.used = r.eng.used
      /\ e.synthetic_next = r.eng.synthetic_next
  BY <1>1 DEF Books
<1>4. StoreConn(r, k) = [eng |-> e, out |-> r.out]
  BY DEF StoreConn, conns
<1> HIDE DEF e
<1>5. Live(conns) \ {k} = Live(acc.eng.conns) \ {k} /\ (k \in Live(conns) <=> ~r.conn.finished)
  BY <1>2 DEF Live
<1>6. r.eng.stats.connections = Total(r.eng.stats.closed, Dispositions) + Cardinality(Live(conns))
  BY <1>5, HandledBalance
<1>7. Balanced(e)
  BY <1>2, <1>3, <1>6 DEF Balanced, EngineIs
<1>8. \A j \in DOMAIN conns : Entry(conns[j], w[j], t)
  BY <1>1, <1>2 DEF EngineIs
<1> QED
  BY <1>2, <1>3, <1>4, <1>7, <1>8 DEF EngineIs

\* A connection is closed and its entry forgotten.
Closing(acc, k) ==
    LET c == Finalize(Taken(acc, k), <<>>)
    IN  [eng |-> [c.eng EXCEPT !.conns = Without(@, k)], out |-> c.out]

\* To close and forget an entry counts it at most once and leaves the others
\* alone.
LEMMA ClosingKeeps ==
    ASSUME NEW acc, NEW w, NEW t, EngineIs(acc, w, t), NEW k \in DOMAIN acc.eng.conns
    PROVE  LET s == Closing(acc, k)
           IN  /\ EngineIs(s, w, t)
               /\ s.eng.stats.connections = acc.eng.stats.connections
               /\ Grown(s.eng.stats.closed, acc.eng.stats.closed, 1)
               /\ DOMAIN s.eng.conns = DOMAIN acc.eng.conns \ {k}
               /\ \A j \in DOMAIN s.eng.conns : s.eng.conns[j] = acc.eng.conns[j]
<1> DEFINE r == Finalize(Taken(acc, k), <<>>)
           conns == Without(r.eng.conns, k)
           e == [r.eng EXCEPT !.conns = conns]
<1>1. AccIs(Taken(acc, k), w[k], ClientCells(t, w[k]), ServerCells(t))
  BY TakenIs
<1>2. EventsOf(<<>>, w[k])
  BY SeqEmpty DEF EventsOf
<1>3. /\ AccIs(r, w[k], ClientCells(t, w[k]), ServerCells(t)) /\ Handled(r, Taken(acc, k))
      /\ r.conn.finished
  BY <1>1, <1>2, FinalizeKeeps
<1>4. Closing(acc, k) = [eng |-> e, out |-> r.out]
  BY DEF Closing
<1> HIDE DEF r
<1>5. Books(r.eng) /\ r.eng.conns = acc.eng.conns
  BY <1>3 DEF AccIs, Handled, Taken
<1>6. /\ DOMAIN conns = DOMAIN acc.eng.conns \ {k}
      /\ \A j \in DOMAIN conns : conns[j] = acc.eng.conns[j]
  BY <1>5 DEF Without
<1> HIDE DEF conns
<1>7. /\ Books(e) /\ e.conns = conns /\ e.stats = r.eng.stats
  BY <1>5 DEF Books
<1> HIDE DEF e
<1>8. Live(conns) \ {k} = Live(acc.eng.conns) \ {k} /\ (k \in Live(conns) <=> ~r.conn.finished)
  BY <1>3, <1>6 DEF Live
<1>9. r.eng.stats.connections = Total(r.eng.stats.closed, Dispositions) + Cardinality(Live(conns))
  BY <1>3, <1>8, HandledBalance
<1>10. IsFiniteSet(DOMAIN conns)
  BY <1>6, FS_Subset DEF EngineIs, Balanced
<1>11. Balanced(e)
  BY <1>7, <1>9, <1>10 DEF Balanced
<1>12. \A j \in DOMAIN conns : Entry(conns[j], w[j], t)
  BY <1>6 DEF EngineIs
<1>13. Books(Taken(acc, k).eng) /\ Taken(acc, k).eng = acc.eng
  BY DEF EngineIs, Taken
<1>14. Grown(r.eng.stats.closed, acc.eng.stats.closed, 1)
  BY <1>3, <1>13, HandledGrows
<1>15. r.eng.stats.connections = acc.eng.stats.connections
  BY <1>3, <1>13 DEF Handled
<1> QED
  BY <1>4, <1>6, <1>7, <1>11, <1>12, <1>14, <1>15 DEF EngineIs

\* What closing a connection hands out goes out under its own id.
LEMMA ClosingSessions ==
    ASSUME NEW acc, NEW w, NEW t, EngineIs(acc, w, t), NEW k \in DOMAIN acc.eng.conns,
           NEW own, w[k] = {own[k]}, NEW K, OwnSessions(acc, own, K)
    PROVE  OwnSessions(Closing(acc, k), own, K)
<1> DEFINE none == <<>>
           r == Finalize(Taken(acc, k), none)
           s == Closing(acc, k)
           ids == IdsOf(acc.eng.conns)
           ids2 == [ids EXCEPT ![k] = r.conn.session_id]
           a == Taken(acc, k)
           W == w[k]
           C == ClientCells(t, W)
           S == ServerCells(t)
<1>1. AccIs(a, W, C, S)
  BY TakenIs
<1>2. EventsOf(none, W)
  BY SeqEmpty DEF EventsOf
<1>3. a.eng = acc.eng /\ a.out = acc.out /\ a.conn = acc.eng.conns[k]
  BY DEF Taken
<1>4. /\ DOMAIN ids = DOMAIN acc.eng.conns /\ ids[k] = a.conn.session_id
      /\ \A j \in DOMAIN ids : ids[j] = acc.eng.conns[j].session_id
  BY <1>3 DEF IdsOf
<1>5. Sessions(a.eng.used, a.eng.synthetic_next, a.out, ids, own, K)
  BY <1>3 DEF OwnSessions
<1>6. Books(r.eng)
  BY <1>1, <1>2, FinalizeKeeps DEF AccIs
<1>13. W = {own[k]} /\ k \in DOMAIN ids
  BY <1>4
<1> HIDE DEF a, ids, W, C, S, none
<1>7. /\ DOMAIN ids2 = DOMAIN ids /\ ids2[k] = r.conn.session_id
      /\ \A j \in DOMAIN ids : j # k => ids2[j] = ids[j]
  BY <1>4
<1>8. Sessions(r.eng.used, r.eng.synthetic_next, r.out, ids2, own, K)
  <2>1. ids2[k] = Finalize(a, none).conn.session_id
    BY <1>7 DEF a
  <2> HIDE DEF r, ids2
  <2>2. LET x == Finalize(a, none)
        IN  Sessions(x.eng.used, x.eng.synthetic_next, x.out, ids2, own, K)
    BY ONLY <1>1, <1>2, <1>4, <1>5, <1>7, <1>13, <2>1, FinalizeSessions
  <2> QED
    BY <2>2 DEF r, a
<1>9. /\ s.eng.used = r.eng.used /\ s.eng.synthetic_next = r.eng.synthetic_next /\ s.out = r.out
      /\ s.eng.conns = Without(r.eng.conns, k)
  BY <1>6 DEF Closing, Books, none
<1>10. /\ DOMAIN s.eng.conns = DOMAIN acc.eng.conns \ {k}
       /\ \A j \in DOMAIN s.eng.conns : s.eng.conns[j] = acc.eng.conns[j]
  BY ClosingKeeps
<1> HIDE DEF s, r, ids2
<1> DEFINE ids3 == IdsOf(s.eng.conns)
<1>11. DOMAIN ids3 \subseteq DOMAIN ids2 /\ \A j \in DOMAIN ids3 : ids3[j] = ids2[j]
  BY <1>4, <1>7, <1>10 DEF IdsOf
<1> HIDE DEF ids3
<1>12. Sessions(r.eng.used, r.eng.synthetic_next, r.out, ids3, own, K)
  BY <1>8, <1>11, SessionsSame
<1> QED
  BY <1>9, <1>12 DEF OwnSessions, s, ids3

\* What the traffic is assumed to hold is what the decoder relies on.
LEMMA TrafficSources ==
    ASSUME NEW t \in Traffic, NEW W
    PROVE  Sources(W, ClientCells(t, W), ServerCells(t))
<1>4. \A k \in DOMAIN t : \A i \in DOMAIN t[k] : t[k][i].kind = "tcp" => IsSegment(t[k][i], k)
  BY TrafficAssumption
<1>1. ASSUME NEW f \in SegmentsOf(t)
      PROVE  \E k \in DOMAIN t : IsSegment(f, k)
  <2>1. PICK k \in DOMAIN t : f \in {t[k][i] : i \in DOMAIN t[k]} /\ f.kind = "tcp"
    BY <1>1 DEF SegmentsOf
  <2>2. PICK i \in DOMAIN t[k] : f = t[k][i]
    BY <2>1
  <2>3. IsSegment(t[k][i], k)
    BY <1>4, <2>1, <2>2
  <2> QED
    BY <2>2, <2>3
<1>2. ASSUME NEW c \in ClientCells(t, W)
      PROVE  /\ "len" \in DOMAIN c => c.len \in Nat
             /\ "cmd" \in DOMAIN c /\ c.cmd \in {"query", "init_db", "execute"} => c.req[1] \in W
  <2>1. PICK f \in SegmentsOf(t) : c \in {f.data[i] : i \in DOMAIN f.data} /\ f.dir = "client" /\ f.conn \in W
    BY <1>2 DEF ClientCells, CellsOf
  <2>2. PICK k \in DOMAIN t : IsSegment(f, k)
    BY <1>1
  <2> QED
    BY <2>1, <2>2 DEF IsSegment
<1>3. ASSUME NEW c \in ServerCells(t)
      PROVE  /\ "len" \in DOMAIN c => c.len \in Nat
             /\ "reply" \in DOMAIN c /\ c.reply = "greeting" => c.thread \in 0 .. SynthBase - 1
  <2>1. PICK f \in SegmentsOf(t) : c \in {f.data[i] : i \in DOMAIN f.data} /\ f.dir = "server"
    BY <1>3 DEF ServerCells, CellsOf
  <2>2. PICK k \in DOMAIN t : IsSegment(f, k)
    BY <1>1
  <2> QED
    BY <2>1, <2>2 DEF IsSegment
<1> QED
  BY <1>2, <1>3 DEF Sources, CellSizes

\* A frame without a connection opens one.
LEMMA OpenKeeps ==
    ASSUME NEW acc, NEW w, NEW t, EngineIs(acc, w, t), NEW f, f.key \notin DOMAIN acc.eng.conns
    PROVE  LET s == Open(acc, f)
           IN  /\ EngineIs(s, w, t) /\ s.out = acc.out
               /\ s.eng.stats.connections = acc.eng.stats.connections + 1
               /\ s.eng.stats.closed = acc.eng.stats.closed
               /\ s.eng.used = acc.eng.used /\ s.eng.synthetic_next = acc.eng.synthetic_next
               /\ DOMAIN s.eng.conns = DOMAIN acc.eng.conns \cup {f.key}
               /\ s.eng.conns[f.key] = NewConn
               /\ \A j \in DOMAIN acc.eng.conns : s.eng.conns[j] = acc.eng.conns[j]
<1> DEFINE conns == Put(acc.eng.conns, f.key, NewConn)
           n == acc.eng.stats.connections
           stats == [acc.eng.stats EXCEPT !.connections = n + 1]
           e == [acc.eng EXCEPT !.stats = stats, !.conns = conns]
<1>1. Books(acc.eng) /\ Balanced(acc.eng) /\ DOMAIN acc = {"eng", "out"}
  BY DEF EngineIs
<1>2. Open(acc, f) = [acc EXCEPT !.eng = e]
  BY <1>1 DEF Open, Books
<1>3. /\ {"connections", "closed"} \subseteq DOMAIN stats
      /\ stats.connections = n + 1 /\ stats.closed = acc.eng.stats.closed
  BY <1>1 DEF Books
<1>4. /\ DOMAIN conns = DOMAIN acc.eng.conns \cup {f.key} /\ conns[f.key] = NewConn
      /\ \A j \in DOMAIN acc.eng.conns : conns[j] = acc.eng.conns[j]
  BY DEF Put
<1>5. n \in Nat
  BY <1>1 DEF Books
<1> HIDE DEF conns, stats, n
<1>6. /\ Books(e) /\ e.conns = conns /\ e.stats = stats /\ e.used = acc.eng.used
      /\ e.synthetic_next = acc.eng.synthetic_next
  BY <1>1, <1>3, <1>5 DEF Books
<1> HIDE DEF e
<1>7. NewConn.finished = FALSE
  BY DEF NewConn
<1>8. Live(conns) = Live(acc.eng.conns) \cup {f.key} /\ f.key \notin Live(acc.eng.conns)
  BY <1>4, <1>7 DEF Live
<1>9. IsFiniteSet(DOMAIN acc.eng.conns) /\ IsFiniteSet(Live(acc.eng.conns))
  <2>1. Live(acc.eng.conns) \subseteq DOMAIN acc.eng.conns
    BY DEF Live
  <2> QED
    BY <1>1, <2>1, FS_Subset DEF Balanced
<1>10. Cardinality(Live(conns)) = Cardinality(Live(acc.eng.conns)) + 1 /\ IsFiniteSet(DOMAIN conns)
  <2>1. Cardinality(Live(conns)) = Cardinality(Live(acc.eng.conns)) + 1
    BY ONLY <1>8, <1>9, FS_AddElement
  <2>2. IsFiniteSet(DOMAIN conns)
    BY ONLY <1>4, <1>9, FS_AddElement
  <2> QED
    BY <2>1, <2>2
<1>11. Balanced(e)
  <2>1. Total(acc.eng.stats.closed, Dispositions) \in Nat
    BY <1>1, ClosedTotal DEF Books
  <2>2. Cardinality(Live(acc.eng.conns)) \in Nat
    BY <1>9, FS_CardinalityType
  <2>3. n = Total(acc.eng.stats.closed, Dispositions) + Cardinality(Live(acc.eng.conns))
    BY <1>1 DEF Balanced, n
  <2>4. stats.connections = Total(stats.closed, Dispositions) + Cardinality(Live(conns))
    BY <1>3, <1>10, <2>1, <2>2, <2>3
  <2> QED
    BY <1>6, <1>10, <2>4 DEF Balanced
<1>12. \A j \in DOMAIN conns : Entry(conns[j], w[j], t)
  <2>1. Entry(NewConn, w[f.key], t)
    BY NewConnIs DEF Entry
  <2> QED
    BY <1>4, <2>1 DEF EngineIs
<1> QED
  BY <1>1, <1>2, <1>3, <1>4, <1>6, <1>11, <1>12 DEF EngineIs, n

\* A frame of a segment of one of the connections in W.
FrameOf(f, W, t) == FrameIs(f, ClientCells(t, W), ServerCells(t))

\* A connection takes a segment, unless it is finished.
LEMMA OnConnectionKeeps ==
    ASSUME NEW t \in Traffic, NEW acc, NEW w, EngineIs(acc, w, t), NEW f, FrameOf(f, w[f.key], t),
           f.key \in DOMAIN acc.eng.conns, NEW ts
    PROVE  LET s == OnConnection(acc, ts, f)
           IN  /\ EngineIs(s, w, t)
               /\ s.eng.stats.connections = acc.eng.stats.connections
               /\ Grown(s.eng.stats.closed, acc.eng.stats.closed, 1)
               /\ DOMAIN s.eng.conns = DOMAIN acc.eng.conns
               /\ \A j \in DOMAIN acc.eng.conns : j # f.key => s.eng.conns[j] = acc.eng.conns[j]
               /\ IF acc.eng.conns[f.key].finished THEN s = acc
                  ELSE Origin(s.eng.conns[f.key].c2s, f, acc.eng.conns[f.key].c2s)
<1> DEFINE k == f.key
           a == Taken(acc, k)
           W == w[k]
           C == ClientCells(t, W)
           S == ServerCells(t)
<1>1. AccIs(a, W, C, S) /\ a.eng = acc.eng /\ a.conn = acc.eng.conns[k] /\ Books(acc.eng)
  BY TakenIs DEF Taken, EngineIs
<1>2. CASE acc.eng.conns[k].finished
  <2>1. OnConnection(acc, ts, f) = acc
    BY <1>2 DEF OnConnection
  <2>2. Grown(acc.eng.stats.closed, acc.eng.stats.closed, 1)
    BY <1>1, ClosedTotal DEF Books, Grown
  <2> QED
    BY <1>2, <2>1, <2>2
<1>3. CASE ~acc.eng.conns[k].finished
  <2> DEFINE r == OnSegment(a, ts, f)
  <2>1. OnConnection(acc, ts, f) = StoreConn(r, k)
    BY <1>3 DEF OnConnection, Taken
  <2>2. Sources(W, C, S) /\ FrameIs(f, C, S)
    BY TrafficSources DEF FrameOf
  <2>3. ~a.conn.finished
    BY <1>1, <1>3
  <2> HIDE DEF a, C, S, W
  <2>4. AccIs(r, W, C, S) /\ Handled(r, a) /\ Origin(r.conn.c2s, f, a.conn.c2s)
    BY <1>1, <2>2, <2>3, SegmentKeeps
  <2>5. Grown(r.eng.stats.closed, acc.eng.stats.closed, 1)
    <3>1. Books(a.eng)
      BY <1>1
    <3> HIDE DEF r
    <3>2. Grown(r.eng.stats.closed, a.eng.stats.closed, 1)
      BY <2>4, <3>1, HandledGrows
    <3> QED
      BY <1>1, <3>2
  <2>6. r.eng.stats.connections = acc.eng.stats.connections
    BY <1>1, <2>4 DEF Handled
  <2> HIDE DEF r
  <2>7. AccIs(r, w[k], ClientCells(t, w[k]), ServerCells(t)) /\ Handled(r, Taken(acc, k))
    BY <2>4 DEF W, C, S, a
  <2>8. /\ EngineIs(StoreConn(r, k), w, t) /\ StoreConn(r, k).eng.stats = r.eng.stats
        /\ DOMAIN StoreConn(r, k).eng.conns = DOMAIN acc.eng.conns
        /\ StoreConn(r, k).eng.conns[k] = r.conn
        /\ \A j \in DOMAIN acc.eng.conns : j # k => StoreConn(r, k).eng.conns[j] = acc.eng.conns[j]
    BY <2>7, StoreKeeps
  <2> QED
    BY <1>1, <1>3, <2>1, <2>4, <2>5, <2>6, <2>8
<1> QED
  BY <1>2, <1>3

\* What it hands out goes out under its own id.
LEMMA OnConnectionSessions ==
    ASSUME NEW t \in Traffic, NEW acc, NEW w, EngineIs(acc, w, t), NEW f, FrameOf(f, w[f.key], t),
           f.key \in DOMAIN acc.eng.conns, NEW ts,
           NEW own, w[f.key] = {own[f.key]}, NEW K, OwnSessions(acc, own, K)
    PROVE  OwnSessions(OnConnection(acc, ts, f), own, K)
<1> DEFINE k == f.key
           a == Taken(acc, k)
           W == w[k]
           C == ClientCells(t, W)
           S == ServerCells(t)
           r == OnSegment(a, ts, f)
           s == StoreConn(r, k)
           ids == IdsOf(acc.eng.conns)
           ids2 == IdsOf(s.eng.conns)
<1>1. CASE acc.eng.conns[k].finished
  BY <1>1 DEF OnConnection
<1>2. CASE ~acc.eng.conns[k].finished
  <2>1. OnConnection(acc, ts, f) = s
    BY <1>2 DEF OnConnection, Taken
  <2>2. AccIs(a, W, C, S) /\ a.eng = acc.eng /\ a.out = acc.out /\ a.conn = acc.eng.conns[k]
    BY TakenIs DEF Taken
  <2>3. Sources(W, C, S) /\ FrameIs(f, C, S)
    BY TrafficSources DEF FrameOf
  <2>4. ~a.conn.finished
    BY <1>2, <2>2
  <2>5. k \in DOMAIN ids /\ ids[k] = a.conn.session_id /\ DOMAIN ids = DOMAIN acc.eng.conns
    BY <2>2 DEF IdsOf
  <2>6. Sessions(a.eng.used, a.eng.synthetic_next, a.out, ids, own, K) /\ W = {own[k]}
    BY <2>2 DEF OwnSessions
  <2> HIDE DEF a, W, C, S
  <2>7. AccIs(r, W, C, S) /\ Handled(r, a)
    BY <2>2, <2>3, <2>4, SegmentKeeps
  <2> HIDE DEF r
  <2>8. AccIs(r, w[k], ClientCells(t, w[k]), ServerCells(t)) /\ Handled(r, Taken(acc, k))
    BY <2>7 DEF W, C, S, a
  <2>9. /\ s.out = r.out /\ s.eng.used = r.eng.used /\ s.eng.synthetic_next = r.eng.synthetic_next
        /\ DOMAIN s.eng.conns = DOMAIN acc.eng.conns /\ s.eng.conns[k] = r.conn
        /\ \A j \in DOMAIN acc.eng.conns : j # k => s.eng.conns[j] = acc.eng.conns[j]
    <3>1. /\ StoreConn(r, k).out = r.out /\ StoreConn(r, k).eng.used = r.eng.used
          /\ StoreConn(r, k).eng.synthetic_next = r.eng.synthetic_next
          /\ DOMAIN StoreConn(r, k).eng.conns = DOMAIN acc.eng.conns
          /\ StoreConn(r, k).eng.conns[k] = r.conn
          /\ \A j \in DOMAIN acc.eng.conns : j # k => StoreConn(r, k).eng.conns[j] = acc.eng.conns[j]
      <4>1. k \in DOMAIN acc.eng.conns /\ EngineIs(acc, w, t)
        OBVIOUS
      <4> HIDE DEF k
      <4> QED
        BY ONLY <2>8, <4>1, StoreKeeps
    <3> QED
      BY <3>1
  <2> HIDE DEF s
  <2>10. /\ DOMAIN ids2 = DOMAIN ids /\ ids2[k] = r.conn.session_id
         /\ \A j \in DOMAIN ids : j # k => ids2[j] = ids[j]
    BY <2>5, <2>9 DEF IdsOf
  <2> HIDE DEF ids, ids2, k
  <2>11. ids2[k] = OnSegment(a, ts, f).conn.session_id
    BY <2>10 DEF r
  <2>12. LET x == OnSegment(a, ts, f)
         IN  Sessions(x.eng.used, x.eng.synthetic_next, x.out, ids2, own, K)
    BY ONLY <2>2, <2>3, <2>4, <2>5, <2>6, <2>10, <2>11, SegmentSessions
  <2> QED
    BY <2>1, <2>9, <2>12 DEF OwnSessions, r, ids2
<1> QED
  BY <1>1, <1>2

-----------------------------------------------------------------------------
(* A packet.                                                               *)

\* Only what w says of the entries there are matters.
LEMMA EngineAgrees ==
    ASSUME NEW acc, NEW w, NEW t, EngineIs(acc, w, t), NEW w2,
           \A j \in DOMAIN acc.eng.conns : w2[j] = w[j]
    PROVE  EngineIs(acc, w2, t)
BY DEF EngineIs

\* A packet is counted, and nothing else changes.
LEMMA CountPacketKeeps ==
    ASSUME NEW acc, NEW w, NEW t, EngineIs(acc, w, t), NEW f
    PROVE  LET s == CountPacket(acc, f)
           IN  /\ EngineIs(s, w, t) /\ s.out = acc.out /\ s.eng.conns = acc.eng.conns
               /\ s.eng.used = acc.eng.used /\ s.eng.synthetic_next = acc.eng.synthetic_next
               /\ s.eng.stats.connections = acc.eng.stats.connections
               /\ s.eng.stats.closed = acc.eng.stats.closed
<1>1. Books(acc.eng) /\ Balanced(acc.eng) /\ DOMAIN acc = {"eng", "out"}
  BY DEF EngineIs
<1>2. PICK x, y : CountPacket(acc, f) = [acc EXCEPT !.eng.stats.packets = x, !.eng.stats.truncated = y]
  BY <1>1, Zenon DEF CountPacket
<1> DEFINE stats == [acc.eng.stats EXCEPT !.packets = x, !.truncated = y]
           e == [acc.eng EXCEPT !.stats = stats]
<1>3. CountPacket(acc, f) = [acc EXCEPT !.eng = e]
  BY <1>1, <1>2 DEF Books
<1>4. /\ {"connections", "closed"} \subseteq DOMAIN stats
      /\ stats.connections = acc.eng.stats.connections /\ stats.closed = acc.eng.stats.closed
  BY <1>1 DEF Books
<1> HIDE DEF stats
<1>5. /\ Books(e) /\ e.conns = acc.eng.conns /\ e.stats = stats /\ e.used = acc.eng.used
      /\ e.synthetic_next = acc.eng.synthetic_next
  BY <1>1, <1>4 DEF Books
<1> HIDE DEF e
<1>6. Balanced(e)
  BY <1>1, <1>4, <1>5 DEF Balanced
<1> QED
  BY <1>1, <1>3, <1>4, <1>5, <1>6 DEF EngineIs

\* Closing two connections, one after the other.
LEMMA GrownTwice ==
    ASSUME NEW a, NEW b, NEW c, a \in [Dispositions -> Nat], Grown(b, a, 1), Grown(c, b, 1)
    PROVE  Grown(c, a, 2)
<1>1. b \in [Dispositions -> Nat] /\ c \in [Dispositions -> Nat]
  BY DEF Grown
<1>2. \A x \in [Dispositions -> Nat] : Total(x, Dispositions) \in Nat
  BY ClosedTotal
<1>3. Total(c, Dispositions) - Total(a, Dispositions) <= 2
  BY <1>1, <1>2 DEF Grown
<1>4. \A d \in Dispositions : c[d] >= a[d]
  BY <1>1 DEF Grown
<1> QED
  BY <1>1, <1>3, <1>4 DEF Grown

\* The frame opens the entry it goes to.
Opens(e, f) == f.key \notin DOMAIN e.conns \/ Reuses(e, f)

\* The engine when the entry for the frame is there.
Prepared(acc, f) == Open(IF Reuses(acc.eng, f) THEN Closing(CountPacket(acc, f), f.key) ELSE CountPacket(acc, f), f)

\* A TCP packet goes to an entry that is there by then.
LEMMA PacketIs ==
    ASSUME NEW acc, NEW f, f.kind = "tcp", NEW ts
    PROVE  OnPacket(acc, ts, f) = OnConnection(Prepared(acc, f), ts, f)
BY DEF OnPacket, Prepared, Replace, Closing, Taken

\* Before the segment is read: its predecessor is closed, its entry is there, and
\* the others are untouched.
LEMMA PreparedKeeps ==
    ASSUME NEW t, NEW acc, NEW w, EngineIs(acc, w, t), NEW f, NEW w2,
           \A j \in DOMAIN acc.eng.conns : j # f.key => w2[j] = w[j],
           ~Opens(acc.eng, f) => w2[f.key] = w[f.key]
    PROVE  LET s == Prepared(acc, f)
           IN  /\ EngineIs(s, w2, t)
               /\ s.eng.stats.connections = acc.eng.stats.connections + IF Opens(acc.eng, f) THEN 1 ELSE 0
               /\ Grown(s.eng.stats.closed, acc.eng.stats.closed, 1)
               /\ DOMAIN s.eng.conns = DOMAIN acc.eng.conns \cup {f.key}
               /\ \A j \in DOMAIN acc.eng.conns : j # f.key => s.eng.conns[j] = acc.eng.conns[j]
               /\ s.eng.conns[f.key] = IF Opens(acc.eng, f) THEN NewConn ELSE acc.eng.conns[f.key]
<1> DEFINE a1 == CountPacket(acc, f)
           a2 == IF Reuses(acc.eng, f) THEN Closing(a1, f.key) ELSE a1
           s == Open(a2, f)
<1>1. /\ EngineIs(a1, w, t) /\ a1.eng.conns = acc.eng.conns
      /\ a1.eng.stats.connections = acc.eng.stats.connections
      /\ a1.eng.stats.closed = acc.eng.stats.closed
  BY CountPacketKeeps
<1> HIDE DEF a1
<1>2. Grown(a1.eng.stats.closed, a1.eng.stats.closed, 1)
  BY <1>1, ClosedTotal DEF EngineIs, Books, Grown
<1>3. /\ EngineIs(a2, w, t)
      /\ a2.eng.stats.connections = acc.eng.stats.connections
      /\ Grown(a2.eng.stats.closed, acc.eng.stats.closed, 1)
      /\ DOMAIN a2.eng.conns = IF Reuses(acc.eng, f) THEN DOMAIN acc.eng.conns \ {f.key} ELSE DOMAIN acc.eng.conns
      /\ \A j \in DOMAIN a2.eng.conns : a2.eng.conns[j] = acc.eng.conns[j]
  <2>1. CASE Reuses(acc.eng, f)
    <3>1. f.key \in DOMAIN a1.eng.conns
      BY <1>1, <2>1 DEF Reuses
    <3>2. a2 = Closing(a1, f.key)
      BY <2>1
    <3> HIDE DEF a2
    <3> DEFINE k == f.key
    <3>3. /\ EngineIs(Closing(a1, k), w, t)
          /\ Closing(a1, k).eng.stats.connections = a1.eng.stats.connections
          /\ Grown(Closing(a1, k).eng.stats.closed, a1.eng.stats.closed, 1)
          /\ DOMAIN Closing(a1, k).eng.conns = DOMAIN a1.eng.conns \ {k}
          /\ \A j \in DOMAIN Closing(a1, k).eng.conns : Closing(a1, k).eng.conns[j] = a1.eng.conns[j]
      BY <1>1, <3>1, ClosingKeeps
    <3> QED
      BY <1>1, <2>1, <3>2, <3>3
  <2>2. CASE ~Reuses(acc.eng, f)
    BY <1>1, <1>2, <2>2
  <2> QED
    BY <2>1, <2>2
<1> HIDE DEF a2
<1>4. Opens(acc.eng, f) <=> f.key \notin DOMAIN a2.eng.conns
  BY <1>3 DEF Opens, Reuses
<1>5. EngineIs(a2, w2, t)
  <2>1. \A j \in DOMAIN a2.eng.conns : w2[j] = w[j]
    BY <1>3, <1>4
  <2> QED
    BY <1>3, <2>1, EngineAgrees
<1>6. CASE Opens(acc.eng, f)
  <2>1. f.key \notin DOMAIN a2.eng.conns
    BY <1>4, <1>6
  <2>2. /\ EngineIs(s, w2, t) /\ s.eng.stats.connections = a2.eng.stats.connections + 1
        /\ s.eng.stats.closed = a2.eng.stats.closed
        /\ DOMAIN s.eng.conns = DOMAIN a2.eng.conns \cup {f.key} /\ s.eng.conns[f.key] = NewConn
        /\ \A j \in DOMAIN a2.eng.conns : s.eng.conns[j] = a2.eng.conns[j]
    BY <1>5, <2>1, OpenKeeps
  <2> HIDE DEF s
  <2>3. /\ EngineIs(s, w2, t) /\ s.eng.stats.connections = acc.eng.stats.connections + 1
        /\ Grown(s.eng.stats.closed, acc.eng.stats.closed, 1)
        /\ DOMAIN s.eng.conns = DOMAIN acc.eng.conns \cup {f.key} /\ s.eng.conns[f.key] = NewConn
        /\ \A j \in DOMAIN acc.eng.conns : j # f.key => s.eng.conns[j] = acc.eng.conns[j]
    BY <1>3, <2>1, <2>2
  <2> QED
    BY <1>6, <2>3 DEF Prepared, a1, a2, s
<1>7. CASE ~Opens(acc.eng, f)
  <2>1. s = a2 /\ f.key \in DOMAIN a2.eng.conns
    BY <1>4, <1>7 DEF Open
  <2>2. ~Reuses(acc.eng, f)
    BY <1>7 DEF Opens
  <2>3. acc.eng.stats.connections \in Nat
    BY DEF EngineIs, Books
  <2> HIDE DEF s
  <2>4. /\ EngineIs(s, w2, t) /\ s.eng.stats.connections = acc.eng.stats.connections + 0
        /\ Grown(s.eng.stats.closed, acc.eng.stats.closed, 1)
        /\ DOMAIN s.eng.conns = DOMAIN acc.eng.conns \cup {f.key} /\ s.eng.conns[f.key] = acc.eng.conns[f.key]
        /\ \A j \in DOMAIN acc.eng.conns : j # f.key => s.eng.conns[j] = acc.eng.conns[j]
    BY <1>3, <1>5, <2>1, <2>2, <2>3
  <2> QED
    BY <1>7, <2>4 DEF Prepared, a1, a2, s
<1> QED
  BY <1>6, <1>7

\* own and own2 say whose the entries are, before and after the frame, and K is
\* who was seen.
Owning(acc, w, f, w2, own, own2, K, t) ==
    /\ f.kind = "tcp" /\ EngineIs(acc, w, t) /\ FrameOf(f, w2[f.key], t)
    /\ \A j \in DOMAIN acc.eng.conns : j # f.key => w2[j] = w[j]
    /\ ~Opens(acc.eng, f) => w2[f.key] = w[f.key]
    /\ \A j \in DOMAIN acc.eng.conns : w[j] = {own[j]}
    /\ OwnSessions(acc, own, K)
    /\ \A j \in DOMAIN acc.eng.conns : j # f.key => own2[j] = own[j]
    /\ IF Opens(acc.eng, f) THEN own2[f.key] \notin K ELSE own2[f.key] = own[f.key]
    /\ w2[f.key] = {own2[f.key]}

\* A frame that opens an entry has a connection that was not seen before.
LEMMA PreparedSessions ==
    ASSUME NEW t \in Traffic, NEW acc, NEW w, NEW f, NEW w2, NEW own, NEW own2, NEW K,
           Owning(acc, w, f, w2, own, own2, K, t)
    PROVE  OwnSessions(Prepared(acc, f), own2, IF Opens(acc.eng, f) THEN K \cup {own2[f.key]} ELSE K)
<1> DEFINE a1 == CountPacket(acc, f)
           a2 == IF Reuses(acc.eng, f) THEN Closing(a1, f.key) ELSE a1
           s == Open(a2, f)
<1>0. /\ EngineIs(acc, w, t) /\ OwnSessions(acc, own, K)
      /\ \A j \in DOMAIN acc.eng.conns : w[j] = {own[j]}
      /\ \A j \in DOMAIN acc.eng.conns : j # f.key => own2[j] = own[j]
      /\ IF Opens(acc.eng, f) THEN own2[f.key] \notin K ELSE own2[f.key] = own[f.key]
  BY DEF Owning
<1> USE <1>0
<1>1. /\ EngineIs(a1, w, t) /\ a1.eng.conns = acc.eng.conns /\ a1.out = acc.out
      /\ a1.eng.used = acc.eng.used /\ a1.eng.synthetic_next = acc.eng.synthetic_next
  BY CountPacketKeeps
<1> HIDE DEF a1
<1>2. OwnSessions(a1, own, K)
  BY <1>1 DEF OwnSessions
<1>3. /\ EngineIs(a2, w, t) /\ OwnSessions(a2, own, K)
      /\ DOMAIN a2.eng.conns = IF Reuses(acc.eng, f) THEN DOMAIN acc.eng.conns \ {f.key} ELSE DOMAIN acc.eng.conns
  <2>1. CASE Reuses(acc.eng, f)
    <3> DEFINE k == f.key
    <3>1. k \in DOMAIN a1.eng.conns /\ w[k] = {own[k]}
      BY <1>1, <2>1 DEF Reuses
    <3>2. a2 = Closing(a1, k)
      BY <2>1
    <3> HIDE DEF a2
    <3>3. /\ EngineIs(Closing(a1, k), w, t)
          /\ DOMAIN Closing(a1, k).eng.conns = DOMAIN a1.eng.conns \ {k}
      BY <1>1, <3>1, ClosingKeeps
    <3> HIDE DEF k
    <3>4. OwnSessions(Closing(a1, k), own, K)
      BY <1>1, <1>2, <3>1, ClosingSessions
    <3> QED
      BY <1>1, <2>1, <3>2, <3>3, <3>4 DEF k
  <2>2. CASE ~Reuses(acc.eng, f)
    BY <1>1, <1>2, <2>2
  <2> QED
    BY <2>1, <2>2
<1> HIDE DEF a2
<1>4. Opens(acc.eng, f) <=> f.key \notin DOMAIN a2.eng.conns
  BY <1>3 DEF Opens, Reuses
<1> DEFINE ids == IdsOf(a2.eng.conns)
<1>5. DOMAIN ids = DOMAIN a2.eng.conns /\ \A j \in DOMAIN ids : ids[j] = a2.eng.conns[j].session_id
  BY DEF IdsOf
<1>6. Sessions(a2.eng.used, a2.eng.synthetic_next, a2.out, ids, own, K)
  BY <1>3 DEF OwnSessions
<1>7. CASE Opens(acc.eng, f)
  <2> DEFINE ids2 == IdsOf(s.eng.conns)
             k == f.key
             c == own2[k]
  <2>1. k \notin DOMAIN a2.eng.conns
    BY <1>4, <1>7
  <2>2. /\ s.out = a2.out /\ s.eng.used = a2.eng.used /\ s.eng.synthetic_next = a2.eng.synthetic_next
        /\ DOMAIN s.eng.conns = DOMAIN a2.eng.conns \cup {k} /\ s.eng.conns[k] = NewConn
        /\ \A j \in DOMAIN a2.eng.conns : s.eng.conns[j] = a2.eng.conns[j]
    BY <1>3, <2>1, OpenKeeps
  <2>3. c \notin K /\ \A j \in DOMAIN a2.eng.conns : own2[j] = own[j]
    BY <1>3, <1>7, <2>1
  <2> HIDE DEF s, ids
  <2>4. NewConn.session_id = NoSeq
    BY DEF NewConn
  <2>5. /\ k \notin DOMAIN ids /\ DOMAIN ids2 = DOMAIN ids \cup {k} /\ ids2[k] = NoSeq
        /\ \A j \in DOMAIN ids : ids2[j] = ids[j]
    BY <1>5, <2>1, <2>2, <2>4 DEF IdsOf
  <2>6. own2[k] = c /\ \A j \in DOMAIN ids : own2[j] = own[j]
    BY <1>5, <2>3
  <2> HIDE DEF ids2, c, k
  <2>7. Sessions(a2.eng.used, a2.eng.synthetic_next, a2.out, ids2, own2, K \cup {c})
    BY ONLY <1>6, <2>3, <2>5, <2>6, SessionsOpen
  <2>8. OwnSessions(s, own2, K \cup {c})
    BY <2>2, <2>7 DEF OwnSessions, ids2
  <2> QED
    BY <1>7, <2>8 DEF Prepared, a1, a2, s, c, k
<1>8. CASE ~Opens(acc.eng, f)
  <2>1. s = a2 /\ f.key \in DOMAIN a2.eng.conns
    BY <1>4, <1>8 DEF Open
  <2>2. \A j \in DOMAIN ids : own2[j] = own[j]
    BY <1>3, <1>5, <1>8
  <2> HIDE DEF s, ids
  <2>3. Sessions(a2.eng.used, a2.eng.synthetic_next, a2.out, ids, own2, K)
    BY <1>6, <2>2 DEF Sessions
  <2>4. OwnSessions(s, own2, K)
    BY <2>1, <2>3 DEF OwnSessions, ids
  <2> QED
    BY <1>8, <2>4 DEF Prepared, a1, a2, s
<1> QED
  BY <1>7, <1>8

-----------------------------------------------------------------------------

\* What a packet of a connection does to the engine: w2 is w with the
\* connection whose segment it is.
LEMMA PacketKeeps ==
    ASSUME NEW t \in Traffic, NEW acc, NEW w, EngineIs(acc, w, t), NEW f, f.kind = "tcp", NEW w2,
           \A j \in DOMAIN acc.eng.conns : j # f.key => w2[j] = w[j],
           ~Opens(acc.eng, f) => w2[f.key] = w[f.key], FrameOf(f, w2[f.key], t), NEW ts
    PROVE  LET s == OnPacket(acc, ts, f)
           IN  /\ EngineIs(s, w2, t)
               /\ s.eng.stats.connections = acc.eng.stats.connections + IF Opens(acc.eng, f) THEN 1 ELSE 0
               /\ Grown(s.eng.stats.closed, acc.eng.stats.closed, 2)
               /\ DOMAIN s.eng.conns = DOMAIN acc.eng.conns \cup {f.key}
               /\ \A j \in DOMAIN acc.eng.conns : j # f.key => s.eng.conns[j] = acc.eng.conns[j]
               /\ LET conn == IF Opens(acc.eng, f) THEN NewConn ELSE acc.eng.conns[f.key]
                  IN  IF conn.finished THEN s.eng.conns[f.key] = conn
                      ELSE Origin(s.eng.conns[f.key].c2s, f, conn.c2s)
<1> DEFINE p == Prepared(acc, f)
           s == OnConnection(p, ts, f)
           conn == IF Opens(acc.eng, f) THEN NewConn ELSE acc.eng.conns[f.key]
           n == IF Opens(acc.eng, f) THEN 1 ELSE 0
<1>1. /\ EngineIs(p, w2, t) /\ p.eng.stats.connections = acc.eng.stats.connections + n
      /\ Grown(p.eng.stats.closed, acc.eng.stats.closed, 1)
      /\ DOMAIN p.eng.conns = DOMAIN acc.eng.conns \cup {f.key}
      /\ \A j \in DOMAIN acc.eng.conns : j # f.key => p.eng.conns[j] = acc.eng.conns[j]
      /\ p.eng.conns[f.key] = conn
  BY PreparedKeeps
<1>2. OnPacket(acc, ts, f) = s
  BY PacketIs
<1> HIDE DEF p, conn, n
<1>3. f.key \in DOMAIN p.eng.conns
  BY <1>1
<1>4. /\ EngineIs(s, w2, t) /\ s.eng.stats.connections = p.eng.stats.connections
      /\ Grown(s.eng.stats.closed, p.eng.stats.closed, 1)
      /\ DOMAIN s.eng.conns = DOMAIN p.eng.conns
      /\ \A j \in DOMAIN p.eng.conns : j # f.key => s.eng.conns[j] = p.eng.conns[j]
      /\ IF p.eng.conns[f.key].finished THEN s = p ELSE Origin(s.eng.conns[f.key].c2s, f, p.eng.conns[f.key].c2s)
  BY <1>1, <1>3, OnConnectionKeeps
<1> HIDE DEF s
<1>5. acc.eng.stats.closed \in [Dispositions -> Nat]
  BY DEF EngineIs, Books
<1>6. Grown(s.eng.stats.closed, acc.eng.stats.closed, 2)
  BY ONLY <1>1, <1>4, <1>5, GrownTwice
<1>7. /\ EngineIs(s, w2, t) /\ s.eng.stats.connections = acc.eng.stats.connections + n
      /\ DOMAIN s.eng.conns = DOMAIN acc.eng.conns \cup {f.key}
      /\ \A j \in DOMAIN acc.eng.conns : j # f.key => s.eng.conns[j] = acc.eng.conns[j]
      /\ IF conn.finished THEN s.eng.conns[f.key] = conn ELSE Origin(s.eng.conns[f.key].c2s, f, conn.c2s)
  BY <1>1, <1>4
<1> QED
  BY <1>2, <1>6, <1>7 DEF conn, n

\* What it hands to the sink goes out under the session of its connection.
LEMMA PacketSessions ==
    ASSUME NEW t \in Traffic, NEW acc, NEW w, NEW f, NEW w2, NEW own, NEW own2, NEW K, NEW ts,
           Owning(acc, w, f, w2, own, own2, K, t)
    PROVE  OwnSessions(OnPacket(acc, ts, f), own2, IF Opens(acc.eng, f) THEN K \cup {own2[f.key]} ELSE K)
<1> DEFINE p == Prepared(acc, f)
           K2 == IF Opens(acc.eng, f) THEN K \cup {own2[f.key]} ELSE K
<1>1. EngineIs(p, w2, t) /\ f.key \in DOMAIN p.eng.conns
  <2>1. /\ \A j \in DOMAIN acc.eng.conns : j # f.key => w2[j] = w[j]
        /\ ~Opens(acc.eng, f) => w2[f.key] = w[f.key]
        /\ EngineIs(acc, w, t)
    BY DEF Owning
  <2>2. EngineIs(p, w2, t) /\ DOMAIN p.eng.conns = DOMAIN acc.eng.conns \cup {f.key}
    BY ONLY <2>1, PreparedKeeps
  <2> QED
    BY <2>2
<1>2. OwnSessions(p, own2, K2)
  BY PreparedSessions
<1>3. OnPacket(acc, ts, f) = OnConnection(p, ts, f)
  BY PacketIs DEF Owning
<1>5. FrameOf(f, w2[f.key], t) /\ w2[f.key] = {own2[f.key]}
  BY DEF Owning
<1> HIDE DEF p, K2
<1>4. OwnSessions(OnConnection(p, ts, f), own2, K2)
  BY <1>1, <1>2, <1>5, OnConnectionSessions
<1> QED
  BY <1>3, <1>4 DEF K2

-----------------------------------------------------------------------------
(* The end of the file.                                                    *)

\* What is left of D when the first i connections of order are closed.
LeftOf(D, order, i) == D \ {order[j] : j \in 1 .. i}

\* The hash map lists every connection once.
LEMMA OrderTakes ==
    ASSUME NEW D, IsFiniteSet(D), NEW order \in SetToSeqs(D)
    PROVE  /\ DOMAIN order = 1 .. Cardinality(D) /\ Cardinality(D) \in Nat
           /\ LeftOf(D, order, 0) = D
           /\ \A i \in 1 .. Cardinality(D) :
                /\ order[i] \in LeftOf(D, order, i - 1)
                /\ LeftOf(D, order, i) = LeftOf(D, order, i - 1) \ {order[i]}
           /\ LeftOf(D, order, Cardinality(D)) = {}
<1> DEFINE n == Cardinality(D)
           L(i) == LeftOf(D, order, i)
<1>1. /\ order \in [1 .. n -> D] /\ \A i, j \in 1 .. n : order[i] = order[j] => i = j
  BY DEF SetToSeqs
<1>2. n \in Nat
  BY FS_CardinalityType
<1> HIDE DEF n
<1>3. L(0) = D
  BY DEF LeftOf
<1>4. ASSUME NEW i \in 1 .. n PROVE order[i] \in L(i - 1) /\ L(i) = L(i - 1) \ {order[i]}
  <2>1. 1 .. i = (1 .. i - 1) \cup {i} /\ i \notin 1 .. i - 1 /\ 1 .. i - 1 \subseteq 1 .. n
    BY <1>2
  <2>2. order[i] \in D /\ \A j \in 1 .. i - 1 : order[j] # order[i]
    BY <1>1, <2>1
  <2> QED
    BY <2>1, <2>2 DEF LeftOf
<1> DEFINE N == {i \in Nat : i <= n => IsFiniteSet(L(i)) /\ Cardinality(L(i)) = n - i}
<1> HIDE DEF L
<1>5. 0 \in N
  BY <1>2, <1>3 DEF n
<1>6. ASSUME NEW i \in Nat, i \in N PROVE i + 1 \in N
  <2> SUFFICES ASSUME i + 1 <= n PROVE IsFiniteSet(L(i + 1)) /\ Cardinality(L(i + 1)) = n - (i + 1)
    OBVIOUS
  <2>1. i + 1 \in 1 .. n /\ (i + 1) - 1 = i /\ i <= n
    BY <1>2
  <2>2. order[i + 1] \in L(i) /\ L(i + 1) = L(i) \ {order[i + 1]}
    BY <1>4, <2>1
  <2>3. IsFiniteSet(L(i)) /\ Cardinality(L(i)) = n - i
    BY <1>6, <2>1
  <2>4. IsFiniteSet(L(i + 1)) /\ Cardinality(L(i + 1)) = Cardinality(L(i)) - 1
    BY <2>2, <2>3, FS_RemoveElement
  <2> QED
    BY <1>2, <2>3, <2>4
<1> HIDE DEF N
<1>7. n \in N
  BY <1>2, <1>5, <1>6, NatSetInduction
<1>8. IsFiniteSet(L(n)) /\ Cardinality(L(n)) = 0
  BY <1>2, <1>7 DEF N
<1>9. L(n) = {}
  BY <1>8, FS_EmptySet
<1>10. DOMAIN order = 1 .. n
  BY <1>1
<1> QED
  BY <1>2, <1>3, <1>4, <1>9, <1>10 DEF n, L

\* The counters only grow.
Raised(closed2, closed) ==
    closed2 \in [Dispositions -> Nat] /\ \A d \in Dispositions : closed2[d] >= closed[d]

\* Every connection is closed, and counted under one disposition.
LEMMA FinishKeeps ==
    ASSUME NEW t, NEW acc, NEW w, EngineIs(acc, w, t), NEW order \in SetToSeqs(DOMAIN acc.eng.conns)
    PROVE  LET s == FinishEngine(acc, order)
           IN  /\ s.eng.stats.connections = acc.eng.stats.connections
               /\ Raised(s.eng.stats.closed, acc.eng.stats.closed)
               /\ Total(s.eng.stats.closed, Dispositions) = acc.eng.stats.connections
<1> DEFINE D == DOMAIN acc.eng.conns
           n == Cardinality(D)
           L(i) == LeftOf(D, order, i)
<1>1. IsFiniteSet(D) /\ Books(acc.eng)
  BY DEF EngineIs, Balanced
<1>2. /\ DOMAIN order = 1 .. n /\ n \in Nat /\ L(0) = D /\ L(n) = {}
      /\ \A i \in 1 .. n : order[i] \in L(i - 1) /\ L(i) = L(i - 1) \ {order[i]}
  BY <1>1, OrderTakes
<1>3. PICK u : Rounds(u, "close", "any", acc, order, n) /\ FinishEngine(acc, order) = u[n]
  BY <1>2, CloseRounds
<1>4. u[0] = acc /\ \A i \in 1 .. n : u[i] = Closing(u[i - 1], order[i])
  BY <1>3 DEF Rounds, Round, Closing, Taken
<1> DEFINE P(i) == /\ EngineIs(u[i], w, t) /\ DOMAIN u[i].eng.conns = L(i)
                   /\ u[i].eng.stats.connections = acc.eng.stats.connections
                   /\ Raised(u[i].eng.stats.closed, acc.eng.stats.closed)
           N == {i \in Nat : i <= n => P(i)}
<1> HIDE DEF L, n
<1>5. 0 \in N
  BY <1>1, <1>2, <1>4 DEF Raised, Books
<1>6. ASSUME NEW i \in Nat, i \in N PROVE i + 1 \in N
  <2> SUFFICES ASSUME i + 1 <= n PROVE P(i + 1)
    OBVIOUS
  <2>1. i + 1 \in 1 .. n /\ (i + 1) - 1 = i /\ i <= n
    BY <1>2
  <2>2. P(i)
    BY <1>6, <2>1
  <2> DEFINE a == u[i]
             k == order[i + 1]
  <2>3. u[i + 1] = Closing(a, k) /\ k \in L(i) /\ L(i + 1) = L(i) \ {k}
    BY <1>2, <1>4, <2>1
  <2>4. EngineIs(a, w, t) /\ k \in DOMAIN a.eng.conns
    BY <2>2, <2>3
  <2> HIDE DEF k, a
  <2>5. LET s == Closing(a, k)
        IN  /\ EngineIs(s, w, t) /\ s.eng.stats.connections = a.eng.stats.connections
            /\ Grown(s.eng.stats.closed, a.eng.stats.closed, 1)
            /\ DOMAIN s.eng.conns = DOMAIN a.eng.conns \ {k}
    BY <2>4, ClosingKeeps
  <2>6. Raised(Closing(a, k).eng.stats.closed, acc.eng.stats.closed)
    <3>1. Raised(a.eng.stats.closed, acc.eng.stats.closed) /\ acc.eng.stats.closed \in [Dispositions -> Nat]
      BY <1>1, <2>2 DEF a, Books
    <3> QED
      BY <2>5, <3>1 DEF Raised, Grown
  <2> QED
    BY <2>2, <2>3, <2>5, <2>6 DEF a
<1> HIDE DEF N
<1>7. n \in N
  BY <1>2, <1>5, <1>6, NatSetInduction
<1>8. P(n)
  BY <1>2, <1>7 DEF N
<1>9. Live(u[n].eng.conns) = {}
  BY <1>2, <1>8 DEF Live
<1>10. Cardinality(Live(u[n].eng.conns)) = 0
  BY <1>9, FS_EmptySet
<1>11. /\ Books(u[n].eng)
       /\ u[n].eng.stats.connections = Total(u[n].eng.stats.closed, Dispositions) + Cardinality(Live(u[n].eng.conns))
  BY <1>8 DEF EngineIs, Balanced
<1>12. Total(u[n].eng.stats.closed, Dispositions) \in Nat
  BY <1>11, ClosedTotal DEF Books
<1> QED
  BY <1>3, <1>8, <1>10, <1>11, <1>12

\* What is handed out at the end goes out under the sessions there are.
LEMMA FinishSessions ==
    ASSUME NEW t, NEW acc, NEW w, EngineIs(acc, w, t), NEW order \in SetToSeqs(DOMAIN acc.eng.conns),
           NEW own, \A j \in DOMAIN acc.eng.conns : w[j] = {own[j]}, NEW K, OwnSessions(acc, own, K)
    PROVE  IsSeq(FinishEngine(acc, order).out) /\ Apart(FinishEngine(acc, order).out)
<1> DEFINE D == DOMAIN acc.eng.conns
           n == Cardinality(D)
           L(i) == LeftOf(D, order, i)
<1>1. IsFiniteSet(D) /\ Books(acc.eng)
  BY DEF EngineIs, Balanced
<1>2. /\ DOMAIN order = 1 .. n /\ n \in Nat /\ L(0) = D /\ L(n) = {}
      /\ \A i \in 1 .. n : order[i] \in L(i - 1) /\ L(i) = L(i - 1) \ {order[i]}
  BY <1>1, OrderTakes
<1>3. PICK u : Rounds(u, "close", "any", acc, order, n) /\ FinishEngine(acc, order) = u[n]
  BY <1>2, CloseRounds
<1>4. u[0] = acc /\ \A i \in 1 .. n : u[i] = Closing(u[i - 1], order[i])
  BY <1>3 DEF Rounds, Round, Closing, Taken
<1> DEFINE P(i) == EngineIs(u[i], w, t) /\ DOMAIN u[i].eng.conns = L(i) /\ L(i) \subseteq D /\ OwnSessions(u[i], own, K)
           N == {i \in Nat : i <= n => P(i)}
<1> HIDE DEF L, n
<1>5. 0 \in N
  BY <1>2, <1>4
<1>6. ASSUME NEW i \in Nat, i \in N PROVE i + 1 \in N
  <2> SUFFICES ASSUME i + 1 <= n PROVE P(i + 1)
    OBVIOUS
  <2>1. i + 1 \in 1 .. n /\ (i + 1) - 1 = i /\ i <= n
    BY <1>2
  <2>2. P(i)
    BY <1>6, <2>1
  <2> DEFINE a == u[i]
             k == order[i + 1]
  <2>3. u[i + 1] = Closing(a, k) /\ k \in L(i) /\ L(i + 1) = L(i) \ {k}
    BY <1>2, <1>4, <2>1
  <2>4. EngineIs(a, w, t) /\ k \in DOMAIN a.eng.conns /\ OwnSessions(a, own, K) /\ w[k] = {own[k]}
    BY <2>2, <2>3
  <2> HIDE DEF k, a
  <2>5. LET s == Closing(a, k)
        IN  EngineIs(s, w, t) /\ DOMAIN s.eng.conns = DOMAIN a.eng.conns \ {k}
    BY <2>4, ClosingKeeps
  <2>6. OwnSessions(Closing(a, k), own, K)
    BY <2>4, ClosingSessions
  <2> QED
    BY <2>2, <2>3, <2>5, <2>6 DEF a
<1> HIDE DEF N
<1>7. n \in N
  BY <1>2, <1>5, <1>6, NatSetInduction
<1>8. P(n)
  BY <1>2, <1>7 DEF N
<1> QED
  BY <1>3, <1>8 DEF OwnSessions, Sessions

-----------------------------------------------------------------------------
(* The invariant, for the traffic t that was to be captured.               *)

\* Its frames, and the connections they belong to.
Frames(t) == UNION {{t[k][i] : i \in DOMAIN t[k]} : k \in DOMAIN t}
ConnsOf(t) == {f.conn : f \in SegmentsOf(t)}

\* f says what h says, of all of its payload or of a part.
CopyOf(f, h) ==
    /\ f.kind = "tcp" /\ f.key = h.key /\ f.conn = h.conn /\ f.dir = h.dir
    /\ f.seq = h.seq /\ f.syn = h.syn /\ f.from = h.from
    /\ f.data \in Seq({h.data[i] : i \in DOMAIN h.data})

FrameFrom(f, t) == f.kind = "tcp" => \E h \in SegmentsOf(t) : CopyOf(f, h)

\* The connections that were seen, the engine with the sink, and whose segments
\* an entry may have been given: those of any connection, or of its own alone.
Seen == {g.conn : g \in got}
Now == [eng |-> eng, out |-> sunk]
AnyConn(t) == [k \in DOMAIN t |-> ConnsOf(t)]
OwnConn(t) == [k \in DOMAIN t |-> {owner[k]}]

\* The frames that are still to come.
FramesLeft(t) ==
    /\ DOMAIN todo = DOMAIN t
    /\ \A k \in DOMAIN t : todo[k] \in Seq(Frames(t))
    /\ held \subseteq Frames(t)

\* A connection that was seen had an entry under its key, and an entry belongs
\* to a connection of its key.
Keyed(t) ==
    /\ \A c \in Seen : \E h \in SegmentsOf(t) : h.conn = c /\ owner[h.key] # NoSeq
    /\ \A k \in DOMAIN eng.conns : \E h \in SegmentsOf(t) : h.conn = owner[k] /\ h.key = k

\* When the client's SYN of an open connection was captured, the stream's origin
\* is what the SYN says.
SynGot(c) == \E g \in got : g.conn = c /\ g.dir = "client" /\ g.pos = -1

Origins(t) ==
    \A k \in DOMAIN eng.conns : ~eng.conns[k].finished /\ SynGot(owner[k]) =>
        \A h \in SegmentsOf(t) : h.conn = owner[k] /\ h.dir = "client" /\ h.syn =>
            eng.conns[k].c2s.started /\ eng.conns[k].c2s.isn = (h.seq + 1) % M

\* While the file is read.
Scanning(t) ==
    /\ EngineIs(Now, AnyConn(t), t)
    /\ DOMAIN eng.conns = {k \in DOMAIN t : owner[k] # NoSeq}

\* While no frame has disturbed the capture.
ScanningClean(t) ==
    /\ EngineIs(Now, OwnConn(t), t)
    /\ OwnSessions(Now, owner, Seen)
    /\ Keyed(t)
    /\ Origins(t)

\* In a clean capture the counter and the sessions are right also after the end.
EngineInv(t) ==
    /\ DOMAIN owner = DOMAIN t
    /\ clean \in BOOLEAN
    /\ eng.stats.connections \in Nat
    /\ status = "scanning" => Scanning(t)
    /\ status = "scanning" /\ clean => ScanningClean(t)
    /\ clean => IsFiniteSet(Seen) /\ eng.stats.connections = Cardinality(Seen)
    /\ clean => Apart(sunk)

\* The inductive invariant.
Inv == \E t \in Traffic : FramesLeft(t) /\ EngineInv(t)

\* Every segment of the traffic belongs to a key.
LEMMA SegmentsAre ==
    ASSUME NEW t \in Traffic
    PROVE  /\ \A h \in SegmentsOf(t) : h.key \in DOMAIN t /\ IsSegment(h, h.key)
           /\ \A h, g \in SegmentsOf(t) : h.conn = g.conn =>
                /\ h.key = g.key
                /\ h.syn /\ g.syn /\ h.dir = "client" /\ g.dir = "client" => h.seq = g.seq
           /\ \A f \in Frames(t) : "kind" \in DOMAIN f /\ (f.kind = "tcp" => f \in SegmentsOf(t))
<1>1. /\ \A k \in DOMAIN t : \A i \in DOMAIN t[k] : t[k][i].kind = "tcp" => IsSegment(t[k][i], k)
      /\ \A k \in DOMAIN t : \A i \in DOMAIN t[k] : "kind" \in DOMAIN t[k][i]
  BY TrafficAssumption
<1>2. ASSUME NEW h \in SegmentsOf(t) PROVE h.key \in DOMAIN t /\ IsSegment(h, h.key)
  <2>1. PICK k \in DOMAIN t : h \in {t[k][i] : i \in DOMAIN t[k]} /\ h.kind = "tcp"
    BY <1>2 DEF SegmentsOf
  <2>2. PICK i \in DOMAIN t[k] : h = t[k][i]
    BY <2>1
  <2>3. IsSegment(h, k)
    BY <1>1, <2>1, <2>2
  <2> QED
    BY <2>3 DEF IsSegment
<1>3. ASSUME NEW f \in Frames(t) PROVE "kind" \in DOMAIN f /\ (f.kind = "tcp" => f \in SegmentsOf(t))
  <2>1. PICK k \in DOMAIN t : f \in {t[k][i] : i \in DOMAIN t[k]}
    BY <1>3 DEF Frames
  <2>2. PICK i \in DOMAIN t[k] : f = t[k][i]
    BY <2>1
  <2>3. "kind" \in DOMAIN f
    BY <1>1, <2>2
  <2> QED
    BY <1>3, <2>3 DEF SegmentsOf, Frames
<1>4. \A h, g \in SegmentsOf(t) : h.conn = g.conn =>
                /\ h.key = g.key
                /\ h.syn /\ g.syn /\ h.dir = "client" /\ g.dir = "client" => h.seq = g.seq
  BY TrafficAssumption
<1> QED
  BY <1>2, <1>3, <1>4

\* What is captured is made of the cells of its connection.
LEMMA CopyIs ==
    ASSUME NEW t \in Traffic, NEW h \in SegmentsOf(t), NEW f, CopyOf(f, h), NEW W, h.conn \in W
    PROVE  FrameOf(f, W, t)
<1>1. IsSegment(h, h.key)
  BY SegmentsAre
<1>2. f.dir \in {"client", "server"} /\ f.seq \in Int
  BY <1>1 DEF IsSegment, CopyOf
<1> DEFINE X == {h.data[i] : i \in DOMAIN h.data}
           Y == IF f.dir = "client" THEN ClientCells(t, W) ELSE ServerCells(t)
<1>3. f.data \in Seq(X)
  BY DEF CopyOf
<1>4. X \subseteq Y
  <2>1. CASE f.dir = "client"
    <3>1. h \in {g \in SegmentsOf(t) : g.dir = "client" /\ g.conn \in W}
      BY <2>1 DEF CopyOf
    <3>2. X \subseteq ClientCells(t, W)
      BY <3>1 DEF ClientCells, CellsOf
    <3> QED
      BY <2>1, <3>2
  <2>2. CASE f.dir = "server"
    <3>1. h \in {g \in SegmentsOf(t) : g.dir = "server"}
      BY <2>2 DEF CopyOf
    <3>2. X \subseteq ServerCells(t)
      BY <3>1 DEF ServerCells, CellsOf
    <3> QED
      BY <2>2, <3>2
  <2> QED
    BY <1>2, <2>1, <2>2
<1> HIDE DEF X, Y
<1>5. f.data \in Seq(Y)
  BY <1>3, <1>4
<1> QED
  BY <1>2, <1>5 DEF FrameOf, FrameIs, Y

\* Another frame changes no connection.
LEMMA OtherKeeps ==
    ASSUME NEW acc, Books(acc.eng), DOMAIN acc = {"eng", "out"}, NEW f, f.kind # "tcp", NEW ts
    PROVE  LET s == OnPacket(acc, ts, f)
           IN  /\ DOMAIN s = {"eng", "out"} /\ Books(s.eng) /\ s.out = acc.out
               /\ s.eng.conns = acc.eng.conns /\ s.eng.used = acc.eng.used
               /\ s.eng.synthetic_next = acc.eng.synthetic_next
               /\ s.eng.stats.connections = acc.eng.stats.connections
               /\ s.eng.stats.closed = acc.eng.stats.closed
<1>1. CASE f.kind = "fragment"
  <2>1. PICK x : OnPacket(acc, ts, f) = [acc EXCEPT !.eng.stats.fragments = x]
    BY <1>1, Zenon DEF OnPacket
  <2> DEFINE stats == [acc.eng.stats EXCEPT !.fragments = x]
             e == [acc.eng EXCEPT !.stats = stats]
  <2>2. OnPacket(acc, ts, f) = [acc EXCEPT !.eng = e]
    BY <2>1 DEF Books
  <2>3. /\ {"connections", "closed"} \subseteq DOMAIN stats
        /\ stats.connections = acc.eng.stats.connections /\ stats.closed = acc.eng.stats.closed
    BY DEF Books
  <2> HIDE DEF stats
  <2>4. /\ Books(e) /\ e.conns = acc.eng.conns /\ e.stats = stats /\ e.used = acc.eng.used
        /\ e.synthetic_next = acc.eng.synthetic_next
    BY <2>3 DEF Books
  <2> HIDE DEF e
  <2> QED
    BY <2>2, <2>3, <2>4
<1>2. CASE f.kind # "fragment"
  <2>1. OnPacket(acc, ts, f) = acc
    BY <1>2 DEF OnPacket
  <2> QED
    BY <2>1
<1> QED
  BY <1>1, <1>2

\* The events that went out before one failed are those of an engine that stops
\* there.
LEMMA ApartPrefix ==
    ASSUME NEW out, IsSeq(out), Apart(out), NEW before, IsSeq(before), NEW n \in Len(before) .. Len(out) - 1
    PROVE  Apart(SubSeq(out, 1, n))
<1>1. Len(before) \in Nat /\ Len(out) \in Nat /\ DOMAIN out = 1 .. Len(out)
  BY SeqHas
<1>2. n \in Nat /\ n <= Len(out)
  BY <1>1
<1> DEFINE X == {out[i] : i \in DOMAIN out}
<1>3. out \in Seq(X)
  BY DEF IsSeq
<1> HIDE DEF X
<1>4. DOMAIN SubSeq(out, 1, n) = 1 .. n /\ \A i \in 1 .. n : SubSeq(out, 1, n)[i] = out[i]
  BY <1>1, <1>2, <1>3, SubSeqProperties
<1>5. 1 .. n \subseteq 1 .. Len(out)
  BY <1>1, <1>2
<1> QED
  BY <1>1, <1>4, <1>5 DEF Apart

\* The sink is handed what the engine hands out, or it failed at one of the
\* events and the capture is over.
LEMMA SinkTakes ==
    ASSUME NEW acc, Sink(acc), IsSeq(sunk), IsSeq(acc.out), Apart(acc.out)
    PROVE  Apart(sunk')
BY ApartPrefix DEF Sink

-----------------------------------------------------------------------------
(* One captured frame.                                                     *)

\* What the ledger sees of it.
Scanned ==
    /\ eng'.stats.connections \in {eng.stats.connections, eng.stats.connections + 1}
    /\ Grown(eng'.stats.closed, eng.stats.closed, 2)
    /\ Total(eng'.stats.closed, Dispositions) <= eng'.stats.connections
    /\ status' \in {"scanning", "error"}

\* An engine has closed no more connections than it has opened.
LEMMA ClosedAtMost ==
    ASSUME NEW acc, NEW w, NEW t, EngineIs(acc, w, t)
    PROVE  Total(acc.eng.stats.closed, Dispositions) <= acc.eng.stats.connections
<1>1. Total(acc.eng.stats.closed, Dispositions) \in Nat
  BY ClosedTotal DEF EngineIs, Books
<1>2. Cardinality(Live(acc.eng.conns)) \in Nat
  <2>1. Live(acc.eng.conns) \subseteq DOMAIN acc.eng.conns
    BY DEF Live
  <2> QED
    BY <2>1, FS_Subset, FS_CardinalityType DEF EngineIs, Balanced
<1> QED
  BY <1>1, <1>2 DEF EngineIs, Balanced

\* A frame that is no TCP segment.
LEMMA ScanOther ==
    ASSUME NEW t \in Traffic, EngineInv(t), status = "scanning", NEW f, f.kind # "tcp", Scan(f)
    PROVE  EngineInv(t)' /\ Scanned
<1> DEFINE s == OnPacket(Now, 0, f)
<1>1. Scanning(t) /\ EngineIs(Now, AnyConn(t), t) /\ Books(eng) /\ DOMAIN Now = {"eng", "out"} /\ Now.eng = eng /\ Now.out = sunk
  BY DEF EngineInv, Scanning, EngineIs, Now
<1>2. /\ DOMAIN s = {"eng", "out"} /\ Books(s.eng) /\ s.out = sunk
      /\ s.eng.conns = eng.conns /\ s.eng.used = eng.used
      /\ s.eng.synthetic_next = eng.synthetic_next
      /\ s.eng.stats.connections = eng.stats.connections
      /\ s.eng.stats.closed = eng.stats.closed
  <2>1. Books(Now.eng)
    BY <1>1
  <2> QED
    BY <1>1, <2>1, OtherKeeps
<1>3. Sink(s) /\ UNCHANGED <<got, asked, owner, clean>>
  BY DEF Scan, Now
<1> HIDE DEF s
<1>4. eng' = s.eng /\ (status' = "scanning" => sunk' = s.out) /\ status' \in {"scanning", "error"}
  BY <1>3 DEF Sink
<1>5. Now' = [eng |-> s.eng, out |-> sunk'] /\ Seen' = Seen /\ AnyConn(t)' = AnyConn(t) /\ OwnConn(t)' = OwnConn(t)
  BY <1>3, <1>4 DEF Now, Seen, AnyConn, OwnConn
<1>6. ASSUME NEW w, EngineIs(Now, w, t) PROVE EngineIs(Now', w, t)
  <2>1. Balanced(s.eng)
    BY <1>1, <1>2 DEF EngineIs, Balanced
  <2> QED
    BY <1>1, <1>2, <1>5, <1>6, <2>1 DEF EngineIs
<1>7. Scanned
  <2>1. Total(eng.stats.closed, Dispositions) <= eng.stats.connections
    BY <1>1, ClosedAtMost
  <2>2. Total(eng.stats.closed, Dispositions) \in Nat
    BY <1>1, ClosedTotal DEF Books
  <2>3. Grown(eng.stats.closed, eng.stats.closed, 2)
    BY <1>1, <2>2 DEF Grown, Books
  <2> QED
    BY <1>2, <1>4, <2>1, <2>3 DEF Scanned
<1>8. Scanning(t)'
  <2>1. DOMAIN eng'.conns = {k \in DOMAIN t : owner'[k] # NoSeq}
    BY <1>1, <1>2, <1>3, <1>4 DEF Scanning
  <2> QED
    BY <1>1, <1>5, <1>6, <2>1 DEF Scanning
<1>9. ASSUME clean, status' = "scanning" PROVE ScanningClean(t)'
  <2>1. ScanningClean(t)
    BY <1>9 DEF EngineInv
  <2>2. EngineIs(Now', OwnConn(t)', t)
    BY <1>5, <1>6, <2>1 DEF ScanningClean
  <2>3. OwnSessions(Now', owner', Seen')
    BY <1>1, <1>2, <1>3, <1>4, <1>5, <1>9, <2>1 DEF ScanningClean, OwnSessions
  <2>4. Keyed(t)'
    BY <1>2, <1>3, <1>4, <1>5, <2>1 DEF ScanningClean, Keyed
  <2>5. Origins(t)'
    BY <1>2, <1>3, <1>4, <2>1 DEF ScanningClean, Origins, SynGot
  <2> QED
    BY <2>2, <2>3, <2>4, <2>5 DEF ScanningClean
<1>10. ASSUME clean PROVE Apart(sunk')
  <2>1. IsSeq(sunk) /\ Apart(sunk)
    BY <1>10 DEF EngineInv, ScanningClean, OwnSessions, Sessions, Now
  <2> QED
    BY <1>2, <1>3, <2>1, SinkTakes
<1>11. eng'.stats.connections = eng.stats.connections
  BY <1>2, <1>4
<1> QED
  BY <1>3, <1>5, <1>7, <1>8, <1>9, <1>10, <1>11 DEF EngineInv

\* What a frame adds to got.
Adds(f) == {[conn |-> f.conn, dir |-> f.dir, pos |-> p] :
               p \in {IF f.syn THEN -1 ELSE -2} \cup {f.from + i - 1 : i \in DOMAIN f.data}}

\* A segment: what the engine, and the bookkeeping about it, become.
LEMMA ScanSegment ==
    ASSUME NEW t \in Traffic, EngineInv(t), status = "scanning", NEW h \in SegmentsOf(t),
           NEW f, CopyOf(f, h), Scan(f)
    PROVE  LET s == OnPacket(Now, 0, f)
               opens == Opens(eng, f)
           IN  /\ Sink(s) /\ eng' = s.eng /\ (status' = "scanning" => sunk' = s.out)
               /\ EngineIs(s, AnyConn(t), t)
               /\ eng'.stats.connections = eng.stats.connections + IF opens THEN 1 ELSE 0
               /\ owner' = IF opens THEN [owner EXCEPT ![f.key] = f.conn] ELSE owner
               /\ got' = IF ~opens /\ eng.conns[f.key].finished THEN got
                         ELSE got \cup Adds(f)
               /\ clean' = (clean /\ ~Disturbs(f, opens))
               /\ DOMAIN eng'.conns = DOMAIN eng.conns \cup {f.key}
               /\ Scanned
<1> DEFINE s == OnPacket(Now, 0, f)
           opens == Opens(eng, f)
           w == AnyConn(t)
<1>1. /\ EngineIs(Now, w, t) /\ Now.eng = eng /\ Now.out = sunk
      /\ eng.stats.connections \in Nat /\ f.kind = "tcp"
  BY DEF EngineInv, Scanning, Now, CopyOf
<1>2. f.key \in DOMAIN t /\ FrameOf(f, w[f.key], t)
  <2>1. f.key = h.key /\ h.key \in DOMAIN t
    BY SegmentsAre DEF CopyOf
  <2>2. w[f.key] = ConnsOf(t) /\ h.conn \in ConnsOf(t)
    BY <2>1 DEF AnyConn, ConnsOf
  <2> QED
    BY <2>1, <2>2, CopyIs
<1> HIDE DEF w
<1>3. /\ EngineIs(s, w, t)
      /\ s.eng.stats.connections = eng.stats.connections + IF opens THEN 1 ELSE 0
      /\ Grown(s.eng.stats.closed, eng.stats.closed, 2)
      /\ DOMAIN s.eng.conns = DOMAIN eng.conns \cup {f.key}
  <2>1. \A j \in DOMAIN Now.eng.conns : j # f.key => w[j] = w[j]
    OBVIOUS
  <2>2. ~Opens(Now.eng, f) => w[f.key] = w[f.key]
    OBVIOUS
  <2>3. /\ EngineIs(OnPacket(Now, 0, f), w, t)
        /\ OnPacket(Now, 0, f).eng.stats.connections = Now.eng.stats.connections + IF Opens(Now.eng, f) THEN 1 ELSE 0
        /\ Grown(OnPacket(Now, 0, f).eng.stats.closed, Now.eng.stats.closed, 2)
        /\ DOMAIN OnPacket(Now, 0, f).eng.conns = DOMAIN Now.eng.conns \cup {f.key}
    BY <1>1, <1>2, <2>1, <2>2, PacketKeeps
  <2> QED
    BY <1>1, <2>3
<1>4. Sink(s)
  BY DEF Scan, Now
<1>5. LET o == eng'.stats.connections > eng.stats.connections
          live == o \/ ~eng.conns[f.key].finished
      IN  /\ owner' = IF o THEN [owner EXCEPT ![f.key] = f.conn] ELSE owner
          /\ got' = IF ~live THEN got
                    ELSE got \cup {[conn |-> f.conn, dir |-> f.dir, pos |-> p] :
                                      p \in {IF f.syn THEN -1 ELSE -2} \cup {f.from + i - 1 : i \in DOMAIN f.data}}
          /\ clean' = (clean /\ ~Disturbs(f, o))
  BY <1>1, Zenon DEF Scan
<1> HIDE DEF s
<1>6. eng' = s.eng /\ (status' = "scanning" => sunk' = s.out) /\ status' \in {"scanning", "error"}
  BY <1>4 DEF Sink
<1> HIDE DEF opens
<1>7. eng'.stats.connections > eng.stats.connections <=> opens
  BY <1>1, <1>3, <1>6
<1>8. Scanned
  <2>1. Total(s.eng.stats.closed, Dispositions) <= s.eng.stats.connections
    BY <1>3, ClosedAtMost
  <2> QED
    BY <1>1, <1>3, <1>6, <2>1 DEF Scanned
<1>9. /\ owner' = IF opens THEN [owner EXCEPT ![f.key] = f.conn] ELSE owner
      /\ clean' = (clean /\ ~Disturbs(f, opens))
  <2>1. (eng'.stats.connections > eng.stats.connections) = opens
    BY <1>7 DEF opens, Opens
  <2> QED
    BY <1>5, <2>1
<1>10. got' = IF ~opens /\ eng.conns[f.key].finished THEN got ELSE got \cup Adds(f)
  <2>1. got' = IF ~((eng'.stats.connections > eng.stats.connections) \/ ~eng.conns[f.key].finished)
               THEN got ELSE got \cup Adds(f)
    BY <1>5, Zenon DEF Adds
  <2> QED
    BY <1>7, <2>1
<1> QED
  BY <1>3, <1>4, <1>6, <1>8, <1>9, <1>10 DEF s, w, opens

\* A frame adds something of its own connection, and a SYN's mark with a SYN.
LEMMA AddsAre ==
    ASSUME NEW f, f.from \in Nat, DOMAIN f.data \subseteq Nat \ {0}
    PROVE  /\ \E g \in Adds(f) : g.conn = f.conn
           /\ \A g \in Adds(f) : g.conn = f.conn /\ g.dir = f.dir /\ (g.pos = -1 => f.syn)
           /\ f.syn => \E g \in Adds(f) : g.pos = -1
<1> DEFINE P == {IF f.syn THEN -1 ELSE -2} \cup {f.from + i - 1 : i \in DOMAIN f.data}
<1>1. ASSUME NEW p \in P, p = -1 PROVE f.syn
  <2>1. CASE p \in {f.from + i - 1 : i \in DOMAIN f.data}
    <3>1. PICK i \in DOMAIN f.data : p = f.from + i - 1
      BY <2>1
    <3>2. i \in Nat /\ i # 0
      OBVIOUS
    <3> QED
      BY <1>1, <3>1, <3>2
  <2>2. CASE p = IF f.syn THEN -1 ELSE -2
    BY <1>1, <2>2
  <2> QED
    BY <2>1, <2>2
<1>2. (IF f.syn THEN -1 ELSE -2) \in P
  OBVIOUS
<1> HIDE DEF P
<1>3. Adds(f) = {[conn |-> f.conn, dir |-> f.dir, pos |-> p] : p \in P}
  BY DEF Adds, P
<1>4. \A g \in Adds(f) : g.conn = f.conn /\ g.dir = f.dir /\ g.pos \in P
  BY <1>3
<1>5. [conn |-> f.conn, dir |-> f.dir, pos |-> IF f.syn THEN -1 ELSE -2] \in Adds(f)
  BY <1>2, <1>3
<1> QED
  BY <1>1, <1>4, <1>5

\* Without a disturbance, a frame goes to the entry of its own connection, and
\* one that opens an entry is the first of its connection.
LEMMA OwnEntry ==
    ASSUME NEW t \in Traffic, ScanningClean(t), Scanning(t), NEW h \in SegmentsOf(t), NEW f, CopyOf(f, h),
           ~Disturbs(f, Opens(eng, f))
    PROVE  IF Opens(eng, f) THEN f.conn \notin Seen ELSE f.key \in DOMAIN eng.conns /\ owner[f.key] = f.conn
<1>1. /\ h.key \in DOMAIN t /\ f.key = h.key /\ f.conn = h.conn /\ h.conn # NoSeq
      /\ f.dir = h.dir /\ f.syn = h.syn /\ f.seq = h.seq
  BY SegmentsAre DEF CopyOf, IsSegment
<1>2. \A k \in DOMAIN t : k \in DOMAIN eng.conns <=> owner[k] # NoSeq
  BY DEF Scanning
<1>3. CASE ~Opens(eng, f)
  <2>1. f.key \in DOMAIN eng.conns
    BY <1>3 DEF Opens
  <2> QED
    BY <1>1, <1>2, <1>3, <2>1 DEF Disturbs
<1>4. CASE Opens(eng, f)
  <2> SUFFICES ASSUME f.conn \in Seen PROVE FALSE
    BY <1>4
  <2>1. PICK g \in got : g.conn = f.conn
    BY DEF Seen
  <2>2. owner[f.key] \in {NoSeq, f.conn}
    BY <1>4, <2>1 DEF Disturbs
  <2>3. owner[f.key] # NoSeq
    <3>1. PICK x \in SegmentsOf(t) : x.conn = f.conn /\ owner[x.key] # NoSeq
      BY DEF ScanningClean, Keyed
    <3>2. x.key = h.key
      BY <1>1, <3>1, SegmentsAre
    <3> QED
      BY <1>1, <3>1, <3>2
  <2>4. owner[f.key] = f.conn /\ f.key \in DOMAIN eng.conns
    BY <1>1, <1>2, <2>2, <2>3
  <2>5. f.syn /\ f.dir = "client" /\ ~SynRetransmit(eng.conns[f.key], f)
    BY <1>4, <2>4 DEF Opens, Reuses
  <2>6. ~eng.conns[f.key].finished /\ SynGot(f.conn)
    BY <1>4, <2>4, <2>5 DEF Disturbs, SynGot
  <2>7. eng.conns[f.key].c2s.started /\ eng.conns[f.key].c2s.isn = (f.seq + 1) % M
    BY <1>1, <2>4, <2>5, <2>6 DEF ScanningClean, Origins
  <2> QED
    BY <2>5, <2>6, <2>7 DEF SynRetransmit
<1> QED
  BY <1>3, <1>4

\* A segment that disturbs nothing keeps everything that is claimed of a clean
\* capture.
LEMMA ScanClean ==
    ASSUME NEW t \in Traffic, EngineInv(t), status = "scanning", NEW h \in SegmentsOf(t),
           NEW f, CopyOf(f, h), Scan(f), clean, clean'
    PROVE  /\ status' = "scanning" => ScanningClean(t)'
           /\ IsFiniteSet(Seen') /\ eng'.stats.connections = Cardinality(Seen')
           /\ Apart(sunk')
<1> DEFINE s == OnPacket(Now, 0, f)
           opens == Opens(eng, f)
           w == OwnConn(t)
           w2 == [k \in DOMAIN t |-> {owner'[k]}]
           key == f.key
           n == IF opens THEN 1 ELSE 0
           live == opens \/ ~eng.conns[f.key].finished
<1>1. /\ Scanning(t) /\ ScanningClean(t) /\ Now.eng = eng /\ Now.out = sunk /\ DOMAIN owner = DOMAIN t
      /\ IsFiniteSet(Seen) /\ eng.stats.connections = Cardinality(Seen) /\ f.kind = "tcp"
  BY DEF EngineInv, Now, CopyOf
<1>2. /\ Sink(s) /\ eng' = s.eng /\ (status' = "scanning" => sunk' = s.out)
      /\ eng'.stats.connections = eng.stats.connections + n
      /\ owner' = IF opens THEN [owner EXCEPT ![key] = f.conn] ELSE owner
      /\ got' = IF live THEN got \cup Adds(f) ELSE got
      /\ ~Disturbs(f, opens)
      /\ DOMAIN eng'.conns = DOMAIN eng.conns \cup {key}
  <2>1. got' = IF ~opens /\ eng.conns[f.key].finished THEN got ELSE got \cup Adds(f)
    BY ScanSegment
  <2>2. clean' = (clean /\ ~Disturbs(f, opens))
    BY ScanSegment
  <2>3. /\ Sink(s) /\ eng' = s.eng /\ (status' = "scanning" => sunk' = s.out)
        /\ eng'.stats.connections = eng.stats.connections + n
        /\ owner' = IF opens THEN [owner EXCEPT ![key] = f.conn] ELSE owner
        /\ DOMAIN eng'.conns = DOMAIN eng.conns \cup {key}
    BY ScanSegment
  <2> QED
    BY <2>1, <2>2, <2>3
<1>3. IF opens THEN f.conn \notin Seen ELSE key \in DOMAIN eng.conns /\ owner[key] = f.conn
  BY <1>1, <1>2, OwnEntry
<1>4. /\ h.key \in DOMAIN t /\ key = h.key /\ f.conn = h.conn /\ h.conn # NoSeq
      /\ f.dir = h.dir /\ f.syn = h.syn /\ f.seq = h.seq /\ f.from \in Nat
  BY SegmentsAre DEF CopyOf, IsSegment
<1>5. DOMAIN f.data \subseteq Nat \ {0}
  <2> DEFINE X == {h.data[i] : i \in DOMAIN h.data}
             q == f.data
  <2>1. q \in Seq(X)
    BY DEF CopyOf
  <2> HIDE DEF X, q
  <2>2. DOMAIN q = 1 .. Len(q) /\ Len(q) \in Nat
    BY <2>1
  <2> QED
    BY <2>2 DEF q
<1> HIDE DEF key, s, n
<1>6. owner'[key] = f.conn /\ (\A k \in DOMAIN t : k # key => owner'[k] = owner[k]) /\ DOMAIN owner' = DOMAIN t
  BY <1>1, <1>2, <1>3, <1>4
<1>7. Seen' = IF opens THEN Seen \cup {f.conn} ELSE Seen
  <2>1. Seen' = IF live THEN Seen \cup {f.conn} ELSE Seen
    BY <1>2, <1>4, <1>5, AddsAre DEF Seen
  <2>2. ~opens => f.conn \in Seen
    <3> SUFFICES ASSUME ~opens PROVE f.conn \in Seen
      OBVIOUS
    <3>1. key \in DOMAIN eng.conns /\ owner[key] = f.conn
      BY <1>3
    <3>2. \A k \in DOMAIN IdsOf(eng.conns) : owner[k] \in Seen
      BY <1>1 DEF ScanningClean, OwnSessions, Sessions
    <3> QED
      BY <3>1, <3>2 DEF IdsOf
  <2> QED
    BY <2>1, <2>2
<1>8. /\ EngineIs(Now, w, t) /\ OwnSessions(Now, owner, Seen)
      /\ \A j \in DOMAIN eng.conns : j \in DOMAIN t /\ w[j] = {owner[j]}
  BY <1>1 DEF ScanningClean, OwnConn, Scanning
<1>9. /\ \A j \in DOMAIN eng.conns : j # key => w2[j] = w[j]
      /\ w2[key] = {owner'[key]} /\ (~opens => w2[key] = w[key])
  BY <1>3, <1>4, <1>6, <1>8
<1>10. FrameOf(f, w2[key], t)
  <2>1. h.conn \in w2[key]
    BY <1>4, <1>6, <1>9
  <2> QED
    BY <2>1, CopyIs
<1>17. OwnConn(t)' = w2
  BY DEF OwnConn
<1> HIDE DEF w, w2, opens
<1>11. /\ EngineIs(s, w2, t)
       /\ \A j \in DOMAIN eng.conns : j # key => s.eng.conns[j] = eng.conns[j]
       /\ LET conn == IF opens THEN NewConn ELSE eng.conns[key]
          IN  IF conn.finished THEN s.eng.conns[key] = conn ELSE Origin(s.eng.conns[key].c2s, f, conn.c2s)
  <2>1. /\ \A j \in DOMAIN Now.eng.conns : j # f.key => w2[j] = w[j]
        /\ ~Opens(Now.eng, f) => w2[f.key] = w[f.key]
        /\ FrameOf(f, w2[f.key], t) /\ EngineIs(Now, w, t) /\ f.kind = "tcp"
    BY <1>1, <1>8, <1>9, <1>10 DEF key, opens
  <2>2. /\ EngineIs(OnPacket(Now, 0, f), w2, t)
        /\ \A j \in DOMAIN Now.eng.conns : j # f.key => OnPacket(Now, 0, f).eng.conns[j] = Now.eng.conns[j]
        /\ LET conn == IF Opens(Now.eng, f) THEN NewConn ELSE Now.eng.conns[f.key]
           IN  IF conn.finished THEN OnPacket(Now, 0, f).eng.conns[f.key] = conn
               ELSE Origin(OnPacket(Now, 0, f).eng.conns[f.key].c2s, f, conn.c2s)
    <3>1. t \in Traffic
      OBVIOUS
    <3> QED
      BY ONLY <2>1, <3>1, PacketKeeps
  <2> QED
    BY <1>1, <2>2 DEF s, key, opens
<1>12. OwnSessions(s, owner', Seen')
  <2> DEFINE own2 == owner'
             K == Seen
  <2>1. Owning(Now, w, f, w2, owner, own2, K, t)
    BY <1>1, <1>3, <1>6, <1>8, <1>9, <1>10 DEF key, opens, Owning
  <2> HIDE DEF own2, K
  <2>2. OwnSessions(OnPacket(Now, 0, f), own2, IF Opens(Now.eng, f) THEN K \cup {own2[f.key]} ELSE K)
    BY <2>1, PacketSessions
  <2> QED
    BY <1>1, <1>6, <1>7, <2>2 DEF s, key, opens, own2, K
<1>13. Apart(sunk')
  <2>1. IsSeq(sunk) /\ IsSeq(s.out) /\ Apart(s.out)
    BY <1>1, <1>8, <1>12 DEF OwnSessions, Sessions
  <2> QED
    BY <1>2, <2>1, SinkTakes
<1>14. IsFiniteSet(Seen') /\ eng'.stats.connections = Cardinality(Seen')
  <2>1. Cardinality(Seen) \in Nat
    BY <1>1, FS_CardinalityType
  <2>2. CASE opens
    <3>1. Seen' = Seen \cup {f.conn} /\ f.conn \notin Seen
      BY <1>3, <1>7, <2>2
    <3>2. IsFiniteSet(Seen \cup {f.conn}) /\ Cardinality(Seen \cup {f.conn}) = Cardinality(Seen) + 1
      BY <1>1, <3>1, FS_AddElement
    <3> QED
      BY <1>1, <1>2, <2>1, <2>2, <3>1, <3>2 DEF n
  <2>3. CASE ~opens
    BY <1>1, <1>2, <1>7, <2>1, <2>3 DEF n
  <2> QED
    BY <2>2, <2>3
<1>15. Keyed(t)'
  <2>1. ASSUME NEW c \in Seen' PROVE \E x \in SegmentsOf(t) : x.conn = c /\ owner'[x.key] # NoSeq
    <3>1. CASE c = f.conn
      BY <1>4, <1>6, <3>1
    <3>2. CASE c # f.conn
      <4>1. PICK x \in SegmentsOf(t) : x.conn = c /\ owner[x.key] # NoSeq
        BY <1>1, <1>7, <2>1, <3>2 DEF ScanningClean, Keyed
      <4>2. owner'[x.key] # NoSeq
        <5>1. x.key \in DOMAIN t
          BY SegmentsAre
        <5> QED
          BY <1>4, <1>6, <4>1, <5>1
      <4> QED
        BY <4>1, <4>2
    <3> QED
      BY <3>1, <3>2
  <2>2. ASSUME NEW k \in DOMAIN eng'.conns PROVE \E x \in SegmentsOf(t) : x.conn = owner'[k] /\ x.key = k
    <3>1. CASE k = key
      BY <1>4, <1>6, <3>1
    <3>2. CASE k # key
      <4>1. k \in DOMAIN eng.conns /\ owner'[k] = owner[k]
        BY <1>2, <1>6, <1>8, <2>2, <3>2
      <4> QED
        BY <1>1, <4>1 DEF ScanningClean, Keyed
    <3> QED
      BY <3>1, <3>2
  <2> QED
    BY <2>1, <2>2 DEF Keyed
<1>16. Origins(t)'
  <2> SUFFICES ASSUME NEW k \in DOMAIN eng'.conns, ~eng'.conns[k].finished,
                      NEW g \in got', g.conn = owner'[k], g.dir = "client", g.pos = -1,
                      NEW x \in SegmentsOf(t), x.conn = owner'[k], x.dir = "client", x.syn
               PROVE  eng'.conns[k].c2s.started /\ eng'.conns[k].c2s.isn = (x.seq + 1) % M
    BY DEF Origins, SynGot
  <2>1. /\ \A y \in Adds(f) : y.conn = f.conn /\ y.dir = f.dir /\ (y.pos = -1 => f.syn)
        /\ got' \subseteq got \cup Adds(f)
    BY <1>2, <1>4, <1>5, AddsAre
  <2>2. CASE k # key
    <3>1. k \in DOMAIN eng.conns /\ owner'[k] = owner[k] /\ eng'.conns[k] = eng.conns[k]
      BY <1>2, <1>6, <1>8, <1>11, <2>2
    <3>2. owner[k] # f.conn
      <4>1. PICK y \in SegmentsOf(t) : y.conn = owner[k] /\ y.key = k
        BY <1>1, <3>1 DEF ScanningClean, Keyed
      <4>2. y.conn = h.conn => y.key = h.key
        BY SegmentsAre
      <4> QED
        BY <1>4, <2>2, <4>1, <4>2
    <3>3. g \in got
      BY <2>1, <3>1, <3>2
    <3> QED
      BY <1>1, <3>1, <3>3 DEF ScanningClean, Origins, SynGot
  <2>3. CASE k = key
    <3> DEFINE conn == IF opens THEN NewConn ELSE eng.conns[key]
    <3>1. owner'[k] = f.conn
      BY <1>6, <2>3
    <3>2. ~conn.finished
      BY <1>2, <1>11, <2>3
    <3>3. Origin(eng'.conns[key].c2s, f, conn.c2s)
      BY <1>2, <1>11, <3>2
    <3>4. CASE f.dir = "client" /\ f.syn
      <4>1. x.conn = h.conn /\ h.dir = "client" /\ h.syn
        BY <1>4, <3>1, <3>4
      <4>2. x.seq = h.seq
        BY <4>1, SegmentsAre
      <4> QED
        BY <1>4, <2>3, <3>3, <3>4, <4>2 DEF Origin
    <3>5. CASE ~(f.dir = "client" /\ f.syn)
      <4>1. g \in got
        BY <2>1, <3>5
      <4>2. ~opens
        BY <1>3, <3>1, <4>1 DEF Seen
      <4>3. key \in DOMAIN eng.conns /\ owner[key] = f.conn /\ ~eng.conns[key].finished
        BY <1>3, <3>2, <4>2
      <4>4. eng.conns[key].c2s.started /\ eng.conns[key].c2s.isn = (x.seq + 1) % M
        BY <1>1, <3>1, <4>1, <4>3 DEF ScanningClean, Origins, SynGot
      <4> QED
        BY <2>3, <3>3, <3>5, <4>2, <4>4 DEF Origin
    <3> QED
      BY <3>4, <3>5
  <2> QED
    BY <2>2, <2>3
<1>18. ASSUME status' = "scanning" PROVE ScanningClean(t)'
  <2>1. Now' = [eng |-> s.eng, out |-> s.out] /\ DOMAIN s = {"eng", "out"}
    BY <1>2, <1>11, <1>18 DEF Now, EngineIs
  <2>2. EngineIs(Now', w2, t)
    BY <1>11, <2>1 DEF EngineIs
  <2>3. OwnSessions(Now', owner', Seen')
    BY <1>12, <2>1 DEF OwnSessions
  <2> QED
    BY <1>15, <1>16, <1>17, <2>2, <2>3 DEF ScanningClean
<1> QED
  BY <1>13, <1>14, <1>18

\* A captured frame keeps the invariant, and the ledger takes it for a packet.
LEMMA ScanKeeps ==
    ASSUME NEW t \in Traffic, NEW f, EngineInv(t), status = "scanning", FrameFrom(f, t), Scan(f)
    PROVE  EngineInv(t)' /\ Scanned
<1>1. CASE f.kind # "tcp"
  BY <1>1, ScanOther
<1>2. CASE f.kind = "tcp"
  <2>1. PICK h \in SegmentsOf(t) : CopyOf(f, h)
    BY <1>2 DEF FrameFrom
  <2> DEFINE s == OnPacket(Now, 0, f)
             opens == Opens(eng, f)
             n == IF opens THEN 1 ELSE 0
  <2>2. /\ Sink(s) /\ eng' = s.eng /\ (status' = "scanning" => sunk' = s.out)
        /\ EngineIs(s, AnyConn(t), t)
        /\ eng'.stats.connections = eng.stats.connections + n
        /\ owner' = IF opens THEN [owner EXCEPT ![f.key] = f.conn] ELSE owner
        /\ clean' = (clean /\ ~Disturbs(f, opens))
        /\ DOMAIN eng'.conns = DOMAIN eng.conns \cup {f.key}
        /\ Scanned
    BY <2>1, ScanSegment
  <2>3. /\ Scanning(t) /\ DOMAIN owner = DOMAIN t /\ clean \in BOOLEAN /\ eng.stats.connections \in Nat
    BY DEF EngineInv
  <2>4. f.key \in DOMAIN t /\ f.conn # NoSeq
    BY <2>1, SegmentsAre DEF CopyOf, IsSegment
  <2>5. ~opens => f.key \in DOMAIN eng.conns
    BY DEF Opens
  <2> HIDE DEF s, opens
  <2>6. DOMAIN owner' = DOMAIN t /\ clean' \in BOOLEAN /\ eng'.stats.connections \in Nat
    BY <2>2, <2>3
  <2>7. DOMAIN eng'.conns = {k \in DOMAIN t : owner'[k] # NoSeq}
    <3>1. DOMAIN eng.conns = {k \in DOMAIN t : owner[k] # NoSeq}
      BY <2>3 DEF Scanning
    <3> QED
      BY <2>2, <2>3, <2>4, <2>5, <3>1
  <2>8. ASSUME status' = "scanning" PROVE Scanning(t)'
    <3>1. Now' = [eng |-> s.eng, out |-> s.out] /\ DOMAIN s = {"eng", "out"} /\ AnyConn(t)' = AnyConn(t)
      BY <2>2, <2>8 DEF Now, EngineIs, AnyConn
    <3>2. EngineIs(Now', AnyConn(t), t)
      BY <2>2, <3>1 DEF EngineIs
    <3> QED
      BY <2>7, <3>1, <3>2 DEF Scanning
  <2>9. ASSUME clean'
        PROVE  /\ status' = "scanning" => ScanningClean(t)'
               /\ IsFiniteSet(Seen') /\ eng'.stats.connections = Cardinality(Seen')
               /\ Apart(sunk')
    <3>1. clean
      BY <2>2, <2>9
    <3> QED
      BY <2>1, <2>9, <3>1, ScanClean
  <2> QED
    BY <2>2, <2>6, <2>8, <2>9 DEF EngineInv
<1> QED
  BY <1>1, <1>2

\* At the start nothing is captured.
LEMMA InitInv == Init => Inv
<1> SUFFICES ASSUME Init PROVE Inv
  OBVIOUS
<1> DEFINE t == todo
           none == <<>>
<1>1. t \in Traffic /\ eng = NewEngine /\ sunk = none /\ held = {} /\ got = {}
      /\ owner = [k \in DOMAIN t |-> NoSeq] /\ clean = TRUE
  BY DEF Init
<1>2. FramesLeft(t)
  <2>1. ASSUME NEW k \in DOMAIN t PROVE todo[k] \in Seq(Frames(t))
    <3> DEFINE X == {t[k][i] : i \in DOMAIN t[k]}
               q == t[k]
    <3>1. q \in Seq(X)
      BY <1>1, TrafficAssumption
    <3>2. X \subseteq Frames(t)
      BY DEF Frames
    <3> HIDE DEF X, q
    <3>3. q \in Seq(Frames(t))
      BY <3>1, <3>2
    <3> QED
      BY <3>3 DEF q
  <2> QED
    BY <1>1, <2>1 DEF FramesLeft
<1>3. DOMAIN none = {} /\ IsSeq(none)
  BY DEF IsSeq
<1> DEFINE zero == [d \in Dispositions |-> 0]
<1>4. /\ eng.conns = none /\ eng.used = {} /\ eng.synthetic_next = SynthBase
      /\ eng.stats.connections = 0 /\ eng.stats.closed = zero
      /\ DOMAIN eng = {"conns", "used", "synthetic_next", "stats"}
      /\ {"connections", "closed"} \subseteq DOMAIN eng.stats
  BY <1>1 DEF NewEngine
<1> HIDE DEF none
<1>5. Total(zero, Dispositions) = 0
  BY TotalZero, DispositionsFinite
<1>6. SynthBase \in Nat /\ zero \in [Dispositions -> Nat]
  BY EngineAssumption
<1> HIDE DEF zero
<1>7. Live(eng.conns) = {} /\ IsFiniteSet({}) /\ Cardinality({}) = 0
  BY <1>3, <1>4, FS_EmptySet DEF Live
<1>8. Books(eng) /\ Balanced(eng)
  BY <1>3, <1>4, <1>5, <1>6, <1>7 DEF Books, Balanced
<1>9. ASSUME NEW w PROVE EngineIs(Now, w, t)
  BY <1>1, <1>3, <1>4, <1>8 DEF EngineIs, Now
<1>10. Seen = {}
  BY <1>1 DEF Seen
<1>11. OwnSessions(Now, owner, Seen) /\ Apart(sunk)
  BY <1>1, <1>3, <1>4, <1>6, <1>10 DEF OwnSessions, Sessions, Now, IdsOf, Apart
<1>12. Scanning(t)
  BY <1>1, <1>3, <1>4, <1>9 DEF Scanning
<1>13. ScanningClean(t)
  BY <1>3, <1>4, <1>9, <1>10, <1>11 DEF ScanningClean, Keyed, Origins
<1>14. EngineInv(t)
  BY <1>1, <1>4, <1>7, <1>10, <1>11, <1>12, <1>13 DEF EngineInv
<1> QED
  BY <1>1, <1>2, <1>14 DEF Inv

-----------------------------------------------------------------------------
(* The steps.                                                              *)

\* A frame of the traffic, whole or cut by the snap length.
LEMMA FrameCopies ==
    ASSUME NEW t \in Traffic, NEW f \in Frames(t)
    PROVE  /\ FrameFrom(f, t)
           /\ f.kind = "tcp" /\ f.data # <<>> =>
                FrameFrom([f EXCEPT !.data = Front(@), !.truncated = TRUE], t)
           /\ f.kind # "tcp" => FrameFrom([f EXCEPT !.data = Front(@), !.truncated = TRUE], t)
<1> DEFINE cut == [f EXCEPT !.data = Front(@), !.truncated = TRUE]
<1>1. "kind" \in DOMAIN f /\ cut.kind = f.kind
  BY SegmentsAre
<1>2. ASSUME f.kind = "tcp" PROVE FrameFrom(f, t) /\ (f.data # <<>> => FrameFrom(cut, t))
  <2>1. f \in SegmentsOf(t) /\ IsSegment(f, f.key)
    BY <1>2, SegmentsAre
  <2> DEFINE X == {f.data[i] : i \in DOMAIN f.data}
             q == f.data
  <2>2. q \in Seq(X)
    BY <2>1 DEF IsSegment
  <2>3. /\ cut.kind = "tcp" /\ cut.key = f.key /\ cut.conn = f.conn /\ cut.dir = f.dir /\ cut.seq = f.seq
        /\ cut.syn = f.syn /\ cut.from = f.from /\ cut.data = Front(q)
    BY <1>2, <2>1 DEF IsSegment
  <2> HIDE DEF X, q, cut
  <2>4. q # <<>> => Front(q) \in Seq(X)
    <3> SUFFICES ASSUME q # <<>> PROVE Front(q) \in Seq(X)
      OBVIOUS
    <3> DEFINE n == Len(q) - 1
    <3>1. n \in 0 .. Len(q)
      BY <2>2, EmptySeq
    <3>2. SubSeq(q, 1, n) \in Seq(X)
      BY <2>2, <3>1, SubSeqProperties
    <3> QED
      BY <3>2 DEF Front
  <2> QED
    BY <1>2, <2>1, <2>2, <2>3, <2>4 DEF FrameFrom, CopyOf, X, q
<1>3. ASSUME f.kind # "tcp" PROVE FrameFrom(f, t) /\ FrameFrom(cut, t)
  BY <1>1, <1>3 DEF FrameFrom
<1> QED
  BY <1>2, <1>3

\* The frame at the head of a key's traffic is one of its frames, and so are
\* those behind it.
LEMMA PassingTakes ==
    ASSUME NEW t \in Traffic, FramesLeft(t), NEW k \in DOMAIN todo, Passing(k)
    PROVE  /\ Head(todo[k]) \in Frames(t) /\ status = "scanning"
           /\ DOMAIN todo' = DOMAIN t /\ \A j \in DOMAIN t : todo'[j] \in Seq(Frames(t))
<1> DEFINE q == todo[k]
           F == Frames(t)
<1>1. q \in Seq(F) /\ q # <<>> /\ DOMAIN todo = DOMAIN t /\ \A j \in DOMAIN t : todo[j] \in Seq(F)
  BY DEF FramesLeft, Passing
<1>2. todo' = [todo EXCEPT ![k] = Tail(q)] /\ status = "scanning"
  BY DEF Passing
<1> HIDE DEF q, F
<1>3. Head(q) \in F /\ Tail(q) \in Seq(F)
  BY <1>1, HeadTailProperties
<1>4. DOMAIN todo' = DOMAIN t /\ \A j \in DOMAIN t : todo'[j] \in Seq(F)
  BY <1>1, <1>2, <1>3
<1> QED
  BY <1>2, <1>3, <1>4 DEF q, F

\* What is claimed of the engine depends on these variables alone.
LEMMA EngineUnchanged ==
    ASSUME NEW t, EngineInv(t), UNCHANGED <<eng, sunk, status, got, owner, clean>>
    PROVE  EngineInv(t)'
BY DEF EngineInv, Scanning, ScanningClean, Now, AnyConn, OwnConn, Seen, Keyed, Origins, SynGot

\* The ledger adds up what the engine adds up.
LEMMA LedgerTotal == ASSUME NEW c PROVE Ledger!Closed(c) = Total(c, Dispositions)
BY DEF Ledger!Closed, Ledger!MapThenSumSet, Ledger!MapThenFoldSet, Total, MapThenSumSet, MapThenFoldSet

\* A captured frame is a packet to the ledger.
LEMMA ScannedPacket ==
    ASSUME NEW t, EngineInv(t), status = "scanning", Scanned
    PROVE  Ledger!Packet
<1>1. /\ Total(eng'.stats.closed, Dispositions) - Total(eng.stats.closed, Dispositions) <= 2
      /\ eng'.stats.closed \in [Dispositions -> Nat]
      /\ \A d \in Dispositions : eng'.stats.closed[d] >= eng.stats.closed[d]
  BY DEF Scanned, Grown
<1> QED
  BY <1>1, LedgerTotal DEF Scanned, Ledger!Packet

\* At the end of the file every connection is closed.
LEMMA EndKeeps ==
    ASSUME NEW t, EngineInv(t), EndOfFile
    PROVE  EngineInv(t)' /\ Ledger!Finish
<1> DEFINE conns == eng.conns
<1>1. PICK order \in SetToSeqs(DOMAIN conns) :
        LET acc == FinishEngine(Now, order)
        IN  \/ eng' = acc.eng /\ sunk' = acc.out /\ status' = "ok"
            \/ \E n \in Len(sunk) .. Len(acc.out) - 1 :
                  eng' = acc.eng /\ sunk' = SubSeq(acc.out, 1, n) /\ status' = "error"
  BY DEF EndOfFile, Now
<1> DEFINE acc == FinishEngine(Now, order)
<1>2. /\ status = "scanning" /\ UNCHANGED <<got, owner, clean>> /\ eng' = acc.eng /\ status' \in {"ok", "error"}
  BY <1>1 DEF EndOfFile
<1>3. /\ Scanning(t) /\ DOMAIN owner = DOMAIN t /\ clean \in BOOLEAN /\ eng.stats.connections \in Nat
      /\ Now.eng = eng /\ Now.out = sunk /\ Seen' = Seen
      /\ clean => IsFiniteSet(Seen) /\ eng.stats.connections = Cardinality(Seen)
  BY <1>2 DEF EngineInv, Now, Seen
<1>4. order \in SetToSeqs(DOMAIN Now.eng.conns)
  BY <1>1, <1>3
<1>5. EngineIs(Now, AnyConn(t), t)
  BY <1>3 DEF Scanning
<1>6. /\ acc.eng.stats.connections = eng.stats.connections
      /\ Raised(acc.eng.stats.closed, eng.stats.closed)
      /\ Total(acc.eng.stats.closed, Dispositions) = eng.stats.connections
  BY <1>3, <1>4, <1>5, FinishKeeps
<1>7. ASSUME clean PROVE Apart(sunk')
  <2>1. ScanningClean(t)
    BY <1>2, <1>7 DEF EngineInv
  <2>2. EngineIs(Now, OwnConn(t), t) /\ OwnSessions(Now, owner, Seen) /\ IsSeq(sunk)
    BY <1>3, <2>1 DEF ScanningClean, OwnSessions, Sessions
  <2>3. \A j \in DOMAIN Now.eng.conns : OwnConn(t)[j] = {owner[j]}
    BY <1>3 DEF OwnConn, Scanning
  <2>4. IsSeq(acc.out) /\ Apart(acc.out)
    BY <1>4, <2>2, <2>3, FinishSessions
  <2> HIDE DEF acc
  <2>5. sunk' = acc.out \/ \E n \in Len(sunk) .. Len(acc.out) - 1 : sunk' = SubSeq(acc.out, 1, n)
    BY <1>1 DEF acc
  <2> QED
    BY <2>2, <2>4, <2>5, ApartPrefix
<1> HIDE DEF acc
<1>8. EngineInv(t)'
  BY <1>2, <1>3, <1>6, <1>7 DEF EngineInv
<1>9. Ledger!Finish
  BY <1>2, <1>6, LedgerTotal DEF Ledger!Finish, Raised
<1> QED
  BY <1>8, <1>9

\* Every step keeps the invariant and is one of the ledger's.
LEMMA StepKeeps ==
    ASSUME NEW t \in Traffic, FramesLeft(t), EngineInv(t), Next
    PROVE  FramesLeft(t)' /\ EngineInv(t)' /\ [Ledger!Next]_(Ledger!vars)
<1> DEFINE Step == FramesLeft(t)' /\ EngineInv(t)' /\ [Ledger!Next]_(Ledger!vars)
<1>1. ASSUME NEW f, FrameFrom(f, t), Scan(f), status = "scanning", FramesLeft(t)' PROVE Step
  <2>1. EngineInv(t)' /\ Scanned
    BY <1>1, ScanKeeps
  <2> QED
    BY <1>1, <2>1, ScannedPacket DEF Ledger!Next
<1>2. ASSUME UNCHANGED <<eng, sunk, status, got, asked, owner, clean>>, FramesLeft(t)' PROVE Step
  BY <1>2, EngineUnchanged DEF Ledger!vars
<1>3. ASSUME NEW k \in DOMAIN todo, Passing(k), held' \in {held, held \cup {Head(todo[k])}} PROVE FramesLeft(t)'
  BY <1>3, PassingTakes DEF FramesLeft
<1>4. ASSUME NEW k \in DOMAIN todo, CaptureFrame(k) PROVE Step
  <2>1. Passing(k) /\ Scan(Head(todo[k])) /\ held' = held
    BY <1>4 DEF CaptureFrame
  <2>2. FrameFrom(Head(todo[k]), t) /\ status = "scanning"
    BY <2>1, PassingTakes, FrameCopies
  <2> QED
    BY <1>1, <1>3, <2>1, <2>2
<1>5. ASSUME NEW k \in DOMAIN todo, LoseFrame(k) PROVE Step
  BY <1>2, <1>3, <1>5 DEF LoseFrame
<1>6. ASSUME NEW k \in DOMAIN todo, DelayFrame(k) PROVE Step
  BY <1>2, <1>3, <1>6 DEF DelayFrame
<1>7. ASSUME NEW k \in DOMAIN todo, RepeatFrame(k) PROVE Step
  <2>1. Passing(k) /\ Scan(Head(todo[k])) /\ held' = held \cup {Head(todo[k])}
    BY <1>7 DEF RepeatFrame
  <2>2. FrameFrom(Head(todo[k]), t) /\ status = "scanning"
    BY <2>1, PassingTakes, FrameCopies
  <2> QED
    BY <1>1, <1>3, <2>1, <2>2
<1>8. ASSUME NEW k \in DOMAIN todo, TruncateFrame(k) PROVE Step
  <2> DEFINE h == Head(todo[k])
             cut == [h EXCEPT !.data = Front(@), !.truncated = TRUE]
  <2>1. Passing(k) /\ Scan(cut) /\ held' = held /\ h.data # <<>>
    BY <1>8 DEF TruncateFrame
  <2>2. h \in Frames(t) /\ status = "scanning"
    BY <2>1, PassingTakes
  <2>3. FrameFrom(cut, t)
    BY <2>1, <2>2, FrameCopies
  <2> QED
    BY <1>1, <1>3, <2>1, <2>2, <2>3
<1>9. ASSUME NEW f \in held, LateFrame(f) PROVE Step
  <2>1. /\ Scan(f) /\ status = "scanning" /\ held' = held \ {f} /\ todo' = todo
    BY <1>9 DEF LateFrame
  <2>2. f \in Frames(t) /\ FramesLeft(t)'
    BY <2>1 DEF FramesLeft
  <2> QED
    BY <1>1, <2>1, <2>2, FrameCopies
<1>10. ASSUME EndOfFile PROVE Step
  <2>1. FramesLeft(t)'
    BY <1>10 DEF EndOfFile, FramesLeft
  <2> QED
    BY <1>10, <2>1, EndKeeps DEF Ledger!Next
<1>11. ASSUME Malformed PROVE Step
  <2>1. /\ status = "scanning" /\ status' = "error"
        /\ UNCHANGED <<todo, held, eng, sunk, got, owner, clean>>
    BY <1>11 DEF Malformed
  <2>2. FramesLeft(t)'
    BY <2>1 DEF FramesLeft
  <2>3. EngineInv(t)'
    BY <2>1 DEF EngineInv, Seen
  <2>4. EngineIs(Now, AnyConn(t), t) /\ Now.eng = eng
    BY <2>1 DEF EngineInv, Scanning, Now
  <2>5. Books(eng) /\ Total(eng.stats.closed, Dispositions) <= eng.stats.connections
    BY <2>4, ClosedAtMost DEF EngineIs
  <2>6. Total(eng.stats.closed, Dispositions) \in Nat
    BY <2>5, ClosedTotal DEF Books
  <2>7. Scanned
    BY <2>1, <2>5, <2>6 DEF Scanned, Grown, Books
  <2> QED
    BY <2>1, <2>2, <2>3, <2>7, ScannedPacket DEF Ledger!Next
<1> HIDE DEF Step
<1>12. Step
  BY <1>4, <1>5, <1>6, <1>7, <1>8, <1>9, <1>10, <1>11 DEF Next
<1> QED
  BY <1>12 DEF Step

\* A step keeps the invariant and is one of the ledger's, or none.
LEMMA InvStep == Inv /\ [Next]_vars => Inv' /\ [Ledger!Next]_(Ledger!vars)
<1> SUFFICES ASSUME Inv, [Next]_vars PROVE Inv' /\ [Ledger!Next]_(Ledger!vars)
  OBVIOUS
<1>1. PICK t \in Traffic : FramesLeft(t) /\ EngineInv(t)
  BY DEF Inv
<1>2. CASE Next
  BY <1>1, <1>2, StepKeeps DEF Inv
<1>3. CASE UNCHANGED vars
  <2>1. FramesLeft(t)'
    BY <1>1, <1>3 DEF FramesLeft, vars
  <2>2. EngineInv(t)'
    BY <1>1, <1>3, EngineUnchanged DEF vars
  <2> QED
    BY <1>3, <2>1, <2>2 DEF Inv, vars, Ledger!vars
<1> QED
  BY <1>2, <1>3

\* PcapEngine always has the invariant, whatever the traffic is and whatever the
\* capture loses, delays, repeats or truncates: its parts say why the three
\* theorems below hold.
THEOREM EngineInvariant == Spec => []Inv
<1>1. Init => Inv
  BY InitInv
<1>2. Inv /\ [Next]_vars => Inv'
  BY InvStep
<1> QED
  BY <1>1, <1>2, PTL DEF Spec

\* The counters of on_packet and finish: each connection is counted once
\* when it is opened and once, under one disposition, when it is closed, a packet
\* opens one and closes two at most, and all are closed at the end of the file.
THEOREM EngineImplementsLedger == Spec => LedgerKept
<1>1. Init => Ledger!Init
  BY DEF Init, NewEngine, Ledger!Init
<1>2. Inv /\ [Next]_vars => [Ledger!Next]_(Ledger!vars)
  BY InvStep
<1> QED
  BY <1>1, <1>2, EngineInvariant, PTL DEF Spec, LedgerKept, Ledger!Spec

\* drain_events: two connections never share a session id and one connection
\* never has two, also when the server gives a thread id again, a client its port
\* or a segment comes twice, as long as no frame disturbs the capture.
THEOREM SessionsAreApart == Spec => []SessionsApart
<1>1. Inv => SessionsApart
  BY DEF Inv, EngineInv, Apart, SessionsApart
<1> QED
  BY <1>1, EngineInvariant, PTL

\* on_packet: in a capture that no frame disturbs the connections counted
\* are those of which something was captured, each one once.
THEOREM ConnectionsAreReal == Spec => []ConnectionsReal
<1>1. Inv => ConnectionsReal
  BY DEF Inv, EngineInv, Seen, ConnectionsReal
<1> QED
  BY <1>1, EngineInvariant, PTL
=============================================================================
