----------------------------- MODULE WireDecoder -----------------------------
(***************************************************************************)
(* The MySQL wire decoder (mysqlproto.rs, ConnDecoder) as operators on its *)
(* state, a record with the fields of the struct.                          *)
(*                                                                         *)
(* A stream is a sequence of cells.  A packet is a head cell [len, seq]    *)
(* (the 4-byte header) and len payload cells; a payload of FullLen cells   *)
(* continues in the next packet.  The first payload cell of a message is a *)
(* record with its fields, the others only take room.  SQL is a sequence   *)
(* of lexemes.                                                             *)
(***************************************************************************)
EXTENDS Integers, Sequences, FiniteSets, SequencesExt

CONSTANTS
    SeqWrap,      \* packet sequence numbers wrap here: 256 in the code
    FullLen,     \* the length of a packet that continues: 0xffffff
    MaxLogical,  \* MAX_LOGICAL_PACKET
    Bits         \* width of a binary integer parameter

ASSUME WireAssumption ==
    /\ SeqWrap \in Nat \ {0} /\ FullLen \in Nat \ {0} /\ Bits \in Nat \ {0}
    /\ MaxLogical \in Nat

None == "none"   \* an absent name
NoSeq == -1      \* no continuation expected

-----------------------------------------------------------------------------
(* Packets (PacketAssembler).                                              *)

NewAssembler == [buf |-> <<>>, marks |-> <<>>, consumed |-> 0, partial |-> <<>>, broken |-> FALSE]

\* Faulty variant: the newest chunk's timestamp, whatever chunk the byte is from.
TsForNewest(a, offset) == Last(a.marks).ts

\* The timestamp of the chunk that delivered the byte at offset.
TsFor(a, offset) == Last(SelectSeq(a.marks, LAMBDA m : m.offset <= offset)).ts

\* A packet is complete.  Payload that is taken for a header, in a stream that
\* is not read from the start of a packet, announces more than is ever sent.
HasPacket(a) ==
    a.buf # <<>> /\ "len" \in DOMAIN Head(a.buf) /\ Len(a.buf) >= 1 + Head(a.buf).len

\* Take one packet off the buffer: alone, or as a further part of the message
\* in progress.  acc holds the assembler and the messages completed so far.
TakePacket(acc) ==
    LET a       == acc.asm
        head    == Head(a.buf)
        payload == SubSeq(a.buf, 2, 1 + head.len)
        msg     == IF a.partial = <<>>
                   THEN [first_seq |-> head.seq, last_seq |-> head.seq,
                         ts |-> TsFor(a, a.consumed), payload |-> payload]
                   ELSE [a.partial[1] EXCEPT !.last_seq = head.seq, !.payload = @ \o payload]
        rest    == [a EXCEPT !.buf = SubSeq(a.buf, 2 + head.len, Len(a.buf)),
                             !.consumed = @ + 1 + head.len]
    IN  IF a.partial # <<>> /\ Len(msg.payload) > MaxLogical
        THEN [acc EXCEPT !.asm.broken = TRUE]
        ELSE IF head.len = FullLen
        THEN [acc EXCEPT !.asm = [rest EXCEPT !.partial = <<msg>>]]
        ELSE [asm |-> [rest EXCEPT !.partial = <<>>], out |-> Append(acc.out, msg)]

\* Forget the marks of bytes that left the buffer: all before the last one at
\* or below its front.
TrimMarks(a) ==
    LET old == {i \in 1 .. Len(a.marks) - 1 : a.marks[i + 1].offset <= a.consumed}
    IN  [a EXCEPT !.marks = SubSeq(@, Cardinality(old) + 1, Len(@))]

\* A chunk is appended to the buffer, and its start is marked.
Received(a, ts, data) ==
    [a EXCEPT !.marks = Append(@, [offset |-> a.consumed + Len(a.buf), ts |-> ts]), !.buf = @ \o data]

\* Every complete packet is taken off the buffer.
TakePackets(a) ==
    FoldLeft(LAMBDA r, k : IF ~r.asm.broken /\ HasPacket(r.asm) THEN TakePacket(r) ELSE r,
             [asm |-> a, out |-> <<>>], [k \in 1 .. Len(a.buf) |-> k])

\* What is left in the buffer must not outgrow a message.
Bounded(acc) ==
    IF acc.asm.broken THEN acc
    ELSE LET final == TrimMarks(acc.asm)
         IN  [acc EXCEPT !.asm = [final EXCEPT !.broken = Len(final.buf) > MaxLogical]]

Feed(a, ts, data) ==
    IF a.broken \/ data = <<>> THEN [asm |-> a, out |-> <<>>]
    ELSE Bounded(TakePackets(Received(a, ts, data)))

-----------------------------------------------------------------------------
(* Statement text.                                                         *)

\* Where the scanner is after a lexeme: in code, in a section named by what
\* opened it, or behind a backslash in one.  A doubled quote leaves its section
\* and enters it again.  (dq is the double quote, bt
\* the backtick, bs the backslash, nl the end of a line.)
ScanMode(mode, lexeme) ==
    CASE mode = "code" /\ lexeme \in {"'", "dq", "bt", "#", "-- ", "/*"} -> lexeme
      [] mode = "'" /\ lexeme = "bs" -> "escaped '"
      [] mode = "dq" /\ lexeme = "bs" -> "escaped dq"
      [] mode = "escaped '" -> "'"
      [] mode = "escaped dq" -> "dq"
      [] mode \in {"'", "dq", "bt"} /\ lexeme = mode -> "code"
      [] mode \in {"#", "-- "} /\ lexeme = "nl" -> "code"
      [] mode = "/*" /\ lexeme = "*/" -> "code"
      [] OTHER -> mode

\* Faulty variant: a question mark is a placeholder wherever it stands.
IsPlaceholderAnywhere(mode, lexeme) == lexeme = "?"

IsPlaceholder(mode, lexeme) == mode = "code" /\ lexeme = "?"

\* The text with its placeholders replaced: the template, and the literal that
\* stands at each placeholder.  <<>> when there is none for one of them or
\* there are not as many as the server said.
Interpolate(sql, values, expected) ==
    LET step(acc, i) ==
            [mode  |-> ScanMode(acc.mode, sql[i]),
             holes |-> IF IsPlaceholder(acc.mode, sql[i]) THEN Append(acc.holes, i) ELSE acc.holes]
        holes == FoldLeft(step, [mode |-> "code", holes |-> <<>>], [i \in DOMAIN sql |-> i]).holes
    IN  IF Len(holes) > Len(values) \/ Len(holes) # expected THEN <<>>
        ELSE <<[sql |-> sql, args |-> [i \in {holes[k] : k \in DOMAIN holes} |->
                    values[CHOOSE k \in DOMAIN holes : holes[k] = i]]]>>

PlainText(sql) == [sql |-> sql, args |-> <<>>]

UseText(db) == PlainText(<<"use", db>>)

\* Faulty variant: no statement is recognised.
ParseUseTargetNever(text) == None

\* The database a USE statement names.
ParseUseTarget(text) ==
    IF Len(text.sql) = 2 /\ text.sql[1] = "use" THEN text.sql[2] ELSE None

-----------------------------------------------------------------------------
(* Parameters.  A value on the wire is a sequence of integers: the raw     *)
(* bits of a number, or the bytes of a string.                             *)

NullLiteral == [kind |-> "null", value |-> <<>>]

Number(raw, unsigned) == IF unsigned \/ raw < 2 ^ (Bits - 1) THEN raw ELSE raw - 2 ^ Bits

\* One value as an SQL literal, and what is left to read; not ok for types
\* that have no literal and when the packet ends.
DecodeBinaryValue(r, type) ==
    IF type.name = "null" THEN [ok |-> TRUE, r |-> r, literal |-> NullLiteral]
    ELSE IF r = <<>> \/ type.name \notin {"int", "string"} THEN [ok |-> FALSE, r |-> r, literal |-> NullLiteral]
    ELSE LET raw == Head(r)
             v   == IF type.name = "string" THEN raw ELSE <<Number(raw[1], type.unsigned)>>
         IN  [ok |-> TRUE, r |-> Tail(r), literal |-> [kind |-> type.name, value |-> v]]

BytesLiteral(data) == [kind |-> "string", value |-> data]

-----------------------------------------------------------------------------
(* The connection (ConnDecoder).                                           *)

NewDecoder ==
    [phase |-> "greeting", client |-> NewAssembler, server |-> NewAssembler,
     disposition |-> "active", server_attrs |-> FALSE, query_attrs |-> FALSE,
     user |-> None, db |-> None, server_version |-> None, thread_id |-> NoSeq,
     stmts |-> <<>>, long_data |-> <<>>, pending |-> <<>>, server_cont_seq |-> NoSeq,
     stats |-> [expanded |-> 0, inexpandable |-> 0, ignored |-> 0, missing |-> 0],
     finished |-> FALSE]

Decoding(dec) == ~dec.finished /\ dec.disposition = "active"

NextSeq(seq) == (seq + 1) % SeqWrap

Put(f, k, v) == [i \in DOMAIN f \cup {k} |-> IF i = k THEN v ELSE f[i]]

ForgetLongData(dec, id) ==
    [dec EXCEPT !.long_data = [k \in {d \in DOMAIN @ : d[1] # id} |-> dec.long_data[k]]]

\* What a payload says in a field; one that is no message of that kind (in a
\* stream that is not read from the start of a packet) says something else.
Field(payload, name) ==
    IF payload # <<>> /\ name \in DOMAIN payload[1] THEN payload[1][name] ELSE "other"

PushPending(dec, resp_seq, request) ==
    [dec EXCEPT !.pending = Append(@, [resp_seq |-> resp_seq, request |-> request])]

Silent == [kind |-> "silent"]

\* An event waits for its response.  A USE moves the session's database first.
\* (req names the request for the properties; the code has no such field.)
QueueEvent(dec, resp_seq, pkt, text) ==
    LET target == ParseUseTarget(text)
        moved  == IF target = None THEN dec ELSE [dec EXCEPT !.db = target]
    IN  PushPending(moved, resp_seq,
            [kind |-> "event",
             event |-> [ts |-> pkt.ts, query |-> text, latency |-> 0, seen |-> FALSE,
                        db |-> moved.db, user |-> moved.user, req |-> pkt.payload[1].req]])

Ignored(dec, resp_seq) ==
    PushPending([dec EXCEPT !.stats.ignored = @ + 1], resp_seq, Silent)

\* The text of a COM_QUERY, behind the attributes when they were negotiated;
\* <<>> when they cannot be skipped.  Read in the form it was not sent in, the
\* text is something else.
ComQueryText(dec, c) ==
    IF dec.query_attrs # (c.attrs # "plain") THEN <<PlainText(<<"garbled">>)>>
    ELSE IF c.attrs \in {"plain", "none", "typed"} THEN <<PlainText(c.sql)>>
    ELSE <<>>

\* One parameter of an execute: NULL, sent ahead as long data, or in the packet.
DecodeParam(acc, i, dec, c, types) ==
    IF ~acc.ok THEN acc
    ELSE IF i \in c.nulls THEN [acc EXCEPT !.values = Append(@, NullLiteral)]
    ELSE IF <<c.id, i>> \in DOMAIN dec.long_data
    THEN [acc EXCEPT !.values = Append(@, BytesLiteral(dec.long_data[<<c.id, i>>]))]
    ELSE LET d == DecodeBinaryValue(acc.r, types[i])
         IN  [ok |-> d.ok, r |-> d.r, values |-> Append(acc.values, d.literal)]

\* The statement an execute runs, as text (<<>>: it cannot be expanded), and
\* the decoder afterwards.  The first returns leave the long data in place.
DecodeExecute(dec, c) ==
    IF c.id \notin DOMAIN dec.stmts THEN [dec |-> dec, text |-> <<>>]
    ELSE LET stmt  == dec.stmts[c.id]
             count == IF dec.query_attrs /\ c.count # NoSeq THEN c.count ELSE stmt.num_params
             types == IF c.bound THEN c.types ELSE stmt.param_types
             bound == IF c.bound /\ count > 0 THEN [dec EXCEPT !.stmts[c.id].param_types = c.types] ELSE dec
             acc   == FoldLeft(LAMBDA r, i : DecodeParam(r, i, dec, c, types),
                               [ok |-> TRUE, r |-> c.values, values |-> <<>>], [i \in 1 .. count |-> i])
             used  == SubSeq(acc.values, 1, IF stmt.num_params < count THEN stmt.num_params ELSE count)
         IN  IF count > Len(types) THEN [dec |-> bound, text |-> <<>>]
             ELSE IF ~acc.ok THEN [dec |-> bound, text |-> <<>>]
             ELSE [dec |-> ForgetLongData(bound, c.id), text |-> Interpolate(stmt.sql, used, stmt.num_params)]

\* Faulty variant: long data of a closed statement stays.
CloseStatementOnly(dec, id) ==
    [dec EXCEPT !.stmts = [k \in DOMAIN @ \ {id} |-> dec.stmts[k]]]

CloseStatement(dec, id) ==
    ForgetLongData([dec EXCEPT !.stmts = [k \in DOMAIN @ \ {id} |-> dec.stmts[k]]], id)

\* Faulty variant: the last response's continuation is still expected.
SettleAlways(dec) == dec

\* With nothing in flight a command ends the response before it.
Settle(dec) == IF dec.pending = <<>> THEN [dec EXCEPT !.server_cont_seq = NoSeq] ELSE dec

\* Faulty variant: the execute is dropped without being counted.
InexpandableUncounted(dec, resp_seq) == PushPending(dec, resp_seq, Silent)

Inexpandable(dec, resp_seq) ==
    PushPending([dec EXCEPT !.stats.inexpandable = @ + 1], resp_seq, Silent)

OnQuery(dec, resp_seq, pkt) ==
    LET text == ComQueryText(dec, pkt.payload[1])
    IN  IF text = <<>> THEN Ignored(dec, resp_seq) ELSE QueueEvent(dec, resp_seq, pkt, text[1])

OnExecute(dec, resp_seq, pkt) ==
    LET x == DecodeExecute(dec, pkt.payload[1])
    IN  IF x.text = <<>> THEN Inexpandable(x.dec, resp_seq)
        ELSE QueueEvent([x.dec EXCEPT !.stats.expanded = @ + 1], resp_seq, pkt, x.text[1])

OnLongData(dec, c) ==
    LET key == <<c.id, c.param>>
        old == IF key \in DOMAIN dec.long_data THEN dec.long_data[key] ELSE <<>>
    IN  [dec EXCEPT !.long_data = Put(@, key, old \o c.data)]

\* A command: it ends the response before it when nothing is in flight, and
\* its own response starts at the sequence number after its last packet.
OnCommand(before, pkt) ==
    LET dec      == Settle(before)
        resp_seq == NextSeq(pkt.last_seq)
        c        == pkt.payload[1]
        cmd      == Field(pkt.payload, "cmd")
    IN  IF pkt.payload = <<>> THEN dec
        ELSE CASE cmd = "query"     -> OnQuery(dec, resp_seq, pkt)
               [] cmd = "init_db"   -> QueueEvent([dec EXCEPT !.db = c.db], resp_seq, pkt, UseText(c.db))
               [] cmd = "prepare"   -> PushPending(dec, resp_seq, [kind |-> "prepare", sql |-> c.sql])
               [] cmd = "execute"   -> OnExecute(dec, resp_seq, pkt)
               [] cmd = "long_data" -> OnLongData(dec, c)
               [] cmd = "close"     -> CloseStatement(dec, c.id)
               [] cmd = "reset"     -> PushPending(ForgetLongData(dec, c.id), resp_seq, Silent)
               [] cmd = "quit"      -> [dec EXCEPT !.finished = TRUE]
               [] OTHER               -> Ignored(dec, resp_seq)

\* The client's handshake response (user and db are None where they are absent
\* or cannot be read, auth_ok says that db can be found): an unreadable or old one, TLS and
\* compression end the decoding.
OnLogin(dec, payload) ==
    LET l == payload[1] IN
    IF Field(payload, "protocol41") # TRUE THEN [dec EXCEPT !.disposition = "bad_handshake"]
    ELSE IF l.ssl THEN [dec EXCEPT !.disposition = "tls"]
    ELSE IF l.compress THEN [dec EXCEPT !.disposition = "compressed"]
    ELSE [dec EXCEPT !.phase = "established", !.user = l.user,
                     !.db = IF l.user # None /\ l.auth_ok THEN l.db ELSE None,
                     !.query_attrs = l.attrs /\ dec.server_attrs]

OnClientPacket(dec, pkt) ==
    CASE dec.phase = "greeting"    -> [dec EXCEPT !.disposition = "bad_handshake"]
      [] dec.phase = "login"       -> OnLogin(dec, pkt.payload)
      [] dec.phase = "established" -> IF pkt.first_seq # 0 THEN dec ELSE OnCommand(dec, pkt)

OnGreeting(dec, payload) ==
    LET g == payload[1] IN
    IF Field(payload, "reply") # "greeting" THEN [dec EXCEPT !.disposition = "bad_handshake"]
    ELSE [dec EXCEPT !.phase = "login", !.server_version = g.version, !.thread_id = g.thread,
                     !.server_attrs = g.attrs]

\* The first packet of the response to the oldest request in flight.
OnResponse(acc, pkt) ==
    LET front == Head(acc.dec.pending)
        reply == pkt.payload[1]
        dec   == [acc.dec EXCEPT !.pending = Tail(@), !.server_cont_seq = NextSeq(pkt.last_seq)]
        late  == pkt.ts - front.request.event.ts
    IN  CASE front.request.kind = "event" ->
                [dec |-> dec,
                 out |-> Append(acc.out, [front.request.event EXCEPT
                            !.latency = IF late > 0 THEN late ELSE 0, !.seen = TRUE])]
          [] front.request.kind = "prepare" ->
                IF Field(pkt.payload, "reply") # "prepared" THEN [acc EXCEPT !.dec = dec]
                ELSE [acc EXCEPT !.dec = [dec EXCEPT !.stmts = Put(@, reply.id,
                        [sql |-> front.request.sql, num_params |-> reply.params, param_types |-> <<>>])]]
          [] front.request.kind = "silent" -> [acc EXCEPT !.dec = dec]

\* A server packet is the continuation of the current response, the start of
\* the next one, or neither.
OnServerPacket(acc, pkt) ==
    LET dec == acc.dec
    IN  CASE dec.phase = "greeting" -> [acc EXCEPT !.dec = OnGreeting(dec, pkt.payload)]
          [] dec.phase = "login" -> [acc EXCEPT !.dec.disposition = "bad_handshake"]
          [] dec.phase = "established" ->
                IF dec.server_cont_seq = pkt.first_seq
                THEN [acc EXCEPT !.dec.server_cont_seq = NextSeq(pkt.last_seq)]
                ELSE IF dec.pending = <<>> \/ Head(dec.pending).resp_seq # pkt.first_seq
                THEN [acc EXCEPT !.dec.server_cont_seq = NoSeq]
                ELSE OnResponse(acc, pkt)

OnPackets(acc, dir, pkts) ==
    LET handle(r, pkt) ==
            IF ~Decoding(r.dec) THEN r
            ELSE IF dir = "client" THEN [r EXCEPT !.dec = OnClientPacket(r.dec, pkt)]
            ELSE OnServerPacket(r, pkt)
    IN  FoldLeft(handle, acc, pkts)

AfterFeed(acc, dir, fed) ==
    LET on == [acc.dec EXCEPT ![dir] = fed.asm]
    IN  IF on.client.broken \/ on.server.broken
        THEN [acc EXCEPT !.dec = [on EXCEPT !.disposition = "broken"]]
        ELSE OnPackets([acc EXCEPT !.dec = on], dir, fed.out)

\* A chunk of one direction's stream: the decoder afterwards and the events.
DecodeChunk(acc, dir, ts, data) ==
    IF ~Decoding(acc.dec) THEN acc ELSE AfterFeed(acc, dir, Feed(acc.dec[dir], ts, data))

\* The connection ended: what is still in flight goes out without a response.
FinishDecoder(acc) ==
    LET flush(r, p) ==
            IF p.request.kind # "event" THEN r
            ELSE [dec |-> [r.dec EXCEPT !.stats.missing = @ + 1], out |-> Append(r.out, p.request.event)]
    IN  IF acc.dec.finished THEN acc
        ELSE FoldLeft(flush, [acc EXCEPT !.dec = [@ EXCEPT !.finished = TRUE, !.pending = <<>>]], acc.dec.pending)
=============================================================================
