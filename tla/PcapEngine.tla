----------------------------- MODULE PcapEngine -----------------------------
(***************************************************************************)
(* The capture of a pcap file (pcap.rs, PcapEngine and scan_pcap_file): a  *)
(* reassembler for each direction and a decoder for each connection, found *)
(* by the client's and server's address (a flow key).                      *)
(*                                                                         *)
(* The traffic is external: for every flow key the segments that passed    *)
(* the capture point, in order.  A key is used again when a connection has *)
(* ended.  The capture may lose, delay, repeat or truncate a segment.  All *)
(* segments have the timestamp 0: module ConnDecoder is about timestamps.  *)
(***************************************************************************)
EXTENDS Reassembly, WireDecoder

CONSTANTS
    Traffic,        \* the traffics to capture: [keys -> Seq(segment)]
    SynthBase,      \* the first synthetic session id: 2^48
    MaxVersions,    \* server versions kept: 8
    MaxFaults       \* segments lost, delayed, repeated or truncated, divided by
                    \* the number of keys

ASSUME EngineAssumption == SynthBase \in Nat /\ MaxVersions \in Nat /\ MaxFaults \in Nat

\* What a segment says: the key and connection it belongs to, where it stands in
\* its direction, and its payload.  A statement names its connection, and a
\* server's thread id, which has 32 bits, lies below the synthetic session ids.
IsSegment(f, k) ==
    /\ {"kind", "key", "conn", "dir", "seq", "from", "syn", "data"} \subseteq DOMAIN f
    /\ f.key = k /\ f.conn # NoSeq /\ f.dir \in {"client", "server"}
    /\ f.seq \in Int /\ f.from \in Nat
    /\ f.data \in Seq({f.data[i] : i \in DOMAIN f.data})
    /\ \A i \in DOMAIN f.data :
          LET c == f.data[i]
          IN  /\ "len" \in DOMAIN c => c.len \in Nat
              /\ (f.dir = "client" /\ "cmd" \in DOMAIN c /\ c.cmd \in {"query", "init_db", "execute"})
                    => c.req[1] = f.conn
              /\ (f.dir = "server" /\ "reply" \in DOMAIN c /\ c.reply = "greeting")
                    => c.thread \in 0 .. SynthBase - 1

SegmentsOf(t) == {f \in UNION {{t[k][i] : i \in DOMAIN t[k]} : k \in DOMAIN t} : f.kind = "tcp"}

\* A connection has one key, and every SYN its client sends has the same
\* sequence number.
ASSUME TrafficAssumption ==
    \A t \in Traffic :
        /\ \A k \in DOMAIN t :
              /\ t[k] \in Seq({t[k][i] : i \in DOMAIN t[k]})
              /\ \A i \in DOMAIN t[k] : "kind" \in DOMAIN t[k][i]
              /\ \A i \in DOMAIN t[k] : t[k][i].kind = "tcp" => IsSegment(t[k][i], k)
        /\ \A f, g \in SegmentsOf(t) : f.conn = g.conn =>
              /\ f.key = g.key
              /\ (f.syn /\ g.syn /\ f.dir = "client" /\ g.dir = "client") => f.seq = g.seq

VARIABLES
    todo,      \* segments that are still to pass the capture point, by key
    held,      \* segments that are captured late
    faults,
    eng,       \* the engine: conns, used_session_ids, synthetic_next, stats
    sunk,      \* the events handed to the sink: [sid, ev]
    status,    \* "scanning", "ok", "error"
    got,       \* what reached a live connection: [conn, dir, pos] of each byte,
               \* with -1 for a SYN and -2 for another frame itself
    asked,     \* the statements among it: [req, end, quits], with their last byte
               \* and whether the client ends the connection with a quit
    owner,     \* the connection that opened the entry of a key
    clean      \* see Disturbs

vars == <<todo, held, faults, eng, sunk, status, got, asked, owner, clean>>

Dispositions == {"decoded", "tls", "compressed", "midstream", "broken"}

NewConn ==
    [dec |-> NewDecoder, c2s |-> NewStream, s2c |-> NewStream, session_id |-> NoSeq,
     fin_client |-> FALSE, fin_server |-> FALSE, finished |-> FALSE, version_recorded |-> FALSE]

NewEngine ==
    [conns |-> <<>>, used |-> {}, synthetic_next |-> SynthBase,
     stats |-> [packets |-> 0, truncated |-> 0, fragments |-> 0, connections |-> 0,
                closed |-> [d \in Dispositions |-> 0],
                expanded |-> 0, inexpandable |-> 0, ignored |-> 0, missing |-> 0,
                versions |-> <<>>]]

\* Faulty variant: the thread id is taken even when a session has it.
ChooseIdAlways(used, thread) == thread # NoSeq

\* The server's thread id is the session id unless a session has it already.
ChooseId(used, thread) == thread # NoSeq /\ thread \notin used

\* Hand the events to the sink under the connection's session id, which is
\* chosen with the first of them.  acc holds the engine, the connection and
\* what was handed to the sink.
DrainEvents(acc, events) ==
    IF events = <<>> THEN acc
    ELSE LET fresh == acc.conn.session_id = NoSeq
             own   == ChooseId(acc.eng.used, acc.conn.dec.thread_id)
             sid   == IF ~fresh THEN acc.conn.session_id
                      ELSE IF own THEN acc.conn.dec.thread_id ELSE acc.eng.synthetic_next
         IN  [conn |-> [acc.conn EXCEPT !.session_id = sid],
              eng  |-> [acc.eng EXCEPT !.used = @ \cup {sid},
                                       !.synthetic_next = IF fresh /\ ~own THEN @ + 1 ELSE @],
              out  |-> acc.out \o [i \in DOMAIN events |-> [sid |-> sid, ev |-> events[i]]]]

Accumulate(stats, s) ==
    [stats EXCEPT !.expanded = @ + s.expanded, !.inexpandable = @ + s.inexpandable,
                  !.ignored = @ + s.ignored, !.missing = @ + s.missing]

CountedAs(conn) ==
    CASE conn.dec.disposition = "active" ->
            IF conn.c2s.overflow \/ conn.s2c.overflow THEN "broken" ELSE "decoded"
      [] conn.dec.disposition = "bad_handshake" -> "midstream"
      [] OTHER -> conn.dec.disposition

CountClosed(stats, conn) ==
    Accumulate([stats EXCEPT !.closed[CountedAs(conn)] = @ + 1], conn.dec.stats)

\* Flush the decoder, count the connection and mark it finished, once.
Finalize(acc, events) ==
    IF acc.conn.finished THEN acc
    ELSE LET flushed == FinishDecoder([dec |-> acc.conn.dec, out |-> events])
             drained == DrainEvents([acc EXCEPT !.conn = [@ EXCEPT !.finished = TRUE, !.dec = flushed.dec]], flushed.out)
         IN  [drained EXCEPT !.eng.stats = CountClosed(@, drained.conn)]

RecordVersion(stats, conn) ==
    IF conn.version_recorded \/ conn.dec.server_version = None
       \/ Contains(stats.versions, conn.dec.server_version) \/ Len(stats.versions) >= MaxVersions
    THEN stats ELSE [stats EXCEPT !.versions = Append(@, conn.dec.server_version)]

\* The stream a segment belongs to; a SYN starts it over.
StreamOf(conn, f) ==
    LET st == IF f.dir = "client" THEN conn.c2s ELSE conn.s2c
    IN  IF f.syn THEN StreamSyn(st, f.seq) ELSE st

\* The connection after the decoder has read what the stream delivered.
AfterSegment(conn, f, st, dec) ==
    [conn EXCEPT !.dec = dec,
                 !.c2s = IF f.dir = "client" THEN st ELSE @,
                 !.s2c = IF f.dir = "server" THEN st ELSE @,
                 !.fin_client = @ \/ (f.dir = "client" /\ f.fin),
                 !.fin_server = @ \/ (f.dir = "server" /\ f.fin)]

\* The decoder reads the chunks the stream delivered.
DecodeAll(conn, f, fed) ==
    LET read == FoldLeft(LAMBDA r, chunk : DecodeChunk(r, f.dir, chunk.ts, chunk.data),
                         [dec |-> conn.dec, out |-> <<>>], fed.out)
    IN  [st |-> fed.st, read |-> read]

\* A connection has ended by a reset, by both FINs, or because it is no longer
\* decoded.
Ended(conn, f) ==
    \/ f.rst \/ (conn.fin_client /\ conn.fin_server)
    \/ conn.dec.disposition # "active" \/ conn.c2s.overflow \/ conn.s2c.overflow

CloseOrDrain(acc, f, events) ==
    IF Ended(acc.conn, f) THEN Finalize(acc, events) ELSE DrainEvents(acc, events)

\* The server's version is recorded once per connection.
Versioned(acc, conn) ==
    [acc EXCEPT !.conn = [conn EXCEPT !.version_recorded = @ \/ conn.dec.server_version # None],
                !.eng.stats = RecordVersion(@, conn)]

AfterRead(acc, f, r) ==
    CloseOrDrain(Versioned(acc, AfterSegment(acc.conn, f, r.st, r.read.dec)), f, r.read.out)

\* A segment of a connection that is not finished: its stream, the decoder,
\* the FINs; then the connection is closed or its events go out.
OnSegment(acc, ts, f) ==
    AfterRead(acc, f, DecodeAll(acc.conn, f, StreamData(StreamOf(acc.conn, f), ts, f.seq, f.data)))

Without(f, k) == [i \in DOMAIN f \ {k} |-> f[i]]

\* Faulty variant: every SYN of the client opens a connection.
SynRetransmitNever(conn, f) == FALSE

\* A copy of the SYN that opened the connection.
SynRetransmit(conn, f) == ~conn.finished /\ conn.c2s.started /\ conn.c2s.isn = (f.seq + 1) % M

\* Faulty variant: the predecessor's statements and counters are dropped.
ReplaceSilently(acc, f) == [acc EXCEPT !.eng.conns = Without(@, f.key)]

\* A new SYN on a known key: the predecessor is closed, if it was not, and
\* forgotten.
Replace(acc, f) ==
    LET old == Finalize([conn |-> acc.eng.conns[f.key], eng |-> acc.eng, out |-> acc.out], <<>>)
    IN  [eng |-> [old.eng EXCEPT !.conns = Without(@, f.key)], out |-> old.out]

\* A frame without a connection opens one.
Open(acc, f) ==
    IF f.key \in DOMAIN acc.eng.conns THEN acc
    ELSE [acc EXCEPT !.eng.stats.connections = @ + 1, !.eng.conns = Put(@, f.key, NewConn)]

StoreConn(acc, key) == [eng |-> [acc.eng EXCEPT !.conns = Put(@, key, acc.conn)], out |-> acc.out]

\* A connection that has ended stays behind and takes no more segments.
OnConnection(acc, ts, f) ==
    LET conn == acc.eng.conns[f.key]
    IN  IF conn.finished THEN acc
        ELSE StoreConn(OnSegment([conn |-> conn, eng |-> acc.eng, out |-> acc.out], ts, f), f.key)

CountPacket(acc, f) ==
    [acc EXCEPT !.eng.stats.packets = @ + 1,
                !.eng.stats.truncated = IF f.truncated THEN @ + 1 ELSE @]

\* A SYN of the client on a known key, and no copy of the one that opened it.
Reuses(e, f) ==
    /\ f.syn /\ ~f.ack /\ f.dir = "client"
    /\ f.key \in DOMAIN e.conns /\ ~SynRetransmit(e.conns[f.key], f)

\* The engine and what is handed to the sink for one captured frame.
OnPacket(acc, ts, f) ==
    CASE f.kind = "fragment" -> [acc EXCEPT !.eng.stats.fragments = @ + 1]
      [] f.kind = "tcp" ->
            OnConnection(Open(IF Reuses(acc.eng, f) THEN Replace(CountPacket(acc, f), f)
                              ELSE CountPacket(acc, f), f), ts, f)
      [] OTHER -> acc

\* The end of the file: every connection is closed and forgotten, in the order
\* in which the hash map lists them.
FinishEngine(acc, order) ==
    LET close(r, k) ==
            LET c == Finalize([conn |-> r.eng.conns[k], eng |-> r.eng, out |-> r.out], <<>>)
            IN  [eng |-> [c.eng EXCEPT !.conns = Without(@, k)], out |-> c.out]
    IN  FoldLeft(close, acc, order)

-----------------------------------------------------------------------------

Init ==
    /\ todo \in Traffic
    /\ held = {}
    /\ faults = 0
    /\ eng = NewEngine
    /\ sunk = <<>>
    /\ status = "scanning"
    /\ got = {}
    /\ asked = {}
    /\ owner = [k \in DOMAIN todo |-> NoSeq]
    /\ clean = TRUE

\* A frame of a connection that is not the one its key is tracked for (its SYN
\* was lost, or the frame is older than the key's reuse), or a SYN that comes
\* too late: after data of its direction, after the end, or the client's first
\* one after another frame has opened the entry.
Disturbs(f, opens) ==
    LET before == {g \in got : g.conn = f.conn}
        own    == {g \in before : g.dir = f.dir}
    IN  \/ owner[f.key] \notin {NoSeq, f.conn} /\ (~opens \/ before # {})
        \/ f.syn /\ owner[f.key] = f.conn
             /\ (eng.conns[f.key].finished \/ (\E g \in own : g.pos >= 0)
                   \/ (f.dir = "client" /\ \A g \in own : g.pos # -1))

\* The sink takes what the engine hands it, or fails at one of the events.
Sink(acc) ==
    \/ eng' = acc.eng /\ sunk' = acc.out /\ UNCHANGED status
    \/ \E n \in Len(sunk) .. Len(acc.out) - 1 :
          eng' = acc.eng /\ sunk' = SubSeq(acc.out, 1, n) /\ status' = "error"

Scan(f) ==
    /\ Sink(OnPacket([eng |-> eng, out |-> sunk], 0, f))
    /\ IF f.kind # "tcp" THEN UNCHANGED <<got, asked, owner, clean>>
       ELSE LET opens == eng'.stats.connections > eng.stats.connections
                live  == opens \/ ~eng.conns[f.key].finished
            IN  /\ owner' = IF opens THEN [owner EXCEPT ![f.key] = f.conn] ELSE owner
                /\ got' = IF ~live THEN got
                          ELSE got \cup {[conn |-> f.conn, dir |-> f.dir, pos |-> p] :
                                            p \in {IF f.syn THEN -1 ELSE -2} \cup {f.from + i - 1 : i \in DOMAIN f.data}}
                /\ asked' = IF live THEN asked \cup f.asks ELSE asked
                /\ clean' = (clean /\ ~Disturbs(f, opens))

Passing(k) == status = "scanning" /\ todo[k] # <<>> /\ todo' = [todo EXCEPT ![k] = Tail(@)]

Fault == faults < MaxFaults \div Cardinality(DOMAIN todo) /\ faults' = faults + 1

\* The next segment of a key is captured.
CaptureFrame(k) == Passing(k) /\ Scan(Head(todo[k])) /\ UNCHANGED <<held, faults>>

LoseFrame(k) ==
    Passing(k) /\ Fault /\ UNCHANGED <<held, eng, sunk, status, got, asked, owner, clean>>

DelayFrame(k) ==
    /\ Passing(k) /\ Fault
    /\ held' = held \cup {Head(todo[k])}
    /\ UNCHANGED <<eng, sunk, status, got, asked, owner, clean>>

RepeatFrame(k) ==
    /\ Passing(k) /\ Fault
    /\ Scan(Head(todo[k]))
    /\ held' = held \cup {Head(todo[k])}

\* The snap length cuts the payload.
TruncateFrame(k) ==
    /\ Passing(k) /\ Fault
    /\ Head(todo[k]).data # <<>>
    /\ Scan([Head(todo[k]) EXCEPT !.data = Front(@), !.truncated = TRUE])
    /\ UNCHANGED held

LateFrame(f) ==
    /\ status = "scanning" /\ f \in held
    /\ Scan(f)
    /\ held' = held \ {f}
    /\ UNCHANGED <<todo, faults>>

\* The end of the file, in the middle of a packet or not.
EndOfFile ==
    /\ status = "scanning"
    /\ \E order \in SetToSeqs(DOMAIN eng.conns) :
          LET acc == FinishEngine([eng |-> eng, out |-> sunk], order)
          IN  \/ eng' = acc.eng /\ sunk' = acc.out /\ status' = "ok"
              \/ \E n \in Len(sunk) .. Len(acc.out) - 1 :
                    eng' = acc.eng /\ sunk' = SubSeq(acc.out, 1, n) /\ status' = "error"
    /\ UNCHANGED <<todo, held, faults, got, asked, owner, clean>>

\* The file cannot be read further.
Malformed ==
    /\ status = "scanning"
    /\ status' = "error"
    /\ UNCHANGED <<todo, held, faults, eng, sunk, got, asked, owner, clean>>

Next ==
    \/ \E k \in DOMAIN todo :
          CaptureFrame(k) \/ LoseFrame(k) \/ DelayFrame(k) \/ RepeatFrame(k) \/ TruncateFrame(k)
    \/ \E f \in held : LateFrame(f)
    \/ EndOfFile
    \/ Malformed

Spec == Init /\ [][Next]_vars

-----------------------------------------------------------------------------
(* Properties.                                                             *)

\* Two connections never share a session and one connection never has two, also
\* when the server gives a thread id again or a client its port.
SessionsApart ==
    clean => \A i, j \in DOMAIN sunk :
        sunk[i].sid = sunk[j].sid <=> sunk[i].ev.req[1] = sunk[j].ev.req[1]

\* A statement is handed to the sink once, whatever is captured twice.
EventsOnce ==
    clean => \A i, j \in DOMAIN sunk : sunk[i].ev.req = sunk[j].ev.req => i = j

\* Every connection is counted, and nothing else: no late copy of a segment
\* brings back a connection that has ended.
ConnectionsReal == clean => eng.stats.connections = Cardinality({g.conn : g \in got})

Skipped == eng.stats.closed["tls"] + eng.stats.closed["compressed"]
           + eng.stats.closed["midstream"] + eng.stats.closed["broken"]

\* When no connection is reported as skipped, a statement that was captured
\* with everything the client sent before it is handed to the sink, with or
\* without its response: in a faultless capture, and where the client does not
\* quit in any.
NoSilentLoss ==
    status = "ok" /\ clean /\ Skipped = 0 =>
        \A r \in asked : (r.quits => faults = 0) =>
            ((\A p \in 0 .. r.end : [conn |-> r.req[1], dir |-> "client", pos |-> p] \in got) =>
                \E i \in DOMAIN sunk : sunk[i].ev.req = r.req)

Ledger == INSTANCE ConnLedger WITH
    opened <- eng.stats.connections, closed <- eng.stats.closed, result <- status

\* The counters implement the ledger: a packet opens at most one connection,
\* and each is closed once, under one disposition.
LedgerKept == Ledger!Spec
=============================================================================
