----------------------------- MODULE ConnDecoder -----------------------------
(***************************************************************************)
(* The wire decoder on one connection: a client that runs a script of      *)
(* commands, a server that answers them in order, and the capture between  *)
(* them, which hands every stream to the decoder in chunks of any size.    *)
(* Client and server are external (MySQL and its protocol); what they do   *)
(* is kept with each request and compared with the decoder's events.       *)
(*                                                                         *)
(* The capture may lose a segment of either direction.  The reassembler    *)
(* then delivers nothing more of that stream: the direction is lost.       *)
(***************************************************************************)
EXTENDS WireDecoder, FiniteSetsExt

CONSTANTS
    Scenarios,   \* [greeting, login, script, depth, lengths, lossy], see below
    ThreadId

(* greeting, login: the handshake messages; script: the client's commands; *)
(* depth: how many it has in flight; lengths: packets of a response;       *)
(* fails: a prepare or USE may fail; lossy: a direction may be lost; cuts:  *)
(* how often the capture cuts what is on the wire into two segments.       *)
ASSUME ScenarioAssumption ==
    \A sc \in Scenarios :
        sc.depth \in Nat \ {0} /\ sc.lengths \subseteq Nat \ {0} /\ sc.cuts \in Nat /\ {sc.lossy, sc.fails} \subseteq BOOLEAN

VARIABLES
    scenario,
    stage,      \* the handshake: "start", "greeted", "sent", "open"; "closed" at the end
    reqs,       \* what was sent: the command and what became of it
    srv,        \* the server's session: db, stmts, next request to answer
    wire,       \* cells of each direction that are still to be captured
    lost,       \* directions the capture lost a segment of
    cuts,       \* cuts so far
    clock,      \* one tick per captured chunk
    dec, out    \* the decoder and its events

vars == <<scenario, stage, reqs, srv, wire, lost, cuts, clock, dec, out>>

\* A message of n cells as packets with sequence numbers from seq on.  The tag
\* says which request they carry (req) or answer (of).
Packets(msg, n, seq, tag) ==
    LET cells   == [i \in 1 .. n |-> IF i = 1 THEN msg @@ tag ELSE tag]
        part(k) == LET body == SubSeq(cells, k * FullLen + 1, Min({(k + 1) * FullLen, n}))
                   IN  <<[len |-> Len(body), seq |-> (seq + k) % SeqWrap] @@ tag>> \o body
    IN  FlattenSeq([k \in 1 .. (n \div FullLen) + 1 |-> part(k - 1)])

Init ==
    /\ scenario \in Scenarios
    /\ stage = "start"
    /\ reqs = <<>>
    /\ srv = [db |-> None, user |-> None, stmts |-> <<>>, next |-> 1]
    /\ wire = [client |-> <<>>, server |-> <<>>]
    /\ lost = {}
    /\ cuts = 0
    /\ clock = 0
    /\ dec = NewDecoder
    /\ out = <<>>

Send(dir, cells) == wire' = [wire EXCEPT ![dir] = IF dir \in lost THEN <<>> ELSE @ \o cells]

Quiet == wire.client = <<>> /\ wire.server = <<>>

ServerGreets ==
    /\ stage = "start"
    /\ stage' = "greeted"
    /\ Send("server", Packets(scenario.greeting, 1, 0, [of |-> 0]))
    /\ UNCHANGED <<scenario, reqs, srv, lost, cuts, clock, dec, out>>

ClientLogsIn ==
    /\ stage = "greeted" /\ Quiet
    /\ stage' = "sent"
    /\ Send("client", Packets(scenario.login, 1, 1, [req |-> 0]))
    /\ UNCHANGED <<scenario, reqs, srv, lost, cuts, clock, dec, out>>

\* The authentication ends with an OK at the next sequence number.
ServerAccepts ==
    /\ stage = "sent" /\ Quiet
    /\ stage' = "open"
    /\ srv' = [srv EXCEPT !.db = scenario.login.db, !.user = scenario.login.user]
    /\ Send("server", Packets([reply |-> "ok"], 1, 2, [of |-> 0]))
    /\ UNCHANGED <<scenario, reqs, lost, cuts, clock, dec, out>>

Unanswered == Len(reqs) - srv.next + 1

\* The client sends its next command: with depth 1 when the response to the
\* one before is complete.
ClientSends ==
    /\ stage = "open"
    /\ Len(reqs) < Len(scenario.script)
    /\ Unanswered < scenario.depth
    /\ scenario.depth = 1 => Quiet
    /\ LET c   == scenario.script[Len(reqs) + 1]
           req == Len(reqs) + 1
       IN  /\ reqs' = Append(reqs, [c |-> c, text |-> <<>>, db |-> None, user |-> None, failed |-> FALSE,
                                    ts |-> NoSeq, whole |-> FALSE, respTs |-> NoSeq, answered |-> FALSE])
           /\ Send("client", Packets(c, c.cells, 0, [req |-> req]))
    /\ UNCHANGED <<scenario, stage, srv, lost, cuts, clock, dec, out>>

\* What the server runs for a command: a text, or nothing.
Executed(c) ==
    CASE c.cmd = "query"   -> <<PlainText(c.sql)>>
      [] c.cmd = "init_db" -> <<UseText(c.db)>>
      [] c.cmd = "execute" /\ c.id \in DOMAIN srv.stmts ->
            LET stmt == srv.stmts[c.id]
            IN  <<[sql |-> stmt.sql, args |-> [p \in ToSet(stmt.holes) |->
                      c.meant[CHOOSE k \in DOMAIN stmt.holes : stmt.holes[k] = p]]]>>
      [] OTHER -> <<>>

FreeId == CHOOSE id \in 1 .. Cardinality(DOMAIN srv.stmts) + 1 :
              id \notin DOMAIN srv.stmts /\ \A j \in 1 .. id - 1 : j \in DOMAIN srv.stmts

\* The server's session after a command.
SessionAfter(c, fails) ==
    LET target == IF Executed(c) = <<>> THEN None ELSE ParseUseTarget(Executed(c)[1])
        next   == [srv EXCEPT !.next = @ + 1]
    IN  CASE fails -> next
          [] ~fails /\ target # None -> [next EXCEPT !.db = target]
          [] ~fails /\ c.cmd = "prepare" ->
                [next EXCEPT !.stmts = Put(@, FreeId, [sql |-> c.sql, holes |-> c.holes])]
          [] ~fails /\ c.cmd = "close" -> [next EXCEPT !.stmts = [k \in DOMAIN @ \ {c.id} |-> srv.stmts[k]]]
          [] ~fails /\ c.cmd = "change_user" -> [next EXCEPT !.db = c.db, !.user = c.user]
          [] OTHER -> next

Unanswerable == {"long_data", "close", "quit"}

\* The server handles a request that has passed the capture, and answers with
\* n packets.
ServerAnswers(n, fails) ==
    /\ srv.next <= Len(reqs)
    /\ wire.client = <<>>
    /\ LET c     == reqs[srv.next].c
           msg   == [reply |-> IF fails THEN "err" ELSE IF c.cmd = "prepare" THEN "prepared" ELSE "ok",
                     id |-> FreeId, params |-> IF c.cmd = "prepare" THEN Len(c.holes) ELSE 0]
           first == 1 + c.cells \div FullLen
       IN  /\ fails => scenario.fails /\ (c.cmd \in {"prepare", "init_db"} \/ (c.cmd = "query" /\ c.sql[1] = "use"))
           /\ c.cmd \in Unanswerable => n = 1
           /\ reqs' = [reqs EXCEPT ![srv.next].text = Executed(c), ![srv.next].db = srv.db,
                                   ![srv.next].user = srv.user, ![srv.next].failed = fails]
           /\ srv' = SessionAfter(c, fails)
           /\ IF c.cmd \in Unanswerable THEN UNCHANGED wire
              ELSE Send("server", FlattenSeq([k \in 1 .. n |->
                        Packets(IF k = 1 THEN msg ELSE [reply |-> "row"], 1, first + k - 1, [of |-> srv.next])]))
    /\ UNCHANGED <<scenario, stage, lost, cuts, clock, dec, out>>

\* What the request's records become when the first n cells of a direction are
\* captured: the time of the first cell, and whether the message is complete.
Captured(dir, n) ==
    LET tag      == IF dir = "client" THEN "req" ELSE "of"
        now(r)   == \E i \in 1 .. n : wire[dir][i][tag] = r
        later(r) == \E i \in n + 1 .. Len(wire[dir]) : wire[dir][i][tag] = r
        reply(r) == \E i \in 1 .. n : wire[dir][i][tag] = r /\ "reply" \in DOMAIN wire[dir][i]
    IN  [r \in DOMAIN reqs |->
            IF dir = "client"
            THEN [reqs[r] EXCEPT !.ts = IF now(r) /\ @ = NoSeq THEN clock ELSE @,
                                 !.whole = @ \/ (now(r) /\ ~later(r))]
            ELSE [reqs[r] EXCEPT !.respTs = IF now(r) /\ @ = NoSeq THEN clock ELSE @,
                                 !.answered = @ \/ reply(r)]]

\* The capture holds the next n cells of a direction as one segment.
Capture(dir, n) ==
    /\ stage # "closed"
    /\ n \in 1 .. Len(wire[dir])
    /\ LET acc == DecodeChunk([dec |-> dec, out |-> out], dir, clock, SubSeq(wire[dir], 1, n))
       IN  /\ dec' = acc.dec
           /\ out' = acc.out
    /\ reqs' = Captured(dir, n)
    /\ wire' = [wire EXCEPT ![dir] = SubSeq(@, n + 1, Len(@))]
    /\ cuts' = IF n < Len(wire[dir]) THEN cuts + 1 ELSE cuts
    /\ cuts' <= scenario.cuts
    /\ clock' = clock + 1
    /\ UNCHANGED <<scenario, stage, srv, lost>>

LoseSegment(dir) ==
    /\ scenario.lossy /\ stage # "closed" /\ lost = {} /\ wire[dir] # <<>>
    /\ lost' = lost \cup {dir}
    /\ wire' = [wire EXCEPT ![dir] = <<>>]
    /\ UNCHANGED <<scenario, stage, reqs, srv, cuts, clock, dec, out>>

\* The connection or the capture ends.
End ==
    /\ stage # "closed"
    /\ stage' = "closed"
    /\ LET acc == FinishDecoder([dec |-> dec, out |-> out])
       IN  dec' = acc.dec /\ out' = acc.out
    /\ UNCHANGED <<scenario, reqs, srv, wire, lost, cuts, clock>>

Next ==
    \/ ServerGreets \/ ClientLogsIn \/ ServerAccepts
    \/ ClientSends
    \/ \E n \in scenario.lengths, fails \in BOOLEAN : ServerAnswers(n, fails)
    \/ \E dir \in {"client", "server"} : LoseSegment(dir) \/ \E n \in 1 .. Len(wire[dir]) : Capture(dir, n)
    \/ End

Spec == Init /\ [][Next]_vars

-----------------------------------------------------------------------------
(* Properties.                                                             *)

Events == ToSet(out)
PendingEvents == {p.request.event : p \in {q \in ToSet(dec.pending) : q.request.kind = "event"}}

\* A packet is stamped with the time of the segment that brought its first
\* byte, however the capture cut the stream.
RequestTime == \A ev \in Events \cup PendingEvents : ev.ts = reqs[ev.req].ts

\* No response has as many packets as there are sequence numbers, and no
\* command takes more than one packet.
ShortMessages ==
    /\ \A n \in scenario.lengths : n < SeqWrap
    /\ \A i \in DOMAIN scenario.script : scenario.script[i].cells < FullLen

\* The latency of an event is the time from its own request to its own
\* response, and an event without one had none in the capture: for clients that
\* wait for each response, also when its sequence numbers wrap; for clients that
\* have several requests in flight, as long as messages are short.
OwnResponse ==
    scenario.depth = 1 \/ ShortMessages =>
        \A ev \in Events :
            IF ev.seen THEN ev.latency = reqs[ev.req].respTs - reqs[ev.req].ts
            ELSE ~reqs[ev.req].answered

\* Long data of the statement that r runs was left behind by an execute that
\* could not be expanded.
LongDataLeft(r) ==
    \E q \in 1 .. r - 1 :
        /\ reqs[q].c.cmd = "execute" /\ reqs[r].c.cmd = "execute" /\ reqs[q].c.id = reqs[r].c.id
        /\ q \notin {ev.req : ev \in Events}
        /\ \E p \in 1 .. q - 1 : reqs[p].c.cmd = "long_data" /\ reqs[p].c.id = reqs[q].c.id

\* The text of an event is what the server ran for that request: the statement
\* that has this id now, with the parameter types bound by an earlier execute
\* where this one binds none, and with the data that was sent ahead.
AsExecuted ==
    \A ev \in Events : reqs[ev.req].text # <<>> /\ ~LongDataLeft(ev.req) =>
        ev.query = reqs[ev.req].text[1]

\* An execute is given up only when a parameter has no literal or the response
\* to its prepare was not captured: question marks in strings, comments and
\* quoted names are no placeholders.
ExpandsWhatItCan ==
    LET literal(r)  == \A i \in DOMAIN reqs[r].c.meant : reqs[r].c.meant[i].kind # "geometry"
        prepared(r) == \E q \in 1 .. r - 1 : reqs[q].c.cmd = "prepare" /\ reqs[q].answered
    IN  dec.stats.inexpandable <= Cardinality({r \in DOMAIN reqs :
            reqs[r].c.cmd = "execute" /\ (~literal(r) \/ ~prepared(r) \/ reqs[r].text = <<>>)})

IsUse(r) == reqs[r].text # <<>> /\ ParseUseTarget(reqs[r].text[1]) # None

\* The session left the decoder's view: a USE failed, or the user changed.
SessionMoved(r) ==
    \E q \in 1 .. r - 1 : reqs[q].failed \/ reqs[q].c.cmd = "change_user"

\* An event carries the database and the user of the server's session, through
\* every USE and COM_INIT_DB that succeeds.
SessionDb ==
    \A ev \in Events : srv.next > ev.req /\ ~IsUse(ev.req) /\ ~SessionMoved(ev.req) =>
        ev.db = reqs[ev.req].db /\ ev.user = reqs[ev.req].user

Statements == {"query", "init_db", "execute"}
Commands == {"ping", "change_user"}

\* Every captured request of a connection that is being decoded shows up once:
\* as an event or one in flight, or in a counter; and at the end of the connection
\* nothing is in flight, unless the client quit with requests in flight.
Accounted ==
    dec.disposition = "active" =>
        /\ Len(out) = Cardinality({ev.req : ev \in Events})
        /\ {ev.req : ev \in Events} \cap {ev.req : ev \in PendingEvents} = {}
        /\ Len(out) + Cardinality(PendingEvents) + dec.stats.inexpandable + dec.stats.ignored =
              Cardinality({r \in DOMAIN reqs : reqs[r].whole /\ reqs[r].c.cmd \in Statements \cup Commands})
        /\ dec.stats.missing = Cardinality({ev \in Events : ~ev.seen})
        /\ stage = "closed" /\ (\A r \in DOMAIN reqs : reqs[r].c.cmd # "quit") => PendingEvents = {}
=============================================================================
