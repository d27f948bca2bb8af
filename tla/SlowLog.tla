------------------------------- MODULE SlowLog -------------------------------
(***************************************************************************)
(* `sql-replay capture` on a slow query log: the line-driven parser        *)
(* (slowlog.rs, SlowLogParser), the emitter that numbers the fingerprints  *)
(* and writes the events and the summary (capture.rs), and what the replay *)
(* and the comparison later read out of the text (SqlText).                *)
(*                                                                         *)
(* The server that writes the log is external.  It logs the operations of  *)
(* a script, prints a database line only when the database differs from    *)
(* the one of the entry before, and may print the time only when it        *)
(* changes.  The copy of the log may end in the middle of an entry.        *)
(***************************************************************************)
EXTENDS SqlText

CONSTANTS
    Logs,       \* the logs to read: the server's version, its style and its operations
    None        \* an absent value

VARIABLES
    script,     \* operations that are still to be logged
    server,     \* what the server remembers: its version, style, last database and time
    lines,      \* lines of the current entry that are not read yet
    parser,
    emitter,    \* the capture: events, fingerprint texts, sessions
    logged,     \* the operations logged so far
    status      \* "reading", "cut" (the log ended within an entry) or "done"

vars == <<script, server, lines, parser, emitter, logged, status>>

-----------------------------------------------------------------------------
(* The server (external).  An operation is a statement or administrator      *)
(* command of a thread, or a restart.                                        *)

Line(kind) == [kind |-> kind, lex |-> <<"hdr">>]
TextLine(lex) == [kind |-> "text", lex |-> lex]

UseLine(db) == TextLine(<<"use", "sp", db, ";">>)
SetTimestampLine(ts) == TextLine(<<"set timestamp", ts, ";">>)

\* The lines of a text.
Split(t) ==
    LET From[i \in 1 .. Len(t) + 1] ==
            LET e == Find(t, i, "nl")
            IN  <<TextLine(SubSeq(t, i, e - 1))>> \o (IF e > Len(t) THEN <<>> ELSE From[e + 1])
    IN  From[1]

Opt(cond, line) == IF cond THEN <<line>> ELSE <<>>

\* The entry of an operation.
Entry(srv, op) ==
    LET legacy == srv.style # "modern"
        time   == [kind |-> "time", ts |-> op.ts, legacy |-> legacy, lex |-> <<"hdr">>]
        user   == [kind |-> "user", user |-> op.user, id |-> op.thread, lex |-> <<"hdr">>]
        thread == [kind |-> "thread", id |-> op.thread, schema |-> op.db, lex |-> <<"hdr">>]
        query  == [kind |-> "query_time", secs |-> op.secs, lex |-> <<"hdr">>,
                   extra |-> srv.style = "modern" /\ srv.version \in {"8", "9"}]
    IN  Opt(~ legacy \/ srv.last_ts # op.ts, time) \o <<user>>
        \o Opt(srv.style = "percona", thread) \o <<query>>
        \o Opt(op.db # None /\ op.db # srv.last_db, UseLine(op.db)) \o <<SetTimestampLine(op.ts)>>
        \o (IF op.kind = "admin" THEN <<Line("admin")>> ELSE Split(op.text \o <<";">>))

Banner(version) ==
    <<[kind |-> "banner", version |-> version, lex |-> <<"bnr">>], Line("port"), Line("columns")>>

-----------------------------------------------------------------------------
(* The parser *)

NewParser ==
    [dialect |-> None, from_banner |-> FALSE, time |-> None, set_ts |-> None, user |-> None,
     thread_id |-> None, schema |-> None, query_time |-> 0, current_db |-> None,
     buf |-> <<>>, in_query |-> FALSE, sql_state |-> "normal", admin |-> 0, restarts |-> 0]

IsEntryHeader(line) ==
    \/ line.kind \in {"time", "user", "thread", "query_time", "admin"}
    \/ line.kind = "text" /\ At(line.lex, 1, "hdr")

IsRestartBanner(line) ==
    LET lex == TrimEnd(line.lex, {"sp"})
    IN  line.kind \in {"banner", "text"} /\ At(lex, Len(lex), "bnr")

\* A banner's version beats what the format suggests; the first banner counts.
ObserveBannerDialect(p, d) ==
    IF p.from_banner THEN p ELSE [p EXCEPT !.dialect = d, !.from_banner = TRUE]

ObserveTimeDialect(p, d) == IF p.dialect = None THEN [p EXCEPT !.dialect = d] ELSE p

ObserveLogSlowExtra(p) ==
    IF ~ p.from_banner /\ p.dialect \in {None, "mysql-5.7-or-newer"}
    THEN [p EXCEPT !.dialect = "mysql-8.0"] ELSE p

BannerDialect(version) ==
    CASE version = "mariadb" -> "mariadb"
      [] version = "5.7" -> "mysql-5.7"
      [] version = "5.6" -> "mysql-5.6-or-older"
      [] version = "8" -> "mysql-8.0"
      [] OTHER -> None

ResetEntry(p) == [p EXCEPT !.set_ts = None, !.schema = None, !.query_time = 0]

HandleUserHost(p, line) ==
    [p EXCEPT !.user = IF line.user = None THEN @ ELSE line.user,
              !.thread_id = IF line.id = None THEN @ ELSE line.id]

\* The values of a line of keys; an empty schema leaves what was there.
HandleKvLine(p, line) ==
    CASE line.kind = "query_time" -> [p EXCEPT !.query_time = line.secs]
      [] line.kind = "thread" ->
            [p EXCEPT !.thread_id = line.id, !.schema = IF line.schema = None THEN @ ELSE line.schema]
      [] OTHER -> p

\* A comment line of a statement that reads like a header has no value the
\* parser understands.
HandleHeader(p, line) ==
    CASE line.kind = "time" ->
            ObserveTimeDialect([p EXCEPT !.time = line.ts],
                               IF line.legacy THEN "mysql-5.6-or-older" ELSE "mysql-5.7-or-newer")
      [] line.kind = "user" -> HandleUserHost(p, line)
      [] line.kind = "admin" -> ResetEntry([p EXCEPT !.admin = @ + 1])
      [] line.kind = "query_time" /\ line.extra -> HandleKvLine(ObserveLogSlowExtra(p), line)
      [] OTHER -> HandleKvLine(p, line)

\* A restarted server starts a fresh log.
HandleBanner(p, line) ==
    LET d == BannerDialect(IF line.kind = "banner" THEN line.version ELSE "8")
        q == [p EXCEPT !.restarts = @ + 1, !.current_db = None, !.set_ts = None]
    IN  IF d = None THEN q ELSE ObserveBannerDialect(q, d)

\* Blanks at neither end.
Trim(lex) == TrimEnd(SubSeq(lex, SkipBlanks(lex, 1), Len(lex)), {"sp"})

\* A name is a single lexeme, between backticks or not.
ParseUseLine(lex) ==
    LET name == Trim(TrimEnd(Trim(SubSeq(lex, 3, Len(lex))), {";"}))
    IN  CASE ~ (At(lex, 1, "use") /\ At(lex, 2, "sp")) -> None
          [] Len(name) = 1 -> name[1]
          [] Len(name) = 3 /\ At(name, 1, "bt") /\ At(name, 3, "bt") -> name[2]
          [] OTHER -> None

ParseSetTimestamp(lex) == IF At(lex, 1, "set timestamp") THEN lex[2] ELSE None

AppendQueryLine(p, line) ==
    [p EXCEPT !.buf = IF @ = <<>> THEN line.lex ELSE @ \o <<"nl">> \o line.lex,
              !.sql_state = ScanSqlState(@, line.lex)]

\* A line that is neither header nor banner: blank, the database line (only
\* before the entry's timestamp), the timestamp, or the start of the statement.
ConsumeText(p, line) ==
    LET t == Trim(line.lex)
    IN  CASE t = <<>> -> p
          [] p.set_ts = None /\ ParseUseLine(t) # None -> [p EXCEPT !.current_db = ParseUseLine(t)]
          [] ParseSetTimestamp(t) # None -> [p EXCEPT !.set_ts = ParseSetTimestamp(t)]
          [] OTHER -> AppendQueryLine([p EXCEPT !.in_query = TRUE, !.buf = <<>>,
                                                !.sql_state = "normal"], line)

ConsumeMetaLine(p, line) ==
    CASE IsEntryHeader(line) \/ (line.kind = "text" /\ At(line.lex, 1, "#")) -> HandleHeader(p, line)
      [] IsRestartBanner(line) -> HandleBanner(p, line)
      [] line.kind \in {"port", "columns"} -> p
      [] OTHER -> ConsumeText(p, line)

\* Without the blanks and the semicolon at the end.
TrimQuery(buf) ==
    LET q == TrimEnd(buf, Blanks)
    IN  IF q # <<>> /\ Last(q) = ";" THEN TrimEnd(Front(q), Blanks) ELSE q

\* The finished statement, or none.
TakeQuery(p) ==
    LET q == TrimQuery(p.buf)
    IN  IF ~ p.in_query THEN [p |-> p, out |-> <<>>]
        ELSE [p   |-> ResetEntry([p EXCEPT !.in_query = FALSE, !.sql_state = "normal", !.buf = <<>>]),
              out |-> IF q = <<>> THEN <<>>
                      ELSE <<[ts     |-> IF p.set_ts # None THEN p.set_ts
                                         ELSE IF p.time # None THEN p.time ELSE "0",
                              thread |-> IF p.thread_id = None THEN 0 ELSE p.thread_id,
                              user   |-> p.user,
                              db     |-> IF p.schema # None THEN p.schema ELSE p.current_db,
                              text   |-> q,
                              secs   |-> p.query_time]>>]

PushLine(p, line) ==
    IF ~ p.in_query THEN [p |-> ConsumeMetaLine(p, line), out |-> <<>>]
    ELSE IF p.sql_state = "normal" /\ (IsEntryHeader(line) \/ IsRestartBanner(line))
    THEN LET done == TakeQuery(p) IN [done EXCEPT !.p = ConsumeMetaLine(@, line)]
    ELSE [p |-> AppendQueryLine(p, line), out |-> <<>>]

-----------------------------------------------------------------------------
(* The emitter *)

NewEmitter == [events |-> <<>>, texts |-> <<>>, sessions |-> {}, summary |-> None]

\* FingerprintRegistry::intern: a new class gets the next id, its position.
Intern(texts, text) ==
    LET fp == Fingerprint(text) IN IF Contains(texts, fp) THEN texts ELSE Append(texts, fp)

FingerprintId(texts, text) == CHOOSE i \in DOMAIN texts : texts[i] = Fingerprint(text)

Emit(em, pq) ==
    LET texts == Intern(em.texts, pq.text)
    IN  [em EXCEPT !.texts = texts, !.sessions = @ \cup {pq.thread},
                   !.events = Append(@, pq @@ [fp |-> FingerprintId(texts, pq.text)])]

EmitAll(em, out) == FoldLeft(Emit, em, out)

FinishEmitter(em, p) ==
    [em EXCEPT !.summary = [events |-> Len(em.events), sessions |-> Cardinality(em.sessions),
                            dialect |-> IF p.dialect = None THEN "unknown" ELSE p.dialect,
                            admin |-> p.admin, restarts |-> p.restarts, texts |-> em.texts]]

-----------------------------------------------------------------------------
Init ==
    /\ \E log \in Logs :
          /\ script = log.ops
          /\ server = [version |-> log.version, style |-> log.style, last_db |-> None, last_ts |-> None]
    /\ lines = <<>>
    /\ parser = NewParser
    /\ emitter = NewEmitter
    /\ logged = <<>>
    /\ status = "reading"

\* The next entry of the log.
Log ==
    /\ status = "reading" /\ lines = <<>> /\ script # <<>>
    /\ LET op == Head(script)
       IN  IF op.kind = "restart"
           THEN /\ lines' = Banner(server.version)
                /\ server' = [server EXCEPT !.last_db = None, !.last_ts = None]
           ELSE /\ lines' = Entry(server, op)
                /\ server' = [server EXCEPT !.last_db = IF op.db = None THEN @ ELSE op.db, !.last_ts = op.ts]
    /\ logged' = Append(logged, Head(script))
    /\ script' = Tail(script)
    /\ UNCHANGED <<parser, emitter, status>>

\* One turn of run_capture's loop.
ReadLine ==
    /\ status = "reading" /\ lines # <<>>
    /\ LET r == PushLine(parser, Head(lines))
       IN  parser' = r.p /\ emitter' = EmitAll(emitter, r.out)
    /\ lines' = Tail(lines)
    /\ UNCHANGED <<script, server, logged, status>>

\* The end of the file, after a whole entry or within one.
EndOfLog ==
    /\ status = "reading" /\ logged # <<>>
    /\ lines # <<>> \/ script = <<>>
    /\ LET r == TakeQuery(parser)
       IN  parser' = r.p /\ emitter' = FinishEmitter(EmitAll(emitter, r.out), r.p)
    /\ status' = IF lines = <<>> THEN "done" ELSE "cut"
    /\ UNCHANGED <<script, server, lines, logged>>

Next == Log \/ ReadLine \/ EndOfLog

Spec == Init /\ [][Next]_vars

-----------------------------------------------------------------------------
(* Properties *)

\* The statements among the operations logged.
Statements == SelectSeq(logged, LAMBDA op : op.kind = "statement")

\* A text without the blank and comment lines it starts with, which the parser
\* takes for lines of the header.
WithoutLead(t) ==
    LET Rest[i \in 1 .. Len(t) + 1] ==
            LET e == SkipLine(t, i)
            IN  IF e <= Len(t) /\ (At(t, i, "#") \/ Trim(SubSeq(t, i, e - 1)) = <<>>)
                THEN Rest[e + 1] ELSE SubSeq(t, i, Len(t))
    IN  Rest[1]

\* The statement of an operation and the event made of it.  A statement sent
\* without a default database is given the last one of the log.
Same(ev, op) ==
    /\ ev.text = WithoutLead(op.text) /\ ev.ts = op.ts /\ ev.thread = op.thread /\ ev.secs = op.secs
    /\ op.db # None => ev.db = op.db
    /\ op.user # None => ev.user = op.user

\* slowlog.rs, push_line and take_query: every logged statement becomes one
\* event, in order, with its own text, time, thread, user, latency and database,
\* whatever entries of other threads, administrator commands, restarts and
\* header-looking text surround it.  Only the last one may be short, when the
\* copy of the log ends within it.
EachStatementItsEvent ==
    status # "reading" =>
        LET evs == emitter.events
            n   == Len(Statements)
        IN  /\ status = "done" => Len(evs) = n
            /\ Len(evs) \in {n, n - 1}
            /\ \A i \in DOMAIN evs : (i < n \/ status = "done") => Same(evs[i], Statements[i])

\* fingerprint.rs and capture.rs, emit: two statements are in one class exactly
\* when they differ only in literals, the length of IN and VALUES lists, and in
\* how the gaps between lexemes are filled: any run of blanks, line ends and
\* comments counts as one blank, and only in those lists as none.  So a comment
\* between two signs, as in now(/**/), makes another class.  The ids of the
\* classes are the positions in the summary's table.
ClassIsShape ==
    status = "done" =>
        LET evs == emitter.events
        IN  /\ \A i, j \in DOMAIN evs :
                  (evs[i].fp = evs[j].fp) <=> (Statements[i].shape = Statements[j].shape)
            /\ \A i \in DOMAIN evs : emitter.summary.texts[evs[i].fp] = Fingerprint(evs[i].text)

\* classify.rs, classify: without --allow-writes a captured statement runs if
\* and only if it leaves the server as it was, however its literals, comments
\* and line breaks are written.
GateIsRight ==
    status = "done" =>
        \A i \in DOMAIN emitter.events :
            Classify(emitter.events[i].text) = Statements[i].effect

\* classify.rs, is_nondeterministic, on the fingerprint table: a class is called
\* volatile exactly when its statements may answer differently on equal data.
VolatileIsKnown ==
    status = "done" =>
        \A i \in DOMAIN emitter.events :
            IsNondeterministic(emitter.texts[emitter.events[i].fp]) = Statements[i].volatile

=============================================================================
