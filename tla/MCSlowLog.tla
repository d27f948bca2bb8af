----------------------------- MODULE MCSlowLog -----------------------------
(***************************************************************************)
(* Small slow logs for module SlowLog.                                     *)
(***************************************************************************)
EXTENDS SlowLog

\* A template: its lexemes, with "@" where a literal goes, "@w" where one
\* goes that has no sign (it follows a word) and "@@@" where a list of literals
\* goes, what a statement of it does, and whether its answer may vary.
T(text, effect, volatile) == [text |-> text, effect |-> effect, volatile |-> volatile]

Templates == <<
    T(<<"SELECT", "sp", "x", "sp", "=", "sp", "@">>, "read", FALSE),
    T(<<"select", "sp", "x", "sp", "in", "sp", "(", "@@@", ")">>, "read", FALSE),
    T(<<"select", "sp", "bt", "in", "bt", "(", "@", ")">>, "read", FALSE),
    T(<<"select", "sp", "@w", "sp", "into", "sp", "outfile", "sp", "@w">>, "write", FALSE),
    T(<<"select", "sp", "x", "sp", "/*!", ";", "delete", "*/">>, "write", FALSE),
    T(<<"select", "sp", "x", "sp", "/*!", "into", "sp", "outfile", "*/", "sp", "@w">>, "write", FALSE),
    T(<<"select", "sp", "@w", ";", "DELETE", "sp", "x">>, "write", FALSE),
    T(<<"insert", "sp", "values", "(", "@@@", ")", ",", "(", "@", ")">>, "write", FALSE),
    T(<<"with", "sp", "c", "(", "select", "sp", "@w", ")", "select", "sp", "c">>, "read", FALSE),
    T(<<"with", "sp", "c", "(", "select", "sp", "@w", ")", "delete", "sp", "c">>, "write", FALSE),
    T(<<"explain", "sp", "delete", "sp", "x">>, "read", FALSE),
    T(<<"explain", "sp", "analyze", "sp", "format", "=", "json", "sp", "delete", "sp", "x">>,
      "write", FALSE),
    T(<<"explain", "sp", "analyze", "sp", "format", "=", "tree", "sp", "select", "sp", "@w">>,
      "read", FALSE),
    T(<<"set", "sp", "global", "sp", "x", "=", "@">>, "write", FALSE),
    T(<<"set", "sp", "x", "=", "@">>, "read", FALSE),
    T(<<"use", "sp", "b">>, "read", FALSE),
    T(<<"select", "sp", "now", "(", ")">>, "read", TRUE),
    T(<<"select", "sp", "now", "=", "@">>, "read", FALSE),
    T(<<"select", "sp", "unix_timestamp", "(", "@", ")">>, "read", FALSE),
    T(<<"select", "sp", "unix_timestamp", "(", ")">>, "read", TRUE),
    T(<<"select", "sp", "@@", "x">>, "read", TRUE),
    T(<<"select", "sp", "x", "sp", "limit", "sp", "@w">>, "read", TRUE),
    T(<<"select", "sp", "x", "sp", "order", "sp", "x", "sp", "limit", "sp", "@w">>, "read", FALSE)
>>

Literals == {
    <<"1">>, <<"-", "2">>, <<"'", "now", "'">>,
    <<"'", ";", "delete", "nl", "hdr", "nl", "bnr", "nl", "'">>,
    <<"'", "\\", "'", ";", "'">>,
    <<"'", "'", "'", "--", "'">>,
    <<"dq", "'", "/*", "dq">>,
    <<"dq", "\\", "nl", "hdr", "dq">> }

Comments == {
    <<>>, <<"sp">>, <<"/*", "'", ";", "nl", "hdr", "*/">>, <<"/*", "delete", "*/">>,
    <<"--", "'", "/*", "nl">>, <<"#", "dq", ";", "nl">>, <<"nl">> }

\* The statement of a template with a literal in each hole, lists of n literals
\* and a comment before its i-th lexeme.
Instance(tp, lit, n, i, comment) ==
    LET Fill(x) ==
            CASE x = "@" -> lit
              [] x = "@w" -> IF lit[1] = "-" THEN Tail(lit) ELSE lit
              [] x = "@@@" -> IF n = 1 THEN lit ELSE lit \o <<",", "sp">> \o lit
              [] OTHER -> <<x>>
        Piece(k) == IF k = i THEN comment \o Fill(tp.text[k]) ELSE Fill(tp.text[k])
    IN  FlattenSeq([k \in DOMAIN tp.text |-> Piece(k)])

\* Where a blank or comment leaves the shape of a template as it is: at the
\* start, next to a blank, and in a list or between it and its word.
Quiet(k) ==
    LET text == Templates[k].text
    IN  {i \in DOMAIN text :
            \/ i = 1 \/ text[i] = "sp" \/ text[i - 1] = "sp"
            \/ \E j \in 1 .. i - 1 : text[j] \in {"in", "values"} /\ Contains(text, "@@@")}

\* A statement's shape: its template, and where that is spaced out.
Op(k, lit, n, i, comment, db, ts, thread) ==
    [kind |-> "statement", text |-> Instance(Templates[k], lit, n, i, comment),
     shape |-> <<k, IF comment = <<>> \/ i \in Quiet(k) THEN 0 ELSE i>>,
     effect |-> Templates[k].effect, volatile |-> Templates[k].volatile,
     db |-> db, ts |-> ts, thread |-> thread, user |-> "u", secs |-> 2]

Plain(k, db, ts, thread) == Op(k, <<"1">>, 1, 1, <<>>, db, ts, thread)
Admin(db, ts) ==
    [kind |-> "admin", db |-> db, ts |-> ts, thread |-> 7, user |-> None, secs |-> 0]
Restart == [kind |-> "restart"]

\* Where a comment may go, after the blank if there is one: not between
\* backticks, not within another one, and not within the name of a variable.
Gaps(k) ==
    {i \in DOMAIN Templates[k].text :
        /\ Templates[k].text[i] # "sp"
        /\ k \in {3, 21} => i <= 3
        /\ k \in {5, 6} => i <= 5}

\* Every spelling of a template, between a plain statement of the template and
\* one with a blank at the same place.
Spelled ==
    UNION {{<<Plain(k, "a", "t1", 1), Op(k, lit, n, i, c, "a", "t2", 1),
              Op(k, <<"1">>, 1, i, <<"sp">>, "a", "t3", 1)>> :
               lit \in Literals, n \in {1, 2}, i \in Gaps(k), c \in Comments} : k \in DOMAIN Templates}

\* Every pair of templates.
Pairs == {<<Plain(k, "a", "t1", 1), Plain(l, "a", "t1", 1)>> : k, l \in DOMAIN Templates}

\* Entries of two threads with databases and without, restarts and administrator
\* commands in between.
Ops ==
    {Plain(k, db, ts, th) : k \in {1, 16}, db \in {"a", "b", None}, ts \in {"t1"}, th \in {1}}
      \cup {Op(1, <<"'", "nl", "hdr", "'">>, 1, 1, <<>>, "b", "t2", 2), Admin("b", "t2"), Restart}

Mixed == {<<a, b, c>> : a, b, c \in Ops}

Written(version, style, ops) == [version |-> version, style |-> style, ops |-> ops]

MCLogs ==
    {Written("5.6", "legacy", s) : s \in Spelled} \cup {Written("8", "modern", s) : s \in Pairs}
      \cup {Written("5.6", "legacy", s) : s \in Mixed} \cup {Written("mariadb", "percona", s) : s \in Mixed}
      \cup {Written("5.7", "modern", s) : s \in Mixed} \cup {Written("8", "modern", s) : s \in Mixed}

\* SET with several variables, the second of them global.
SetList ==
    {Written("8", "modern", <<[Plain(15, "a", "t1", 1) EXCEPT
        !.text = <<"set", "sp", "x", "=", "1", ",", "sp", "global", "sp", "y", "=", "1">>, !.effect = "write"]>>)}
=============================================================================
