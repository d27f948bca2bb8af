------------------------------- MODULE SqlText -------------------------------
(***************************************************************************)
(* What the tool reads out of the text of a statement: whether it may run  *)
(* without --allow-writes (classify.rs), its fingerprint (fingerprint.rs)  *)
(* and where its strings and comments end (slowlog.rs, scan_sql_state).    *)
(*                                                                         *)
(* A text is a sequence of lexemes: words and numbers, of which two never  *)
(* follow each other directly, punctuation, "sp" for a blank and "nl" for  *)
(* the end of a line; "dq" and "bt" are the double quote and the backtick, *)
(* "--" two dashes and a space, "/*!" the opener of an executed comment    *)
(* with its version digits, "hdr" a comment that reads like the slow log's *)
(* Time header, "bnr" text that reads like the banner of an 8.0 server.    *)
(***************************************************************************)
EXTENDS Integers, Sequences, FiniteSets, SequencesExt

Quotes == {"'", "dq", "bt"}
LineComment == {"--", "#", "hdr"}
Blanks == {"sp", "nl"}
Numbers == {"1", "2"}
Signs == {"-", "+"}
Operators == {"(", ",", "=", "<", ">", "*", "/", "%"} \cup Signs
Marks ==
    Quotes \cup LineComment \cup Operators \cup Blanks
      \cup {")", ";", "?", "/*", "/*!", "*/", "\\", "@@", "(?+)"}

IsWord(x) == x \notin Marks \cup Numbers

UpperCase == [SELECT |-> "select", DELETE |-> "delete"]
Lower(x) == IF x \in DOMAIN UpperCase THEN UpperCase[x] ELSE x

At(t, i, x) == i \in DOMAIN t /\ t[i] = x

\* Without the lexemes of X at the end.
TrimEnd(t, X) ==
    LET n == CHOOSE k \in 0 .. Len(t) :
                (k = 0 \/ t[k] \notin X) /\ \A j \in k + 1 .. Len(t) : t[j] \in X
    IN  SubSeq(t, 1, n)

\* The position of the first lexeme at or after i that is no space.
SkipBlanks(t, i) ==
    CHOOSE j \in i .. i + Len(t) : ~ At(t, j, "sp") /\ \A k \in i .. j - 1 : At(t, k, "sp")

-----------------------------------------------------------------------------
(* Where a quoted text, a comment or a line ends *)

\* The position after the quote that closes the one at i: a backslash escapes
\* the next character (not between backticks) and a doubled quote is content.
SkipQuoted(t, i) ==
    LET After[j \in i + 1 .. Len(t) + 2] ==
            IF j > Len(t) THEN Len(t) + 1
            ELSE IF t[j] = "\\" /\ t[i] # "bt" THEN After[j + 2]
            ELSE IF t[j] # t[i] THEN After[j + 1]
            ELSE IF At(t, j + 1, t[i]) THEN After[j + 2]
            ELSE j + 1
    IN  After[i + 1]

\* The position of the first x at or after i, or the one after the text.
Find(t, i, x) ==
    CHOOSE j \in i .. Len(t) + 1 :
        (j = Len(t) + 1 \/ t[j] = x) /\ \A k \in i .. j - 1 : t[k] # x

SkipComment(t, i) == LET e == Find(t, i + 1, "*/") IN IF e > Len(t) THEN e ELSE e + 1
SkipLine(t, i) == Find(t, i, "nl")

\* Faulty variant: an executed comment is passed over like any other.
SkipExecuted(t, i) ==
    CASE t[i] \in Quotes -> SkipQuoted(t, i)
      [] t[i] \in {"/*", "/*!"} -> SkipComment(t, i)
      [] t[i] \in LineComment -> SkipLine(t, i)
      [] OTHER -> i + 1

\* The position after a string, a comment or the single lexeme at i.  Of an
\* executed comment only the opener is passed over.
Skip(t, i) ==
    CASE t[i] \in Quotes -> SkipQuoted(t, i)
      [] t[i] = "/*" -> SkipComment(t, i)
      [] t[i] \in LineComment -> SkipLine(t, i)
      [] OTHER -> i + 1

\* The positions at which a scanner that passes over strings and comments stops.
Stops(t) ==
    LET From[i \in 1 .. Len(t) + 1] == IF i > Len(t) THEN {} ELSE {i} \cup From[Skip(t, i)]
    IN  From[1]

\* One lexeme of scan_sql_state: in is the quote or comment the scan is in, esc
\* says that the next character is escaped.  A doubled quote leaves the string
\* and enters it again.
ScanLexeme(s, x) ==
    CASE s.in = "line" -> s
      [] s.in \in Quotes ->
            IF s.esc THEN [s EXCEPT !.esc = FALSE]
            ELSE IF x = "\\" /\ s.in # "bt" THEN [s EXCEPT !.esc = TRUE]
            ELSE IF x = s.in THEN [s EXCEPT !.in = "normal"] ELSE s
      [] s.in = "comment" -> IF x = "*/" THEN [s EXCEPT !.in = "normal"] ELSE s
      [] x \in Quotes -> [s EXCEPT !.in = x]
      [] x \in {"/*", "/*!"} -> [s EXCEPT !.in = "comment"]
      [] x \in LineComment -> [s EXCEPT !.in = "line"]
      [] OTHER -> s

\* Faulty variant: every line starts outside of strings and comments.
ScanSqlStateAfresh(state, line) ==
    LET end == FoldLeft(ScanLexeme, [in |-> "normal", esc |-> FALSE], line)
    IN  IF end.in = "line" THEN "normal" ELSE end.in

\* The state after a line that starts in the given state.
ScanSqlState(state, line) ==
    LET end == FoldLeft(ScanLexeme, [in |-> state, esc |-> FALSE], line)
    IN  IF end.in = "line" THEN "normal" ELSE end.in

-----------------------------------------------------------------------------
(* Read or write *)

\* TokenScanner: the words outside strings and comments, with their depth of
\* parentheses.
Words(t) ==
    LET From[i \in 1 .. Len(t) + 1, d \in - Len(t) .. Len(t)] ==
            IF i > Len(t) THEN <<>>
            ELSE CASE t[i] = "(" -> From[i + 1, d + 1]
                   [] t[i] = ")" -> From[i + 1, d - 1]
                   [] IsWord(t[i]) -> <<[w |-> Lower(t[i]), depth |-> d]>> \o From[i + 1, d]
                   [] OTHER -> From[Skip(t, i), d]
    IN  From[1, 0]

\* A semicolon is followed by anything but blanks, comments and semicolons.
HasTrailingStatement(t) ==
    LET stops == {i \in Stops(t) : t[i] \notin {"/*", "/*!"} \cup Blanks \cup LineComment}
    IN  \E i, j \in stops : i < j /\ t[i] = ";" /\ t[j] # ";"

Tail1(ws) == IF ws = <<>> THEN <<>> ELSE Tail(ws)
FirstWord(ws) == IF ws = <<>> THEN "none" ELSE ws[1].w

ClassifySelectTail(ws) ==
    IF \E i \in 1 .. Len(ws) - 1 : ws[i].w = "into" /\ ws[i + 1].w \in {"outfile", "dumpfile"}
    THEN "write" ELSE "read"

Verbs == {"select", "insert", "update", "delete", "replace"}

\* The first verb outside the parentheses decides.
ClassifyWithTail(ws) ==
    LET verbs == {i \in DOMAIN ws : ws[i].depth = 0 /\ ws[i].w \in Verbs}
        first == CHOOSE i \in verbs : \A j \in verbs : i <= j
    IN  IF verbs = {} \/ ws[first].w # "select" THEN "write"
        ELSE ClassifySelectTail(SubSeq(ws, first + 1, Len(ws)))

ClassifyExplainAnalyzeTail(ws) ==
    LET Format == {"format", "tree", "json"}
        n    == CHOOSE k \in 0 .. Len(ws) :
                    /\ \A j \in 1 .. k : ws[j].w \in Format
                    /\ k = Len(ws) \/ ws[k + 1].w \notin Format
        rest == SubSeq(ws, n + 1, Len(ws))
    IN  CASE FirstWord(rest) \in {"select", "table"} -> ClassifySelectTail(Tail(rest))
          [] FirstWord(rest) = "with" -> ClassifyWithTail(Tail(rest))
          [] OTHER -> "write"

Classify(t) ==
    LET ws     == Words(t)
        first  == FirstWord(ws)
        second == FirstWord(Tail1(ws))
        rest   == Tail1(Tail1(ws))
    IN  CASE HasTrailingStatement(t) -> "write"
          [] first = "select" -> ClassifySelectTail(Tail(ws))
          [] first \in {"show", "use", "help"} -> "read"
          [] first \in {"explain", "describe", "desc"} ->
                IF second = "analyze" THEN ClassifyExplainAnalyzeTail(rest) ELSE "read"
          [] first = "set" ->
                IF second \in {"global", "persist", "persist_only", "password", "default"}
                THEN "write" ELSE "read"
          [] first = "with" -> ClassifyWithTail(Tail(ws))
          [] OTHER -> "write"

-----------------------------------------------------------------------------
(* Fingerprints *)

\* Strings become "?", numbers "num", blanks and block comments "gap", and line
\* comments nothing but the end of the line; what stands between backticks is
\* kept.
Strip(t) ==
    LET From[i \in 1 .. Len(t) + 1] ==
            IF i > Len(t) THEN <<>>
            ELSE CASE t[i] \in {"'", "dq"} -> <<"?">> \o From[SkipQuoted(t, i)]
                   [] t[i] = "bt" ->
                        [k \in 1 .. SkipQuoted(t, i) - i |-> Lower(t[i + k - 1])] \o From[SkipQuoted(t, i)]
                   [] t[i] \in {"/*", "/*!"} -> <<"gap">> \o From[SkipComment(t, i)]
                   [] t[i] \in LineComment -> From[SkipLine(t, i)]
                   [] t[i] \in Blanks -> <<"gap">> \o From[i + 1]
                   [] t[i] \in Numbers -> <<"num">> \o From[i + 1]
                   [] OTHER -> <<Lower(t[i])>> \o From[i + 1]
    IN  From[1]

\* Faulty variant: the sign in front of a number stays.
FoldSignNever(out) == out

\* A sign that follows an operator or starts the text belongs to the number.
FoldSign(out) ==
    LET signed == TrimEnd(out, {"sp"})
        before == TrimEnd(Front(signed), {"sp"})
    IN  IF /\ signed # <<>> /\ Last(signed) \in Signs
           /\ before = <<>> \/ Last(before) \in Operators
        THEN Front(signed) ELSE out

\* push_space: one space, and none at the start.
PushSpace(out) == IF out = <<>> \/ Last(out) = "sp" THEN out ELSE Append(out, "sp")

PushLexeme(out, x) ==
    CASE x = "num" -> Append(FoldSign(out), "?")
      [] x = "gap" -> PushSpace(out)
      [] OTHER -> Append(out, x)

\* The position after a group in parentheses of placeholders only, or 0.
PlaceholderGroupEnd(s, open) ==
    LET k == CHOOSE j \in open + 1 .. Len(s) + 1 :
                /\ j = Len(s) + 1 \/ s[j] \notin {"?", ",", "sp"}
                /\ \A l \in open + 1 .. j - 1 : s[l] \in {"?", ",", "sp"}
    IN  IF At(s, open, "(") /\ At(s, k, ")") /\ \E l \in open + 1 .. k - 1 : s[l] = "?"
        THEN k + 1 ELSE 0

\* word_at: not next to a backtick.
WordAt(s, i, w) == s[i] = w /\ ~ At(s, i - 1, "bt") /\ ~ At(s, i + 1, "bt")

CollapseInLists(s) ==
    LET GroupEnd(i) == PlaceholderGroupEnd(s, SkipBlanks(s, i + 1))
        From[i \in 1 .. Len(s) + 1] ==
            IF i > Len(s) THEN <<>>
            ELSE IF WordAt(s, i, "in") /\ GroupEnd(i) # 0
            THEN <<"in", "sp", "(?+)">> \o From[GroupEnd(i)]
            ELSE <<s[i]>> \o From[i + 1]
    IN  From[1]

\* The position after the tuples that start at k, separated by commas.
TuplesEnd(s, k) ==
    LET From[j \in 1 .. Len(s) + 2, first \in BOOLEAN] ==
            LET m    == SkipBlanks(s, j)
                open == IF ~ first /\ At(s, m, ",") THEN SkipBlanks(s, m + 1) ELSE m
                e    == PlaceholderGroupEnd(s, open)
            IN  IF e = 0 THEN j ELSE From[e, FALSE]
    IN  From[k, TRUE]

CollapseValuesLists(s) ==
    LET From[i \in 1 .. Len(s) + 1] ==
            IF i > Len(s) THEN <<>>
            ELSE IF WordAt(s, i, "values") /\ TuplesEnd(s, i + 1) > i + 1
            THEN <<"values", "sp", "(?+)">> \o From[TuplesEnd(s, i + 1)]
            ELSE <<s[i]>> \o From[i + 1]
    IN  From[1]

Fingerprint(t) ==
    LET out == FoldLeft(PushLexeme, <<>>, Strip(t))
    IN  CollapseValuesLists(CollapseInLists(TrimEnd(out, {"sp", ";"})))

\* One of the functions, and one of the words, that make a result volatile.
VolatileFuncs == {"now"}
VolatileWords == {"current_date"}

\* Faulty variant: the name of a volatile function counts without a call.
IsNondeterministicUncalled(f) ==
    LET code == Stops(f)
        Has(w) == \E i \in code : f[i] = w
    IN  \/ \E i \in code : f[i] \in VolatileWords \cup VolatileFuncs \cup {"@@", "unix_timestamp"}
        \/ Has("limit") /\ ~ Has("order")

\* is_nondeterministic, on a fingerprint.
IsNondeterministic(f) ==
    LET code == Stops(f)
        Has(w) == \E i \in code : f[i] = w
        Called(i) == SkipBlanks(f, i + 1)
    IN  \/ \E i \in code :
              \/ f[i] \in VolatileWords \cup {"@@"}
              \/ f[i] \in VolatileFuncs /\ At(f, Called(i), "(")
              \/ /\ f[i] = "unix_timestamp" /\ At(f, Called(i), "(")
                 /\ At(f, SkipBlanks(f, Called(i) + 1), ")")
        \/ Has("limit") /\ ~ Has("order")

=============================================================================
