---------------------------- MODULE MCConnDecoder ----------------------------
(* Handshakes and scripts for the model checker.                           *)
EXTENDS ConnDecoder

Greeting(attrs) == [reply |-> "greeting", version |-> "8.0", thread |-> ThreadId, attrs |-> attrs]

Login(attrs) ==
    [protocol41 |-> TRUE, ssl |-> FALSE, compress |-> FALSE, attrs |-> attrs,
     user |-> "app", auth_ok |-> TRUE, db |-> "d1"]

Query(sql, n) == [cmd |-> "query", sql |-> sql, attrs |-> "plain", cells |-> n]
InitDb(db) == [cmd |-> "init_db", db |-> db, cells |-> 1]
Ping == [cmd |-> "ping", cells |-> 1]
Quit == [cmd |-> "quit", cells |-> 1]
ChangeUser == [cmd |-> "change_user", db |-> "d3", user |-> "root", cells |-> 1]
Prepare(sql, holes) == [cmd |-> "prepare", sql |-> sql, holes |-> holes, cells |-> 1]
Close(id) == [cmd |-> "close", id |-> id, cells |-> 1]
Reset(id) == [cmd |-> "reset", id |-> id, cells |-> 1]
LongData(id, i, data) == [cmd |-> "long_data", id |-> id, param |-> i, data |-> data, cells |-> 1]

\* An execute with these arguments as a client encodes it: the null bitmap, the
\* types when it binds them, the values that are not sent ahead.
Execute(id, args, bound) ==
    LET inline == SelectSeq(args, LAMBDA a : ~a.long /\ a.kind # "null")
    IN  [cmd |-> "execute", id |-> id, count |-> NoSeq, cells |-> 1, bound |-> bound,
         nulls  |-> {i \in DOMAIN args : args[i].kind = "null"},
         types  |-> IF bound THEN [i \in DOMAIN args |-> [name |-> args[i].kind, unsigned |-> args[i].unsigned]] ELSE <<>>,
         values |-> [i \in DOMAIN inline |->
                        IF inline[i].kind = "int" THEN <<inline[i].value[1] % 2 ^ Bits>> ELSE inline[i].value],
         meant  |-> [i \in DOMAIN args |-> [kind |-> args[i].kind, value |-> args[i].value]]]

Num(n) == [kind |-> "int", value |-> <<n>>, unsigned |-> n > 1, long |-> FALSE]
Str(s) == [kind |-> "string", value |-> s, unsigned |-> FALSE, long |-> FALSE]
Sent(s) == [Str(s) EXCEPT !.long = TRUE]
Null == [kind |-> "null", value |-> <<>>, unsigned |-> FALSE, long |-> FALSE]
Point == [kind |-> "geometry", value |-> <<0>>, unsigned |-> FALSE, long |-> FALSE]

Select == Query(<<"select">>, 1)
LongSelect == Query(<<"select">>, FullLen)
Use(db) == Query(<<"use", db>>, 1)

\* Question marks in a string with a quote behind a backslash, and one outside.
Quoted == Prepare(<<"select", "'", "?", "bs", "'", "?", "'", ",", "?", ",", "?">>, <<9, 11>>)
Other == Prepare(<<"insert", "/*", "?", "*/", "bt", "bs", "bt", "?">>, <<8>>)

Scenario(attrs, script, depth, lengths, fails, lossy, maxCuts) ==
    [greeting |-> Greeting(FALSE), login |-> Login(attrs), script |-> script, depth |-> depth,
     lengths |-> lengths, fails |-> fails, lossy |-> lossy, cuts |-> maxCuts]

Alphabet == {Select, LongSelect, Use("d2"), InitDb("d2"), Ping}

\* Requests one at a time, with responses whose sequence numbers wrap.
Single == {Scenario(TRUE, <<a, b>>, 1, {1, SeqWrap + 1}, FALSE, FALSE, 1) : a, b \in Alphabet}

\* Two requests in flight.
Pipelined == {Scenario(FALSE, <<a, Select, b>>, 2, {1, 2}, FALSE, FALSE, 1) : a, b \in {Select, LongSelect, Ping}}

\* The capture loses a segment; a client that quits.
Lossy == {Scenario(FALSE, <<a, Select, Quit>>, d, {1}, FALSE, TRUE, 1) : a \in {Use("d2"), LongSelect}, d \in {1, 2}}

\* Statements that fail, and a change of user.
Failing == {Scenario(FALSE, <<Use("d2"), a, Select>>, 1, {1}, TRUE, FALSE, 0) : a \in {InitDb("d1"), ChangeUser, Quoted}}

\* Prepared statements: types that stay bound, data sent ahead, a statement id
\* that is used again.
Prepared ==
    {Scenario(FALSE, s, 1, {1}, FALSE, FALSE, 1) : s \in {
        <<Quoted, Execute(1, <<Num(3), Num(-2)>>, TRUE), Execute(1, <<Num(2), Num(1)>>, FALSE)>>,
        <<Quoted, LongData(1, 2, <<7>>), LongData(1, 2, <<8>>), Execute(1, <<Null, Sent(<<7, 8>>)>>, TRUE),
          Execute(1, <<Str(<<5>>), Str(<<6>>)>>, TRUE)>>,
        <<Quoted, LongData(1, 1, <<7>>), Close(1), Other, Execute(1, <<Str(<<4>>)>>, TRUE)>>,
        <<Quoted, LongData(1, 1, <<7>>), Reset(1), Execute(1, <<Str(<<4>>), Null>>, TRUE)>>,
        <<Other, Execute(1, <<Point>>, TRUE), Select, Execute(2, <<Num(1)>>, TRUE)>>}}

\* A connection that is not decoded, and statements with attributes.
Attrs(a) == [Select EXCEPT !.attrs = a]
Handshakes ==
    LET base == Scenario(TRUE, <<Select>>, 1, {1}, FALSE, FALSE, 2)
    IN  {[base EXCEPT !.greeting = [reply |-> "err"]], [base EXCEPT !.login.ssl = TRUE],
         [base EXCEPT !.login.compress = TRUE], [base EXCEPT !.login.protocol41 = FALSE],
         [base EXCEPT !.login.auth_ok = FALSE, !.login.db = None],
         [base EXCEPT !.script = <<Query(<<"select">>, MaxLogical + 1)>>]}
        \cup {[base EXCEPT !.greeting = Greeting(TRUE), !.script = <<Attrs(a), Attrs("typed")>>] :
                 a \in {"none", "untyped"}}

Connections == Single \cup Pipelined \cup Lossy \cup Failing \cup Prepared \cup Handshakes
=============================================================================
