---------------------------- MODULE MCPcapEngine ----------------------------
(* Connections for the model checker.                                      *)
EXTENDS PcapEngine

\* One packet of a message.
Wire(seq, msg) == <<[len |-> 1, seq |-> seq], msg>>

Greeting(thread) == Wire(0, [reply |-> "greeting", version |-> "8.0", thread |-> thread, attrs |-> FALSE])
Login(ssl) == Wire(1, [protocol41 |-> TRUE, ssl |-> ssl, compress |-> FALSE, attrs |-> FALSE,
                       user |-> "app", auth_ok |-> TRUE, db |-> "d1"])
Accepted == Wire(2, [reply |-> "ok"])

\* Read as a login, the bytes of SELECT have the flags of protocol 4.1 and of a
\* compressed connection; a quit is too short.
Query(conn, n) == Wire(0, [cmd |-> "query", sql |-> <<"select">>, attrs |-> "plain", req |-> <<conn, n>>,
                           protocol41 |-> TRUE, ssl |-> FALSE, compress |-> TRUE])
Quit == Wire(0, [cmd |-> "quit", protocol41 |-> FALSE])
Answer == Wire(1, [reply |-> "ok"])

Frame(key, conn, dir) ==
    [kind |-> "tcp", key |-> key, conn |-> conn, dir |-> dir, seq |-> 0, from |-> 0, syn |-> FALSE,
     ack |-> TRUE, fin |-> FALSE, rst |-> FALSE, data |-> <<>>, truncated |-> FALSE, asks |-> {}]

Isn(conn, dir) == IF dir = "client" THEN (M - 3 + 11 * conn) % M ELSE (20 + 11 * conn) % M

Syns(key, conn) ==
    <<[Frame(key, conn, "client") EXCEPT !.seq = Isn(conn, "client"), !.syn = TRUE, !.ack = FALSE],
      [Frame(key, conn, "server") EXCEPT !.seq = Isn(conn, "server"), !.syn = TRUE]>>

Sent(frames, dir) == FoldLeft(LAMBDA n, f : IF f.dir = dir THEN n + Len(f.data) ELSE n, 0, frames)

Statements(from, data) ==
    {[req |-> data[i].req, end |-> from + i - 1, quits |-> FALSE] : i \in {j \in DOMAIN data : "req" \in DOMAIN data[j]}}

\* The frames so far and one more with this payload.
Add(frames, dir, data, fin, rst) ==
    LET from == Sent(frames, dir)
    IN  Append(frames, [Frame(frames[1].key, frames[1].conn, dir) EXCEPT
            !.seq = (Isn(frames[1].conn, dir) + 1 + from) % M, !.from = from, !.data = data,
            !.fin = fin, !.rst = rst, !.asks = IF dir = "client" THEN Statements(from, data) ELSE {}])

C(frames, data) == Add(frames, "client", data, FALSE, FALSE)
S(frames, data) == Add(frames, "server", data, FALSE, FALSE)

Opened(key, conn, thread) == S(C(S(Syns(key, conn), Greeting(thread)), Login(FALSE)), Accepted)
Fins(frames) == Add(Add(frames, "client", <<>>, TRUE, FALSE), "server", <<>>, TRUE, FALSE)

\* Two statements, the second cut in two segments, and the FINs.
Whole(key, conn, thread) ==
    Fins(S(C(C(S(C(Opened(key, conn, thread), Query(conn, 1)), Answer),
               <<Query(conn, 2)[1]>>), <<Query(conn, 2)[2]>>), Answer))

\* A statement, no answer, and a reset, or no end at all.
Cut(key, conn, thread) == C(Opened(key, conn, thread), Query(conn, 1))
Aborted(key, conn, thread) == Add(Cut(key, conn, thread), "server", <<>>, FALSE, TRUE)
Quits(key, conn, thread) ==
    LET frames == Fins(C(S(Cut(key, conn, thread), Answer), Quit))
    IN  [i \in DOMAIN frames |-> [frames[i] EXCEPT !.asks = {[r EXCEPT !.quits = TRUE] : r \in @}]]
Tls(key, conn) == C(C(S(Syns(key, conn), Greeting(9)), Login(TRUE)), Query(conn, 1))

Noise == <<[kind |-> "other", data |-> <<>>], [kind |-> "fragment", data |-> <<>>]>>

One(frames) == [k \in {"k1"} |-> frames]

\* One connection; a key used again, by a server that starts counting threads
\* again; two keys at the same time.
Captures ==
    {One(Whole("k1", 1, 5)), One(Noise \o Quits("k1", 1, 5) \o Cut("k1", 2, 5)),
     One(Cut("k1", 1, 5) \o Cut("k1", 2, 5)), One(Tls("k1", 1) \o Aborted("k1", 2, 5)),
     [k \in {"k1", "k2"} |-> IF k = "k1" THEN Cut("k1", 1, 5) ELSE Aborted("k2", 2, 5)]}
=============================================================================
