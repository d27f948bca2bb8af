---------------------------- MODULE MCReplayPass ----------------------------
(* Workloads for the model checker: small captures in which sessions       *)
(* compete for connections, change databases and mix reads and writes.     *)
EXTENDS ReplayPass, TLC

CONSTANTS s1, s2, s3, orders, users

Read(db)      == [kind |-> "read", db |-> db, to |-> NoDb]
Write(db)     == [kind |-> "write", db |-> db, to |-> NoDb]
Use(db, to)   == [kind |-> "use", db |-> db, to |-> to]

\* A capture in which a USE carries the database it selects, as the packet
\* decoder records it; the third session has nothing but a write.
PacketCapture ==
    s1 :> <<Read(orders), Use(users, users), Read(users)>>
    @@ s2 :> <<Write(orders), Read(users)>>
    @@ s3 :> <<Write(users)>>

\* Three sessions with something to execute.
BusyCapture ==
    s1 :> <<Read(orders), Read(users)>>
    @@ s2 :> <<Use(orders, users), Read(orders)>>
    @@ s3 :> <<Write(users), Read(users)>>

\* A slow-log capture: the USE that went to the log is recorded with the
\* database it was issued in; the one that brought the client back was too
\* fast to be logged.
SlowLogCapture ==
    s1 :> <<Use(orders, users), Read(orders)>>
    @@ s2 :> <<Read(orders)>>
=============================================================================
