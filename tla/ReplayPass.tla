----------------------------- MODULE ReplayPass -----------------------------
(***************************************************************************)
(* One replay pass (replay.rs, run_pass): a task per captured session, the *)
(* semaphore that bounds the connections, the connection pool of --pool,   *)
(* the saturation sampler, the abort flag, and the target server seen      *)
(* through its answers.                                                    *)
(*                                                                         *)
(* A session is a sequence of events; of an event the pass only looks at   *)
(* whether the write gate lets it through ("read", "write"), whether it is *)
(* a captured USE statement, and the database it was captured in.  A step  *)
(* of a session is the code between two points where another task may      *)
(* interfere: an await, or an access to shared state whose order matters.  *)
(***************************************************************************)
EXTENDS Integers, Sequences, FiniteSets, Sums

CONSTANTS
    Sessions,         \* the captured sessions, one task each
    Events,           \* the events of each session, in capture order
    Dbs,              \* database names
    NoDb,             \* no database: an Option that is None
    UrlDb,            \* database of a new connection (--db-override or the URL)
    Cap,              \* ReplayOptions::connection_cap
    Pooled,           \* --pool given
    AllowWrites,      \* --allow-writes
    UseEventDb,       \* no --db-override
    MaxReadFailures,  \* bound on spool read failures in one pass
    MaxSamples        \* bound on the sampler's ticks

Option == Dbs \cup {NoDb}

Event == [kind : {"read", "write", "use"}, db : Option, to : Option]

ASSUME SessionsAssumption == IsFiniteSet(Sessions)
ASSUME CapAssumption == Cap \in Nat \ {0}
ASSUME EventsAssumption == Events \in [Sessions -> Seq(Event)]
ASSUME DbAssumption == NoDb \notin Dbs /\ UrlDb \in Option
ASSUME FlagAssumption ==
    /\ Pooled \in BOOLEAN /\ AllowWrites \in BOOLEAN /\ UseEventDb \in BOOLEAN
    /\ MaxReadFailures \in Nat /\ MaxSamples \in Nat

VARIABLES
    pc,         \* where each session task is
    pos,        \* events each session's cursor has delivered
    shutdown,   \* the abort flag of the watch channel
    avail,      \* free permits of the semaphore
    permits,    \* sessions that own a permit, or were assigned one while queued
    queue,      \* sessions queued in the semaphore, first come first served
    waiters,    \* PassCtx.waiters
    open,       \* sessions that hold a connection or are establishing one
    conn,       \* the database of each session's connection, see Conn
    idle,       \* ConnPool.idle, the shelf of reusable connections
    metrics,    \* the totals of Metrics
    lost,       \* sessions whose spool could not be read to its end
    sampler,    \* the sampler task: waiting for a tick, or past its first read
    samples,    \* sat_samples
    hits,       \* sat_hits
    pass,       \* run_pass: "running", "drained" or "reported"
    aborted     \* RunReport.aborted

sessionVars == <<pc, pos, lost>>
semVars     == <<avail, permits, queue, waiters>>
connVars    == <<open, conn, idle>>
samplerVars == <<sampler, samples, hits>>
passVars    == <<pass, aborted>>
vars == <<sessionVars, semVars, connVars, metrics, samplerVars, passVars, shutdown>>

\* srv is the database the server has selected on the connection; db is the
\* one the replayer believes is selected (current_db, IdleConn.db).
Conn == [srv : Option, db : Option]

Labels == {"start", "first", "acquire", "queued", "polled", "permitted", "checkout",
           "connect", "next", "due", "use", "exec", "closing", "release", "done"}

Counters == {"executed", "skipped", "errors", "not_run", "connect_failures"}

NoConn == [srv |-> NoDb, db |-> NoDb]

Init ==
    /\ pc = [s \in Sessions |-> "start"]
    /\ pos = [s \in Sessions |-> 0]
    /\ lost = {}
    /\ shutdown \in BOOLEAN
    /\ avail = Cap
    /\ permits = {}
    /\ queue = <<>>
    /\ waiters = 0
    /\ open = {}
    /\ conn = [s \in Sessions |-> NoConn]
    /\ idle = <<>>
    /\ metrics = [c \in Counters |-> 0]
    /\ sampler = "tick"
    /\ samples = 0
    /\ hits = 0
    /\ pass = "running"
    /\ aborted = FALSE

-----------------------------------------------------------------------------
(* The write gate and the spool cursor.                                    *)

\* Faulty variant: the flag is read the wrong way round.
ShouldExecuteInverted(e) == ~AllowWrites \/ e.kind # "write"

\* A captured USE is classified as a read.
ShouldExecute(e) == AllowWrites \/ e.kind # "write"

HasExecutable(s) == \E i \in DOMAIN Events[s] : ShouldExecute(Events[s][i])

Ev(s) == Events[s][pos[s]]

Goto(s, l) == pc' = [pc EXCEPT ![s] = l]

Count(c, n) == metrics' = [metrics EXCEPT ![c] = @ + n]

MayFail == Cardinality(lost) < MaxReadFailures

\* Faulty variant: the drain counts one event too many.
DrainEndsPastEnd(s) == {Len(Events[s]) + 1}

\* Where a drain of the rest of a session can stop: at its end, or at an
\* event that cannot be read.
DrainEnds(s) ==
    {Len(Events[s])} \cup (IF MayFail THEN pos[s] .. (Len(Events[s]) - 1) ELSE {})

\* Faulty variant: the event at hand is not recorded.
DrainRecordingRest(s, how, here) ==
    \E end \in DrainEnds(s) :
        /\ pos' = [pos EXCEPT ![s] = end]
        /\ lost' = IF end < Len(Events[s]) THEN lost \cup {s} ELSE lost
        /\ Count(how, end - pos[s])

\* drain_recording, after `here` events that the caller has recorded itself.
DrainRecording(s, how, here) ==
    \E end \in DrainEnds(s) :
        /\ pos' = [pos EXCEPT ![s] = end]
        /\ lost' = IF end < Len(Events[s]) THEN lost \cup {s} ELSE lost
        /\ Count(how, here + end - pos[s])

\* An executable statement that is skipped nevertheless: a captured USE would
\* unpin the override database, or has no connection of its own to stick to.
SkipsUse(e) == e.kind = "use" /\ (Pooled \/ ~UseEventDb)

-----------------------------------------------------------------------------
(* tokio's semaphore: a released permit goes to the longest waiting task;  *)
(* it is counted as available only when nobody is queued.                  *)

TryAcquire(s) ==
    IF avail > 0
    THEN /\ avail' = avail - 1
         /\ permits' = permits \cup {s}
         /\ Goto(s, "permitted")
         /\ UNCHANGED queue
    ELSE /\ queue' = Append(queue, s)
         /\ Goto(s, "queued")
         /\ UNCHANGED <<avail, permits>>

\* Faulty variant: a released permit does not wake the queue.
ReleasePermitUnseen(s) ==
    /\ avail' = avail + 1
    /\ permits' = permits \ {s}
    /\ UNCHANGED queue

ReleasePermit(s) ==
    IF queue = <<>>
    THEN /\ avail' = avail + 1
         /\ permits' = permits \ {s}
         /\ UNCHANGED queue
    ELSE /\ permits' = (permits \ {s}) \cup {Head(queue)}
         /\ queue' = Tail(queue)
         /\ UNCHANGED avail

\* Faulty variant: an assigned permit is lost with the dropped acquire.
CancelAcquireLoses(s) ==
    /\ permits' = permits \ {s}
    /\ queue' = SelectSeq(queue, LAMBDA t : t # s)
    /\ UNCHANGED avail

\* Dropping an acquire that has not completed: an assigned permit is given
\* back, a queued task leaves the queue.
CancelAcquire(s) ==
    IF s \in permits
    THEN ReleasePermit(s)
    ELSE /\ \E i \in 1 .. Len(queue) :
                /\ queue[i] = s
                /\ queue' = [j \in 1 .. (Len(queue) - 1) |->
                                IF j < i THEN queue[j] ELSE queue[j + 1]]
         /\ UNCHANGED <<avail, permits>>

-----------------------------------------------------------------------------
(* The session task.  Each action below is one step of session s.          *)

\* run_session: a session that the gate empties is recorded as skipped and
\* never paces or connects; a dedicated one reads its first event ahead.
StartSkipped(s) ==
    /\ pc[s] = "start"
    /\ ~HasExecutable(s)
    /\ DrainRecording(s, "skipped", 0)
    /\ Goto(s, "done")
    /\ UNCHANGED <<semVars, connVars, samplerVars, passVars, shutdown>>

StartSession(s) ==
    /\ pc[s] = "start"
    /\ HasExecutable(s)
    /\ IF Pooled
       THEN Goto(s, "next") /\ UNCHANGED <<pos, lost>>
       ELSE \/ /\ pos' = [pos EXCEPT ![s] = 1]
               /\ Goto(s, "first")
               /\ UNCHANGED lost
            \/ /\ MayFail
               /\ lost' = lost \cup {s}
               /\ Goto(s, "done")
               /\ UNCHANGED pos
    /\ UNCHANGED <<semVars, connVars, metrics, samplerVars, passVars, shutdown>>

\* Faulty variant: the permit is given back with the connection open.
EndLabelOpen == IF Pooled THEN "done" ELSE "release"

\* The end of a session: a dedicated one disconnects, a pooled one returns.
EndLabel == IF Pooled THEN "done" ELSE "closing"

NextEvent(s) ==
    /\ pc[s] = "next"
    /\ \/ /\ pos[s] < Len(Events[s])
          /\ pos' = [pos EXCEPT ![s] = @ + 1]
          /\ Goto(s, "due")
          /\ UNCHANGED lost
       \/ /\ pos[s] = Len(Events[s])
          /\ Goto(s, EndLabel)
          /\ UNCHANGED <<pos, lost>>
       \/ /\ pos[s] < Len(Events[s]) /\ MayFail
          /\ lost' = lost \cup {s}
          /\ Goto(s, EndLabel)
          /\ UNCHANGED pos
    /\ UNCHANGED <<semVars, connVars, metrics, samplerVars, passVars, shutdown>>

\* The first event of a dedicated session is due: it may ask for a permit.
WaitUntilDue(s) ==
    /\ pc[s] = "first"
    /\ ~shutdown
    /\ waiters' = waiters + 1
    /\ Goto(s, "acquire")
    /\ UNCHANGED <<pos, lost, avail, permits, queue, connVars, metrics,
                   samplerVars, passVars, shutdown>>

\* Faulty variant: the database is selected once per connection.
NeedsUseOnce(e, db) == UseEventDb /\ e.db # NoDb /\ db = NoDb

\* The database has to be selected before the event runs on a connection
\* that is believed to be in database db.
NeedsUse(e, db) == UseEventDb /\ e.db # NoDb /\ e.db # db

\* An event is due: it is skipped, or sent on the session's own connection,
\* or (pooled) it queues for a permit.  Up to the next await the session reads
\* nothing that others write, so all of it is taken with the look at the flag.
Pace(s) ==
    /\ pc[s] = "due"
    /\ ~shutdown
    /\ IF ~ShouldExecute(Ev(s)) \/ SkipsUse(Ev(s))
       THEN Count("skipped", 1) /\ Goto(s, "next") /\ UNCHANGED waiters
       ELSE /\ UNCHANGED metrics
            /\ IF Pooled
               THEN Goto(s, "acquire") /\ waiters' = waiters + 1
               ELSE /\ Goto(s, IF NeedsUse(Ev(s), conn[s].db) THEN "use" ELSE "exec")
                    /\ UNCHANGED waiters
    /\ UNCHANGED <<pos, lost, avail, permits, queue, connVars, samplerVars,
                   passVars, shutdown>>

\* Abort seen while waiting for an event to be due.
AbortDue(s) ==
    /\ pc[s] \in {"first", "due"}
    /\ shutdown
    /\ DrainRecording(s, "not_run", 1)
    /\ Goto(s, IF pc[s] = "first" THEN "done" ELSE EndLabel)
    /\ UNCHANGED <<semVars, connVars, samplerVars, passVars, shutdown>>

\* The select around acquire_owned polls the flag and then the acquire; on
\* several threads anything may happen in between, an abort included.
AsksForPermit(s) == pc[s] = "acquire" \/ (pc[s] = "queued" /\ s \in permits)

\* Faulty variant: the acquire is polled without looking at the flag.
PollFlagUnaware(s) ==
    /\ AsksForPermit(s)
    /\ Goto(s, "polled")
    /\ UNCHANGED <<pos, lost, semVars, connVars, metrics, samplerVars, passVars,
                   shutdown>>

\* First poll of the select, or the one for which the semaphore woke the task.
PollFlag(s) ==
    /\ AsksForPermit(s)
    /\ ~shutdown
    /\ Goto(s, "polled")
    /\ UNCHANGED <<pos, lost, semVars, connVars, metrics, samplerVars, passVars,
                   shutdown>>

\* The poll of acquire_owned that follows: the assigned permit, or a free one,
\* or a place in the queue.
PollAcquire(s) ==
    /\ pc[s] = "polled"
    /\ IF s \in permits
       THEN Goto(s, "permitted") /\ UNCHANGED <<avail, permits, queue>>
       ELSE TryAcquire(s)
    /\ UNCHANGED <<pos, lost, waiters, connVars, metrics, samplerVars, passVars,
                   shutdown>>

\* Faulty variant: the abort path forgets the waiters counter.
AbortAcquireUncounted(s) ==
    /\ pc[s] \in {"acquire", "queued"}
    /\ shutdown
    /\ IF pc[s] = "queued" THEN CancelAcquire(s) ELSE UNCHANGED <<avail, permits, queue>>
    /\ DrainRecording(s, "not_run", 1)
    /\ Goto(s, "done")
    /\ UNCHANGED <<waiters, connVars, samplerVars, passVars, shutdown>>

\* Abort seen while waiting for a permit: a permit that was assigned but not yet
\* taken is given back.
AbortAcquire(s) ==
    /\ pc[s] \in {"acquire", "queued"}
    /\ shutdown
    /\ IF pc[s] = "queued" THEN CancelAcquire(s) ELSE UNCHANGED <<avail, permits, queue>>
    /\ waiters' = waiters - 1
    /\ DrainRecording(s, "not_run", 1)
    /\ Goto(s, "done")
    /\ UNCHANGED <<connVars, samplerVars, passVars, shutdown>>

\* Holding a permit, the session is no longer a waiter.
StopWaiting(s) ==
    /\ pc[s] = "permitted"
    /\ waiters' = waiters - 1
    /\ IF Pooled
       THEN Goto(s, "checkout") /\ UNCHANGED open
       ELSE Goto(s, "connect") /\ open' = open \cup {s}
    /\ UNCHANGED <<pos, lost, avail, permits, queue, conn, idle, metrics,
                   samplerVars, passVars, shutdown>>

\* The session lets go of its connection: closed, dropped after a fatal error,
\* or returned to the pool.
LetGoConn(s) ==
    /\ open' = open \ {s}
    /\ conn' = [conn EXCEPT ![s] = NoConn]

\* ConnPool::checkout: the connection returned last, or a new one.
Checkout(s) ==
    /\ pc[s] = "checkout"
    /\ open' = open \cup {s}
    /\ IF idle # <<>>
       THEN LET c == idle[Len(idle)]
            IN  /\ conn' = [conn EXCEPT ![s] = c]
                /\ idle' = SubSeq(idle, 1, Len(idle) - 1)
                /\ Goto(s, IF NeedsUse(Ev(s), c.db) THEN "use" ELSE "exec")
       ELSE Goto(s, "connect") /\ UNCHANGED <<conn, idle>>
    /\ UNCHANGED <<pos, lost, semVars, metrics, samplerVars, passVars, shutdown>>

\* A new connection is in the URL's database; a dedicated session does not
\* know that (current_db starts as None), the pool does (default_db).
NewConn == [srv |-> UrlDb, db |-> IF Pooled THEN UrlDb ELSE NoDb]

ConnectOk(s) ==
    /\ pc[s] = "connect"
    /\ conn' = [conn EXCEPT ![s] = NewConn]
    /\ Goto(s, IF ~Pooled THEN "due"
               ELSE IF NeedsUse(Ev(s), UrlDb) THEN "use" ELSE "exec")
    /\ UNCHANGED <<pos, lost, semVars, open, idle, metrics, samplerVars, passVars,
                   shutdown>>

\* A dedicated session that cannot connect gives up all its events, a pooled
\* one the event at hand.
ConnectFails(s) ==
    /\ pc[s] = "connect"
    /\ LetGoConn(s)
    /\ \E end \in (IF Pooled THEN {pos[s]} ELSE DrainEnds(s)) :
           /\ pos' = [pos EXCEPT ![s] = end]
           /\ lost' = IF ~Pooled /\ end < Len(Events[s]) THEN lost \cup {s} ELSE lost
           /\ metrics' = [metrics EXCEPT !["connect_failures"] = @ + 1,
                                         !["not_run"] = @ + 1 + end - pos[s]]
    /\ Goto(s, "release")
    /\ UNCHANGED <<semVars, idle, samplerVars, passVars, shutdown>>

\* ConnPool::checkin: the connection goes back to the shelf, it is the
\* session that no longer holds it.
Checkin(s, c) ==
    /\ idle' = Append(idle, c)
    /\ LetGoConn(s)

\* What follows an answer that leaves the connection c usable.
KeepConn(s, c) ==
    IF Pooled
    THEN Checkin(s, c) /\ Goto(s, "release")
    ELSE /\ conn' = [conn EXCEPT ![s] = c]
         /\ Goto(s, "next")
         /\ UNCHANGED <<idle, open>>

\* The USE statement that reconciles the connection with the event.
UseOk(s) ==
    /\ pc[s] = "use"
    /\ conn' = [conn EXCEPT ![s] = [srv |-> Ev(s).db, db |-> Ev(s).db]]
    /\ Goto(s, "exec")
    /\ UNCHANGED <<pos, lost, semVars, open, idle, metrics, samplerVars, passVars,
                   shutdown>>

\* The target rejects the USE (an unknown database) or the statement.
QueryFails(s) ==
    /\ pc[s] \in {"use", "exec"}
    /\ Count("errors", 1)
    /\ KeepConn(s, conn[s])
    /\ UNCHANGED <<pos, lost, semVars, samplerVars, passVars, shutdown>>

\* The connection is lost under a statement.  A dedicated session gives up
\* the rest of its events; a pooled one goes on with the next checkout.
QueryFatal(s) ==
    /\ pc[s] \in {"use", "exec"}
    /\ LetGoConn(s)
    /\ \E end \in (IF Pooled THEN {pos[s]} ELSE DrainEnds(s)) :
           /\ pos' = [pos EXCEPT ![s] = end]
           /\ lost' = IF ~Pooled /\ end < Len(Events[s]) THEN lost \cup {s} ELSE lost
           /\ metrics' = [metrics EXCEPT !["errors"] = @ + 1,
                                         !["not_run"] = @ + end - pos[s]]
    /\ Goto(s, "release")
    /\ UNCHANGED <<semVars, idle, samplerVars, passVars, shutdown>>

\* The statement is answered.  A captured USE moves the server's database
\* without current_db being told.
QueryOk(s) ==
    /\ pc[s] = "exec"
    /\ Count("executed", 1)
    /\ KeepConn(s, IF Ev(s).kind = "use" THEN [conn[s] EXCEPT !.srv = Ev(s).to]
                   ELSE conn[s])
    /\ UNCHANGED <<pos, lost, semVars, samplerVars, passVars, shutdown>>

\* conn.disconnect() at the end of a dedicated session.
Disconnect(s) ==
    /\ pc[s] = "closing"
    /\ LetGoConn(s)
    /\ Goto(s, "release")
    /\ UNCHANGED <<pos, lost, semVars, idle, metrics, samplerVars, passVars,
                   shutdown>>

\* The permit is dropped: at the end of a dedicated session, after each query
\* of a pooled one.
DropPermit(s) ==
    /\ pc[s] = "release"
    /\ ReleasePermit(s)
    /\ Goto(s, IF Pooled THEN "next" ELSE "done")
    /\ UNCHANGED <<pos, lost, waiters, connVars, metrics, samplerVars, passVars,
                   shutdown>>

-----------------------------------------------------------------------------
(* The other tasks: the signal handler, the sampler, run_pass itself.      *)

\* The first Ctrl-C or SIGTERM.
Interrupt ==
    /\ ~shutdown
    /\ pass # "reported"
    /\ shutdown' = TRUE
    /\ UNCHANGED <<sessionVars, semVars, connVars, metrics, samplerVars, passVars>>

\* The sampler reads the free permits, and the waiters only if there are none.
SamplePermits ==
    /\ sampler = "tick" /\ pass # "reported"
    /\ samples < MaxSamples
    /\ samples' = samples + 1
    /\ sampler' = IF avail = 0 THEN "full" ELSE "tick"
    /\ UNCHANGED <<sessionVars, semVars, connVars, metrics, hits, passVars, shutdown>>

SampleWaiters ==
    /\ sampler = "full"
    /\ hits' = IF waiters > 0 THEN hits + 1 ELSE hits
    /\ sampler' = "tick"
    /\ UNCHANGED <<sessionVars, semVars, connVars, metrics, samples, passVars, shutdown>>

\* All session tasks joined: the pool is drained.
DrainPool ==
    /\ pass = "running"
    /\ \A s \in Sessions : pc[s] = "done"
    /\ idle' = <<>>
    /\ pass' = "drained"
    /\ UNCHANGED <<sessionVars, semVars, open, conn, metrics, samplerVars, aborted,
                   shutdown>>

\* Faulty variant: the flag is not read when the report is built.
ReportUnmarked ==
    /\ pass = "drained"
    /\ sampler = "tick"
    /\ pass' = "reported"
    /\ UNCHANGED <<sessionVars, semVars, connVars, metrics, samplerVars, shutdown, aborted>>

\* The sampler has stopped and the report is built; the abort flag is read last.
Report ==
    /\ pass = "drained"
    /\ sampler = "tick"
    /\ pass' = "reported"
    /\ aborted' = shutdown
    /\ UNCHANGED <<sessionVars, semVars, connVars, metrics, samplerVars, shutdown>>

Finished ==
    /\ pass = "reported"
    /\ UNCHANGED vars

Step(s) ==
    \/ StartSkipped(s) \/ StartSession(s) \/ NextEvent(s)
    \/ WaitUntilDue(s) \/ Pace(s) \/ AbortDue(s)
    \/ PollFlag(s) \/ PollAcquire(s) \/ AbortAcquire(s) \/ StopWaiting(s)
    \/ Checkout(s) \/ ConnectOk(s) \/ ConnectFails(s)
    \/ UseOk(s) \/ QueryOk(s) \/ QueryFails(s) \/ QueryFatal(s)
    \/ Disconnect(s) \/ DropPermit(s)

Next ==
    \/ \E s \in Sessions : Step(s)
    \/ Interrupt \/ SamplePermits \/ SampleWaiters
    \/ DrainPool \/ Report \/ Finished

Spec == Init /\ [][Next]_vars

\* The runtime keeps polling every task that is ready, timers fire and the
\* target answers every request; nobody has to interrupt the run, and the
\* sampler's ticks are not needed for the pass to end.
FairSpec ==
    /\ Spec
    /\ \A s \in Sessions : WF_vars(Step(s))
    /\ WF_vars(SampleWaiters) /\ WF_vars(DrainPool) /\ WF_vars(Report)

-----------------------------------------------------------------------------
(* Properties.                                                             *)

\* Session s has taken an event from its cursor and not yet recorded it.
InHand(s) ==
    pc[s] \in {"first", "acquire", "queued", "polled", "permitted", "checkout", "connect",
               "due", "use", "exec"}

\* The types of the pass's state, by the part of the code it belongs to; an
\* event at hand is one the cursor delivered.
CursorTypes ==
    /\ pc \in [Sessions -> Labels]
    /\ pos \in [Sessions -> Nat]
    /\ \A s \in Sessions : pos[s] <= Len(Events[s]) /\ (InHand(s) => pos[s] > 0)
    /\ lost \subseteq Sessions

SemTypes ==
    /\ avail \in Nat
    /\ permits \subseteq Sessions
    /\ queue \in Seq(Sessions)
    /\ waiters \in Int

ConnTypes ==
    /\ open \subseteq Sessions
    /\ conn \in [Sessions -> Conn]
    /\ idle \in Seq(Conn)

RunTypes ==
    /\ metrics \in [Counters -> Nat]
    /\ sampler \in {"tick", "full"}
    /\ samples \in Nat /\ hits \in Nat
    /\ pass \in {"running", "drained", "reported"}
    /\ shutdown \in BOOLEAN /\ aborted \in BOOLEAN

TypeOK == CursorTypes /\ SemTypes /\ ConnTypes /\ RunTypes

\* The run never has more connections than the cap, counting the ones being
\* established and the ones on the pool's shelf.  The code enforces this only
\* through the permit: a connection goes back to the shelf before its permit
\* is free, and a new one is made only when the shelf was empty.
ConnectionCap == Cardinality(open) + Len(idle) <= Cap

\* Nothing the gate rejects is ever on its way to the target, and a session
\* with nothing to execute never queues, holds a permit or connects.
WriteGate ==
    \A s \in Sessions :
        /\ pc[s] \in {"use", "exec"} => AllowWrites \/ Ev(s).kind # "write"
        /\ ~HasExecutable(s) => pc[s] \in {"start", "done"}

\* A statement runs in the database it was captured in; with --db-override
\* every connection stays in the override database, on the shelf too.
RightDb ==
    /\ \A s \in Sessions :
           UseEventDb /\ pc[s] = "exec" /\ Ev(s).db # NoDb => conn[s].srv = Ev(s).db
    /\ ~UseEventDb =>
           /\ \A s \in Sessions : pc[s] = "exec" => conn[s].srv = UrlDb
           /\ \A i \in DOMAIN idle : idle[i].srv = UrlDb

\* The counters an event can be recorded in.
Outcomes == Counters \ {"connect_failures"}

\* The events of each session that must have been recorded by now.
Recorded == [s \in Sessions |-> IF InHand(s) THEN pos[s] - 1 ELSE pos[s]]

\* Every event that was read is recorded exactly once, as executed, skipped,
\* failed or not run, whatever path its session took; and a session ends with
\* all its events read unless its spool failed.
EveryEventCounted ==
    /\ Total(metrics, Outcomes) = Total(Recorded, Sessions)
    /\ \A s \in Sessions \ lost : pc[s] = "done" => pos[s] = Len(Events[s])

\* The waiters counter the sampler relies on counts the sessions between
\* asking for a permit and having it, on the abort paths too.
WaitersExact ==
    waiters = Cardinality({s \in Sessions :
                               pc[s] \in {"acquire", "queued", "polled", "permitted"}})

\* A finished pass has returned every permit and closed every connection.
NothingLeaks ==
    pass = "reported" =>
        /\ avail = Cap /\ permits = {} /\ queue = <<>> /\ waiters = 0
        /\ open = {} /\ idle = <<>>

\* A report that is not marked aborted has no event cut off by an abort: what
\* it did not run was lost to a failed connection.
AbortIsReported ==
    pass = "reported" /\ metrics["not_run"] > 0 =>
        aborted \/ metrics["errors"] > 0 \/ metrics["connect_failures"] > 0

\* Sessions that own the permit with which they send the event at hand.
Sending ==
    {s \in Sessions : pc[s] \in {"use", "exec"}
                        \cup (IF Pooled THEN {"permitted", "checkout", "connect"} ELSE {})}

\* Sessions past the last look at the flag before they send the event at hand:
\* a pooled one may still have to get its permit.
Cleared ==
    Sending \cup (IF Pooled THEN {s \in Sessions : pc[s] = "polled"} ELSE {})

\* After an abort no session gets past the flag again: what is still sent is one
\* statement at most of each session that had looked at the flag before, and not
\* more of them at a time than the cap.
AbortStopsSending ==
    [][shutdown => /\ Cleared' \subseteq Cleared
                   /\ Cardinality(Sending) <= Cap]_vars

\* Every pass ends with a report, aborted or not, whatever fails.
PassEnds == <>(pass = "reported")

-----------------------------------------------------------------------------
(* The inductive invariant behind ConnectionCap, WaitersExact, NothingLeaks*)
(* and WriteGate.                                                          *)

\* Where a session owns a permit: a dedicated one from the grant to its end,
\* a pooled one during a query.
Holding ==
    {"permitted", "checkout", "connect", "use", "exec", "closing", "release"}
        \cup (IF Pooled THEN {} ELSE {"next", "due"})

\* Where a session has a connection or is making one.
Connected ==
    {"connect", "use", "exec", "closing"} \cup (IF Pooled THEN {} ELSE {"next", "due"})

\* No permit is lost or made up by grants, hand-overs and cancellations.
PermitsConserved == avail + Cardinality(permits) = Cap

\* Permits are owned exactly by the sessions whose code holds one, and by
\* queued sessions that have not yet taken theirs.
PermitsMatchLabels ==
    \A s \in Sessions : /\ pc[s] \in Holding => s \in permits
                        /\ s \in permits => pc[s] \in Holding \cup {"queued", "polled"}

\* The semaphore's queue holds each waiting session once.
QueueWaits ==
    /\ \A i \in 1 .. Len(queue) : pc[queue[i]] = "queued" /\ queue[i] \notin permits
    /\ \A i, j \in 1 .. Len(queue) : queue[i] = queue[j] => i = j

SemInv == PermitsConserved /\ PermitsMatchLabels /\ QueueWaits

\* Connections belong exactly to the sessions whose code has or makes one, and
\* only a pool has a shelf.
OpenMatchesLabels ==
    /\ \A s \in Sessions : s \in open <=> pc[s] \in Connected
    /\ ~Pooled => idle = <<>>

\* The pool is drained when every session task has ended.
JoinedBeforeDrained ==
    pass # "running" => idle = <<>> /\ \A s \in Sessions : pc[s] = "done"

\* Only a dedicated session reads ahead, only a pooled one checks out.
ModeLabels ==
    \A s \in Sessions : (pc[s] = "first" => ~Pooled) /\ (pc[s] = "checkout" => Pooled)

\* Between its turn and its answer: where an event that is sent may be.
Committed ==
    {"use", "exec"}
        \cup (IF Pooled
              THEN {"acquire", "queued", "polled", "permitted", "checkout", "connect"}
              ELSE {})

\* A session commits only to an event the gate lets through.
GatedBeforeAcquire ==
    \A s \in Sessions : pc[s] \in Committed => AllowWrites \/ Ev(s).kind # "write"

PassInv ==
    /\ TypeOK
    /\ SemInv
    /\ OpenMatchesLabels /\ ConnectionCap
    /\ WaitersExact /\ JoinedBeforeDrained
    /\ ModeLabels /\ GatedBeforeAcquire /\ WriteGate

-----------------------------------------------------------------------------
(* The inductive invariant behind EveryEventCounted and AbortIsReported.   *)

\* Where a session's task is past its last event.
Ended == {"closing", "done"} \cup (IF Pooled THEN {} ELSE {"release"})

\* A session reads nothing before it starts, and all it can before it ends.
CursorsRun ==
    \A s \in Sessions : /\ pc[s] = "start" => pos[s] = 0
                        /\ pc[s] \in Ended => s \in lost \/ pos[s] = Len(Events[s])

\* Events are given up only to an abort or to a connection that was lost or
\* never made; the report says which.
NotRunHasCause ==
    /\ metrics["not_run"] > 0 =>
          shutdown \/ metrics["errors"] > 0 \/ metrics["connect_failures"] > 0
    /\ pass = "reported" => aborted = shutdown

LedgerInv == CursorsRun /\ EveryEventCounted /\ NotRunHasCause

-----------------------------------------------------------------------------
(* The inductive invariant behind RightDb.                                 *)

\* Captures in which a USE carries the database it selects, as the packet decoder
\* records it; a slow log need not.
UsesTracked ==
    \A s \in Sessions : \A i \in DOMAIN Events[s] :
        Events[s][i].kind = "use" =>
            Events[s][i].db # NoDb /\ Events[s][i].to = Events[s][i].db

\* The replayer is right about the connection's database.
Honest(c) ==
    /\ c.db # NoDb => c.srv = c.db
    /\ ~UseEventDb => c.srv = UrlDb

HonestConns ==
    /\ \A s \in Sessions : pc[s] \in Connected \ {"connect"} => Honest(conn[s])
    /\ \A i \in DOMAIN idle : Honest(idle[i])

\* A statement is sent only after its database was selected, and a captured USE
\* only by a dedicated session without an override.
SelectedFirst ==
    \A s \in Sessions :
        /\ pc[s] = "exec" => ~NeedsUse(Ev(s), conn[s].db)
        /\ pc[s] = "use" => UseEventDb /\ Ev(s).db # NoDb
        /\ pc[s] \in Committed => ~SkipsUse(Ev(s))

DbInv == HonestConns /\ SelectedFirst

=============================================================================
