-------------------------- MODULE ReplayPassProofs --------------------------
(***************************************************************************)
(* The safety properties of a replay pass, for every set of sessions,      *)
(* every capture, every cap and every combination of flags.                *)
(***************************************************************************)
EXTENDS ReplayPass, FiniteSetTheorems, SequenceTheorems, TLAPS

-----------------------------------------------------------------------------
(* Facts about the helpers.                                                *)

\* A connection taken from the end of the pool's shelf leaves a shorter shelf.
LEMMA ShelfPop ==
    ASSUME NEW S, NEW q \in Seq(S), q # <<>>
    PROVE  /\ q[Len(q)] \in S
           /\ SubSeq(q, 1, Len(q) - 1) \in Seq(S)
           /\ Len(SubSeq(q, 1, Len(q) - 1)) = Len(q) - 1
<1>1. Len(q) \in Nat /\ Len(q) # 0 /\ \A i \in 1 .. Len(q) : q[i] \in S
  BY EmptySeq, LenProperties, ElementOfSeq
<1>. DEFINE n == Len(q) - 1
<1>2. n \in Nat /\ n \in Int /\ \A i \in 1 .. n : q[i] \in S
  BY <1>1
<1>3. /\ SubSeq(q, 1, n) \in Seq(S)
      /\ Len(SubSeq(q, 1, n)) = n
  <2>. HIDE DEF n
  <2>1. /\ SubSeq(q, 1, n) \in Seq(S)
        /\ Len(SubSeq(q, 1, n)) = IF 1 <= n THEN n - 1 + 1 ELSE 0
    BY <1>2, SubSeqProperties
  <2>. QED
    BY <1>2, <2>1
<1>4. q[Len(q)] \in S
  BY <1>1
<1>. QED
  BY <1>3, <1>4, Zenon

\* A task that leaves the middle of the semaphore's queue.
LEMMA QueueLeave ==
    ASSUME NEW S, NEW q \in Seq(S), NEW i \in 1 .. Len(q)
    PROVE  LET r == [j \in 1 .. (Len(q) - 1) |-> IF j < i THEN q[j] ELSE q[j + 1]]
           IN  r \in Seq(S) /\ Len(r) = Len(q) - 1
<1>. DEFINE e(j) == IF j < i THEN q[j] ELSE q[j + 1]
            n == Len(q) - 1
            r == [j \in 1 .. n |-> e(j)]
<1>1. n \in Nat /\ \A j \in 1 .. Len(q) : q[j] \in S
  BY LenProperties, ElementOfSeq
<1>2. \A j \in 1 .. n : e(j) \in S
  BY <1>1
<1>3. r \in [1 .. n -> S]
  BY <1>2
<1>4. r \in Seq(S) /\ Len(r) = n
  BY <1>1, <1>3
<1>. QED
  BY <1>4

\* Where a drain of the rest of a session can stop.
LEMMA DrainEndsType ==
    ASSUME CursorTypes, NEW s \in Sessions, NEW end \in DrainEnds(s)
    PROVE  end \in Nat /\ pos[s] \in Nat /\ pos[s] <= end /\ end <= Len(Events[s])
<1>1. Len(Events[s]) \in Nat
  BY EventsAssumption
<1>. QED
  BY <1>1 DEF CursorTypes, DrainEnds

\* The event at hand is one of the capture's.
LEMMA EvType == ASSUME CursorTypes, NEW s \in Sessions, InHand(s) PROVE Ev(s) \in Event
<1>1. pos[s] \in Nat /\ pos[s] <= Len(Events[s]) /\ pos[s] > 0
  BY DEF CursorTypes
<1>2. Events[s] \in Seq(Event)
  BY EventsAssumption
<1>. QED
  BY <1>1, <1>2 DEF Ev

-----------------------------------------------------------------------------
(* The type invariant, one lemma per kind of change.                       *)

\* A session that moves to another label without reading.
LEMMA CursorGoto ==
    ASSUME CursorTypes, NEW s \in Sessions, NEW l \in Labels, Goto(s, l),
           UNCHANGED <<pos, lost>>,
           InHand(s) \/ l \in {"next", "closing", "release", "done"}
    PROVE  CursorTypes'
BY DEF CursorTypes, Goto, Labels, InHand

\* A session whose cursor has moved on, and that ends or lets go of its event.
LEMMA CursorMove ==
    ASSUME CursorTypes, NEW s \in Sessions, NEW l \in {"closing", "release", "done"},
           Goto(s, l), NEW n \in Nat, n <= Len(Events[s]),
           pos' = [pos EXCEPT ![s] = n], lost' \subseteq Sessions
    PROVE  CursorTypes'
BY DEF CursorTypes, Goto, Labels, InHand

\* A drain keeps the types of the cursors and of the counters.
LEMMA DrainTypes ==
    ASSUME TypeOK, NEW s \in Sessions, NEW how \in Counters, NEW here \in Nat,
           NEW l \in {"closing", "release", "done"}, Goto(s, l),
           DrainRecording(s, how, here), UNCHANGED <<samplerVars, passVars, shutdown>>
    PROVE  CursorTypes' /\ RunTypes'
<1>1. PICK end \in DrainEnds(s) :
          /\ pos' = [pos EXCEPT ![s] = end]
          /\ lost' = IF end < Len(Events[s]) THEN lost \cup {s} ELSE lost
          /\ Count(how, here + end - pos[s])
  BY DEF DrainRecording
<1>2. end \in Nat /\ pos[s] \in Nat /\ pos[s] <= end /\ end <= Len(Events[s])
  BY DrainEndsType DEF TypeOK
<1>3. here + end - pos[s] \in Nat
  BY <1>2
<1>4. metrics' \in [Counters -> Nat]
  BY <1>1, <1>3 DEF TypeOK, RunTypes, Count
<1>5. lost' \subseteq Sessions
  BY <1>1 DEF TypeOK, CursorTypes
<1>6. CursorTypes'
  BY <1>1, <1>2, <1>5, CursorMove DEF TypeOK
<1>7. RunTypes'
  BY <1>4 DEF TypeOK, RunTypes, samplerVars, passVars
<1>. QED
  BY <1>6, <1>7

\* The end of a session that lost its connection, or of one pooled attempt.
LEMMA GiveUpTypes ==
    ASSUME TypeOK, NEW s \in Sessions, NEW c \in {"connect_failures", "errors"}, NEW here \in Nat,
           Goto(s, "release"),
           \E end \in (IF Pooled THEN {pos[s]} ELSE DrainEnds(s)) :
               /\ pos' = [pos EXCEPT ![s] = end]
               /\ lost' = IF ~Pooled /\ end < Len(Events[s]) THEN lost \cup {s} ELSE lost
               /\ metrics' = [metrics EXCEPT ![c] = @ + 1,
                                             !["not_run"] = @ + here + end - pos[s]],
           UNCHANGED <<samplerVars, passVars, shutdown>>
    PROVE  CursorTypes' /\ RunTypes'
<1>1. PICK end \in (IF Pooled THEN {pos[s]} ELSE DrainEnds(s)) :
          /\ pos' = [pos EXCEPT ![s] = end]
          /\ lost' = IF ~Pooled /\ end < Len(Events[s]) THEN lost \cup {s} ELSE lost
          /\ metrics' = [metrics EXCEPT ![c] = @ + 1,
                                        !["not_run"] = @ + here + end - pos[s]]
  OBVIOUS
<1>2. end \in Nat /\ pos[s] \in Nat /\ pos[s] <= end /\ end <= Len(Events[s])
  BY DrainEndsType DEF TypeOK, CursorTypes
<1>3. here + end - pos[s] \in Nat
  BY <1>2
<1>4. metrics' \in [Counters -> Nat]
  <2>1. metrics \in [Counters -> Nat] /\ metrics["not_run"] \in Nat /\ metrics[c] \in Nat
    BY DEF TypeOK, RunTypes, Counters
  <2>2. metrics["not_run"] + here + end - pos[s] \in Nat
    BY <1>2, <2>1
  <2>. DEFINE a == metrics[c] + 1
              b == metrics["not_run"] + here + end - pos[s]
  <2>3. metrics' = [metrics EXCEPT ![c] = a, !["not_run"] = b]
    BY <1>1
  <2>4. a \in Nat /\ b \in Nat
    BY <2>1, <2>2
  <2>. HIDE DEF a, b
  <2>. QED
    BY <2>1, <2>3, <2>4
<1>5. lost' \subseteq Sessions
  BY <1>1 DEF TypeOK, CursorTypes
<1>6. CursorTypes'
  BY <1>1, <1>2, <1>5, CursorMove DEF TypeOK
<1>7. RunTypes'
  BY <1>4 DEF TypeOK, RunTypes, samplerVars, passVars
<1>. QED
  BY <1>6, <1>7

\* The semaphore's operations keep its types.
LEMMA SemaphoreTypes ==
    ASSUME SemTypes, NEW s \in Sessions, waiters' \in Int,
           ReleasePermit(s) \/ CancelAcquire(s) \/ TryAcquire(s)
    PROVE  SemTypes'
<1>1. CASE ReleasePermit(s)
  <2>1. CASE queue = <<>>
    BY <1>1, <2>1 DEF ReleasePermit, SemTypes
  <2>2. CASE queue # <<>>
    <3>1. Head(queue) \in Sessions /\ Tail(queue) \in Seq(Sessions)
      BY <2>2, HeadTailProperties DEF SemTypes
    <3>2. /\ permits' = (permits \ {s}) \cup {Head(queue)}
          /\ queue' = Tail(queue) /\ avail' = avail
      BY <1>1, <2>2 DEF ReleasePermit
    <3>. QED
      BY <3>1, <3>2 DEF SemTypes
  <2>. QED
    BY <2>1, <2>2
<1>2. CASE s \notin permits /\ CancelAcquire(s)
  <2>1. PICK i \in 1 .. Len(queue) :
            queue' = [j \in 1 .. (Len(queue) - 1) |->
                         IF j < i THEN queue[j] ELSE queue[j + 1]]
    BY <1>2 DEF CancelAcquire
  <2>2. queue' \in Seq(Sessions)
    BY <2>1, QueueLeave DEF SemTypes
  <2>. QED
    BY <1>2, <2>2 DEF CancelAcquire, SemTypes
<1>3. CASE TryAcquire(s)
  <2>1. CASE avail > 0
    <3>1. avail' = avail - 1 /\ permits' = permits \cup {s} /\ queue' = queue
      BY <1>3, <2>1 DEF TryAcquire
    <3>. QED
      BY <2>1, <3>1 DEF SemTypes
  <2>2. CASE ~(avail > 0)
    <3>1. queue' = Append(queue, s) /\ avail' = avail /\ permits' = permits
      BY <1>3, <2>2 DEF TryAcquire
    <3>2. queue' \in Seq(Sessions)
      BY <3>1, AppendProperties DEF SemTypes
    <3>. QED
      BY <3>1, <3>2 DEF SemTypes
  <2>. QED
    BY <2>1, <2>2
<1>. QED
  BY <1>1, <1>2, <1>3 DEF CancelAcquire

\* Connections: letting go of one, keeping one.
LEMMA ConnTypesLetGo ==
    ASSUME ConnTypes, NEW s \in Sessions, LetGoConn(s), idle' \in Seq(Conn)
    PROVE  ConnTypes'
BY DEF ConnTypes, LetGoConn, NoConn, Conn, Option

\* Keeping a connection after a statement: back to the shelf when pooled.
LEMMA ConnTypesKeep ==
    ASSUME ConnTypes, NEW s \in Sessions, NEW c \in Conn, KeepConn(s, c)
    PROVE  ConnTypes' /\ Goto(s, IF Pooled THEN "release" ELSE "next")
<1>1. CASE Pooled
  <2>1. LetGoConn(s) /\ idle' = Append(idle, c) /\ Goto(s, "release")
    BY <1>1 DEF KeepConn, Checkin
  <2>2. idle' \in Seq(Conn)
    BY <2>1, AppendProperties DEF ConnTypes
  <2>. QED
    BY <1>1, <2>1, <2>2, ConnTypesLetGo
<1>2. CASE ~Pooled
  BY <1>2 DEF KeepConn, ConnTypes
<1>. QED
  BY <1>1, <1>2


\* Every step keeps the types.
LEMMA TypeStep == TypeOK /\ [Next]_vars => TypeOK'
<1>. SUFFICES ASSUME TypeOK, [Next]_vars PROVE TypeOK'
  OBVIOUS
<1>1. ASSUME NEW s \in Sessions, StartSession(s) PROVE TypeOK'
  <2>1. Len(Events[s]) \in Nat /\ 1 <= Len(Events[s])
    BY <1>1, EventsAssumption DEF StartSession, HasExecutable
  <2>2. CursorTypes'
    <3>1. CASE Goto(s, "next") /\ UNCHANGED <<pos, lost>>
      BY <3>1, CursorGoto DEF TypeOK, Labels, InHand
    <3>2. CASE pos' = [pos EXCEPT ![s] = 1] /\ Goto(s, "first") /\ UNCHANGED lost
      BY <2>1, <3>2 DEF TypeOK, CursorTypes, Goto, Labels, InHand
    <3>3. CASE lost' = lost \cup {s} /\ Goto(s, "done") /\ UNCHANGED pos
      BY <3>3 DEF TypeOK, CursorTypes, Goto, Labels, InHand
    <3>. QED
      BY <1>1, <3>1, <3>2, <3>3 DEF StartSession
  <2>3. SemTypes' /\ ConnTypes' /\ RunTypes'
    BY <1>1 DEF StartSession, TypeOK, SemTypes, ConnTypes, RunTypes, sessionVars, semVars, connVars, samplerVars, passVars
  <2>. QED
    BY <2>2, <2>3 DEF TypeOK
<1>2. ASSUME NEW s \in Sessions, NextEvent(s) PROVE TypeOK'
  <2>1. Len(Events[s]) \in Nat
    BY EventsAssumption
  <2>2. CursorTypes'
    <3>1. CASE /\ pos[s] < Len(Events[s])
               /\ pos' = [pos EXCEPT ![s] = @ + 1] /\ Goto(s, "due") /\ UNCHANGED lost
      BY <2>1, <3>1 DEF TypeOK, CursorTypes, Goto, Labels, InHand
    <3>2. CASE /\ lost' \subseteq Sessions /\ UNCHANGED pos
               /\ Goto(s, "done") \/ Goto(s, "closing")
      BY <3>2 DEF TypeOK, CursorTypes, Goto, Labels, InHand
    <3>. QED
      BY <1>2, <3>1, <3>2 DEF NextEvent, EndLabel, TypeOK, CursorTypes
  <2>3. SemTypes' /\ ConnTypes' /\ RunTypes'
    BY <1>2 DEF NextEvent, TypeOK, SemTypes, ConnTypes, RunTypes, sessionVars, semVars, connVars, samplerVars, passVars
  <2>. QED
    BY <2>2, <2>3 DEF TypeOK
<1>3. ASSUME NEW s \in Sessions, WaitUntilDue(s) PROVE TypeOK'
  <2>1. CursorTypes'
    BY <1>3, CursorGoto DEF WaitUntilDue, TypeOK, Labels, InHand
  <2>2. SemTypes' /\ ConnTypes' /\ RunTypes'
    BY <1>3 DEF WaitUntilDue, TypeOK, SemTypes, ConnTypes, RunTypes, Goto, sessionVars, semVars, connVars, samplerVars, passVars
  <2>. QED
    BY <2>1, <2>2 DEF TypeOK
<1>4. ASSUME NEW s \in Sessions, Pace(s) PROVE TypeOK'
  <2>1. \E l \in {"next", "acquire", "use", "exec"} : Goto(s, l)
    BY <1>4 DEF Pace
  <2>2. InHand(s) /\ UNCHANGED <<pos, lost>>
    BY <1>4 DEF Pace, InHand
  <2>3. CursorTypes'
    BY <2>1, <2>2, CursorGoto DEF TypeOK, Labels
  <2>4. waiters' \in Int
    BY <1>4 DEF Pace, TypeOK, SemTypes
  <2>5. metrics' \in [Counters -> Nat]
    BY <1>4 DEF Pace, Count, Counters, TypeOK, RunTypes
  <2>6. SemTypes' /\ ConnTypes' /\ RunTypes'
    BY <1>4, <2>4, <2>5 DEF Pace, TypeOK, SemTypes, ConnTypes, RunTypes, sessionVars, semVars, connVars, samplerVars, passVars
  <2>. QED
    BY <2>3, <2>6 DEF TypeOK
<1>5. ASSUME NEW s \in Sessions, PollFlag(s) PROVE TypeOK'
  <2>1. CursorTypes'
    BY <1>5, CursorGoto DEF PollFlag, AsksForPermit, TypeOK, Labels, InHand
  <2>2. SemTypes' /\ ConnTypes' /\ RunTypes'
    BY <1>5 DEF PollFlag, TypeOK, SemTypes, ConnTypes, RunTypes, Goto, sessionVars, semVars, connVars, samplerVars, passVars
  <2>. QED
    BY <2>1, <2>2 DEF TypeOK
<1>6. ASSUME NEW s \in Sessions, StopWaiting(s) PROVE TypeOK'
  <2>1. CursorTypes'
    BY <1>6, CursorGoto DEF StopWaiting, TypeOK, Labels, InHand
  <2>2. SemTypes' /\ ConnTypes' /\ RunTypes'
    BY <1>6 DEF StopWaiting, TypeOK, SemTypes, ConnTypes, RunTypes, Goto, sessionVars, semVars, connVars, samplerVars, passVars
  <2>. QED
    BY <2>1, <2>2 DEF TypeOK
<1>7. ASSUME NEW s \in Sessions, StartSkipped(s) PROVE TypeOK'
  <2>1. CursorTypes' /\ RunTypes'
    BY <1>7, DrainTypes DEF StartSkipped, Counters
  <2>2. SemTypes' /\ ConnTypes'
    BY <1>7 DEF StartSkipped, TypeOK, SemTypes, ConnTypes, semVars, connVars
  <2>. QED
    BY <2>1, <2>2 DEF TypeOK
<1>8. ASSUME NEW s \in Sessions, AbortDue(s) PROVE TypeOK'
  <2>1. \E l \in {"closing", "done"} : Goto(s, l)
    BY <1>8 DEF AbortDue, EndLabel
  <2>2. CursorTypes' /\ RunTypes'
    BY <1>8, <2>1, DrainTypes DEF AbortDue, Counters
  <2>3. SemTypes' /\ ConnTypes'
    BY <1>8 DEF AbortDue, TypeOK, SemTypes, ConnTypes, semVars, connVars
  <2>. QED
    BY <2>2, <2>3 DEF TypeOK
<1>9. ASSUME NEW s \in Sessions, AbortAcquire(s) PROVE TypeOK'
  <2>1. CursorTypes' /\ RunTypes'
    BY <1>9, DrainTypes DEF AbortAcquire, Counters
  <2>2. waiters' \in Int
    BY <1>9 DEF AbortAcquire, TypeOK, SemTypes
  <2>3. SemTypes'
    <3>1. CASE pc[s] = "queued"
      BY <1>9, <2>2, <3>1, SemaphoreTypes DEF AbortAcquire, TypeOK
    <3>2. CASE pc[s] # "queued"
      BY <1>9, <2>2, <3>2 DEF AbortAcquire, TypeOK, SemTypes
    <3>. QED
      BY <3>1, <3>2
  <2>4. ConnTypes'
    BY <1>9 DEF AbortAcquire, TypeOK, ConnTypes, connVars
  <2>. QED
    BY <2>1, <2>3, <2>4 DEF TypeOK
<1>10. ASSUME NEW s \in Sessions, PollAcquire(s) PROVE TypeOK'
  <2>1. \E l \in {"permitted", "queued"} : Goto(s, l)
    BY <1>10 DEF PollAcquire, TryAcquire
  <2>2. CursorTypes'
    BY <1>10, <2>1, CursorGoto DEF PollAcquire, TypeOK, Labels, InHand
  <2>3. SemTypes'
    <3>1. waiters' \in Int
      BY <1>10 DEF PollAcquire, TypeOK, SemTypes
    <3>2. CASE s \in permits
      BY <1>10, <3>1, <3>2 DEF PollAcquire, TypeOK, SemTypes
    <3>3. CASE s \notin permits
      BY <1>10, <3>1, <3>3, SemaphoreTypes DEF PollAcquire, TypeOK
    <3>. QED
      BY <3>2, <3>3
  <2>4. ConnTypes' /\ RunTypes'
    BY <1>10 DEF PollAcquire, TypeOK, ConnTypes, RunTypes, connVars, samplerVars, passVars
  <2>. QED
    BY <2>2, <2>3, <2>4 DEF TypeOK
<1>11. ASSUME NEW s \in Sessions, DropPermit(s) PROVE TypeOK'
  <2>1. \E l \in {"next", "done"} : Goto(s, l)
    BY <1>11 DEF DropPermit, ReleasePermit
  <2>2. CursorTypes'
    BY <1>11, <2>1, CursorGoto DEF DropPermit, TypeOK, Labels, InHand
  <2>3. SemTypes'
    BY <1>11, SemaphoreTypes DEF DropPermit, TypeOK, SemTypes
  <2>4. ConnTypes' /\ RunTypes'
    BY <1>11 DEF DropPermit, TypeOK, ConnTypes, RunTypes, connVars, samplerVars, passVars
  <2>. QED
    BY <2>2, <2>3, <2>4 DEF TypeOK
<1>12. ASSUME NEW s \in Sessions, Checkout(s) PROVE TypeOK'
  <2>1. \E l \in {"use", "exec", "connect"} : Goto(s, l)
    BY <1>12 DEF Checkout
  <2>2. CursorTypes'
    BY <1>12, <2>1, CursorGoto DEF Checkout, TypeOK, Labels, InHand
  <2>3. ConnTypes'
    <3>1. CASE idle # <<>>
      <4>1. idle[Len(idle)] \in Conn /\ SubSeq(idle, 1, Len(idle) - 1) \in Seq(Conn)
        BY <3>1, ShelfPop DEF TypeOK, ConnTypes
      <4>2. idle' = SubSeq(idle, 1, Len(idle) - 1)
        BY <1>12, <3>1 DEF Checkout
      <4>3. idle' \in Seq(Conn)
        BY <4>1, <4>2, Zenon
      <4>4. conn' = [conn EXCEPT ![s] = idle[Len(idle)]] /\ open' = open \cup {s}
        BY <1>12, <3>1 DEF Checkout
      <4>. QED
        BY <4>1, <4>3, <4>4 DEF TypeOK, ConnTypes
    <3>2. CASE idle = <<>>
      BY <1>12, <3>2 DEF Checkout, TypeOK, ConnTypes
    <3>. QED
      BY <3>1, <3>2
  <2>4. SemTypes' /\ RunTypes'
    BY <1>12 DEF Checkout, TypeOK, SemTypes, RunTypes, semVars, samplerVars, passVars
  <2>. QED
    BY <2>2, <2>3, <2>4 DEF TypeOK
<1>13. ASSUME NEW s \in Sessions, ConnectOk(s) PROVE TypeOK'
  <2>1. \E l \in {"due", "use", "exec"} : Goto(s, l)
    BY <1>13 DEF ConnectOk
  <2>2. CursorTypes'
    BY <1>13, <2>1, CursorGoto DEF ConnectOk, TypeOK, Labels, InHand
  <2>3. NewConn \in Conn
    BY DbAssumption DEF NewConn, Conn, Option
  <2>4. ConnTypes'
    BY <1>13, <2>3 DEF ConnectOk, TypeOK, ConnTypes
  <2>5. SemTypes' /\ RunTypes'
    BY <1>13 DEF ConnectOk, TypeOK, SemTypes, RunTypes, semVars, samplerVars, passVars
  <2>. QED
    BY <2>2, <2>4, <2>5 DEF TypeOK
<1>14. ASSUME NEW s \in Sessions, ConnectFails(s) PROVE TypeOK'
  <2>1. PICK end \in (IF Pooled THEN {pos[s]} ELSE DrainEnds(s)) :
            /\ pos' = [pos EXCEPT ![s] = end]
            /\ lost' = IF ~Pooled /\ end < Len(Events[s]) THEN lost \cup {s} ELSE lost
            /\ metrics' = [metrics EXCEPT !["connect_failures"] = @ + 1,
                                          !["not_run"] = @ + 1 + end - pos[s]]
    BY <1>14 DEF ConnectFails
  <2>4. CursorTypes' /\ RunTypes'
    BY <1>14, <2>1, GiveUpTypes DEF ConnectFails, Counters
  <2>5. ConnTypes'
    BY <1>14, ConnTypesLetGo DEF ConnectFails, TypeOK, ConnTypes
  <2>6. SemTypes'
    BY <1>14 DEF ConnectFails, TypeOK, SemTypes, semVars
  <2>. QED
    BY <2>4, <2>5, <2>6 DEF TypeOK
<1>15. ASSUME NEW s \in Sessions, QueryFatal(s) PROVE TypeOK'
  <2>1. PICK end \in (IF Pooled THEN {pos[s]} ELSE DrainEnds(s)) :
            /\ pos' = [pos EXCEPT ![s] = end]
            /\ lost' = IF ~Pooled /\ end < Len(Events[s]) THEN lost \cup {s} ELSE lost
            /\ metrics' = [metrics EXCEPT !["errors"] = @ + 1,
                                          !["not_run"] = @ + end - pos[s]]
    BY <1>15 DEF QueryFatal
  <2>2. metrics["not_run"] + 0 + end - pos[s] = metrics["not_run"] + end - pos[s]
    <3>1. end \in Nat /\ pos[s] \in Nat
      BY DrainEndsType DEF TypeOK, CursorTypes
    <3>. QED
      BY <3>1 DEF TypeOK, RunTypes, Counters
  <2>3. metrics' = [metrics EXCEPT !["errors"] = @ + 1, !["not_run"] = @ + 0 + end - pos[s]]
    BY <2>1, <2>2 DEF TypeOK, RunTypes, Counters
  <2>4. CursorTypes' /\ RunTypes'
    BY <1>15, <2>1, <2>3, GiveUpTypes DEF QueryFatal, Counters
  <2>5. ConnTypes'
    BY <1>15, ConnTypesLetGo DEF QueryFatal, TypeOK, ConnTypes
  <2>6. SemTypes'
    BY <1>15 DEF QueryFatal, TypeOK, SemTypes, semVars
  <2>. QED
    BY <2>4, <2>5, <2>6 DEF TypeOK
<1>16. ASSUME NEW s \in Sessions, UseOk(s) PROVE TypeOK'
  <2>1. InHand(s) /\ UNCHANGED <<pos, lost>>
    BY <1>16 DEF UseOk, InHand
  <2>2. [srv |-> Ev(s).db, db |-> Ev(s).db] \in Conn
    BY <2>1, EvType DEF TypeOK, Event, Conn
  <2>3. CursorTypes'
    BY <1>16, <2>1, CursorGoto DEF UseOk, TypeOK, Labels
  <2>4. ConnTypes'
    BY <1>16, <2>2 DEF UseOk, TypeOK, ConnTypes
  <2>5. SemTypes' /\ RunTypes'
    BY <1>16 DEF UseOk, TypeOK, SemTypes, RunTypes, semVars, samplerVars, passVars
  <2>. QED
    BY <2>3, <2>4, <2>5 DEF TypeOK
<1>17. ASSUME NEW s \in Sessions, QueryFails(s) PROVE TypeOK'
  <2>1. conn[s] \in Conn
    BY DEF TypeOK, ConnTypes
  <2>2. ConnTypes' /\ Goto(s, IF Pooled THEN "release" ELSE "next")
    BY <1>17, <2>1, ConnTypesKeep DEF QueryFails, TypeOK
  <2>3. CursorTypes'
    BY <1>17, <2>2, CursorGoto DEF QueryFails, TypeOK, Labels
  <2>4. metrics' \in [Counters -> Nat]
    BY <1>17 DEF QueryFails, Count, Counters, TypeOK, RunTypes
  <2>5. SemTypes' /\ RunTypes'
    BY <1>17, <2>4 DEF QueryFails, TypeOK, SemTypes, RunTypes, semVars, samplerVars, passVars
  <2>. QED
    BY <2>2, <2>3, <2>5 DEF TypeOK
<1>18. ASSUME NEW s \in Sessions, QueryOk(s) PROVE TypeOK'
  <2>1. (IF Ev(s).kind = "use" THEN [conn[s] EXCEPT !.srv = Ev(s).to] ELSE conn[s]) \in Conn
    <3>1. Ev(s) \in Event /\ conn[s] \in Conn
      BY <1>18, EvType DEF QueryOk, InHand, TypeOK, ConnTypes
    <3>. QED
      BY <3>1 DEF Event, Conn
  <2>2. ConnTypes' /\ Goto(s, IF Pooled THEN "release" ELSE "next")
    BY <1>18, <2>1, ConnTypesKeep DEF QueryOk, TypeOK
  <2>3. CursorTypes'
    BY <1>18, <2>2, CursorGoto DEF QueryOk, TypeOK, Labels
  <2>4. metrics' \in [Counters -> Nat]
    BY <1>18 DEF QueryOk, Count, Counters, TypeOK, RunTypes
  <2>5. SemTypes' /\ RunTypes'
    BY <1>18, <2>4 DEF QueryOk, TypeOK, SemTypes, RunTypes, semVars, samplerVars, passVars
  <2>. QED
    BY <2>2, <2>3, <2>5 DEF TypeOK
<1>19. ASSUME NEW s \in Sessions, Disconnect(s) PROVE TypeOK'
  <2>1. CursorTypes'
    BY <1>19, CursorGoto DEF Disconnect, TypeOK, Labels
  <2>2. ConnTypes'
    BY <1>19, ConnTypesLetGo DEF Disconnect, TypeOK, ConnTypes
  <2>3. SemTypes' /\ RunTypes'
    BY <1>19 DEF Disconnect, TypeOK, SemTypes, RunTypes, semVars, samplerVars, passVars
  <2>. QED
    BY <2>1, <2>2, <2>3 DEF TypeOK
<1>20. CASE Interrupt
  BY <1>20 DEF Interrupt, TypeOK, CursorTypes, InHand, SemTypes, ConnTypes, RunTypes,
     vars, sessionVars, semVars, connVars, samplerVars, passVars
<1>21. CASE SamplePermits
  BY <1>21 DEF SamplePermits, TypeOK, CursorTypes, InHand, SemTypes, ConnTypes, RunTypes,
     vars, sessionVars, semVars, connVars, samplerVars, passVars
<1>22. CASE SampleWaiters
  BY <1>22 DEF SampleWaiters, TypeOK, CursorTypes, InHand, SemTypes, ConnTypes, RunTypes,
     vars, sessionVars, semVars, connVars, samplerVars, passVars
<1>23. CASE DrainPool
  BY <1>23 DEF DrainPool, TypeOK, CursorTypes, InHand, SemTypes, ConnTypes, RunTypes,
     vars, sessionVars, semVars, connVars, samplerVars, passVars
<1>24. CASE Report
  BY <1>24 DEF Report, TypeOK, CursorTypes, InHand, SemTypes, ConnTypes, RunTypes,
     vars, sessionVars, semVars, connVars, samplerVars, passVars
<1>25. CASE Finished
  BY <1>25 DEF Finished, TypeOK, CursorTypes, InHand, SemTypes, ConnTypes, RunTypes,
     vars, sessionVars, semVars, connVars, samplerVars, passVars
<1>26. CASE UNCHANGED vars
  BY <1>26 DEF  TypeOK, CursorTypes, InHand, SemTypes, ConnTypes, RunTypes,
     vars, sessionVars, semVars, connVars, samplerVars, passVars
<1>. QED
  BY <1>1, <1>2, <1>3, <1>4, <1>5, <1>6, <1>7, <1>8, <1>9, <1>10, <1>11, <1>12,
     <1>13, <1>14, <1>15, <1>16, <1>17, <1>18, <1>19, <1>20, <1>21, <1>22, <1>23, <1>24, <1>25, <1>26 DEF Next, Step


-----------------------------------------------------------------------------
(* The semaphore.                                                          *)

\* A step that neither takes nor returns a permit.
LEMMA SemQuiet ==
    ASSUME TypeOK, SemInv, NEW s \in Sessions, NEW l \in Labels, Goto(s, l),
           UNCHANGED <<avail, permits, queue>>,
           pc[s] \notin {"queued", "polled"}, l # "queued",
           pc[s] \in Holding <=> l \in Holding
    PROVE  SemInv'
<1>1. pc' = [pc EXCEPT ![s] = l] /\ pc \in [Sessions -> Labels] /\ queue \in Seq(Sessions)
  BY DEF Goto, TypeOK, CursorTypes, SemTypes
<1>2. PermitsConserved'
  BY DEF SemInv, PermitsConserved
<1>3. PermitsMatchLabels'
  BY <1>1 DEF SemInv, PermitsMatchLabels, Holding
<1>4. \A i \in 1 .. Len(queue) : queue[i] \in Sessions /\ queue[i] # s
  BY <1>1 DEF SemInv, QueueWaits
<1>5. QueueWaits'
  BY <1>1, <1>4 DEF SemInv, QueueWaits
<1>. QED
  BY <1>2, <1>3, <1>5 DEF SemInv

\* A session past the flag, on its first poll or woken with a permit, is in no
\* queue and has the permit it had.
LEMMA SemPolled ==
    ASSUME TypeOK, SemInv, NEW s \in Sessions, Goto(s, "polled"),
           pc[s] = "acquire" \/ (pc[s] = "queued" /\ s \in permits),
           UNCHANGED <<avail, permits, queue>>
    PROVE  SemInv'
<1>1. /\ pc \in [Sessions -> Labels] /\ queue \in Seq(Sessions)
      /\ pc' = [pc EXCEPT ![s] = "polled"]
  BY DEF TypeOK, CursorTypes, SemTypes, Goto
<1>2. \A i \in 1 .. Len(queue) : queue[i] \in Sessions /\ queue[i] # s
  BY <1>1 DEF SemInv, QueueWaits
<1>3. PermitsConserved'
  BY DEF SemInv, PermitsConserved
<1>4. PermitsMatchLabels'
  BY <1>1 DEF SemInv, PermitsMatchLabels, Holding
<1>5. QueueWaits'
  BY <1>1, <1>2 DEF SemInv, QueueWaits
<1>. QED
  BY <1>3, <1>4, <1>5 DEF SemInv

\* The permit the semaphore had assigned is taken.
LEMMA SemTaken ==
    ASSUME TypeOK, SemInv, NEW s \in permits, pc[s] = "polled", Goto(s, "permitted"),
           UNCHANGED <<avail, permits, queue>>
    PROVE  SemInv'
<1>1. /\ pc \in [Sessions -> Labels] /\ queue \in Seq(Sessions) /\ s \in Sessions
      /\ pc' = [pc EXCEPT ![s] = "permitted"]
  BY DEF TypeOK, CursorTypes, SemTypes, Goto
<1>2. \A i \in 1 .. Len(queue) : queue[i] \in Sessions /\ queue[i] # s
  BY <1>1 DEF SemInv, QueueWaits
<1>3. PermitsConserved'
  BY DEF SemInv, PermitsConserved
<1>4. PermitsMatchLabels'
  BY <1>1 DEF SemInv, PermitsMatchLabels, Holding
<1>5. QueueWaits'
  BY <1>1, <1>2 DEF SemInv, QueueWaits
<1>. QED
  BY <1>3, <1>4, <1>5 DEF SemInv

\* A permit is taken, or the session is queued for one.
LEMMA SemAcquire ==
    ASSUME TypeOK, SemInv, NEW s \in Sessions, pc[s] = "polled", s \notin permits,
           TryAcquire(s)
    PROVE  SemInv'
<1>1. /\ pc \in [Sessions -> Labels] /\ queue \in Seq(Sessions) /\ avail \in Nat
      /\ permits \subseteq Sessions
  BY DEF TypeOK, CursorTypes, SemTypes
<1>2. s \notin permits
  OBVIOUS
<1>3. \A i \in 1 .. Len(queue) : queue[i] \in Sessions /\ queue[i] # s
  BY <1>1 DEF SemInv, QueueWaits
<1>4. IsFiniteSet(permits) /\ Cardinality(permits) \in Nat
  BY <1>1, SessionsAssumption, FS_Subset, FS_CardinalityType
<1>5. CASE avail > 0
  <2>1. /\ avail' = avail - 1 /\ permits' = permits \cup {s} /\ queue' = queue
        /\ pc' = [pc EXCEPT ![s] = "permitted"]
    BY <1>5 DEF TryAcquire, Goto
  <2>2. Cardinality(permits') = Cardinality(permits) + 1
    BY <1>2, <1>4, <2>1, FS_AddElement
  <2>3. PermitsConserved'
    BY <1>1, <1>4, <2>1, <2>2, CapAssumption DEF SemInv, PermitsConserved
  <2>4. PermitsMatchLabels'
    BY <1>1, <2>1 DEF SemInv, PermitsMatchLabels, Holding
  <2>5. QueueWaits'
    BY <1>1, <1>3, <2>1 DEF SemInv, QueueWaits
  <2>. QED
    BY <2>3, <2>4, <2>5 DEF SemInv
<1>6. CASE ~(avail > 0)
  <2>1. /\ avail' = avail /\ permits' = permits /\ queue' = Append(queue, s)
        /\ pc' = [pc EXCEPT ![s] = "queued"]
    BY <1>6 DEF TryAcquire, Goto
  <2>2. PermitsConserved'
    BY <2>1 DEF SemInv, PermitsConserved
  <2>3. PermitsMatchLabels'
    BY <1>1, <1>2, <2>1 DEF SemInv, PermitsMatchLabels, Holding
  <2>4. /\ Len(queue') = Len(queue) + 1 /\ Len(queue) \in Nat
        /\ \A i \in 1 .. Len(queue) : queue'[i] = queue[i]
        /\ queue'[Len(queue) + 1] = s
    BY <1>1, <2>1, AppendProperties, LenProperties
  <2>5. \A i \in 1 .. Len(queue') : pc'[queue'[i]] = "queued" /\ queue'[i] \notin permits'
    BY <1>1, <1>2, <1>3, <2>1, <2>4 DEF SemInv, QueueWaits
  <2>6. \A i, j \in 1 .. Len(queue') : queue'[i] = queue'[j] => i = j
    BY <1>3, <2>4 DEF SemInv, QueueWaits
  <2>. QED
    BY <2>2, <2>3, <2>5, <2>6 DEF SemInv, QueueWaits
<1>. QED
  BY <1>5, <1>6

\* A permit is returned, or handed to the session at the head of the queue.
LEMMA SemRelease ==
    ASSUME TypeOK, SemInv, NEW s \in permits, NEW l \in Labels, Goto(s, l),
           l \notin Holding, l # "queued", ReleasePermit(s)
    PROVE  SemInv'
<1>1. /\ pc \in [Sessions -> Labels] /\ queue \in Seq(Sessions) /\ avail \in Nat
      /\ permits \subseteq Sessions /\ s \in Sessions
      /\ pc' = [pc EXCEPT ![s] = l]
  BY DEF TypeOK, CursorTypes, SemTypes, Goto
<1>2. \A i \in 1 .. Len(queue) : queue[i] \in Sessions /\ queue[i] # s
  BY <1>1 DEF SemInv, QueueWaits
<1>3. IsFiniteSet(permits) /\ Cardinality(permits) \in Nat
  BY <1>1, SessionsAssumption, FS_Subset, FS_CardinalityType
<1>4. IsFiniteSet(permits \ {s}) /\ Cardinality(permits \ {s}) = Cardinality(permits) - 1
  BY <1>3, FS_RemoveElement
<1>5. CASE queue = <<>>
  <2>1. avail' = avail + 1 /\ permits' = permits \ {s} /\ queue' = queue
    BY <1>5 DEF ReleasePermit
  <2>2. PermitsConserved'
    BY <1>1, <1>3, <1>4, <2>1, CapAssumption DEF SemInv, PermitsConserved
  <2>3. PermitsMatchLabels'
    BY <1>1, <2>1 DEF SemInv, PermitsMatchLabels, Holding
  <2>4. QueueWaits'
    BY <1>5, <2>1 DEF QueueWaits
  <2>. QED
    BY <2>2, <2>3, <2>4 DEF SemInv
<1>6. CASE queue # <<>>
  <2>. DEFINE h == Head(queue)
  <2>1. avail' = avail /\ permits' = (permits \ {s}) \cup {h} /\ queue' = Tail(queue)
    BY <1>6 DEF ReleasePermit
  <2>2. /\ h = queue[1] /\ Len(queue) \in Nat /\ Len(queue) >= 1
        /\ Len(queue') = Len(queue) - 1
        /\ \A i \in 1 .. Len(queue') : queue'[i] = queue[i + 1]
    BY <1>1, <1>6, <2>1, HeadTailProperties, LenProperties, EmptySeq
  <2>. HIDE DEF h
  <2>3. h \in Sessions /\ h # s /\ h \notin permits /\ pc[h] = "queued"
    BY <1>2, <2>2 DEF SemInv, QueueWaits
  <2>4. Cardinality(permits') = Cardinality(permits)
    <3>1. Cardinality((permits \ {s}) \cup {h}) = Cardinality(permits \ {s}) + 1
      BY <1>4, <2>3, FS_AddElement
    <3>. QED
      BY <1>3, <1>4, <2>1, <3>1
  <2>5. PermitsConserved'
    BY <2>1, <2>4 DEF SemInv, PermitsConserved
  <2>6. PermitsMatchLabels'
    BY <1>1, <2>1, <2>3 DEF SemInv, PermitsMatchLabels, Holding
  <2>7. \A i \in 1 .. Len(queue') :
            pc'[queue'[i]] = "queued" /\ queue'[i] \notin permits'
    <3>. SUFFICES ASSUME NEW i \in 1 .. Len(queue')
                  PROVE  pc'[queue'[i]] = "queued" /\ queue'[i] \notin permits'
      OBVIOUS
    <3>1. i + 1 \in 1 .. Len(queue) /\ queue'[i] = queue[i + 1] /\ i + 1 # 1 /\ 1 \in 1 .. Len(queue)
      BY <2>2
    <3>2. queue[i + 1] # h
      BY <2>2, <3>1 DEF SemInv, QueueWaits
    <3>3. pc[queue[i + 1]] = "queued" /\ queue[i + 1] \notin permits /\ queue[i + 1] # s
          /\ queue[i + 1] \in Sessions
      BY <1>2, <3>1 DEF SemInv, QueueWaits
    <3>. QED
      BY <1>1, <2>1, <3>1, <3>2, <3>3
  <2>8. \A i, j \in 1 .. Len(queue') : queue'[i] = queue'[j] => i = j
    BY <2>2 DEF SemInv, QueueWaits
  <2>. QED
    BY <2>5, <2>6, <2>7, <2>8 DEF SemInv, QueueWaits
<1>. QED
  BY <1>5, <1>6

\* A session leaves the queue without a permit.
LEMMA SemLeave ==
    ASSUME TypeOK, SemInv, NEW s \in Sessions, pc[s] = "queued", s \notin permits,
           Goto(s, "done"), CancelAcquire(s)
    PROVE  SemInv'
<1>1. /\ pc \in [Sessions -> Labels] /\ queue \in Seq(Sessions)
      /\ pc' = [pc EXCEPT ![s] = "done"]
      /\ avail' = avail /\ permits' = permits
  BY DEF TypeOK, CursorTypes, SemTypes, Goto, CancelAcquire
<1>2. PICK k \in 1 .. Len(queue) :
          /\ queue[k] = s
          /\ queue' = [j \in 1 .. (Len(queue) - 1) |->
                          IF j < k THEN queue[j] ELSE queue[j + 1]]
  BY DEF CancelAcquire
<1>3. /\ Len(queue) \in Nat /\ Len(queue') = Len(queue) - 1
      /\ \A j \in 1 .. Len(queue') : queue'[j] = IF j < k THEN queue[j] ELSE queue[j + 1]
  BY <1>1, <1>2, QueueLeave, LenProperties
<1>4. PermitsConserved'
  BY <1>1 DEF SemInv, PermitsConserved
<1>5. PermitsMatchLabels'
  BY <1>1 DEF SemInv, PermitsMatchLabels, Holding
<1>6. ASSUME NEW j \in 1 .. Len(queue')
      PROVE  \E i \in 1 .. Len(queue) : i # k /\ queue'[j] = queue[i]
  BY <1>3
<1>7. \A i \in 1 .. Len(queue) : i # k => queue[i] # s /\ queue[i] \in Sessions
  BY <1>1, <1>2 DEF SemInv, QueueWaits
<1>8. \A j \in 1 .. Len(queue') : pc'[queue'[j]] = "queued" /\ queue'[j] \notin permits'
  BY <1>1, <1>6, <1>7 DEF SemInv, QueueWaits
<1>9. \A i, j \in 1 .. Len(queue') : queue'[i] = queue'[j] => i = j
  BY <1>3 DEF SemInv, QueueWaits
<1>. QED
  BY <1>4, <1>5, <1>8, <1>9 DEF SemInv, QueueWaits


\* Every step of a session keeps the semaphore's invariant.
LEMMA SemStep ==
    ASSUME TypeOK, SemInv, NEW s \in Sessions, Step(s)
    PROVE  SemInv'
<1>1. ASSUME StartSkipped(s) PROVE SemInv'
  <2>1. PICK l \in Labels : Goto(s, l) /\ l # "queued" /\ (pc[s] \in Holding <=> l \in Holding)
    BY <1>1 DEF StartSkipped, Holding, Labels
  <2>2. pc[s] \notin {"queued", "polled"} /\ UNCHANGED <<avail, permits, queue>>
    BY <1>1 DEF StartSkipped, semVars
  <2>. QED
    BY <2>1, <2>2, SemQuiet
<1>2. ASSUME StartSession(s) PROVE SemInv'
  <2>1. PICK l \in Labels : Goto(s, l) /\ l # "queued" /\ (pc[s] \in Holding <=> l \in Holding)
    BY <1>2 DEF StartSession, Holding, Labels
  <2>2. pc[s] \notin {"queued", "polled"} /\ UNCHANGED <<avail, permits, queue>>
    BY <1>2 DEF StartSession, semVars
  <2>. QED
    BY <2>1, <2>2, SemQuiet
<1>3. ASSUME NextEvent(s) PROVE SemInv'
  <2>1. PICK l \in Labels : Goto(s, l) /\ l # "queued" /\ (pc[s] \in Holding <=> l \in Holding)
    BY <1>3 DEF NextEvent, EndLabel, Holding, Labels
  <2>2. pc[s] \notin {"queued", "polled"} /\ UNCHANGED <<avail, permits, queue>>
    BY <1>3 DEF NextEvent, semVars
  <2>. QED
    BY <2>1, <2>2, SemQuiet
<1>4. ASSUME WaitUntilDue(s) PROVE SemInv'
  <2>1. PICK l \in Labels : Goto(s, l) /\ l # "queued" /\ (pc[s] \in Holding <=> l \in Holding)
    BY <1>4 DEF WaitUntilDue, Holding, Labels
  <2>2. pc[s] \notin {"queued", "polled"} /\ UNCHANGED <<avail, permits, queue>>
    BY <1>4 DEF WaitUntilDue, semVars
  <2>. QED
    BY <2>1, <2>2, SemQuiet
<1>5. ASSUME Pace(s) PROVE SemInv'
  <2>1. PICK l \in Labels : Goto(s, l) /\ l # "queued" /\ (pc[s] \in Holding <=> l \in Holding)
    BY <1>5 DEF Pace, Holding, Labels
  <2>2. pc[s] \notin {"queued", "polled"} /\ UNCHANGED <<avail, permits, queue>>
    BY <1>5 DEF Pace, semVars
  <2>. QED
    BY <2>1, <2>2, SemQuiet
<1>6. ASSUME AbortDue(s) PROVE SemInv'
  <2>1. PICK l \in Labels : Goto(s, l) /\ l # "queued" /\ (pc[s] \in Holding <=> l \in Holding)
    BY <1>6 DEF AbortDue, EndLabel, Holding, Labels
  <2>2. pc[s] \notin {"queued", "polled"} /\ UNCHANGED <<avail, permits, queue>>
    BY <1>6 DEF AbortDue, semVars
  <2>. QED
    BY <2>1, <2>2, SemQuiet
<1>7. ASSUME StopWaiting(s) PROVE SemInv'
  <2>1. PICK l \in Labels : Goto(s, l) /\ l # "queued" /\ (pc[s] \in Holding <=> l \in Holding)
    BY <1>7 DEF StopWaiting, Holding, Labels
  <2>2. pc[s] \notin {"queued", "polled"} /\ UNCHANGED <<avail, permits, queue>>
    BY <1>7 DEF StopWaiting, semVars
  <2>. QED
    BY <2>1, <2>2, SemQuiet
<1>8. ASSUME Checkout(s) PROVE SemInv'
  <2>1. PICK l \in Labels : Goto(s, l) /\ l # "queued" /\ (pc[s] \in Holding <=> l \in Holding)
    BY <1>8 DEF Checkout, Holding, Labels
  <2>2. pc[s] \notin {"queued", "polled"} /\ UNCHANGED <<avail, permits, queue>>
    BY <1>8 DEF Checkout, semVars
  <2>. QED
    BY <2>1, <2>2, SemQuiet
<1>9. ASSUME ConnectOk(s) PROVE SemInv'
  <2>1. PICK l \in Labels : Goto(s, l) /\ l # "queued" /\ (pc[s] \in Holding <=> l \in Holding)
    BY <1>9 DEF ConnectOk, Holding, Labels
  <2>2. pc[s] \notin {"queued", "polled"} /\ UNCHANGED <<avail, permits, queue>>
    BY <1>9 DEF ConnectOk, semVars
  <2>. QED
    BY <2>1, <2>2, SemQuiet
<1>10. ASSUME ConnectFails(s) PROVE SemInv'
  <2>1. PICK l \in Labels : Goto(s, l) /\ l # "queued" /\ (pc[s] \in Holding <=> l \in Holding)
    BY <1>10 DEF ConnectFails, Holding, Labels
  <2>2. pc[s] \notin {"queued", "polled"} /\ UNCHANGED <<avail, permits, queue>>
    BY <1>10 DEF ConnectFails, semVars
  <2>. QED
    BY <2>1, <2>2, SemQuiet
<1>11. ASSUME UseOk(s) PROVE SemInv'
  <2>1. PICK l \in Labels : Goto(s, l) /\ l # "queued" /\ (pc[s] \in Holding <=> l \in Holding)
    BY <1>11 DEF UseOk, Holding, Labels
  <2>2. pc[s] \notin {"queued", "polled"} /\ UNCHANGED <<avail, permits, queue>>
    BY <1>11 DEF UseOk, semVars
  <2>. QED
    BY <2>1, <2>2, SemQuiet
<1>12. ASSUME QueryFails(s) PROVE SemInv'
  <2>1. PICK l \in Labels : Goto(s, l) /\ l # "queued" /\ (pc[s] \in Holding <=> l \in Holding)
    BY <1>12 DEF QueryFails, KeepConn, Holding, Labels
  <2>2. pc[s] \notin {"queued", "polled"} /\ UNCHANGED <<avail, permits, queue>>
    BY <1>12 DEF QueryFails, semVars
  <2>. QED
    BY <2>1, <2>2, SemQuiet
<1>13. ASSUME QueryFatal(s) PROVE SemInv'
  <2>1. PICK l \in Labels : Goto(s, l) /\ l # "queued" /\ (pc[s] \in Holding <=> l \in Holding)
    BY <1>13 DEF QueryFatal, Holding, Labels
  <2>2. pc[s] \notin {"queued", "polled"} /\ UNCHANGED <<avail, permits, queue>>
    BY <1>13 DEF QueryFatal, semVars
  <2>. QED
    BY <2>1, <2>2, SemQuiet
<1>14. ASSUME QueryOk(s) PROVE SemInv'
  <2>1. PICK l \in Labels : Goto(s, l) /\ l # "queued" /\ (pc[s] \in Holding <=> l \in Holding)
    BY <1>14 DEF QueryOk, KeepConn, Holding, Labels
  <2>2. pc[s] \notin {"queued", "polled"} /\ UNCHANGED <<avail, permits, queue>>
    BY <1>14 DEF QueryOk, semVars
  <2>. QED
    BY <2>1, <2>2, SemQuiet
<1>15. ASSUME Disconnect(s) PROVE SemInv'
  <2>1. PICK l \in Labels : Goto(s, l) /\ l # "queued" /\ (pc[s] \in Holding <=> l \in Holding)
    BY <1>15 DEF Disconnect, Holding, Labels
  <2>2. pc[s] \notin {"queued", "polled"} /\ UNCHANGED <<avail, permits, queue>>
    BY <1>15 DEF Disconnect, semVars
  <2>. QED
    BY <2>1, <2>2, SemQuiet
<1>16. ASSUME PollAcquire(s) PROVE SemInv'
  <2>1. CASE s \in permits
    <3>1. pc[s] = "polled" /\ Goto(s, "permitted") /\ UNCHANGED <<avail, permits, queue>>
      BY <1>16, <2>1 DEF PollAcquire
    <3>. QED
      BY <2>1, <3>1, SemTaken
  <2>2. CASE s \notin permits
    BY <1>16, <2>2, SemAcquire DEF PollAcquire
  <2>. QED
    BY <2>1, <2>2
<1>17. ASSUME PollFlag(s) PROVE SemInv'
  <2>1. /\ pc[s] = "acquire" \/ (pc[s] = "queued" /\ s \in permits)
        /\ Goto(s, "polled") /\ UNCHANGED <<avail, permits, queue>>
    BY <1>17 DEF PollFlag, AsksForPermit, semVars
  <2>. QED
    BY <2>1, SemPolled
<1>18. ASSUME AbortAcquire(s) PROVE SemInv'
  <2>1. Goto(s, "done") /\ "done" \in Labels /\ "done" \notin Holding
    BY <1>18 DEF AbortAcquire, Labels, Holding
  <2>2. CASE pc[s] = "queued" /\ s \in permits
    BY <1>18, <2>1, <2>2, SemRelease DEF AbortAcquire, CancelAcquire
  <2>3. CASE pc[s] = "queued" /\ s \notin permits
    BY <1>18, <2>1, <2>3, SemLeave DEF AbortAcquire
  <2>4. CASE pc[s] # "queued"
    <3>1. pc[s] = "acquire" /\ UNCHANGED <<avail, permits, queue>> /\ pc[s] \notin Holding
      BY <1>18, <2>4 DEF AbortAcquire, Holding
    <3>. QED
      BY <2>1, <3>1, SemQuiet
  <2>. QED
    BY <2>2, <2>3, <2>4
<1>19. ASSUME DropPermit(s) PROVE SemInv'
  <2>1. s \in permits
    BY <1>19 DEF DropPermit, SemInv, PermitsMatchLabels, Holding
  <2>2. PICK l \in Labels : Goto(s, l) /\ l # "queued" /\ l \notin Holding
    BY <1>19 DEF DropPermit, Holding, Labels
  <2>. QED
    BY <1>19, <2>1, <2>2, SemRelease DEF DropPermit
<1>. QED
  BY <1>1, <1>2, <1>3, <1>4, <1>5, <1>6, <1>7, <1>8, <1>9, <1>10,
     <1>11, <1>12, <1>13, <1>14, <1>15, <1>16, <1>17, <1>18, <1>19 DEF Step

-----------------------------------------------------------------------------
(* The connections.                                                        *)

\* The sets a count of connections or waiters is about are finite.
LEMMA FiniteSessions ==
    ASSUME NEW T, T \subseteq Sessions
    PROVE  IsFiniteSet(T) /\ Cardinality(T) \in Nat
BY SessionsAssumption, FS_Subset, FS_CardinalityType

ConnInv == OpenMatchesLabels /\ ConnectionCap

\* A step that neither opens nor gives up a connection.
LEMMA ConnQuiet ==
    ASSUME TypeOK, ConnInv, NEW s \in Sessions, NEW l \in Labels, Goto(s, l),
           UNCHANGED <<open, idle>>, pc[s] \in Connected <=> l \in Connected
    PROVE  ConnInv'
<1>1. pc' = [pc EXCEPT ![s] = l] /\ pc \in [Sessions -> Labels]
  BY DEF Goto, TypeOK, CursorTypes
<1>2. OpenMatchesLabels'
  BY <1>1 DEF ConnInv, OpenMatchesLabels, Connected
<1>3. ConnectionCap'
  BY DEF ConnInv, ConnectionCap
<1>. QED
  BY <1>2, <1>3 DEF ConnInv

\* A permit holder without a connection starts to make one; the shelf is empty.
\* All connections then belong to permit holders, so the cap bounds them.
LEMMA ConnOpen ==
    ASSUME TypeOK, SemInv, ConnInv, NEW s \in Sessions,
           pc[s] \in Holding, pc[s] \notin Connected, Goto(s, "connect"),
           open' = open \cup {s}, idle = <<>>, idle' = idle
    PROVE  ConnInv'
<1>1. pc' = [pc EXCEPT ![s] = "connect"] /\ pc \in [Sessions -> Labels]
      /\ open \subseteq Sessions /\ permits \subseteq Sessions /\ avail \in Nat
  BY DEF Goto, TypeOK, CursorTypes, ConnTypes, SemTypes
<1>2. OpenMatchesLabels'
  BY <1>1 DEF ConnInv, OpenMatchesLabels, Connected
<1>3. open \cup {s} \subseteq permits
  BY <1>1 DEF ConnInv, OpenMatchesLabels, SemInv, PermitsMatchLabels, Holding, Connected
<1>4. /\ IsFiniteSet(permits) /\ Cardinality(permits) \in Nat
      /\ Cardinality(open \cup {s}) \in Nat
      /\ Cardinality(open \cup {s}) <= Cardinality(permits)
  BY <1>1, <1>3, FiniteSessions, FS_Subset
<1>5. Len(idle') = 0
  OBVIOUS
<1>6. ConnectionCap'
  BY <1>1, <1>4, <1>5, CapAssumption DEF ConnectionCap, SemInv, PermitsConserved
<1>. QED
  BY <1>2, <1>6 DEF ConnInv

\* A connection is closed or lost.
LEMMA ConnClose ==
    ASSUME TypeOK, ConnInv, NEW s \in Sessions, LetGoConn(s), Goto(s, "release"),
           idle' = idle
    PROVE  ConnInv'
<1>1. pc' = [pc EXCEPT ![s] = "release"] /\ pc \in [Sessions -> Labels]
      /\ open \subseteq Sessions /\ idle \in Seq(Conn) /\ open' = open \ {s}
  BY DEF Goto, TypeOK, CursorTypes, ConnTypes, LetGoConn
<1>2. OpenMatchesLabels'
  BY <1>1 DEF ConnInv, OpenMatchesLabels, Connected
<1>3. Cardinality(open') <= Cardinality(open) /\ Cardinality(open) \in Nat
      /\ Cardinality(open') \in Nat
  BY <1>1, FiniteSessions, FS_Subset
<1>4. Len(idle) \in Nat
  BY <1>1, LenProperties
<1>5. ConnectionCap'
  BY <1>3, <1>4, CapAssumption DEF ConnInv, ConnectionCap
<1>. QED
  BY <1>2, <1>5 DEF ConnInv

\* A pooled connection goes back to the shelf: the count does not change.
LEMMA ConnCheckin ==
    ASSUME TypeOK, ConnInv, Pooled, NEW s \in Sessions, NEW c \in Conn,
           pc[s] \in Connected, Checkin(s, c), Goto(s, "release")
    PROVE  ConnInv'
<1>1. pc' = [pc EXCEPT ![s] = "release"] /\ pc \in [Sessions -> Labels]
      /\ open \subseteq Sessions /\ idle \in Seq(Conn) /\ open' = open \ {s}
      /\ idle' = Append(idle, c)
  BY DEF Goto, TypeOK, CursorTypes, ConnTypes, LetGoConn, Checkin
<1>2. OpenMatchesLabels'
  BY <1>1 DEF ConnInv, OpenMatchesLabels, Connected
<1>3. s \in open
  BY DEF ConnInv, OpenMatchesLabels
<1>4. Cardinality(open') = Cardinality(open) - 1 /\ Cardinality(open) \in Nat
  BY <1>1, <1>3, FiniteSessions, FS_RemoveElement
<1>5. Len(idle') = Len(idle) + 1 /\ Len(idle) \in Nat
  BY <1>1, AppendProperties, LenProperties
<1>6. ConnectionCap'
  BY <1>4, <1>5, CapAssumption DEF ConnInv, ConnectionCap
<1>. QED
  BY <1>2, <1>6 DEF ConnInv


\* Every step of a session keeps the cap.
LEMMA ConnStep ==
    ASSUME TypeOK, SemInv, ConnInv, NEW s \in Sessions, Step(s)
    PROVE  ConnInv'
<1>. USE FlagAssumption
<1>1. ASSUME StartSkipped(s) PROVE ConnInv'
  <2>1. PICK l \in Labels : Goto(s, l) /\ (pc[s] \in Connected <=> l \in Connected)
    BY <1>1 DEF StartSkipped, Connected, Labels
  <2>2. UNCHANGED <<open, idle>>
    BY <1>1 DEF StartSkipped, connVars
  <2>. QED
    BY <2>1, <2>2, ConnQuiet
<1>2. ASSUME StartSession(s) PROVE ConnInv'
  <2>1. PICK l \in Labels : Goto(s, l) /\ (pc[s] \in Connected <=> l \in Connected)
    BY <1>2 DEF StartSession, Connected, Labels
  <2>2. UNCHANGED <<open, idle>>
    BY <1>2 DEF StartSession, connVars
  <2>. QED
    BY <2>1, <2>2, ConnQuiet
<1>3. ASSUME NextEvent(s) PROVE ConnInv'
  <2>1. PICK l \in Labels : Goto(s, l) /\ (pc[s] \in Connected <=> l \in Connected)
    BY <1>3 DEF NextEvent, EndLabel, Connected, Labels
  <2>2. UNCHANGED <<open, idle>>
    BY <1>3 DEF NextEvent, connVars
  <2>. QED
    BY <2>1, <2>2, ConnQuiet
<1>4. ASSUME WaitUntilDue(s) PROVE ConnInv'
  <2>1. PICK l \in Labels : Goto(s, l) /\ (pc[s] \in Connected <=> l \in Connected)
    BY <1>4 DEF WaitUntilDue, Connected, Labels
  <2>2. UNCHANGED <<open, idle>>
    BY <1>4 DEF WaitUntilDue, connVars
  <2>. QED
    BY <2>1, <2>2, ConnQuiet
<1>5. ASSUME Pace(s) PROVE ConnInv'
  <2>1. PICK l \in Labels : Goto(s, l) /\ (pc[s] \in Connected <=> l \in Connected)
    BY <1>5 DEF Pace, Connected, Labels
  <2>2. UNCHANGED <<open, idle>>
    BY <1>5 DEF Pace, connVars
  <2>. QED
    BY <2>1, <2>2, ConnQuiet
<1>6. ASSUME AbortDue(s) PROVE ConnInv'
  <2>1. PICK l \in Labels : Goto(s, l) /\ (pc[s] \in Connected <=> l \in Connected)
    BY <1>6 DEF AbortDue, EndLabel, Connected, Labels
  <2>2. UNCHANGED <<open, idle>>
    BY <1>6 DEF AbortDue, connVars
  <2>. QED
    BY <2>1, <2>2, ConnQuiet
<1>7. ASSUME PollAcquire(s) PROVE ConnInv'
  <2>1. PICK l \in Labels : Goto(s, l) /\ (pc[s] \in Connected <=> l \in Connected)
    BY <1>7 DEF PollAcquire, TryAcquire, Connected, Labels
  <2>2. UNCHANGED <<open, idle>>
    BY <1>7 DEF PollAcquire, connVars
  <2>. QED
    BY <2>1, <2>2, ConnQuiet
<1>8. ASSUME PollFlag(s) PROVE ConnInv'
  <2>1. PICK l \in Labels : Goto(s, l) /\ (pc[s] \in Connected <=> l \in Connected)
    BY <1>8 DEF PollFlag, AsksForPermit, Connected, Labels
  <2>2. UNCHANGED <<open, idle>>
    BY <1>8 DEF PollFlag, connVars
  <2>. QED
    BY <2>1, <2>2, ConnQuiet
<1>9. ASSUME AbortAcquire(s) PROVE ConnInv'
  <2>1. PICK l \in Labels : Goto(s, l) /\ (pc[s] \in Connected <=> l \in Connected)
    BY <1>9 DEF AbortAcquire, Connected, Labels
  <2>2. UNCHANGED <<open, idle>>
    BY <1>9 DEF AbortAcquire, connVars
  <2>. QED
    BY <2>1, <2>2, ConnQuiet
<1>10. ASSUME ConnectOk(s) PROVE ConnInv'
  <2>1. PICK l \in Labels : Goto(s, l) /\ (pc[s] \in Connected <=> l \in Connected)
    BY <1>10 DEF ConnectOk, Connected, Labels
  <2>2. UNCHANGED <<open, idle>>
    BY <1>10 DEF ConnectOk, connVars
  <2>. QED
    BY <2>1, <2>2, ConnQuiet
<1>11. ASSUME UseOk(s) PROVE ConnInv'
  <2>1. PICK l \in Labels : Goto(s, l) /\ (pc[s] \in Connected <=> l \in Connected)
    BY <1>11 DEF UseOk, Connected, Labels
  <2>2. UNCHANGED <<open, idle>>
    BY <1>11 DEF UseOk, connVars
  <2>. QED
    BY <2>1, <2>2, ConnQuiet
<1>12. ASSUME DropPermit(s) PROVE ConnInv'
  <2>1. PICK l \in Labels : Goto(s, l) /\ (pc[s] \in Connected <=> l \in Connected)
    BY <1>12 DEF DropPermit, Connected, Labels
  <2>2. UNCHANGED <<open, idle>>
    BY <1>12 DEF DropPermit, connVars
  <2>. QED
    BY <2>1, <2>2, ConnQuiet
<1>13. ASSUME StopWaiting(s) PROVE ConnInv'
  <2>1. CASE Pooled
    <3>1. Goto(s, "checkout") /\ UNCHANGED <<open, idle>> /\ pc[s] = "permitted"
      BY <1>13, <2>1 DEF StopWaiting
    <3>. QED
      BY <3>1, ConnQuiet DEF Connected, Labels
  <2>2. CASE ~Pooled
    <3>1. Goto(s, "connect") /\ open' = open \cup {s} /\ idle' = idle /\ pc[s] = "permitted"
      BY <1>13, <2>2 DEF StopWaiting
    <3>2. idle = <<>> /\ pc[s] \in Holding /\ pc[s] \notin Connected
      BY <2>2, <3>1 DEF ConnInv, OpenMatchesLabels, Holding, Connected
    <3>. QED
      BY <3>1, <3>2, ConnOpen
  <2>. QED
    BY <2>1, <2>2
<1>14. ASSUME Checkout(s) PROVE ConnInv'
  <2>1. pc[s] = "checkout" /\ pc[s] \in Holding /\ pc[s] \notin Connected
    BY <1>14 DEF Checkout, Holding, Connected
  <2>2. CASE idle = <<>>
    <3>1. Goto(s, "connect") /\ open' = open \cup {s} /\ idle' = idle
      BY <1>14, <2>2 DEF Checkout
    <3>. QED
      BY <2>1, <2>2, <3>1, ConnOpen
  <2>3. CASE idle # <<>>
    <3>1. /\ open' = open \cup {s} /\ open \subseteq Sessions
          /\ idle' = SubSeq(idle, 1, Len(idle) - 1)
          /\ pc \in [Sessions -> Labels] /\ idle \in Seq(Conn)
      BY <1>14, <2>3 DEF Checkout, TypeOK, CursorTypes, ConnTypes
    <3>2. PICK l \in {"use", "exec"} : pc' = [pc EXCEPT ![s] = l]
      BY <1>14, <2>3 DEF Checkout, Goto
    <3>3. Pooled
      BY <2>3 DEF ConnInv, OpenMatchesLabels
    <3>4. \A x \in Sessions : x \in open' <=> pc'[x] \in Connected
      BY <3>1, <3>2 DEF ConnInv, OpenMatchesLabels, Connected
    <3>5. OpenMatchesLabels'
      BY <3>3, <3>4 DEF OpenMatchesLabels, Connected
    <3>6. s \notin open
      BY <2>1 DEF ConnInv, OpenMatchesLabels
    <3>7. Cardinality(open') = Cardinality(open) + 1 /\ Cardinality(open) \in Nat
      BY <3>1, <3>6, FiniteSessions, FS_AddElement
    <3>8. Len(SubSeq(idle, 1, Len(idle) - 1)) = Len(idle) - 1 /\ Len(idle) \in Nat
      BY <2>3, <3>1, ShelfPop, LenProperties
    <3>9. Len(idle') = Len(idle) - 1
      BY <3>1, <3>8, Zenon
    <3>10. ConnectionCap'
      BY <3>7, <3>8, <3>9, CapAssumption DEF ConnInv, ConnectionCap
    <3>. QED
      BY <3>5, <3>10 DEF ConnInv
  <2>. QED
    BY <2>2, <2>3
<1>15. ASSUME ConnectFails(s) PROVE ConnInv'
  BY <1>15, ConnClose DEF ConnectFails
<1>16. ASSUME QueryFatal(s) PROVE ConnInv'
  BY <1>16, ConnClose DEF QueryFatal
<1>17. ASSUME Disconnect(s) PROVE ConnInv'
  BY <1>17, ConnClose DEF Disconnect
<1>18. ASSUME QueryFails(s) PROVE ConnInv'
  <2>1. PICK c \in Conn : KeepConn(s, c)
    <3>1. conn[s] \in Conn
      BY DEF TypeOK, ConnTypes
    <3>. QED
      BY <1>18, <3>1 DEF QueryFails
  <2>2. pc[s] \in Connected
    BY <1>18 DEF QueryFails, Connected
  <2>3. CASE Pooled
    BY <2>1, <2>2, <2>3, ConnCheckin DEF KeepConn
  <2>4. CASE ~Pooled
    <3>1. Goto(s, "next") /\ UNCHANGED <<open, idle>> /\ "next" \in Connected /\ "next" \in Labels
      BY <2>1, <2>4 DEF KeepConn, Connected, Labels
    <3>. QED
      BY <2>2, <3>1, ConnQuiet
  <2>. QED
    BY <2>3, <2>4
<1>19. ASSUME QueryOk(s) PROVE ConnInv'
  <2>1. PICK c \in Conn : KeepConn(s, c)
    <3>1. conn[s] \in Conn
      BY DEF TypeOK, ConnTypes
    <3>2. Ev(s) \in Event
      BY <1>19, EvType DEF QueryOk, InHand, TypeOK
    <3>3. (IF Ev(s).kind = "use" THEN [conn[s] EXCEPT !.srv = Ev(s).to] ELSE conn[s]) \in Conn
      BY <3>1, <3>2 DEF Event, Conn
    <3>. QED
      BY <1>19, <3>3 DEF QueryOk
  <2>2. pc[s] \in Connected
    BY <1>19 DEF QueryOk, Connected
  <2>3. CASE Pooled
    BY <2>1, <2>2, <2>3, ConnCheckin DEF KeepConn
  <2>4. CASE ~Pooled
    <3>1. Goto(s, "next") /\ UNCHANGED <<open, idle>> /\ "next" \in Connected /\ "next" \in Labels
      BY <2>1, <2>4 DEF KeepConn, Connected, Labels
    <3>. QED
      BY <2>2, <3>1, ConnQuiet
  <2>. QED
    BY <2>3, <2>4
<1>. QED
  BY <1>1, <1>2, <1>3, <1>4, <1>5, <1>6, <1>7, <1>8, <1>9, <1>10,
     <1>11, <1>12, <1>13, <1>14, <1>15, <1>16, <1>17, <1>18, <1>19 DEF Step

-----------------------------------------------------------------------------
(* The waiters counter.                                                    *)

Waiting == {s \in Sessions : pc[s] \in {"acquire", "queued", "polled", "permitted"}}

\* How one session's move changes the set the counter is about.
LEMMA WaitingMoves ==
    ASSUME CursorTypes, WaitersExact, NEW s \in Sessions, NEW l \in Labels, Goto(s, l),
           waiters' = waiters + (IF l \in {"acquire", "queued", "polled", "permitted"} THEN 1 ELSE 0)
                              - (IF s \in Waiting THEN 1 ELSE 0)
    PROVE  WaitersExact'
<1>. DEFINE W == {"acquire", "queued", "polled", "permitted"}
<1>1. pc' = [pc EXCEPT ![s] = l] /\ pc \in [Sessions -> Labels]
  BY DEF Goto, CursorTypes
<1>2. Waiting' = IF l \in W THEN Waiting \cup {s} ELSE Waiting \ {s}
  BY <1>1 DEF Waiting
<1>3. IsFiniteSet(Waiting) /\ Cardinality(Waiting) \in Nat
  BY FiniteSessions DEF Waiting
<1>4. Cardinality(Waiting \cup {s}) =
          IF s \in Waiting THEN Cardinality(Waiting) ELSE Cardinality(Waiting) + 1
  BY <1>3, FS_AddElement
<1>5. Cardinality(Waiting \ {s}) =
          IF s \in Waiting THEN Cardinality(Waiting) - 1 ELSE Cardinality(Waiting)
  BY <1>3, FS_RemoveElement
<1>6. waiters = Cardinality(Waiting)
  BY DEF WaitersExact, Waiting
<1>7. waiters' = Cardinality(Waiting')
  BY <1>2, <1>3, <1>4, <1>5, <1>6
<1>. QED
  BY <1>7 DEF WaitersExact, Waiting

\* Every step of a session keeps the counter exact.
LEMMA WaitersStep ==
    ASSUME TypeOK, WaitersExact, NEW s \in Sessions, Step(s)
    PROVE  WaitersExact'
<1>. USE FlagAssumption
<1>1. ASSUME StartSkipped(s) PROVE WaitersExact'
  <2>1. PICK l \in Labels :
          /\ Goto(s, l)
          /\ waiters' = waiters + (IF l \in {"acquire", "queued", "polled", "permitted"} THEN 1 ELSE 0)
                                - (IF s \in Waiting THEN 1 ELSE 0)
    BY <1>1 DEF StartSkipped, Waiting, Labels, semVars, TypeOK, SemTypes
  <2>. QED
    BY <2>1, WaitingMoves DEF TypeOK
<1>2. ASSUME StartSession(s) PROVE WaitersExact'
  <2>1. PICK l \in Labels :
          /\ Goto(s, l)
          /\ waiters' = waiters + (IF l \in {"acquire", "queued", "polled", "permitted"} THEN 1 ELSE 0)
                                - (IF s \in Waiting THEN 1 ELSE 0)
    BY <1>2 DEF StartSession, Waiting, Labels, semVars, TypeOK, SemTypes
  <2>. QED
    BY <2>1, WaitingMoves DEF TypeOK
<1>3. ASSUME NextEvent(s) PROVE WaitersExact'
  <2>1. PICK l \in Labels :
          /\ Goto(s, l)
          /\ waiters' = waiters + (IF l \in {"acquire", "queued", "polled", "permitted"} THEN 1 ELSE 0)
                                - (IF s \in Waiting THEN 1 ELSE 0)
    BY <1>3 DEF NextEvent, EndLabel, Waiting, Labels, semVars, TypeOK, SemTypes
  <2>. QED
    BY <2>1, WaitingMoves DEF TypeOK
<1>4. ASSUME WaitUntilDue(s) PROVE WaitersExact'
  <2>1. PICK l \in Labels :
          /\ Goto(s, l)
          /\ waiters' = waiters + (IF l \in {"acquire", "queued", "polled", "permitted"} THEN 1 ELSE 0)
                                - (IF s \in Waiting THEN 1 ELSE 0)
    BY <1>4 DEF WaitUntilDue, Waiting, Labels, semVars, TypeOK, SemTypes
  <2>. QED
    BY <2>1, WaitingMoves DEF TypeOK
<1>5. ASSUME Pace(s) PROVE WaitersExact'
  <2>1. PICK l \in Labels :
          /\ Goto(s, l)
          /\ waiters' = waiters + (IF l \in {"acquire", "queued", "polled", "permitted"} THEN 1 ELSE 0)
                                - (IF s \in Waiting THEN 1 ELSE 0)
    BY <1>5 DEF Pace, Waiting, Labels, semVars, TypeOK, SemTypes
  <2>. QED
    BY <2>1, WaitingMoves DEF TypeOK
<1>6. ASSUME AbortDue(s) PROVE WaitersExact'
  <2>1. PICK l \in Labels :
          /\ Goto(s, l)
          /\ waiters' = waiters + (IF l \in {"acquire", "queued", "polled", "permitted"} THEN 1 ELSE 0)
                                - (IF s \in Waiting THEN 1 ELSE 0)
    BY <1>6 DEF AbortDue, EndLabel, Waiting, Labels, semVars, TypeOK, SemTypes
  <2>. QED
    BY <2>1, WaitingMoves DEF TypeOK
<1>7. ASSUME PollAcquire(s) PROVE WaitersExact'
  <2>1. PICK l \in Labels :
          /\ Goto(s, l)
          /\ waiters' = waiters + (IF l \in {"acquire", "queued", "polled", "permitted"} THEN 1 ELSE 0)
                                - (IF s \in Waiting THEN 1 ELSE 0)
    BY <1>7 DEF PollAcquire, TryAcquire, Waiting, Labels, semVars, TypeOK, SemTypes
  <2>. QED
    BY <2>1, WaitingMoves DEF TypeOK
<1>8. ASSUME PollFlag(s) PROVE WaitersExact'
  <2>1. PICK l \in Labels :
          /\ Goto(s, l)
          /\ waiters' = waiters + (IF l \in {"acquire", "queued", "polled", "permitted"} THEN 1 ELSE 0)
                                - (IF s \in Waiting THEN 1 ELSE 0)
    BY <1>8 DEF PollFlag, AsksForPermit, Waiting, Labels, semVars, TypeOK, SemTypes
  <2>. QED
    BY <2>1, WaitingMoves DEF TypeOK
<1>9. ASSUME AbortAcquire(s) PROVE WaitersExact'
  <2>1. PICK l \in Labels :
          /\ Goto(s, l)
          /\ waiters' = waiters + (IF l \in {"acquire", "queued", "polled", "permitted"} THEN 1 ELSE 0)
                                - (IF s \in Waiting THEN 1 ELSE 0)
    BY <1>9 DEF AbortAcquire, Waiting, Labels, semVars, TypeOK, SemTypes
  <2>. QED
    BY <2>1, WaitingMoves DEF TypeOK
<1>10. ASSUME StopWaiting(s) PROVE WaitersExact'
  <2>1. PICK l \in Labels :
          /\ Goto(s, l)
          /\ waiters' = waiters + (IF l \in {"acquire", "queued", "polled", "permitted"} THEN 1 ELSE 0)
                                - (IF s \in Waiting THEN 1 ELSE 0)
    BY <1>10 DEF StopWaiting, Waiting, Labels, semVars, TypeOK, SemTypes
  <2>. QED
    BY <2>1, WaitingMoves DEF TypeOK
<1>11. ASSUME Checkout(s) PROVE WaitersExact'
  <2>1. PICK l \in Labels :
          /\ Goto(s, l)
          /\ waiters' = waiters + (IF l \in {"acquire", "queued", "polled", "permitted"} THEN 1 ELSE 0)
                                - (IF s \in Waiting THEN 1 ELSE 0)
    BY <1>11 DEF Checkout, Waiting, Labels, semVars, TypeOK, SemTypes
  <2>. QED
    BY <2>1, WaitingMoves DEF TypeOK
<1>12. ASSUME ConnectOk(s) PROVE WaitersExact'
  <2>1. PICK l \in Labels :
          /\ Goto(s, l)
          /\ waiters' = waiters + (IF l \in {"acquire", "queued", "polled", "permitted"} THEN 1 ELSE 0)
                                - (IF s \in Waiting THEN 1 ELSE 0)
    BY <1>12 DEF ConnectOk, Waiting, Labels, semVars, TypeOK, SemTypes
  <2>. QED
    BY <2>1, WaitingMoves DEF TypeOK
<1>13. ASSUME ConnectFails(s) PROVE WaitersExact'
  <2>1. PICK l \in Labels :
          /\ Goto(s, l)
          /\ waiters' = waiters + (IF l \in {"acquire", "queued", "polled", "permitted"} THEN 1 ELSE 0)
                                - (IF s \in Waiting THEN 1 ELSE 0)
    BY <1>13 DEF ConnectFails, Waiting, Labels, semVars, TypeOK, SemTypes
  <2>. QED
    BY <2>1, WaitingMoves DEF TypeOK
<1>14. ASSUME UseOk(s) PROVE WaitersExact'
  <2>1. PICK l \in Labels :
          /\ Goto(s, l)
          /\ waiters' = waiters + (IF l \in {"acquire", "queued", "polled", "permitted"} THEN 1 ELSE 0)
                                - (IF s \in Waiting THEN 1 ELSE 0)
    BY <1>14 DEF UseOk, Waiting, Labels, semVars, TypeOK, SemTypes
  <2>. QED
    BY <2>1, WaitingMoves DEF TypeOK
<1>15. ASSUME QueryOk(s) PROVE WaitersExact'
  <2>1. PICK l \in Labels :
          /\ Goto(s, l)
          /\ waiters' = waiters + (IF l \in {"acquire", "queued", "polled", "permitted"} THEN 1 ELSE 0)
                                - (IF s \in Waiting THEN 1 ELSE 0)
    BY <1>15 DEF QueryOk, KeepConn, Waiting, Labels, semVars, TypeOK, SemTypes
  <2>. QED
    BY <2>1, WaitingMoves DEF TypeOK
<1>16. ASSUME QueryFails(s) PROVE WaitersExact'
  <2>1. PICK l \in Labels :
          /\ Goto(s, l)
          /\ waiters' = waiters + (IF l \in {"acquire", "queued", "polled", "permitted"} THEN 1 ELSE 0)
                                - (IF s \in Waiting THEN 1 ELSE 0)
    BY <1>16 DEF QueryFails, KeepConn, Waiting, Labels, semVars, TypeOK, SemTypes
  <2>. QED
    BY <2>1, WaitingMoves DEF TypeOK
<1>17. ASSUME QueryFatal(s) PROVE WaitersExact'
  <2>1. PICK l \in Labels :
          /\ Goto(s, l)
          /\ waiters' = waiters + (IF l \in {"acquire", "queued", "polled", "permitted"} THEN 1 ELSE 0)
                                - (IF s \in Waiting THEN 1 ELSE 0)
    BY <1>17 DEF QueryFatal, Waiting, Labels, semVars, TypeOK, SemTypes
  <2>. QED
    BY <2>1, WaitingMoves DEF TypeOK
<1>18. ASSUME Disconnect(s) PROVE WaitersExact'
  <2>1. PICK l \in Labels :
          /\ Goto(s, l)
          /\ waiters' = waiters + (IF l \in {"acquire", "queued", "polled", "permitted"} THEN 1 ELSE 0)
                                - (IF s \in Waiting THEN 1 ELSE 0)
    BY <1>18 DEF Disconnect, Waiting, Labels, semVars, TypeOK, SemTypes
  <2>. QED
    BY <2>1, WaitingMoves DEF TypeOK
<1>19. ASSUME DropPermit(s) PROVE WaitersExact'
  <2>1. PICK l \in Labels :
          /\ Goto(s, l)
          /\ waiters' = waiters + (IF l \in {"acquire", "queued", "polled", "permitted"} THEN 1 ELSE 0)
                                - (IF s \in Waiting THEN 1 ELSE 0)
    BY <1>19 DEF DropPermit, Waiting, Labels, semVars, TypeOK, SemTypes
  <2>. QED
    BY <2>1, WaitingMoves DEF TypeOK
<1>. QED
  BY <1>1, <1>2, <1>3, <1>4, <1>5, <1>6, <1>7, <1>8, <1>9, <1>10,
     <1>11, <1>12, <1>13, <1>14, <1>15, <1>16, <1>17, <1>18, <1>19 DEF Step


-----------------------------------------------------------------------------
(* The write gate.                                                         *)

GateInv == ModeLabels /\ GatedBeforeAcquire /\ WriteGate

\* A session gets behind the gate only with an event the gate lets through,
\* and stays there only with the same event.
LEMMA GateMoves ==
    ASSUME TypeOK, GateInv, NEW s \in Sessions, NEW l \in Labels, Goto(s, l),
           NEW n, pos' = [pos EXCEPT ![s] = n],
           l \in Committed => n = pos[s] /\ (pc[s] \in Committed \/ ShouldExecute(Ev(s))),
           HasExecutable(s) \/ l = "done",
           l = "first" => ~Pooled, l = "checkout" => Pooled
    PROVE  GateInv'
<1>1. /\ pc' = [pc EXCEPT ![s] = l] /\ pc \in [Sessions -> Labels]
      /\ pos \in [Sessions -> Nat]
  BY DEF Goto, TypeOK, CursorTypes
<1>2. ASSUME NEW t \in Sessions, pc'[t] \in Committed PROVE AllowWrites \/ Ev(t)'.kind # "write"
  <2>1. CASE t = s
    <3>1. l \in Committed /\ pos'[s] = pos[s]
      BY <1>1, <1>2, <2>1
    <3>2. Ev(s)' = Ev(s)
      BY <3>1 DEF Ev
    <3>3. AllowWrites \/ Ev(s).kind # "write"
      BY <3>1 DEF GateInv, GatedBeforeAcquire, Committed, ShouldExecute
    <3>. QED
      BY <2>1, <3>2, <3>3
  <2>2. CASE t # s
    <3>1. pc'[t] = pc[t] /\ Ev(t)' = Ev(t)
      BY <1>1, <2>2 DEF Ev
    <3>. QED
      BY <1>2, <3>1 DEF GateInv, GatedBeforeAcquire, Committed
  <2>. QED
    BY <2>1, <2>2
<1>3. GatedBeforeAcquire'
  BY <1>2 DEF GatedBeforeAcquire, Committed
<1>4. ASSUME NEW t \in Sessions, ~HasExecutable(t) PROVE pc'[t] \in {"start", "done"}
  BY <1>1, <1>4 DEF GateInv, WriteGate
<1>5. WriteGate'
  BY <1>2, <1>4 DEF WriteGate, Committed, HasExecutable, ShouldExecute
<1>6. ModeLabels'
  BY <1>1 DEF GateInv, ModeLabels
<1>. QED
  BY <1>3, <1>5, <1>6 DEF GateInv

\* Only a session at work takes a step, and it is one with something to
\* execute unless it is just starting.
LEMMA StepLabels ==
    ASSUME TypeOK, GateInv, NEW s \in Sessions, Step(s)
    PROVE  /\ pc[s] # "done" /\ UNCHANGED <<pass, aborted, shutdown>>
           /\ pc[s] = "start" \/ HasExecutable(s)
<1>1. pc[s] # "done" /\ UNCHANGED <<pass, aborted, shutdown>>
  BY DEF Step, StartSkipped, StartSession, NextEvent, WaitUntilDue, Pace, AbortDue, PollAcquire,
     PollFlag, AsksForPermit, AbortAcquire, StopWaiting, Checkout, ConnectOk, ConnectFails, UseOk, QueryOk, QueryFails, QueryFatal, Disconnect, DropPermit, passVars
<1>2. pc[s] = "start" \/ HasExecutable(s)
  BY <1>1 DEF GateInv, WriteGate
<1>. QED
  BY <1>1, <1>2

\* Every step of a session keeps the gate.
LEMMA GateStep ==
    ASSUME TypeOK, GateInv, NEW s \in Sessions, Step(s)
    PROVE  GateInv'
<1>. USE FlagAssumption
<1>a. pc[s] = "start" \/ HasExecutable(s)
  BY StepLabels
<1>b. pos = [pos EXCEPT ![s] = pos[s]]
  BY DEF TypeOK, CursorTypes
<1>c. (pc[s] = "first" => ~Pooled) /\ (pc[s] = "checkout" => Pooled)
  BY DEF GateInv, ModeLabels
<1>1. ASSUME StartSkipped(s) PROVE GateInv'
  <2>1. PICK l \in Labels :
          /\ Goto(s, l) /\ (HasExecutable(s) \/ l = "done")
          /\ (l = "first" => ~Pooled) /\ (l = "checkout" => Pooled)
          /\ l \notin Committed
    BY <1>1, <1>a, <1>c DEF StartSkipped, Committed, Labels
  <2>2. \E n : pos' = [pos EXCEPT ![s] = n]
    BY <1>1, <1>b DEF StartSkipped, DrainRecording
  <2>. QED
    BY <2>1, <2>2, GateMoves
<1>2. ASSUME StartSession(s) PROVE GateInv'
  <2>1. PICK l \in Labels :
          /\ Goto(s, l) /\ (HasExecutable(s) \/ l = "done")
          /\ (l = "first" => ~Pooled) /\ (l = "checkout" => Pooled)
          /\ l \notin Committed
    BY <1>2, <1>a, <1>c DEF StartSession, Committed, Labels
  <2>2. \E n : pos' = [pos EXCEPT ![s] = n]
    BY <1>2, <1>b DEF StartSession
  <2>. QED
    BY <2>1, <2>2, GateMoves
<1>3. ASSUME NextEvent(s) PROVE GateInv'
  <2>1. PICK l \in Labels :
          /\ Goto(s, l) /\ (HasExecutable(s) \/ l = "done")
          /\ (l = "first" => ~Pooled) /\ (l = "checkout" => Pooled)
          /\ l \notin Committed
    BY <1>3, <1>a, <1>c DEF NextEvent, EndLabel, Committed, Labels
  <2>2. \E n : pos' = [pos EXCEPT ![s] = n]
    BY <1>3, <1>b DEF NextEvent
  <2>. QED
    BY <2>1, <2>2, GateMoves
<1>4. ASSUME WaitUntilDue(s) PROVE GateInv'
  <2>1. PICK l \in Labels :
          /\ Goto(s, l) /\ (HasExecutable(s) \/ l = "done")
          /\ (l = "first" => ~Pooled) /\ (l = "checkout" => Pooled)
          /\ (l \in Committed => pc[s] \in Committed \/ ShouldExecute(Ev(s)))
    BY <1>4, <1>a, <1>c DEF WaitUntilDue, Committed, Labels
  <2>2. \E n : pos' = [pos EXCEPT ![s] = n] /\ n = pos[s]
    BY <1>4, <1>b DEF WaitUntilDue
  <2>. QED
    BY <2>1, <2>2, GateMoves
<1>5. ASSUME Pace(s) PROVE GateInv'
  <2>1. PICK l \in Labels :
          /\ Goto(s, l) /\ (HasExecutable(s) \/ l = "done")
          /\ (l = "first" => ~Pooled) /\ (l = "checkout" => Pooled)
          /\ (l \in Committed => pc[s] \in Committed \/ ShouldExecute(Ev(s)))
    BY <1>5, <1>a, <1>c DEF Pace, Committed, Labels
  <2>2. \E n : pos' = [pos EXCEPT ![s] = n] /\ n = pos[s]
    BY <1>5, <1>b DEF Pace
  <2>. QED
    BY <2>1, <2>2, GateMoves
<1>6. ASSUME AbortDue(s) PROVE GateInv'
  <2>1. PICK l \in Labels :
          /\ Goto(s, l) /\ (HasExecutable(s) \/ l = "done")
          /\ (l = "first" => ~Pooled) /\ (l = "checkout" => Pooled)
          /\ l \notin Committed
    BY <1>6, <1>a, <1>c DEF AbortDue, EndLabel, Committed, Labels
  <2>2. \E n : pos' = [pos EXCEPT ![s] = n]
    BY <1>6, <1>b DEF AbortDue, DrainRecording
  <2>. QED
    BY <2>1, <2>2, GateMoves
<1>7. ASSUME PollAcquire(s) PROVE GateInv'
  <2>1. PICK l \in Labels :
          /\ Goto(s, l) /\ (HasExecutable(s) \/ l = "done")
          /\ (l = "first" => ~Pooled) /\ (l = "checkout" => Pooled)
          /\ (l \in Committed => pc[s] \in Committed \/ ShouldExecute(Ev(s)))
    BY <1>7, <1>a, <1>c DEF PollAcquire, TryAcquire, Committed, Labels
  <2>2. \E n : pos' = [pos EXCEPT ![s] = n] /\ n = pos[s]
    BY <1>7, <1>b DEF PollAcquire
  <2>. QED
    BY <2>1, <2>2, GateMoves
<1>8. ASSUME PollFlag(s) PROVE GateInv'
  <2>1. PICK l \in Labels :
          /\ Goto(s, l) /\ (HasExecutable(s) \/ l = "done")
          /\ (l = "first" => ~Pooled) /\ (l = "checkout" => Pooled)
          /\ (l \in Committed => pc[s] \in Committed \/ ShouldExecute(Ev(s)))
    BY <1>8, <1>a, <1>c DEF PollFlag, AsksForPermit, Committed, Labels
  <2>2. \E n : pos' = [pos EXCEPT ![s] = n] /\ n = pos[s]
    BY <1>8, <1>b DEF PollFlag
  <2>. QED
    BY <2>1, <2>2, GateMoves
<1>9. ASSUME AbortAcquire(s) PROVE GateInv'
  <2>1. PICK l \in Labels :
          /\ Goto(s, l) /\ (HasExecutable(s) \/ l = "done")
          /\ (l = "first" => ~Pooled) /\ (l = "checkout" => Pooled)
          /\ l \notin Committed
    BY <1>9, <1>a, <1>c DEF AbortAcquire, Committed, Labels
  <2>2. \E n : pos' = [pos EXCEPT ![s] = n]
    BY <1>9, <1>b DEF AbortAcquire, DrainRecording
  <2>. QED
    BY <2>1, <2>2, GateMoves
<1>10. ASSUME StopWaiting(s) PROVE GateInv'
  <2>1. PICK l \in Labels :
          /\ Goto(s, l) /\ (HasExecutable(s) \/ l = "done")
          /\ (l = "first" => ~Pooled) /\ (l = "checkout" => Pooled)
          /\ (l \in Committed => pc[s] \in Committed \/ ShouldExecute(Ev(s)))
    BY <1>10, <1>a, <1>c DEF StopWaiting, Committed, Labels
  <2>2. \E n : pos' = [pos EXCEPT ![s] = n] /\ n = pos[s]
    BY <1>10, <1>b DEF StopWaiting
  <2>. QED
    BY <2>1, <2>2, GateMoves
<1>11. ASSUME Checkout(s) PROVE GateInv'
  <2>1. PICK l \in Labels :
          /\ Goto(s, l) /\ (HasExecutable(s) \/ l = "done")
          /\ (l = "first" => ~Pooled) /\ (l = "checkout" => Pooled)
          /\ (l \in Committed => pc[s] \in Committed \/ ShouldExecute(Ev(s)))
    BY <1>11, <1>a, <1>c DEF Checkout, Committed, Labels
  <2>2. \E n : pos' = [pos EXCEPT ![s] = n] /\ n = pos[s]
    BY <1>11, <1>b DEF Checkout
  <2>. QED
    BY <2>1, <2>2, GateMoves
<1>12. ASSUME ConnectOk(s) PROVE GateInv'
  <2>1. PICK l \in Labels :
          /\ Goto(s, l) /\ (HasExecutable(s) \/ l = "done")
          /\ (l = "first" => ~Pooled) /\ (l = "checkout" => Pooled)
          /\ (l \in Committed => pc[s] \in Committed \/ ShouldExecute(Ev(s)))
    BY <1>12, <1>a, <1>c DEF ConnectOk, Committed, Labels
  <2>2. \E n : pos' = [pos EXCEPT ![s] = n] /\ n = pos[s]
    BY <1>12, <1>b DEF ConnectOk
  <2>. QED
    BY <2>1, <2>2, GateMoves
<1>13. ASSUME ConnectFails(s) PROVE GateInv'
  <2>1. PICK l \in Labels :
          /\ Goto(s, l) /\ (HasExecutable(s) \/ l = "done")
          /\ (l = "first" => ~Pooled) /\ (l = "checkout" => Pooled)
          /\ l \notin Committed
    BY <1>13, <1>a, <1>c DEF ConnectFails, Committed, Labels
  <2>2. \E n : pos' = [pos EXCEPT ![s] = n]
    BY <1>13, <1>b DEF ConnectFails
  <2>. QED
    BY <2>1, <2>2, GateMoves
<1>14. ASSUME UseOk(s) PROVE GateInv'
  <2>1. PICK l \in Labels :
          /\ Goto(s, l) /\ (HasExecutable(s) \/ l = "done")
          /\ (l = "first" => ~Pooled) /\ (l = "checkout" => Pooled)
          /\ (l \in Committed => pc[s] \in Committed \/ ShouldExecute(Ev(s)))
    BY <1>14, <1>a, <1>c DEF UseOk, Committed, Labels
  <2>2. \E n : pos' = [pos EXCEPT ![s] = n] /\ n = pos[s]
    BY <1>14, <1>b DEF UseOk
  <2>. QED
    BY <2>1, <2>2, GateMoves
<1>15. ASSUME QueryOk(s) PROVE GateInv'
  <2>1. PICK l \in Labels :
          /\ Goto(s, l) /\ (HasExecutable(s) \/ l = "done")
          /\ (l = "first" => ~Pooled) /\ (l = "checkout" => Pooled)
          /\ l \notin Committed
    BY <1>15, <1>a, <1>c DEF QueryOk, KeepConn, Committed, Labels
  <2>2. \E n : pos' = [pos EXCEPT ![s] = n] /\ n = pos[s]
    BY <1>15, <1>b DEF QueryOk
  <2>. QED
    BY <2>1, <2>2, GateMoves
<1>16. ASSUME QueryFails(s) PROVE GateInv'
  <2>1. PICK l \in Labels :
          /\ Goto(s, l) /\ (HasExecutable(s) \/ l = "done")
          /\ (l = "first" => ~Pooled) /\ (l = "checkout" => Pooled)
          /\ l \notin Committed
    BY <1>16, <1>a, <1>c DEF QueryFails, KeepConn, Committed, Labels
  <2>2. \E n : pos' = [pos EXCEPT ![s] = n] /\ n = pos[s]
    BY <1>16, <1>b DEF QueryFails
  <2>. QED
    BY <2>1, <2>2, GateMoves
<1>17. ASSUME QueryFatal(s) PROVE GateInv'
  <2>1. PICK l \in Labels :
          /\ Goto(s, l) /\ (HasExecutable(s) \/ l = "done")
          /\ (l = "first" => ~Pooled) /\ (l = "checkout" => Pooled)
          /\ l \notin Committed
    BY <1>17, <1>a, <1>c DEF QueryFatal, Committed, Labels
  <2>2. \E n : pos' = [pos EXCEPT ![s] = n]
    BY <1>17, <1>b DEF QueryFatal
  <2>. QED
    BY <2>1, <2>2, GateMoves
<1>18. ASSUME Disconnect(s) PROVE GateInv'
  <2>1. PICK l \in Labels :
          /\ Goto(s, l) /\ (HasExecutable(s) \/ l = "done")
          /\ (l = "first" => ~Pooled) /\ (l = "checkout" => Pooled)
          /\ l \notin Committed
    BY <1>18, <1>a, <1>c DEF Disconnect, Committed, Labels
  <2>2. \E n : pos' = [pos EXCEPT ![s] = n] /\ n = pos[s]
    BY <1>18, <1>b DEF Disconnect
  <2>. QED
    BY <2>1, <2>2, GateMoves
<1>19. ASSUME DropPermit(s) PROVE GateInv'
  <2>1. PICK l \in Labels :
          /\ Goto(s, l) /\ (HasExecutable(s) \/ l = "done")
          /\ (l = "first" => ~Pooled) /\ (l = "checkout" => Pooled)
          /\ l \notin Committed
    BY <1>19, <1>a, <1>c DEF DropPermit, Committed, Labels
  <2>2. \E n : pos' = [pos EXCEPT ![s] = n] /\ n = pos[s]
    BY <1>19, <1>b DEF DropPermit
  <2>. QED
    BY <2>1, <2>2, GateMoves
<1>. QED
  BY <1>1, <1>2, <1>3, <1>4, <1>5, <1>6, <1>7, <1>8, <1>9, <1>10,
     <1>11, <1>12, <1>13, <1>14, <1>15, <1>16, <1>17, <1>18, <1>19 DEF Step


-----------------------------------------------------------------------------
(* The theorems.                                                           *)

\* The initial states satisfy the invariant.
LEMMA InitInv == Init => PassInv
<1>. SUFFICES ASSUME Init PROVE PassInv
  OBVIOUS
<1>. USE DEF Init
<1>1. CursorTypes
  BY EventsAssumption DEF CursorTypes, InHand, Labels
<1>2. SemTypes /\ ConnTypes /\ RunTypes
  <2>1. SemTypes
    BY CapAssumption DEF SemTypes
  <2>2. ConnTypes
    BY DEF ConnTypes, NoConn, Conn, Option
  <2>3. metrics \in [Counters -> Nat]
    OBVIOUS
  <2>4. RunTypes
    BY <2>3 DEF RunTypes
  <2>. QED
    BY <2>1, <2>2, <2>4
<1>3. SemInv
  BY CapAssumption, FS_EmptySet
     DEF SemInv, PermitsConserved, PermitsMatchLabels, QueueWaits, Holding
<1>4. OpenMatchesLabels /\ ConnectionCap
  BY CapAssumption, FS_EmptySet DEF OpenMatchesLabels, ConnectionCap, Connected
<1>5. WaitersExact
  <2>1. {s \in Sessions : pc[s] \in {"acquire", "queued", "polled", "permitted"}} = {}
    OBVIOUS
  <2>. QED
    BY <2>1, FS_EmptySet DEF WaitersExact
<1>6. JoinedBeforeDrained /\ ModeLabels /\ GatedBeforeAcquire /\ WriteGate
  BY DEF JoinedBeforeDrained, ModeLabels, GatedBeforeAcquire, WriteGate, Committed
<1>. QED
  BY <1>1, <1>2, <1>3, <1>4, <1>5, <1>6 DEF PassInv, TypeOK

\* Every step keeps the invariant.
LEMMA NextInv == PassInv /\ [Next]_vars => PassInv'
<1>. SUFFICES ASSUME PassInv, [Next]_vars PROVE PassInv'
  OBVIOUS
<1>1. TypeOK'
  BY TypeStep DEF PassInv
<1>2. ASSUME NEW s \in Sessions, Step(s) PROVE PassInv'
  <2>1. SemInv' /\ ConnInv' /\ WaitersExact' /\ GateInv'
    BY <1>2, SemStep, ConnStep, WaitersStep, GateStep DEF PassInv, ConnInv, GateInv
  <2>2. pc[s] # "done" /\ pass' = pass
    BY <1>2, StepLabels DEF PassInv, GateInv
  <2>3. pass = "running"
    BY <2>2 DEF PassInv, JoinedBeforeDrained
  <2>4. JoinedBeforeDrained'
    BY <2>2, <2>3 DEF JoinedBeforeDrained
  <2>. QED
    BY <1>1, <2>1, <2>4 DEF PassInv, ConnInv, GateInv
<1>3. ASSUME UNCHANGED <<pc, pos, permits, avail, queue, waiters, open>>,
             UNCHANGED idle \/ idle' = <<>>,
             JoinedBeforeDrained'
      PROVE  PassInv'
  <2>1. SemInv'
    BY <1>3 DEF PassInv, SemInv, PermitsConserved, PermitsMatchLabels, QueueWaits
  <2>2. OpenMatchesLabels'
    BY <1>3 DEF PassInv, OpenMatchesLabels
  <2>3. Len(idle') <= Len(idle) /\ Len(idle) \in Nat /\ Len(idle') \in Nat
    BY <1>3, LenProperties DEF PassInv, TypeOK, ConnTypes
  <2>4. Cardinality(open) \in Nat
    BY FiniteSessions DEF PassInv, TypeOK, ConnTypes
  <2>5. ConnectionCap'
    BY <1>3, <2>3, <2>4, CapAssumption DEF PassInv, ConnectionCap
  <2>6. WaitersExact'
    BY <1>3 DEF PassInv, WaitersExact
  <2>7. ModeLabels' /\ GatedBeforeAcquire' /\ WriteGate'
    BY <1>3 DEF PassInv, ModeLabels, GatedBeforeAcquire, WriteGate, Ev, HasExecutable,
                ShouldExecute
  <2>. QED
    BY <1>1, <1>3, <2>1, <2>2, <2>5, <2>6, <2>7 DEF PassInv
<1>4. CASE Interrupt \/ SamplePermits \/ SampleWaiters \/ Finished \/ UNCHANGED vars
  <2>1. UNCHANGED <<pc, pos, permits, avail, queue, waiters, open, idle, pass>>
    BY <1>4 DEF Interrupt, SamplePermits, SampleWaiters, Finished, vars,
                sessionVars, semVars, connVars, samplerVars, passVars
  <2>2. JoinedBeforeDrained'
    BY <2>1 DEF PassInv, JoinedBeforeDrained
  <2>. QED
    BY <1>3, <2>1, <2>2
<1>5. CASE DrainPool
  <2>1. UNCHANGED <<pc, pos, permits, avail, queue, waiters, open>> /\ idle' = <<>>
    BY <1>5 DEF DrainPool, sessionVars, semVars
  <2>2. JoinedBeforeDrained'
    BY <1>5, <2>1 DEF DrainPool, JoinedBeforeDrained
  <2>. QED
    BY <1>3, <2>1, <2>2
<1>6. CASE Report
  <2>1. UNCHANGED <<pc, pos, permits, avail, queue, waiters, open, idle>> /\ pass = "drained"
    BY <1>6 DEF Report, sessionVars, semVars, connVars
  <2>2. JoinedBeforeDrained'
    BY <2>1 DEF PassInv, JoinedBeforeDrained
  <2>. QED
    BY <1>3, <2>1, <2>2
<1>. QED
  BY <1>2, <1>4, <1>5, <1>6 DEF Next

\* The invariant holds throughout every pass.
THEOREM PassInvariant == Spec => []PassInv
<1>. QED
  BY InitInv, NextInv, PTL DEF Spec

\* The state of a pass is always well typed, and the event a session has at
\* hand is one its cursor delivered.
THEOREM TypeCorrect == Spec => []TypeOK
<1>1. PassInv => TypeOK
  BY DEF PassInv
<1>. QED
  BY <1>1, PassInvariant, PTL

\* run_pass never has more than connection_cap() connections, whatever the
\* sessions, the failures and the moment of an abort.
THEOREM CapRespected == Spec => []ConnectionCap
<1>1. PassInv => ConnectionCap
  BY DEF PassInv
<1>. QED
  BY <1>1, PassInvariant, PTL

\* Without --allow-writes no write is ever sent, and a session of writes alone
\* never connects.
THEOREM GateHolds == Spec => []WriteGate
<1>1. PassInv => WriteGate
  BY DEF PassInv
<1>. QED
  BY <1>1, PassInvariant, PTL

\* The waiters counter is exact on every path, cancelled acquires included.
THEOREM WaitersAreExact == Spec => []WaitersExact
<1>1. PassInv => WaitersExact
  BY DEF PassInv
<1>. QED
  BY <1>1, PassInvariant, PTL

\* A finished pass has returned every permit and closed every connection.
THEOREM NoLeaks == Spec => []NothingLeaks
<1>1. ASSUME PassInv PROVE NothingLeaks
  <2>. SUFFICES ASSUME pass = "reported"
                PROVE  /\ avail = Cap /\ permits = {} /\ queue = <<>> /\ waiters = 0
                       /\ open = {} /\ idle = <<>>
    BY DEF NothingLeaks
  <2>1. idle = <<>> /\ \A s \in Sessions : pc[s] = "done"
    BY <1>1 DEF PassInv, JoinedBeforeDrained
  <2>2. permits = {}
    BY <1>1, <2>1 DEF PassInv, TypeOK, SemTypes, SemInv, PermitsMatchLabels, Holding
  <2>3. open = {}
    BY <1>1, <2>1 DEF PassInv, TypeOK, ConnTypes, OpenMatchesLabels, Connected
  <2>4. avail = Cap
    BY <1>1, <2>2, FS_EmptySet, CapAssumption
       DEF PassInv, TypeOK, SemTypes, SemInv, PermitsConserved
  <2>5. waiters = 0
    <3>1. {s \in Sessions : pc[s] \in {"acquire", "queued", "polled", "permitted"}} = {}
      BY <2>1
    <3>. QED
      BY <1>1, <3>1, FS_EmptySet DEF PassInv, WaitersExact
  <2>6. queue = <<>>
    <3>1. queue \in Seq(Sessions) /\ Len(queue) \in Nat
      BY <1>1, LenProperties DEF PassInv, TypeOK, SemTypes
    <3>2. \A i \in 1 .. Len(queue) : queue[i] \in Sessions /\ pc[queue[i]] = "queued"
      BY <1>1, <3>1 DEF PassInv, SemInv, QueueWaits
    <3>3. Len(queue) = 0
      BY <2>1, <3>1, <3>2
    <3>. QED
      BY <3>1, <3>3, EmptySeq
  <2>. QED
    BY <2>1, <2>2, <2>3, <2>4, <2>5, <2>6
<1>. QED
  BY <1>1, PassInvariant, PTL

=============================================================================
