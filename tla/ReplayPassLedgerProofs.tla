----------------------- MODULE ReplayPassLedgerProofs -----------------------
(***************************************************************************)
(* Proofs about what a replay pass reports, for any capture, any cap and   *)
(* both modes: the event ledger, the abort mark, what an abort lets be     *)
(* sent, and the database a statement runs in.                             *)
(***************************************************************************)
EXTENDS ReplayPassProofs, Induction

-----------------------------------------------------------------------------
(* The event ledger.                                                       *)

\* The labels of InHand.
AtHand == {"first", "acquire", "queued", "polled", "permitted", "checkout", "connect",
           "due", "use", "exec"}

\* Events of a session recorded when its task is at label l and its cursor has
\* delivered n.
RecordedAt(l, n) == IF l \in AtHand THEN n - 1 ELSE n

(* The outcomes a statement can be counted under are finitely many, so their counts have a total. *)
LEMMA FiniteOutcomes == IsFiniteSet(Outcomes)
<1>1. Outcomes = {"executed"} \cup {"skipped"} \cup {"errors"} \cup {"not_run"}
  BY DEF Outcomes, Counters
<1>2. IsFiniteSet({"executed"} \cup {"skipped"} \cup {"errors"} \cup {"not_run"})
  BY FS_Singleton, FS_Union
<1>. QED
  BY <1>1, <1>2

\* Counting n more events of one kind adds n to the ledger.
LEMMA CountAdds ==
    ASSUME NEW m, NEW m2, NEW c \in Outcomes, NEW n \in Int,
           \A y \in Outcomes : m[y] \in Int,
           m2[c] = m[c] + n, \A y \in Outcomes \ {c} : m2[y] = m[y]
    PROVE  Total(m2, Outcomes) = Total(m, Outcomes) + n
<1>1. \A y \in Outcomes : m[y] \in Int /\ m2[y] \in Int
  OBVIOUS
<1>3. Total(m2, Outcomes) = Total(m, Outcomes) + m2[c] - m[c]
  <2>1. c \in Outcomes /\ \A y \in Outcomes \ {c} : m2[y] = m[y]
    OBVIOUS
  <2>. QED
    BY ONLY <1>1, <2>1, FiniteOutcomes, TotalUpdate
<1>4. Total(m, Outcomes) \in Int
  BY <1>1, FiniteOutcomes, TotalSplit
<1>. QED
  BY <1>3, <1>4

\* The counters before and after Count.
LEMMA CountChanges ==
    ASSUME TypeOK, NEW c \in Outcomes, NEW n \in Int, Count(c, n)
    PROVE  Total(metrics', Outcomes) = Total(metrics, Outcomes) + n
<1>1. metrics \in [Counters -> Nat] /\ Outcomes \subseteq Counters
  BY DEF TypeOK, RunTypes, Outcomes
<1>2. /\ \A y \in Outcomes : metrics[y] \in Int
      /\ metrics'[c] = metrics[c] + n
      /\ \A y \in Outcomes \ {c} : metrics'[y] = metrics[y]
  BY <1>1 DEF Count
<1>. QED
  BY <1>2, CountAdds

\* A session that moves to label l with n events delivered adds to the ledger
\* what it has recorded since.
LEMMA SessionAdds ==
    ASSUME TypeOK, NEW s \in Sessions, NEW l \in Labels, Goto(s, l),
           NEW n \in Nat, pos'[s] = n, \A t \in Sessions \ {s} : pos'[t] = pos[t]
    PROVE  Total(Recorded', Sessions) =
              Total(Recorded, Sessions) + RecordedAt(l, n) - RecordedAt(pc[s], pos[s])
<1>1. pc \in [Sessions -> Labels] /\ pos \in [Sessions -> Nat]
  BY DEF TypeOK, CursorTypes
<1>2. /\ \A t \in Sessions : Recorded[t] = RecordedAt(pc[t], pos[t])
      /\ \A t \in Sessions : Recorded'[t] = RecordedAt(pc'[t], pos'[t])
  BY DEF Recorded, RecordedAt, InHand, AtHand
<1>3. pc' = [pc EXCEPT ![s] = l]
  BY DEF Goto
<1>4. pc'[s] = l /\ pos'[s] = n /\ \A t \in Sessions \ {s} : pc'[t] = pc[t] /\ pos'[t] = pos[t]
  BY <1>1, <1>3
<1>5. \A t \in Sessions : Recorded[t] \in Int /\ Recorded'[t] \in Int
  <2>1. \A t \in Sessions : pos[t] \in Nat /\ pos'[t] \in Nat
    BY <1>1
  <2>. QED
    BY <1>2, <2>1 DEF RecordedAt
<1>6. \A t \in Sessions \ {s} : Recorded'[t] = Recorded[t]
  BY <1>2, <1>4
<1>. HIDE DEF Recorded
<1>7. Total(Recorded', Sessions) = Total(Recorded, Sessions) + Recorded'[s] - Recorded[s]
  BY <1>5, <1>6, SessionsAssumption, TotalUpdate
<1>. QED
  BY <1>2, <1>4, <1>7

\* The step of a session keeps the ledger if it counts what it records and ends
\* only with its cursor at the end or its spool failed.
LEMMA LedgerMoves ==
    ASSUME TypeOK, CursorsRun, EveryEventCounted,
           NEW s \in Sessions, NEW l \in Labels, Goto(s, l), l # "start",
           NEW n \in Nat, pos'[s] = n, \A t \in Sessions \ {s} : pos'[t] = pos[t],
           lost \subseteq lost',
           NEW d \in Int, Total(metrics', Outcomes) = Total(metrics, Outcomes) + d,
           RecordedAt(l, n) = RecordedAt(pc[s], pos[s]) + d,
           l \in Ended => s \in lost' \/ n = Len(Events[s])
    PROVE  CursorsRun' /\ EveryEventCounted'
<1>1. pc \in [Sessions -> Labels] /\ pos \in [Sessions -> Nat] /\ pc' = [pc EXCEPT ![s] = l]
  BY DEF TypeOK, CursorTypes, Goto
<1>2. CursorsRun'
  BY <1>1 DEF CursorsRun, Ended
<1>3. Total(metrics', Outcomes) = Total(Recorded', Sessions)
  <2>1. Total(Recorded', Sessions) =
            Total(Recorded, Sessions) + RecordedAt(l, n) - RecordedAt(pc[s], pos[s])
    BY SessionAdds
  <2>2. Total(metrics, Outcomes) = Total(Recorded, Sessions)
    BY DEF EveryEventCounted
  <2>3. Total(metrics, Outcomes) \in Int
    <3>1. \A c \in Outcomes : metrics[c] \in Int
      BY DEF TypeOK, RunTypes, Outcomes
    <3>. QED
      BY <3>1, FiniteOutcomes, TotalSplit
  <2>4. RecordedAt(pc[s], pos[s]) \in Int
    BY <1>1 DEF RecordedAt
  <2>. QED
    BY <2>1, <2>2, <2>3, <2>4
<1>4. \A t \in Sessions \ lost' : pc'[t] = "done" => pos'[t] = Len(Events[t])
  BY <1>2 DEF CursorsRun, Ended
<1>. QED
  BY <1>2, <1>3, <1>4 DEF EveryEventCounted
\* A step that neither reads nor records an event.
LEMMA LedgerQuiet ==
    ASSUME TypeOK, CursorsRun, EveryEventCounted,
           NEW s \in Sessions, NEW l \in Labels, Goto(s, l), l # "start",
           UNCHANGED <<pos, lost, metrics>>,
           pc[s] \in AtHand <=> l \in AtHand, l \in Ended => pc[s] \in Ended
    PROVE  CursorsRun' /\ EveryEventCounted'
<1>1. pos[s] \in Nat /\ \A t \in Sessions : pos'[t] = pos[t]
  BY DEF TypeOK, CursorTypes
<1>2. Total(metrics', Outcomes) = Total(metrics, Outcomes) + 0
  <2>1. \A c \in Outcomes : metrics[c] \in Int
    BY DEF TypeOK, RunTypes, Outcomes
  <2>2. Total(metrics, Outcomes) \in Int
    BY <2>1, FiniteOutcomes, TotalSplit
  <2>. QED
    BY <2>2
<1>3. RecordedAt(l, pos[s]) = RecordedAt(pc[s], pos[s]) + 0
  BY <1>1 DEF RecordedAt
<1>4. l \in Ended => s \in lost' \/ pos[s] = Len(Events[s])
  BY DEF CursorsRun
<1>. QED
  BY <1>1, <1>2, <1>3, <1>4, LedgerMoves

\* The event at hand is recorded.
LEMMA LedgerRecord ==
    ASSUME TypeOK, CursorsRun, EveryEventCounted,
           NEW s \in Sessions, NEW l \in {"next", "release"}, Goto(s, l), l \notin Ended,
           pc[s] \in AtHand, UNCHANGED <<pos, lost>>,
           NEW c \in Outcomes, Count(c, 1)
    PROVE  CursorsRun' /\ EveryEventCounted'
<1>1. pos[s] \in Nat /\ l \in Labels /\ l # "start" /\ \A t \in Sessions : pos'[t] = pos[t]
  BY DEF TypeOK, CursorTypes, Labels
<1>2. Total(metrics', Outcomes) = Total(metrics, Outcomes) + 1
  BY CountChanges
<1>3. RecordedAt(l, pos[s]) = RecordedAt(pc[s], pos[s]) + 1
  BY <1>1 DEF RecordedAt, AtHand
<1>. QED
  BY <1>1, <1>2, <1>3, LedgerMoves

\* The rest of a session is recorded at once, after `here` events its caller
\* had at hand.
LEMMA LedgerDrain ==
    ASSUME TypeOK, CursorsRun, EveryEventCounted,
           NEW s \in Sessions, NEW l \in {"closing", "done"}, Goto(s, l),
           NEW c \in Outcomes, DrainRecording(s, c, IF pc[s] \in AtHand THEN 1 ELSE 0)
    PROVE  CursorsRun' /\ EveryEventCounted'
<1>. DEFINE here == IF pc[s] \in AtHand THEN 1 ELSE 0
<1>1. PICK end \in DrainEnds(s) :
          /\ pos' = [pos EXCEPT ![s] = end]
          /\ lost' = IF end < Len(Events[s]) THEN lost \cup {s} ELSE lost
          /\ Count(c, here + end - pos[s])
  BY DEF DrainRecording
<1>2. end \in Nat /\ pos[s] \in Nat /\ end <= Len(Events[s]) /\ Len(Events[s]) \in Nat
  BY DrainEndsType, EventsAssumption DEF TypeOK
<1>3. Total(metrics', Outcomes) = Total(metrics, Outcomes) + (here + end - pos[s])
  <2>1. here + end - pos[s] \in Int
    BY <1>2
  <2>. QED
    BY <1>1, <2>1, CountChanges
<1>4. RecordedAt(l, end) = RecordedAt(pc[s], pos[s]) + (here + end - pos[s])
  BY <1>2 DEF RecordedAt, AtHand
<1>5. l \in Labels /\ l # "start" /\ lost \subseteq lost' /\ (s \in lost' \/ end = Len(Events[s]))
  BY <1>1, <1>2 DEF Labels
<1>6. here + end - pos[s] \in Int
  BY <1>2
<1>7. pos'[s] = end /\ \A t \in Sessions \ {s} : pos'[t] = pos[t]
  BY <1>1 DEF TypeOK, CursorTypes
<1>. HIDE DEF here
<1>. QED
  BY <1>2, <1>3, <1>4, <1>5, <1>6, <1>7, LedgerMoves

\* A connection is not made, or lost: the event at hand is recorded, and the
\* rest of a dedicated session as not run.
LEMMA LedgerGiveUp ==
    ASSUME TypeOK, CursorsRun, EveryEventCounted,
           NEW s \in Sessions, Goto(s, "release"), pc[s] \in AtHand,
           NEW end \in (IF Pooled THEN {pos[s]} ELSE DrainEnds(s)),
           pos' = [pos EXCEPT ![s] = end],
           lost' = IF ~Pooled /\ end < Len(Events[s]) THEN lost \cup {s} ELSE lost,
           Total(metrics', Outcomes) = Total(metrics, Outcomes) + (1 + end - pos[s])
    PROVE  CursorsRun' /\ EveryEventCounted'
<1>1. end \in Nat /\ pos[s] \in Nat /\ (~Pooled => end <= Len(Events[s])) /\ Len(Events[s]) \in Nat
  <2>1. pos[s] \in Nat /\ Len(Events[s]) \in Nat
    BY EventsAssumption DEF TypeOK, CursorTypes
  <2>2. ~Pooled => end \in Nat /\ end <= Len(Events[s])
    BY DrainEndsType DEF TypeOK
  <2>. QED
    BY <2>1, <2>2
<1>2. RecordedAt("release", end) = RecordedAt(pc[s], pos[s]) + (1 + end - pos[s])
  BY <1>1 DEF RecordedAt, AtHand
<1>3. "release" \in Ended => s \in lost' \/ end = Len(Events[s])
  BY <1>1 DEF Ended
<1>4. "release" \in Labels /\ lost \subseteq lost' /\ 1 + end - pos[s] \in Int
  BY <1>1 DEF Labels
<1>5. pos'[s] = end /\ \A t \in Sessions \ {s} : pos'[t] = pos[t]
  BY DEF TypeOK, CursorTypes
<1>. QED
  BY <1>1, <1>2, <1>3, <1>4, <1>5, LedgerMoves

\* Every step of a session keeps the ledger.
LEMMA LedgerStep ==
    ASSUME TypeOK, CursorsRun, EveryEventCounted, NEW s \in Sessions, Step(s)
    PROVE  CursorsRun' /\ EveryEventCounted'
<1>. USE FlagAssumption
<1>. DEFINE Kept == CursorsRun' /\ EveryEventCounted'
<1>0. {"executed", "skipped", "errors", "not_run"} \subseteq Outcomes
  BY DEF Outcomes, Counters
<1>1. ASSUME WaitUntilDue(s) PROVE Kept
  <2>1. \E l \in Labels :
          /\ Goto(s, l) /\ l # "start"
          /\ pc[s] \in AtHand <=> l \in AtHand
          /\ l \in Ended => pc[s] \in Ended
    BY <1>1 DEF WaitUntilDue, Labels, AtHand, Ended
  <2>2. UNCHANGED <<pos, lost, metrics>>
    BY <1>1 DEF WaitUntilDue
  <2>. QED
    BY <2>1, <2>2, LedgerQuiet
<1>2. ASSUME PollAcquire(s) PROVE Kept
  <2>1. \E l \in Labels :
          /\ Goto(s, l) /\ l # "start"
          /\ pc[s] \in AtHand <=> l \in AtHand
          /\ l \in Ended => pc[s] \in Ended
    BY <1>2 DEF PollAcquire, TryAcquire, Labels, AtHand, Ended
  <2>2. UNCHANGED <<pos, lost, metrics>>
    BY <1>2 DEF PollAcquire
  <2>. QED
    BY <2>1, <2>2, LedgerQuiet
<1>3. ASSUME PollFlag(s) PROVE Kept
  <2>1. \E l \in Labels :
          /\ Goto(s, l) /\ l # "start"
          /\ pc[s] \in AtHand <=> l \in AtHand
          /\ l \in Ended => pc[s] \in Ended
    BY <1>3 DEF PollFlag, AsksForPermit, Labels, AtHand, Ended
  <2>2. UNCHANGED <<pos, lost, metrics>>
    BY <1>3 DEF PollFlag
  <2>. QED
    BY <2>1, <2>2, LedgerQuiet
<1>4. ASSUME StopWaiting(s) PROVE Kept
  <2>1. \E l \in Labels :
          /\ Goto(s, l) /\ l # "start"
          /\ pc[s] \in AtHand <=> l \in AtHand
          /\ l \in Ended => pc[s] \in Ended
    BY <1>4 DEF StopWaiting, Labels, AtHand, Ended
  <2>2. UNCHANGED <<pos, lost, metrics>>
    BY <1>4 DEF StopWaiting
  <2>. QED
    BY <2>1, <2>2, LedgerQuiet
<1>5. ASSUME Checkout(s) PROVE Kept
  <2>1. \E l \in Labels :
          /\ Goto(s, l) /\ l # "start"
          /\ pc[s] \in AtHand <=> l \in AtHand
          /\ l \in Ended => pc[s] \in Ended
    BY <1>5 DEF Checkout, Labels, AtHand, Ended
  <2>2. UNCHANGED <<pos, lost, metrics>>
    BY <1>5 DEF Checkout
  <2>. QED
    BY <2>1, <2>2, LedgerQuiet
<1>6. ASSUME ConnectOk(s) PROVE Kept
  <2>1. \E l \in Labels :
          /\ Goto(s, l) /\ l # "start"
          /\ pc[s] \in AtHand <=> l \in AtHand
          /\ l \in Ended => pc[s] \in Ended
    BY <1>6 DEF ConnectOk, Labels, AtHand, Ended
  <2>2. UNCHANGED <<pos, lost, metrics>>
    BY <1>6 DEF ConnectOk
  <2>. QED
    BY <2>1, <2>2, LedgerQuiet
<1>7. ASSUME UseOk(s) PROVE Kept
  <2>1. \E l \in Labels :
          /\ Goto(s, l) /\ l # "start"
          /\ pc[s] \in AtHand <=> l \in AtHand
          /\ l \in Ended => pc[s] \in Ended
    BY <1>7 DEF UseOk, Labels, AtHand, Ended
  <2>2. UNCHANGED <<pos, lost, metrics>>
    BY <1>7 DEF UseOk
  <2>. QED
    BY <2>1, <2>2, LedgerQuiet
<1>8. ASSUME Disconnect(s) PROVE Kept
  <2>1. \E l \in Labels :
          /\ Goto(s, l) /\ l # "start"
          /\ pc[s] \in AtHand <=> l \in AtHand
          /\ l \in Ended => pc[s] \in Ended
    BY <1>8 DEF Disconnect, Labels, AtHand, Ended
  <2>2. UNCHANGED <<pos, lost, metrics>>
    BY <1>8 DEF Disconnect
  <2>. QED
    BY <2>1, <2>2, LedgerQuiet
<1>9. ASSUME DropPermit(s) PROVE Kept
  <2>1. \E l \in Labels :
          /\ Goto(s, l) /\ l # "start"
          /\ pc[s] \in AtHand <=> l \in AtHand
          /\ l \in Ended => pc[s] \in Ended
    BY <1>9 DEF DropPermit, Labels, AtHand, Ended
  <2>2. UNCHANGED <<pos, lost, metrics>>
    BY <1>9 DEF DropPermit
  <2>. QED
    BY <2>1, <2>2, LedgerQuiet
<1>10. ASSUME Pace(s) PROVE Kept
  <2>1. pc[s] = "due" /\ UNCHANGED <<pos, lost>>
    BY <1>10 DEF Pace
  <2>2. CASE ~ShouldExecute(Ev(s)) \/ SkipsUse(Ev(s))
    <3>1. Count("skipped", 1) /\ Goto(s, "next")
      BY <1>10, <2>2 DEF Pace
    <3>2. "next" \notin Ended /\ pc[s] \in AtHand
      BY <2>1 DEF Ended, AtHand
    <3>. QED
      BY <1>0, <2>1, <3>1, <3>2, LedgerRecord
  <2>3. CASE ~(~ShouldExecute(Ev(s)) \/ SkipsUse(Ev(s)))
    <3>1. \E l \in {"acquire", "use", "exec"} : Goto(s, l) /\ UNCHANGED metrics
      BY <1>10, <2>3 DEF Pace
    <3>2. \A l \in {"acquire", "use", "exec"} :
            l \in Labels /\ l # "start" /\ l \in AtHand /\ l \notin Ended /\ pc[s] \in AtHand
      BY <2>1 DEF Labels, AtHand, Ended
    <3>. QED
      BY <2>1, <3>1, <3>2, LedgerQuiet
  <2>. QED
    BY <2>2, <2>3
<1>11. ASSUME QueryOk(s) PROVE Kept
  <2>1. /\ pc[s] \in AtHand /\ UNCHANGED <<pos, lost>> /\ Count("executed", 1)
        /\ Goto(s, IF Pooled THEN "release" ELSE "next")
    BY <1>11 DEF QueryOk, KeepConn, AtHand
  <2>2. (IF Pooled THEN "release" ELSE "next") \in {"next", "release"} \ Ended
    BY DEF Ended
  <2>. QED
    BY <1>0, <2>1, <2>2, LedgerRecord
<1>12. ASSUME QueryFails(s) PROVE Kept
  <2>1. /\ pc[s] \in AtHand /\ UNCHANGED <<pos, lost>> /\ Count("errors", 1)
        /\ Goto(s, IF Pooled THEN "release" ELSE "next")
    BY <1>12 DEF QueryFails, KeepConn, AtHand
  <2>2. (IF Pooled THEN "release" ELSE "next") \in {"next", "release"} \ Ended
    BY DEF Ended
  <2>. QED
    BY <1>0, <2>1, <2>2, LedgerRecord
<1>13. ASSUME StartSkipped(s) PROVE Kept
  <2>1. DrainRecording(s, "skipped", 0) /\ 0 = IF pc[s] \in AtHand THEN 1 ELSE 0
    BY <1>13 DEF StartSkipped, AtHand
  <2>2. \E l \in {"closing", "done"} : Goto(s, l)
    BY <1>13 DEF StartSkipped
  <2>. QED
    BY <1>0, <2>1, <2>2, LedgerDrain
<1>14. ASSUME AbortDue(s) PROVE Kept
  <2>1. DrainRecording(s, "not_run", 1) /\ 1 = IF pc[s] \in AtHand THEN 1 ELSE 0
    BY <1>14 DEF AbortDue, AtHand
  <2>2. \E l \in {"closing", "done"} : Goto(s, l)
    BY <1>14 DEF AbortDue, EndLabel
  <2>. QED
    BY <1>0, <2>1, <2>2, LedgerDrain
<1>15. ASSUME AbortAcquire(s) PROVE Kept
  <2>1. DrainRecording(s, "not_run", 1) /\ 1 = IF pc[s] \in AtHand THEN 1 ELSE 0
    BY <1>15 DEF AbortAcquire, AtHand
  <2>2. \E l \in {"closing", "done"} : Goto(s, l)
    BY <1>15 DEF AbortAcquire
  <2>. QED
    BY <1>0, <2>1, <2>2, LedgerDrain
<1>16. ASSUME ConnectFails(s) PROVE Kept
  <2>1. PICK end \in (IF Pooled THEN {pos[s]} ELSE DrainEnds(s)) :
          /\ pos' = [pos EXCEPT ![s] = end]
          /\ lost' = IF ~Pooled /\ end < Len(Events[s]) THEN lost \cup {s} ELSE lost
          /\ metrics' = [metrics EXCEPT !["connect_failures"] = @ + 1,
                                         !["not_run"] = @ + 1 + end - pos[s]]
    BY <1>16 DEF ConnectFails
  <2>2. Goto(s, "release") /\ pc[s] \in AtHand
    BY <1>16 DEF ConnectFails, AtHand
  <2>3. end \in Int /\ pos[s] \in Int
    BY DrainEndsType DEF TypeOK, CursorTypes
  <2>4. metrics \in [Counters -> Nat] /\ Outcomes = {"executed", "skipped", "errors", "not_run"}
    BY DEF TypeOK, RunTypes, Outcomes, Counters
  <2>5. /\ \A y \in Outcomes : metrics[y] \in Int
        /\ metrics'["not_run"] = metrics["not_run"] + (1 + end - pos[s])
        /\ \A y \in Outcomes \ {"not_run"} : metrics'[y] = metrics[y]
    <3>1. \A y \in Outcomes : y \in Counters /\ y # "connect_failures"
      BY <2>4 DEF Counters
    <3>2. metrics["not_run"] \in Int /\ metrics'["not_run"] = metrics["not_run"] + 1 + end - pos[s]
      BY <2>1, <2>4, <1>0, <3>1
    <3>3. \A y \in Outcomes \ {"not_run"} : metrics'[y] = metrics[y]
      BY <2>1, <2>4, <3>1
    <3>4. metrics["not_run"] + 1 + end - pos[s] = metrics["not_run"] + (1 + end - pos[s])
      BY <2>3, <3>2
    <3>5. \A y \in Outcomes : metrics[y] \in Int
      BY <2>4, <3>1
    <3>. QED
      BY <3>2, <3>3, <3>4, <3>5
  <2>6. Total(metrics', Outcomes) = Total(metrics, Outcomes) + (1 + end - pos[s])
    <3>1. 1 + end - pos[s] \in Int
      BY <2>3
    <3>. QED
      BY <1>0, <2>5, <3>1, CountAdds
  <2>. QED
    BY <2>1, <2>2, <2>6, LedgerGiveUp
<1>17. ASSUME QueryFatal(s) PROVE Kept
  <2>1. PICK end \in (IF Pooled THEN {pos[s]} ELSE DrainEnds(s)) :
          /\ pos' = [pos EXCEPT ![s] = end]
          /\ lost' = IF ~Pooled /\ end < Len(Events[s]) THEN lost \cup {s} ELSE lost
          /\ metrics' = [metrics EXCEPT !["errors"] = @ + 1,
                                         !["not_run"] = @ + end - pos[s]]
    BY <1>17 DEF QueryFatal
  <2>2. Goto(s, "release") /\ pc[s] \in AtHand
    BY <1>17 DEF QueryFatal, AtHand
  <2>3. end \in Int /\ pos[s] \in Int
    BY DrainEndsType DEF TypeOK, CursorTypes
  <2>4. metrics \in [Counters -> Nat] /\ Outcomes = {"executed", "skipped", "errors", "not_run"}
    BY DEF TypeOK, RunTypes, Outcomes, Counters
  <2>5. Total(metrics', Outcomes) = Total(metrics, Outcomes) + 1 + (end - pos[s])
    <3>. DEFINE m == [metrics EXCEPT !["errors"] = @ + 1]
    <3>1. /\ \A y \in Outcomes : metrics[y] \in Int
          /\ m["errors"] = metrics["errors"] + 1
          /\ \A y \in Outcomes \ {"errors"} : m[y] = metrics[y]
      BY <2>4 DEF Counters
    <3>2. /\ \A y \in Outcomes : m[y] \in Int
          /\ metrics'["not_run"] = m["not_run"] + (end - pos[s])
          /\ \A y \in Outcomes \ {"not_run"} : metrics'[y] = m[y]
      BY <2>1, <2>3, <2>4 DEF Counters
    <3>. HIDE DEF m
    <3>3. Total(m, Outcomes) = Total(metrics, Outcomes) + 1
      BY <1>0, <3>1, CountAdds
    <3>4. end - pos[s] \in Int
      BY <2>3
    <3>5. Total(metrics', Outcomes) = Total(m, Outcomes) + (end - pos[s])
      BY <1>0, <3>2, <3>4, CountAdds
    <3>. QED
      BY <3>3, <3>5
  <2>6. Total(metrics', Outcomes) = Total(metrics, Outcomes) + (1 + end - pos[s])
    <3>1. Total(metrics, Outcomes) \in Int
      BY <2>4, FiniteOutcomes, TotalSplit DEF Counters
    <3>. QED
      BY <2>3, <2>5, <3>1
  <2>. QED
    BY <2>1, <2>2, <2>6, LedgerGiveUp
<1>18. ASSUME StartSession(s) PROVE Kept
  <2>1. pc[s] = "start" /\ pos[s] = 0 /\ UNCHANGED metrics
    BY <1>18 DEF StartSession, CursorsRun
  <2>2. CASE Pooled
    <3>1. Goto(s, "next") /\ UNCHANGED <<pos, lost>>
      BY <1>18, <2>2 DEF StartSession
    <3>. QED
      BY <2>1, <3>1, LedgerQuiet DEF Labels, AtHand, Ended
  <2>3. CASE ~Pooled /\ pos' = [pos EXCEPT ![s] = 1] /\ Goto(s, "first") /\ UNCHANGED lost
    <3>1. Total(metrics', Outcomes) = Total(metrics, Outcomes) + 0
      <4>1. \A c \in Outcomes : metrics[c] \in Int
        BY DEF TypeOK, RunTypes, Outcomes
      <4>2. Total(metrics, Outcomes) \in Int
        BY <4>1, FiniteOutcomes, TotalSplit
      <4>. QED
        BY <2>1, <4>2
    <3>2. pos'[s] = 1 /\ \A t \in Sessions \ {s} : pos'[t] = pos[t]
      BY <2>3 DEF TypeOK, CursorTypes
    <3>3. RecordedAt("first", 1) = RecordedAt(pc[s], pos[s]) + 0
      BY <2>1 DEF RecordedAt, AtHand
    <3>4. "first" \in Labels /\ "first" \notin Ended
      BY DEF Labels, Ended
    <3>. QED
      BY <2>3, <3>1, <3>2, <3>3, <3>4, LedgerMoves
  <2>4. CASE ~Pooled /\ lost' = lost \cup {s} /\ Goto(s, "done") /\ UNCHANGED pos
    <3>1. Total(metrics', Outcomes) = Total(metrics, Outcomes) + 0
      <4>1. \A c \in Outcomes : metrics[c] \in Int
        BY DEF TypeOK, RunTypes, Outcomes
      <4>2. Total(metrics, Outcomes) \in Int
        BY <4>1, FiniteOutcomes, TotalSplit
      <4>. QED
        BY <2>1, <4>2
    <3>2. pos'[s] = 0 /\ \A t \in Sessions \ {s} : pos'[t] = pos[t]
      BY <2>1, <2>4
    <3>3. RecordedAt("done", 0) = RecordedAt(pc[s], pos[s]) + 0
      BY <2>1 DEF RecordedAt, AtHand
    <3>4. "done" \in Labels /\ s \in lost' /\ lost \subseteq lost'
      BY <2>4 DEF Labels
    <3>. QED
      BY <2>4, <3>1, <3>2, <3>3, <3>4, LedgerMoves
  <2>. QED
    BY <1>18, <2>2, <2>3, <2>4 DEF StartSession
<1>19. ASSUME NextEvent(s) PROVE Kept
  <2>1. pc[s] = "next" /\ UNCHANGED metrics /\ pos[s] \in Nat
    BY <1>19 DEF NextEvent, TypeOK, CursorTypes
  <2>2. Total(metrics', Outcomes) = Total(metrics, Outcomes) + 0
    <3>1. \A c \in Outcomes : metrics[c] \in Int
      BY DEF TypeOK, RunTypes, Outcomes
    <3>2. Total(metrics, Outcomes) \in Int
      BY <3>1, FiniteOutcomes, TotalSplit
    <3>. QED
      BY <2>1, <3>2
  <2>3. EndLabel \in Labels /\ EndLabel \notin AtHand /\ EndLabel # "start"
    BY DEF EndLabel, Labels, AtHand
  <2>4. CASE pos' = [pos EXCEPT ![s] = @ + 1] /\ Goto(s, "due") /\ UNCHANGED lost
    <3>1. pos'[s] = pos[s] + 1 /\ \A t \in Sessions \ {s} : pos'[t] = pos[t]
      BY <2>4 DEF TypeOK, CursorTypes
    <3>2. RecordedAt("due", pos[s] + 1) = RecordedAt(pc[s], pos[s]) + 0
      BY <2>1 DEF RecordedAt, AtHand
    <3>3. "due" \in Labels /\ "due" \notin Ended /\ pos[s] + 1 \in Nat
      BY <2>1 DEF Labels, Ended
    <3>. QED
      BY <2>2, <2>4, <3>1, <3>2, <3>3, LedgerMoves
  <2>5. CASE /\ pos[s] = Len(Events[s]) \/ s \in lost'
             /\ lost \subseteq lost' /\ Goto(s, EndLabel) /\ UNCHANGED pos
    <3>1. \A t \in Sessions : pos'[t] = pos[t]
      BY <2>5
    <3>2. RecordedAt(EndLabel, pos[s]) = RecordedAt(pc[s], pos[s]) + 0
      BY <2>1, <2>3 DEF RecordedAt, AtHand
    <3>. QED
      BY <2>1, <2>2, <2>3, <2>5, <3>1, <3>2, LedgerMoves
  <2>. QED
    BY <1>19, <2>4, <2>5 DEF NextEvent
<1>. QED
  BY <1>1, <1>2, <1>3, <1>4, <1>5, <1>6, <1>7, <1>8, <1>9, <1>10, <1>11, <1>12, <1>13, <1>14, <1>15, <1>16, <1>17, <1>18, <1>19 DEF Step

-----------------------------------------------------------------------------
(* What was not run, and why.                                              *)

\* A session's step gives events up only when it sees the abort or loses a
\* connection, and counts the loss.
LEMMA CauseStep ==
    ASSUME TypeOK, NotRunHasCause, JoinedBeforeDrained, NEW s \in Sessions, Step(s)
    PROVE  NotRunHasCause'
<1>. USE FlagAssumption
<1>1. metrics \in [Counters -> Nat]
  BY DEF TypeOK, RunTypes
<1>2. pass = "running" /\ UNCHANGED <<pass, aborted, shutdown>>
  <2>1. pc[s] # "done" /\ UNCHANGED <<pass, aborted, shutdown>>
    BY DEF Step, StartSkipped, StartSession, NextEvent, WaitUntilDue, Pace, AbortDue, PollAcquire,
       PollFlag, AsksForPermit, AbortAcquire, StopWaiting, Checkout, ConnectOk, ConnectFails, UseOk,
       QueryOk, QueryFails, QueryFatal, Disconnect, DropPermit, passVars
  <2>. QED
    BY <2>1 DEF JoinedBeforeDrained
<1>. DEFINE Cause == metrics'["not_run"] > 0 =>
                        \/ shutdown' \/ metrics'["errors"] > 0 \/ metrics'["connect_failures"] > 0
<1>3. CASE UNCHANGED metrics \/ \E c \in {"executed", "skipped", "errors"}, n \in Nat : Count(c, n)
  <2>1. /\ metrics'["not_run"] = metrics["not_run"]
        /\ metrics'["errors"] >= metrics["errors"]
        /\ metrics'["connect_failures"] = metrics["connect_failures"]
    BY <1>1, <1>3 DEF Count, Counters
  <2>2. metrics["errors"] \in Nat /\ metrics'["errors"] \in Int
    BY <1>1, <1>3 DEF Count, Counters
  <2>. QED
    BY <1>2, <2>1, <2>2 DEF NotRunHasCause
<1>4. CASE shutdown
  BY <1>2, <1>4 DEF NotRunHasCause
<1>5. CASE metrics'["errors"] > 0 \/ metrics'["connect_failures"] > 0
  BY <1>2, <1>5 DEF NotRunHasCause
<1>6. CASE StartSkipped(s)
  <2>1. PICK end \in DrainEnds(s) : Count("skipped", 0 + end - pos[s])
    BY <1>6 DEF StartSkipped, DrainRecording
  <2>2. 0 + end - pos[s] \in Nat
    BY DrainEndsType DEF TypeOK
  <2>. QED
    BY <1>3, <2>1, <2>2
<1>7. CASE AbortDue(s) \/ AbortAcquire(s)
  BY <1>4, <1>7 DEF AbortDue, AbortAcquire
<1>8. CASE ConnectFails(s)
  <2>1. metrics'["connect_failures"] = metrics["connect_failures"] + 1
    BY <1>1, <1>8 DEF ConnectFails, Counters
  <2>2. metrics["connect_failures"] \in Nat
    BY <1>1 DEF Counters
  <2>. QED
    BY <1>5, <2>1, <2>2
<1>9. CASE QueryFatal(s)
  <2>1. metrics'["errors"] = metrics["errors"] + 1
    BY <1>1, <1>9 DEF QueryFatal, Counters
  <2>2. metrics["errors"] \in Nat
    BY <1>1 DEF Counters
  <2>. QED
    BY <1>5, <2>1, <2>2
<1>10. CASE Pace(s)
  BY <1>3, <1>10 DEF Pace
<1>11. CASE QueryOk(s) \/ QueryFails(s)
  BY <1>3, <1>11 DEF QueryOk, QueryFails
<1>12. CASE StartSession(s) \/ NextEvent(s) \/ WaitUntilDue(s) \/ PollAcquire(s) \/ PollFlag(s)
            \/ StopWaiting(s) \/ Checkout(s) \/ ConnectOk(s) \/ UseOk(s) \/ Disconnect(s)
            \/ DropPermit(s)
  BY <1>3, <1>12 DEF StartSession, NextEvent, WaitUntilDue, PollAcquire, PollFlag,
     StopWaiting, Checkout, ConnectOk, UseOk, Disconnect, DropPermit
<1>. QED
  BY <1>6, <1>7, <1>8, <1>9, <1>10, <1>11, <1>12 DEF Step

-----------------------------------------------------------------------------
(* The ledger invariant.                                                   *)

LEMMA LedgerInit == Init => LedgerInv
<1>. SUFFICES ASSUME Init PROVE LedgerInv
  OBVIOUS
<1>1. CursorsRun
  BY DEF Init, CursorsRun, Ended
<1>2. EveryEventCounted
  <2>1. Total(metrics, Outcomes) = 0
    <3>1. \A c \in Outcomes : metrics[c] = 0
      BY DEF Init, Outcomes
    <3>. QED
      BY <3>1, FiniteOutcomes, TotalZero
  <2>2. Total(Recorded, Sessions) = 0
    <3>1. \A s \in Sessions : Recorded[s] = 0
      BY DEF Init, Recorded, InHand
    <3>. QED
      BY <3>1, SessionsAssumption, TotalZero
  <2>. QED
    BY <2>1, <2>2 DEF Init, EveryEventCounted
<1>3. NotRunHasCause
  BY DEF Init, NotRunHasCause, Counters
<1>. QED
  BY <1>1, <1>2, <1>3 DEF LedgerInv

(* Every step of a pass, of any session task, connection, sampler or abort, keeps the ledger. *)
LEMMA LedgerNext == PassInv /\ LedgerInv /\ [Next]_vars => LedgerInv'
<1>. SUFFICES ASSUME PassInv, LedgerInv, [Next]_vars PROVE LedgerInv'
  OBVIOUS
<1>1. ASSUME NEW s \in Sessions, Step(s) PROVE LedgerInv'
  BY <1>1, LedgerStep, CauseStep DEF PassInv, LedgerInv
<1>2. ASSUME UNCHANGED <<sessionVars, metrics>> PROVE CursorsRun' /\ EveryEventCounted'
  <2>1. UNCHANGED <<pc, pos, lost, metrics>>
    BY <1>2 DEF sessionVars
  <2>2. Recorded' = Recorded
    BY <2>1 DEF Recorded, InHand
  <2>. QED
    BY <2>1, <2>2 DEF LedgerInv, CursorsRun, EveryEventCounted
<1>3. CASE Interrupt
  <2>1. NotRunHasCause'
    BY <1>3 DEF Interrupt, NotRunHasCause, LedgerInv, passVars
  <2>. QED
    BY <1>2, <1>3, <2>1 DEF Interrupt, LedgerInv
<1>4. CASE SamplePermits \/ SampleWaiters
  <2>1. NotRunHasCause'
    BY <1>4 DEF SamplePermits, SampleWaiters, NotRunHasCause, LedgerInv, passVars
  <2>. QED
    BY <1>2, <1>4, <2>1 DEF SamplePermits, SampleWaiters, LedgerInv
<1>5. CASE DrainPool \/ Report
  <2>1. NotRunHasCause'
    BY <1>5 DEF DrainPool, Report, NotRunHasCause, LedgerInv
  <2>. QED
    BY <1>2, <1>5, <2>1 DEF DrainPool, Report, LedgerInv
<1>6. CASE UNCHANGED vars
  <2>1. NotRunHasCause'
    BY <1>6 DEF vars, NotRunHasCause, LedgerInv, passVars
  <2>. QED
    BY <1>2, <1>6, <2>1 DEF vars, LedgerInv
<1>. QED
  BY <1>1, <1>3, <1>4, <1>5, <1>6 DEF Next, Finished

\* The ledger balances in every state of every pass.
THEOREM LedgerInvariant == Spec => []LedgerInv
<1>. QED
  BY LedgerInit, LedgerNext, PassInvariant, PTL DEF Spec

\* Metrics: every event that was read is recorded exactly once, whatever path its
\* session took, and a session ends with all its events read unless its spool
\* failed.
THEOREM EventsCounted == Spec => []EveryEventCounted
<1>1. LedgerInv => EveryEventCounted
  BY DEF LedgerInv
<1>. QED
  BY <1>1, LedgerInvariant, PTL

\* run_pass: a report that is not marked aborted has no event cut off by an
\* abort, however late the signal came.
THEOREM AbortReported == Spec => []AbortIsReported
<1>1. LedgerInv => AbortIsReported
  BY DEF LedgerInv, NotRunHasCause, AbortIsReported
<1>. QED
  BY <1>1, LedgerInvariant, PTL

-----------------------------------------------------------------------------
(* What an abort lets be sent.                                             *)

\* The labels of Sending, and of Cleared.
SendLabels == {"use", "exec"} \cup (IF Pooled THEN {"permitted", "checkout", "connect"} ELSE {})
ClearLabels == SendLabels \cup (IF Pooled THEN {"polled"} ELSE {})

\* Who is sending holds a permit, so there are no more of them than the cap.
LEMMA SendingHoldsPermit == PassInv => Cardinality(Sending) <= Cap
<1>. SUFFICES ASSUME PassInv PROVE Cardinality(Sending) <= Cap
  OBVIOUS
<1>1. /\ pc \in [Sessions -> Labels] /\ permits \subseteq Sessions /\ avail \in Nat
      /\ PermitsMatchLabels /\ PermitsConserved
  BY DEF PassInv, TypeOK, CursorTypes, SemTypes, SemInv
<1>2. Sending \subseteq permits
  BY <1>1 DEF Sending, PermitsMatchLabels, Holding
<1>3. IsFiniteSet(permits) /\ Cardinality(permits) \in Nat
  BY <1>1, FiniteSessions
<1>4. Cardinality(Sending) <= Cardinality(permits) /\ Cardinality(Sending) \in Nat
  BY <1>2, <1>3, FS_Subset, FS_CardinalityType
<1>. QED
  BY <1>1, <1>3, <1>4, CapAssumption DEF PermitsConserved

\* After the abort no step of a session gets it past the flag.
LEMMA ClearedShrinks ==
    ASSUME TypeOK, ModeLabels, shutdown, NEW s \in Sessions, Step(s)
    PROVE  Cleared' \subseteq Cleared
<1>. USE FlagAssumption
<1>1. pc \in [Sessions -> Labels]
  BY DEF TypeOK, CursorTypes
<1>2. \E l \in Labels : Goto(s, l) /\ (l \in ClearLabels => pc[s] \in ClearLabels)
  <2>1. CASE StartSkipped(s) \/ StartSession(s) \/ NextEvent(s) \/ AbortDue(s)
    BY <2>1 DEF StartSkipped, StartSession, NextEvent, AbortDue, EndLabel, ClearLabels, SendLabels, Labels
  <2>2. CASE WaitUntilDue(s) \/ Pace(s) \/ PollAcquire(s) \/ PollFlag(s)
    BY <2>2 DEF WaitUntilDue, Pace, PollAcquire, TryAcquire, PollFlag, ClearLabels, SendLabels,
       Labels
  <2>3. CASE AbortAcquire(s) \/ StopWaiting(s) \/ Checkout(s)
    <3>1. Checkout(s) => Goto(s, "use") \/ Goto(s, "exec") \/ Goto(s, "connect")
      BY DEF Checkout
    <3>. QED
      BY <2>3, <3>1 DEF AbortAcquire, StopWaiting, Checkout, ClearLabels, SendLabels, Labels, ModeLabels
  <2>4. CASE ConnectOk(s) \/ ConnectFails(s)
    BY <2>4 DEF ConnectOk, ConnectFails, ClearLabels, SendLabels, Labels
  <2>5. CASE UseOk(s) \/ QueryOk(s) \/ QueryFails(s) \/ QueryFatal(s)
    BY <2>5 DEF UseOk, QueryOk, QueryFails, QueryFatal, KeepConn, ClearLabels, SendLabels, Labels
  <2>6. CASE Disconnect(s) \/ DropPermit(s)
    BY <2>6 DEF Disconnect, DropPermit, ClearLabels, SendLabels, Labels
  <2>. QED
    BY <2>1, <2>2, <2>3, <2>4, <2>5, <2>6 DEF Step
<1>3. /\ Cleared = {t \in Sessions : pc[t] \in ClearLabels}
      /\ Cleared' = {t \in Sessions : pc'[t] \in ClearLabels}
  BY DEF Cleared, ClearLabels, Sending, SendLabels
<1>. QED
  BY <1>1, <1>2, <1>3 DEF Goto

\* After the first signal no session gets past the flag again: what is still sent
\* is the one statement of each session that had looked before, and at most
\* connection_cap() of them at a time.
THEOREM AbortStops == Spec => AbortStopsSending
<1>. DEFINE A == shutdown => Cleared' \subseteq Cleared /\ Cardinality(Sending) <= Cap
<1>1. PassInv /\ [Next]_vars => [A]_vars
  <2>. SUFFICES ASSUME PassInv, Next, shutdown PROVE Cleared' \subseteq Cleared
    BY SendingHoldsPermit
  <2>1. ASSUME NEW s \in Sessions, Step(s) PROVE Cleared' \subseteq Cleared
    BY <2>1, ClearedShrinks DEF PassInv
  <2>2. CASE UNCHANGED pc
    BY <2>2 DEF Cleared, Sending
  <2>3. CASE SamplePermits \/ SampleWaiters \/ DrainPool \/ Report \/ Finished \/ Interrupt
    BY <2>2, <2>3 DEF SamplePermits, SampleWaiters, DrainPool, Report, Finished, Interrupt,
       sessionVars, vars
  <2>. QED
    BY <2>1, <2>3 DEF Next
<1>. QED
  BY <1>1, PassInvariant, PTL DEF Spec, AbortStopsSending

-----------------------------------------------------------------------------
(* The database a statement runs in.                                       *)

\* A session's step keeps DbInv if it takes on only connections the replayer is
\* right about and sends only what it selected the database for.
LEMMA DbMoves ==
    ASSUME TypeOK, DbInv, NEW s \in Sessions, NEW l \in Labels, Goto(s, l),
           \A t \in Sessions \ {s} : conn'[t] = conn[t] /\ pos'[t] = pos[t],
           \A i \in DOMAIN idle' : Honest(idle'[i]),
           l \in Connected \ {"connect"} => Honest(conn'[s]),
           l \in Committed => pos'[s] = pos[s] /\ ~SkipsUse(Ev(s)),
           l = "exec" => ~NeedsUse(Ev(s), conn'[s].db),
           l = "use" => UseEventDb /\ Ev(s).db # NoDb
    PROVE  DbInv'
<1>1. pc \in [Sessions -> Labels] /\ pc' = [pc EXCEPT ![s] = l]
  BY DEF TypeOK, CursorTypes, Goto
<1>2. pc'[s] = l /\ \A t \in Sessions \ {s} : pc'[t] = pc[t]
  BY <1>1
<1>3. HonestConns'
  BY <1>2 DEF DbInv, HonestConns, Connected, Honest
<1>4. ASSUME NEW t \in Sessions \ {s} PROVE Ev(t)' = Ev(t)
  BY DEF Ev
<1>5. l \in Committed => Ev(s)' = Ev(s)
  BY DEF Ev
<1>6. ASSUME NEW t \in Sessions
      PROVE  /\ pc'[t] = "exec" => ~NeedsUse(Ev(t)', conn'[t].db)
             /\ pc'[t] = "use" => UseEventDb /\ Ev(t)'.db # NoDb
             /\ pc'[t] \in Committed => ~SkipsUse(Ev(t)')
  <2>1. CASE t # s
    <3>1. Ev(t)' = Ev(t) /\ pc'[t] = pc[t] /\ conn'[t] = conn[t]
      BY <1>2, <1>4, <2>1
    <3>. QED
      BY <3>1 DEF DbInv, SelectedFirst
  <2>2. CASE t = s
    <3>1. "exec" \in Committed /\ "use" \in Committed
      BY DEF Committed
    <3>. QED
      BY <1>2, <1>5, <2>2, <3>1
  <2>. QED
    BY <2>1, <2>2
<1>. QED
  BY <1>3, <1>6 DEF DbInv, SelectedFirst, NeedsUse, SkipsUse, Committed

\* A step that leaves connections, shelf and event alone.
LEMMA DbQuiet ==
    ASSUME TypeOK, DbInv, NEW s \in Sessions, NEW l \in Labels, Goto(s, l),
           UNCHANGED <<conn, idle>>, \A t \in Sessions \ {s} : pos'[t] = pos[t],
           l \in Connected \ {"connect"} => pc[s] \in Connected \ {"connect"},
           l \in Committed => pos'[s] = pos[s] /\ ~SkipsUse(Ev(s)),
           l = "exec" => ~NeedsUse(Ev(s), conn[s].db),
           l = "use" => UseEventDb /\ Ev(s).db # NoDb
    PROVE  DbInv'
<1>1. \A i \in DOMAIN idle' : Honest(idle'[i])
  BY DEF DbInv, HonestConns
<1>2. l \in Connected \ {"connect"} => Honest(conn'[s])
  BY DEF DbInv, HonestConns
<1>. QED
  BY <1>1, <1>2, DbMoves

\* A session lets go of its connection; nothing is added to the shelf.
LEMMA DbLetGo ==
    ASSUME TypeOK, DbInv, NEW s \in Sessions, Goto(s, "release"), LetGoConn(s),
           UNCHANGED idle, \A t \in Sessions \ {s} : pos'[t] = pos[t]
    PROVE  DbInv'
<1>1. \A t \in Sessions \ {s} : conn'[t] = conn[t]
  BY DEF TypeOK, ConnTypes, LetGoConn
<1>2. \A i \in DOMAIN idle' : Honest(idle'[i])
  BY DEF DbInv, HonestConns
<1>3. "release" \in Labels /\ "release" \notin Connected /\ "release" \notin Committed
  BY DEF Labels, Connected, Committed
<1>. QED
  BY <1>1, <1>2, <1>3, DbMoves

\* An answer that leaves an honest connection usable.
LEMMA DbKeep ==
    ASSUME TypeOK, DbInv, NEW s \in Sessions, NEW c \in Conn, KeepConn(s, c), Honest(c),
           UNCHANGED pos
    PROVE  DbInv'
<1>. USE FlagAssumption
<1>1. conn \in [Sessions -> Conn] /\ idle \in Seq(Conn)
  BY DEF TypeOK, ConnTypes
<1>2. CASE Pooled
  <2>1. Goto(s, "release") /\ idle' = Append(idle, c) /\ conn' = [conn EXCEPT ![s] = NoConn]
    BY <1>2 DEF KeepConn, Checkin, LetGoConn
  <2>2. \A i \in DOMAIN idle' : Honest(idle'[i])
    <3>1. \A i \in DOMAIN idle : Honest(idle[i])
      BY DEF DbInv, HonestConns
    <3>2. \A i \in DOMAIN idle' : idle'[i] = c \/ (i \in DOMAIN idle /\ idle'[i] = idle[i])
      BY <1>1, <2>1
    <3>. QED
      BY <3>1, <3>2
  <2>3. "release" \in Labels /\ "release" \notin Connected /\ "release" \notin Committed
    BY DEF Labels, Connected, Committed
  <2>4. \A t \in Sessions \ {s} : conn'[t] = conn[t]
    BY <1>1, <2>1
  <2>. QED
    BY <2>1, <2>2, <2>3, <2>4, DbMoves
<1>3. CASE ~Pooled
  <2>1. Goto(s, "next") /\ conn' = [conn EXCEPT ![s] = c] /\ UNCHANGED idle
    BY <1>3 DEF KeepConn
  <2>2. \A i \in DOMAIN idle' : Honest(idle'[i])
    BY <2>1 DEF DbInv, HonestConns
  <2>3. conn'[s] = c /\ \A t \in Sessions \ {s} : conn'[t] = conn[t]
    BY <1>1, <2>1
  <2>4. "next" \in Labels /\ "next" \notin Committed
    BY DEF Labels, Committed
  <2>. QED
    BY <2>1, <2>2, <2>3, <2>4, DbMoves
<1>. QED
  BY <1>2, <1>3

\* The captures and modes for which the replayer can know a connection's database:
\* an executed USE is recorded with the database it selects, or none is executed.
DbKnown == Pooled \/ ~UseEventDb \/ UsesTracked

\* Every step of a session keeps DbInv.
LEMMA DbStep ==
    ASSUME DbKnown, TypeOK, ModeLabels, DbInv, NEW s \in Sessions, Step(s)
    PROVE  DbInv'
<1>. USE FlagAssumption
<1>0. conn \in [Sessions -> Conn] /\ idle \in Seq(Conn) /\ pos \in [Sessions -> Nat]
  BY DEF TypeOK, ConnTypes, CursorTypes
<1>1. CASE StartSkipped(s) \/ AbortAcquire(s)
  <2>1. Goto(s, "done") /\ UNCHANGED <<conn, idle>>
    BY <1>1 DEF StartSkipped, AbortAcquire, connVars
  <2>2. \A t \in Sessions \ {s} : pos'[t] = pos[t]
    BY <1>0, <1>1 DEF StartSkipped, AbortAcquire, DrainRecording
  <2>. QED
    BY <2>1, <2>2, DbQuiet DEF Labels, Connected, Committed
<1>2. CASE AbortDue(s)
  <2>1. UNCHANGED <<conn, idle>> /\ \E l \in {"closing", "done"} :
            Goto(s, l) /\ (l = "closing" => pc[s] = "due" /\ ~Pooled)
    BY <1>2 DEF AbortDue, EndLabel, connVars
  <2>2. \A t \in Sessions \ {s} : pos'[t] = pos[t]
    BY <1>0, <1>2 DEF AbortDue, DrainRecording
  <2>. QED
    BY <2>1, <2>2, DbQuiet DEF Labels, Connected, Committed
<1>3. CASE StartSession(s)
  <2>1. UNCHANGED <<conn, idle>> /\ \E l \in {"next", "first", "done"} :
            Goto(s, l) /\ (l = "next" => Pooled)
    BY <1>3 DEF StartSession, connVars
  <2>2. \A t \in Sessions \ {s} : pos'[t] = pos[t]
    BY <1>0, <1>3 DEF StartSession
  <2>. QED
    BY <2>1, <2>2, DbQuiet DEF Labels, Connected, Committed
<1>4. CASE NextEvent(s)
  <2>1. UNCHANGED <<conn, idle>> /\ pc[s] = "next" /\ \E l \in {"due", "closing", "done"} :
            Goto(s, l) /\ (l = "closing" => ~Pooled)
    BY <1>4 DEF NextEvent, EndLabel, connVars
  <2>2. \A t \in Sessions \ {s} : pos'[t] = pos[t]
    BY <1>0, <1>4 DEF NextEvent
  <2>. QED
    BY <2>1, <2>2, DbQuiet DEF Labels, Connected, Committed
<1>5. CASE WaitUntilDue(s)
  <2>1. UNCHANGED <<conn, idle, pos>> /\ Goto(s, "acquire") /\ ~Pooled
    BY <1>5 DEF WaitUntilDue, connVars, ModeLabels
  <2>. QED
    BY <2>1, DbQuiet DEF Labels, Connected, Committed
<1>6. CASE Pace(s)
  <2>1. UNCHANGED <<conn, idle, pos>> /\ pc[s] = "due"
    BY <1>6 DEF Pace, connVars
  <2>2. CASE ~ShouldExecute(Ev(s)) \/ SkipsUse(Ev(s))
    <3>1. Goto(s, "next")
      BY <1>6, <2>2 DEF Pace
    <3>. QED
      BY <2>1, <3>1, DbQuiet DEF Labels, Connected, Committed
  <2>3. CASE ~(~ShouldExecute(Ev(s)) \/ SkipsUse(Ev(s)))
    <3>1. /\ ~SkipsUse(Ev(s))
          /\ \E l \in {"acquire", "use", "exec"} :
                /\ Goto(s, l)
                /\ l = "acquire" <=> Pooled
                /\ l = "use" => NeedsUse(Ev(s), conn[s].db)
                /\ l = "exec" => ~NeedsUse(Ev(s), conn[s].db)
      BY <1>6, <2>3 DEF Pace
    <3>. QED
      BY <2>1, <3>1, DbQuiet DEF Labels, Connected, Committed, NeedsUse
  <2>. QED
    BY <2>2, <2>3
<1>7. CASE PollAcquire(s) \/ PollFlag(s) \/ StopWaiting(s)
  <2>1. UNCHANGED <<conn, idle, pos>>
    BY <1>7 DEF PollAcquire, PollFlag, StopWaiting, connVars
  <2>2. \E l \in {"permitted", "queued", "polled", "checkout", "connect"} : Goto(s, l)
    BY <1>7 DEF PollAcquire, TryAcquire, PollFlag, StopWaiting
  <2>3. pc[s] \in {"acquire", "queued", "polled", "permitted"}
    BY <1>7 DEF PollAcquire, PollFlag, AsksForPermit, StopWaiting
  <2>4. Pooled => ~SkipsUse(Ev(s))
    BY <2>3 DEF DbInv, SelectedFirst, Committed
  <2>. QED
    BY <2>1, <2>2, <2>4, DbQuiet DEF Labels, Connected, Committed
<1>8. CASE Checkout(s)
  <2>1. pc[s] = "checkout" /\ UNCHANGED pos /\ Pooled /\ ~SkipsUse(Ev(s))
    BY <1>8 DEF Checkout, ModeLabels, DbInv, SelectedFirst, Committed
  <2>2. CASE idle = <<>>
    <3>1. Goto(s, "connect") /\ UNCHANGED <<conn, idle>>
      BY <1>8, <2>2 DEF Checkout
    <3>. QED
      BY <2>1, <3>1, DbQuiet DEF Labels, Connected, Committed
  <2>3. CASE idle # <<>>
    <3>. DEFINE c == idle[Len(idle)]
    <3>1. /\ conn' = [conn EXCEPT ![s] = c]
          /\ idle' = SubSeq(idle, 1, Len(idle) - 1)
          /\ Goto(s, IF NeedsUse(Ev(s), c.db) THEN "use" ELSE "exec")
      BY <1>8, <2>3 DEF Checkout
    <3>2. Len(idle) \in Nat \ {0} /\ DOMAIN idle = 1 .. Len(idle)
      BY <1>0, <2>3
    <3>3. \A i \in DOMAIN idle' : i \in DOMAIN idle /\ idle'[i] = idle[i]
      BY <1>0, <3>1, <3>2
    <3>4. Honest(c) /\ \A i \in DOMAIN idle' : Honest(idle'[i])
      BY <3>2, <3>3 DEF DbInv, HonestConns
    <3>5. conn'[s] = c /\ \A t \in Sessions \ {s} : conn'[t] = conn[t] /\ pos'[t] = pos[t]
      BY <1>0, <2>1, <3>1
    <3>. HIDE DEF c
    <3>6. \E l \in {"use", "exec"} :
              /\ Goto(s, l)
              /\ l = "use" => NeedsUse(Ev(s), c.db)
              /\ l = "exec" => ~NeedsUse(Ev(s), c.db)
      BY <3>1
    <3>. QED
      BY <2>1, <3>4, <3>5, <3>6, DbMoves DEF Labels, Connected, Committed, NeedsUse
  <2>. QED
    BY <2>2, <2>3
<1>9. CASE ConnectOk(s)
  <2>1. pc[s] = "connect" /\ UNCHANGED <<idle, pos>> /\ (Pooled => ~SkipsUse(Ev(s)))
    BY <1>9 DEF ConnectOk, DbInv, SelectedFirst, Committed
  <2>2. conn' = [conn EXCEPT ![s] = NewConn]
    BY <1>9 DEF ConnectOk
  <2>3. conn'[s] = NewConn /\ \A t \in Sessions \ {s} : conn'[t] = conn[t] /\ pos'[t] = pos[t]
    BY <1>0, <2>1, <2>2
  <2>4. Honest(NewConn) /\ (Pooled => NewConn.db = UrlDb)
    BY DEF Honest, NewConn
  <2>5. \A i \in DOMAIN idle' : Honest(idle'[i])
    BY <2>1 DEF DbInv, HonestConns
  <2>6. \E l \in {"due", "use", "exec"} :
            /\ Goto(s, l)
            /\ l = "due" <=> ~Pooled
            /\ l = "use" => NeedsUse(Ev(s), UrlDb)
            /\ l = "exec" => ~NeedsUse(Ev(s), UrlDb)
    BY <1>9 DEF ConnectOk
  <2>. QED
    BY <2>1, <2>3, <2>4, <2>5, <2>6, DbMoves DEF Labels, Connected, Committed, NeedsUse
<1>10. CASE UseOk(s)
  <2>1. /\ pc[s] = "use" /\ UNCHANGED <<idle, pos>> /\ Goto(s, "exec")
        /\ conn' = [conn EXCEPT ![s] = [srv |-> Ev(s).db, db |-> Ev(s).db]]
    BY <1>10 DEF UseOk
  <2>2. UseEventDb /\ ~SkipsUse(Ev(s))
    BY <2>1 DEF DbInv, SelectedFirst, Committed
  <2>3. /\ conn'[s] = [srv |-> Ev(s).db, db |-> Ev(s).db]
        /\ \A t \in Sessions \ {s} : conn'[t] = conn[t] /\ pos'[t] = pos[t]
    BY <1>0, <2>1
  <2>4. \A i \in DOMAIN idle' : Honest(idle'[i])
    BY <2>1 DEF DbInv, HonestConns
  <2>5. Honest(conn'[s]) /\ ~NeedsUse(Ev(s), conn'[s].db)
    BY <2>2, <2>3 DEF Honest, NeedsUse
  <2>. QED
    BY <2>1, <2>2, <2>3, <2>4, <2>5, DbMoves DEF Labels
<1>11. CASE QueryFails(s)
  <2>1. pc[s] \in Connected \ {"connect"} /\ UNCHANGED pos /\ KeepConn(s, conn[s])
    BY <1>11 DEF QueryFails, Connected
  <2>2. Honest(conn[s]) /\ conn[s] \in Conn
    BY <1>0, <2>1 DEF DbInv, HonestConns
  <2>. QED
    BY <2>1, <2>2, DbKeep
<1>12. CASE QueryOk(s)
  <2>1. pc[s] = "exec" /\ UNCHANGED pos
    BY <1>12 DEF QueryOk
  <2>2. Honest(conn[s]) /\ ~SkipsUse(Ev(s)) /\ ~NeedsUse(Ev(s), conn[s].db)
    BY <2>1 DEF DbInv, HonestConns, SelectedFirst, Connected, Committed
  <2>3. CASE Ev(s).kind # "use"
    <3>1. KeepConn(s, conn[s]) /\ conn[s] \in Conn
      BY <1>0, <1>12, <2>3 DEF QueryOk
    <3>. QED
      BY <2>1, <2>2, <3>1, DbKeep
  <2>4. CASE Ev(s).kind = "use"
    <3>1. ~Pooled /\ UseEventDb
      BY <2>2, <2>4 DEF SkipsUse
    <3>2. UsesTracked
      BY <3>1 DEF DbKnown
    <3>3. pos[s] \in DOMAIN Events[s]
      <4>1. pos[s] \in Nat /\ pos[s] > 0 /\ pos[s] <= Len(Events[s])
        BY <2>1 DEF TypeOK, CursorTypes, InHand
      <4>2. Events[s] \in Seq(Event)
        BY EventsAssumption
      <4>. QED
        BY <4>1, <4>2
    <3>4. Ev(s).db # NoDb /\ Ev(s).to = Ev(s).db
      BY <2>4, <3>2, <3>3 DEF UsesTracked, Ev
    <3>5. conn[s].db = Ev(s).db /\ conn[s] \in Conn
      BY <1>0, <2>2, <3>1, <3>4 DEF NeedsUse
    <3>. DEFINE c == [conn[s] EXCEPT !.srv = Ev(s).to]
    <3>6. c.srv = c.db /\ c \in Conn
      BY <3>4, <3>5 DEF Conn
    <3>7. KeepConn(s, c)
      BY <1>12, <2>4 DEF QueryOk
    <3>. HIDE DEF c
    <3>. QED
      BY <2>1, <3>1, <3>6, <3>7, DbKeep DEF Honest
  <2>. QED
    BY <2>3, <2>4
<1>13. CASE ConnectFails(s) \/ QueryFatal(s)
  <2>1. Goto(s, "release") /\ LetGoConn(s) /\ UNCHANGED idle
    BY <1>13 DEF ConnectFails, QueryFatal
  <2>2. \A t \in Sessions \ {s} : pos'[t] = pos[t]
    BY <1>0, <1>13 DEF ConnectFails, QueryFatal
  <2>. QED
    BY <2>1, <2>2, DbLetGo
<1>14. CASE Disconnect(s)
  BY <1>14, DbLetGo DEF Disconnect
<1>15. CASE DropPermit(s)
  <2>1. UNCHANGED <<conn, idle, pos>> /\ \E l \in {"next", "done"} : Goto(s, l) /\ (l = "next" => Pooled)
    BY <1>15 DEF DropPermit, connVars
  <2>. QED
    BY <2>1, DbQuiet DEF Labels, Connected, Committed
<1>. QED
  BY <1>1, <1>2, <1>3, <1>4, <1>5, <1>6, <1>7, <1>8, <1>9, <1>10, <1>11, <1>12, <1>13, <1>14,
     <1>15 DEF Step

\* A statement runs in the database it was captured in, and with --db-override
\* every connection stays in the override database: with a pool, with an override,
\* and for dedicated sessions of captures that record the database a USE selects.
THEOREM DbIsRight == DbKnown => (Spec => []RightDb)
<1>. SUFFICES ASSUME DbKnown PROVE Spec => []RightDb
  OBVIOUS
<1>1. Init => DbInv
  BY DEF Init, DbInv, HonestConns, SelectedFirst, Connected, Committed
<1>2. PassInv /\ DbInv /\ [Next]_vars => DbInv'
  <2>. SUFFICES ASSUME PassInv, DbInv, [Next]_vars PROVE DbInv'
    OBVIOUS
  <2>1. ASSUME NEW s \in Sessions, Step(s) PROVE DbInv'
    BY <2>1, DbStep DEF PassInv
  <2>2. ASSUME UNCHANGED <<pc, pos, conn>>, idle' = idle \/ idle' = <<>> PROVE DbInv'
    <3>1. HonestConns'
      BY <2>2 DEF DbInv, HonestConns
    <3>2. SelectedFirst'
      BY <2>2 DEF DbInv, SelectedFirst, Ev
    <3>. QED
      BY <3>1, <3>2 DEF DbInv
  <2>3. CASE Interrupt \/ SamplePermits \/ SampleWaiters \/ Report \/ DrainPool \/ UNCHANGED vars
    BY <2>2, <2>3 DEF Interrupt, SamplePermits, SampleWaiters, Report, DrainPool, vars,
       sessionVars, connVars
  <2>. QED
    BY <2>1, <2>3 DEF Next, Finished
<1>3. PassInv /\ DbInv => RightDb
  <2>. SUFFICES ASSUME PassInv, DbInv PROVE RightDb
    OBVIOUS
  <2>1. \A s \in Sessions : pc[s] = "exec" => Honest(conn[s]) /\ ~NeedsUse(Ev(s), conn[s].db)
    BY DEF DbInv, HonestConns, SelectedFirst, Connected
  <2>2. \A i \in DOMAIN idle : Honest(idle[i])
    BY DEF DbInv, HonestConns
  <2>. QED
    BY <2>1, <2>2 DEF RightDb, Honest, NeedsUse
<1>. QED
  BY <1>1, <1>2, <1>3, PassInvariant, PTL DEF Spec

=============================================================================
