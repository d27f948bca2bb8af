--------------------------- MODULE ReplayRunProofs ---------------------------
(***************************************************************************)
(* Proofs about a whole replay run, for any capture and any --repeat.      *)
(***************************************************************************)
EXTENDS ReplayRun, Induction

(* The run starts, before any pass, with its invariant. *)
LEMMA RunInit == Init => RunInv
<1> SUFFICES ASSUME Init PROVE RunInv
  OBVIOUS
<1>1. RunTypeOK
  <2>1. cut \in BOOLEAN /\ shutdown \in BOOLEAN
    BY DEF Init
  <2>2. passes \in Seq(PassReport) /\ files \subseteq Nat
    BY DEF Init
  <2>3. signals \in 0 .. 2 /\ exit \in {Running, 0, 1, 130}
    BY DEF Init
  <2> QED
    BY <2>1, <2>2, <2>3 DEF Init, RunTypeOK
<1>2. AbortedIsLast /\ WarmupComesFirst
  BY DEF Init, AbortedIsLast, WarmupComesFirst
<1>3. CutNeedsAbort /\ ExitTellsAbort
  BY DEF Init, CutNeedsAbort, ExitTellsAbort, Running
<1>4. RunLeavesItsReport
  BY DEF Init, RunLeavesItsReport
<1> QED
  BY <1>1, <1>2, <1>3, <1>4 DEF RunInv, Init

-----------------------------------------------------------------------------
(* Steps that leave the reports and the files alone.                       *)

\* What RunInv says of reports and files carries over when neither changes and
\* the run does not go back into its passes.
LEMMA SameReports ==
    ASSUME RunInv, UNCHANGED <<opt, passes>>, InPasses' => InPasses
    PROVE  /\ AbortedIsLast'
           /\ Aggregated' = Aggregated /\ PassFiles' = PassFiles
           /\ AnyAborted' = AnyAborted
           /\ \A i \in DOMAIN passes' : passes'[i].warmup => Len(passes') = 1
BY DEF RunInv, AbortedIsLast, WarmupComesFirst, Complete, Aggregated, PassFiles, AnyAborted, Repeat

(* The run asks for at least one measured pass, a --repeat of 0 included. *)
LEMMA RepeatPositive == RunTypeOK => Repeat \in Nat \ {0}
BY RunAssumption DEF RunTypeOK, Repeat

(* A set-up that succeeds keeps the invariant. *)
LEMMA SetUpInv == RunInv /\ SetUp => RunInv'
<1> SUFFICES ASSUME RunInv, SetUp PROVE RunInv'
  OBVIOUS
<1>1. RunTypeOK'
  BY DEF RunInv, RunTypeOK, SetUp
<1>2. InPasses /\ InPasses'
  BY DEF SetUp, InPasses
<1>3. AbortedIsLast' /\ WarmupComesFirst'
  BY <1>2, SameReports DEF RunInv, SetUp, WarmupComesFirst
<1>4. RunLeavesItsReport'
  BY <1>2 DEF RunInv, RunLeavesItsReport, SetUp
<1> QED
  BY <1>1, <1>2, <1>3, <1>4, SameReports
  DEF RunInv, SetUp, CutNeedsAbort, ExitTellsAbort

(* An error that reaches main (set-up, a panicking session task, a report that
   cannot be written) keeps the invariant: it exits with 1. *)
LEMMA FailInv == RunInv /\ Fail => RunInv'
<1> SUFFICES ASSUME RunInv, Fail PROVE RunInv'
  OBVIOUS
<1>1. RunTypeOK'
  BY DEF RunInv, RunTypeOK, Fail
<1>2. ~InPasses'
  BY DEF Fail, InPasses
<1>3. AbortedIsLast' /\ WarmupComesFirst'
  BY <1>2, SameReports DEF RunInv, Fail, WarmupComesFirst
<1>4. RunLeavesItsReport'
  BY <1>2, SameReports DEF RunInv, RunLeavesItsReport, Fail
<1> QED
  BY <1>1, <1>2, <1>3, <1>4, SameReports
  DEF RunInv, Fail, CutNeedsAbort, ExitTellsAbort

(* Running or skipping the warm-up pass keeps the invariant. *)
LEMMA WarmupInv == RunInv /\ Warmup => RunInv'
<1> SUFFICES ASSUME RunInv, Warmup PROVE RunInv'
  OBVIOUS
<1>1. RunTypeOK'
  BY DEF RunInv, RunTypeOK, Warmup, StartPass
<1>2. InPasses /\ InPasses' /\ passes = <<>>
  BY DEF RunInv, Warmup, StartPass, InPasses, WarmupComesFirst
<1>3. AbortedIsLast' /\ WarmupComesFirst'
  BY <1>2, SameReports DEF RunInv, Warmup, WarmupComesFirst
<1>4. RunLeavesItsReport'
  BY <1>2 DEF RunInv, RunLeavesItsReport, Warmup, StartPass
<1> QED
  BY <1>1, <1>2, <1>3, <1>4, SameReports
  DEF RunInv, Warmup, StartPass, CutNeedsAbort, ExitTellsAbort

\* The loop is left only with a report: --repeat asks for at least one pass, and
\* the abort ends the loop only after one.
LEMMA LoopHeadInv == RunInv /\ LoopHead => RunInv'
<1> SUFFICES ASSUME RunInv, LoopHead PROVE RunInv'
  OBVIOUS
<1>1. RunTypeOK'
  BY DEF RunInv, RunTypeOK, LoopHead, StartPass
<1>2. InPasses
  BY DEF LoopHead, InPasses
<1>3. AbortedIsLast' /\ WarmupComesFirst'
  BY <1>2, SameReports DEF RunInv, LoopHead, StartPass, WarmupComesFirst
<1>4. at' = "outcome" => passes # <<>>
  BY RepeatPositive DEF RunInv, LoopHead, StartPass
<1>5. at' \in {"sessions", "outcome"} /\ files' = {}
  BY <1>2 DEF RunInv, LoopHead, StartPass
<1>6. RunLeavesItsReport'
  BY <1>4, <1>5 DEF RunLeavesItsReport, LoopHead
<1> QED
  BY <1>1, <1>2, <1>3, <1>5, <1>6, SameReports
  DEF RunInv, LoopHead, StartPass, CutNeedsAbort, ExitTellsAbort

(* The end of a measured pass, complete or cut by an abort, keeps the invariant. *)
LEMMA JoinInv == RunInv /\ JoinSessions => RunInv'
<1> SUFFICES ASSUME RunInv, JoinSessions PROVE RunInv'
  OBVIOUS
<1>1. RunTypeOK'
  <2>1. cut' \in BOOLEAN
    BY DEF JoinSessions
  <2> QED
    BY <2>1 DEF RunInv, RunTypeOK, JoinSessions
<1>2. InPasses /\ InPasses'
  BY DEF JoinSessions, InPasses
<1>3. AbortedIsLast' /\ WarmupComesFirst'
  BY <1>2, SameReports DEF RunInv, JoinSessions, WarmupComesFirst
<1>4. RunLeavesItsReport'
  BY <1>2 DEF RunInv, RunLeavesItsReport, JoinSessions
<1>5. CutNeedsAbort'
  BY DEF JoinSessions, CutNeedsAbort
<1>6. ExitTellsAbort'
  BY <1>2, SameReports DEF RunInv, JoinSessions, ExitTellsAbort
<1> QED
  BY <1>1, <1>2, <1>3, <1>4, <1>5, <1>6 DEF RunInv, JoinSessions

-----------------------------------------------------------------------------
(* A pass ends, the outcome is written, signals.                           *)

\* The report of the pass that ends: what it left behind is marked, and a
\* warm-up is collected only when it was aborted.
LEMMA EndPassInv == RunInv /\ EndPass => RunInv'
<1> SUFFICES ASSUME RunInv, EndPass PROVE RunInv'
  OBVIOUS
<1>1. PICK n \in IF cut THEN 0 .. (Events - 1) ELSE {Events} :
          LET r == [attempted |-> n, aborted |-> shutdown, warmup |-> kind = "warmup"]
          IN  IF kind = "warmup" /\ ~r.aborted
              THEN at' = "loop" /\ UNCHANGED passes
              ELSE /\ passes' = Append(passes, r)
                   /\ at' = IF r.aborted THEN "outcome" ELSE "loop"
  BY DEF EndPass
<1> DEFINE r == [attempted |-> n, aborted |-> shutdown, warmup |-> kind = "warmup"]
<1>2. InPasses /\ files = {} /\ at = "report"
  BY DEF RunInv, EndPass, InPasses
<1>3. r \in PassReport
  <2>1. n \in 0 .. Events
    BY RunAssumption
  <2> QED
    BY <2>1 DEF RunInv, RunTypeOK, PassReport
<1>4. ~shutdown => n = Events
  BY DEF RunInv, CutNeedsAbort
<1>5. CASE kind = "warmup" /\ ~shutdown
  <2>1. at' = "loop" /\ UNCHANGED passes
    BY <1>1, <1>5
  <2>2. RunTypeOK' /\ InPasses'
    BY <2>1 DEF RunInv, RunTypeOK, EndPass, InPasses
  <2>3. AbortedIsLast' /\ WarmupComesFirst'
    BY <1>2, <2>1, SameReports DEF RunInv, EndPass, WarmupComesFirst
  <2>4. RunLeavesItsReport'
    BY <1>2, <2>1 DEF RunLeavesItsReport, EndPass
  <2> QED
    BY <1>2, <2>1, <2>2, <2>3, <2>4, SameReports
    DEF RunInv, EndPass, CutNeedsAbort, ExitTellsAbort
<1>6. CASE ~(kind = "warmup" /\ ~shutdown)
  <2>1. passes' = Append(passes, r) /\ at' = IF shutdown THEN "outcome" ELSE "loop"
    BY <1>1, <1>6
  <2>2. passes \in Seq(PassReport)
    BY DEF RunInv, RunTypeOK
  <2>3. /\ passes' \in Seq(PassReport)
        /\ Len(passes') = Len(passes) + 1
        /\ passes'[Len(passes) + 1] = r
        /\ \A i \in 1 .. Len(passes) : passes'[i] = passes[i]
        /\ DOMAIN passes' = 1 .. Len(passes) + 1
        /\ DOMAIN passes = 1 .. Len(passes)
        /\ Len(passes) \in Nat
    BY <1>3, <2>1, <2>2
  <2>4. RunTypeOK'
    BY <2>1, <2>3 DEF RunInv, RunTypeOK, EndPass
  <2>5. \A i \in 1 .. Len(passes) : Complete(passes[i])
    BY <1>2, <2>3 DEF RunInv, AbortedIsLast
  <2>6. IF shutdown THEN r.aborted /\ ~InPasses' ELSE Complete(r)
    BY <1>4, <1>6, <2>1 DEF Complete, InPasses
  <2>7. AbortedIsLast'
    BY <2>3, <2>5, <2>6 DEF AbortedIsLast, Complete
  <2>8. WarmupComesFirst'
    <3>1. r.warmup => passes = <<>>
      BY <1>2 DEF RunInv, WarmupComesFirst
    <3>2. \A i \in 1 .. Len(passes) : ~passes'[i].warmup
      BY <2>3, <2>5 DEF Complete
    <3>3. \A i \in DOMAIN passes' : passes'[i].warmup => Len(passes') = 1
      BY <2>3, <3>1, <3>2
    <3> QED
      BY <2>1, <3>3 DEF WarmupComesFirst
  <2>9. RunLeavesItsReport'
    <3>1. passes' # <<>> /\ files' = {} /\ at' # "written"
      <4>1. passes' # <<>>
        BY <2>3
      <4> QED
        BY <1>2, <2>1, <4>1 DEF EndPass
    <3> QED
      BY <3>1 DEF RunLeavesItsReport
  <2> QED
    BY <1>2, <2>1, <2>4, <2>7, <2>8, <2>9
    DEF RunInv, EndPass, CutNeedsAbort, ExitTellsAbort, Running
<1> QED
  BY <1>5, <1>6

\* The files of the passes come before the headline report.
LEMMA WriteFileInv == RunInv /\ WriteFile => RunInv'
<1> SUFFICES ASSUME RunInv, WriteFile PROVE RunInv'
  OBVIOUS
<1>1. ~InPasses /\ ~InPasses'
  BY DEF WriteFile, InPasses
<1>2. PassFiles \subseteq Nat \ {0}
  <2>1. passes \in Seq(PassReport)
    BY DEF RunInv, RunTypeOK
  <2>2. DOMAIN passes \subseteq Nat \ {0}
    BY <2>1
  <2> QED
    BY <2>2 DEF PassFiles
<1>3. /\ files \subseteq files'
      /\ files' \subseteq Nat
      /\ 0 \in files' => PassFiles \subseteq files'
  <2>1. CASE ~opt.out \/ 0 \in files
    BY <2>1 DEF RunInv, RunTypeOK, RunLeavesItsReport, WriteFile
  <2>2. CASE ~(~opt.out \/ 0 \in files) /\ PassFiles \subseteq files
    <3>1. files' = files \cup {0}
      BY <2>2 DEF WriteFile
    <3> QED
      BY <2>2, <3>1 DEF RunInv, RunTypeOK
  <2>3. CASE ~(~opt.out \/ 0 \in files) /\ ~(PassFiles \subseteq files)
    <3>1. PassFiles \ files # {} /\ PassFiles \ files \in SUBSET Nat
      BY <1>2, <2>3
    <3>2. Min(PassFiles \ files) \in PassFiles \ files
      BY <3>1, MinIsLeast
    <3>3. files' = files \cup {Min(PassFiles \ files)}
      BY <2>3 DEF WriteFile
    <3>4. 0 \notin files'
      BY <1>2, <2>3, <3>2, <3>3
    <3> QED
      BY <3>1, <3>2, <3>3, <3>4 DEF RunInv, RunTypeOK
  <2> QED
    BY <2>1, <2>2, <2>3
<1>4. RunTypeOK'
  BY <1>3 DEF RunInv, RunTypeOK, WriteFile
<1>5. AbortedIsLast' /\ WarmupComesFirst'
  BY <1>1, SameReports DEF RunInv, WriteFile, WarmupComesFirst
<1>6. at' = "written" /\ opt.out => 0 \in files'
  BY DEF WriteFile
<1>7. RunLeavesItsReport'
  <2>1. passes # <<>>
    BY DEF RunInv, RunLeavesItsReport, WriteFile
  <2> QED
    BY <1>1, <1>3, <1>6, <2>1, SameReports DEF RunLeavesItsReport, WriteFile
<1> QED
  BY <1>1, <1>4, <1>5, <1>7, SameReports
  DEF RunInv, WriteFile, CutNeedsAbort, ExitTellsAbort

(* Leaving the process with the exit code of what was run keeps the invariant. *)
LEMMA ExitInv == RunInv /\ Exit => RunInv'
<1> SUFFICES ASSUME RunInv, Exit PROVE RunInv'
  OBVIOUS
<1>1. RunTypeOK'
  BY DEF RunInv, RunTypeOK, Exit
<1>2. ~InPasses'
  BY DEF Exit, InPasses
<1>3. AbortedIsLast' /\ WarmupComesFirst'
  BY <1>2, SameReports DEF RunInv, Exit, WarmupComesFirst
<1>4. RunLeavesItsReport'
  BY <1>2, SameReports DEF RunInv, RunLeavesItsReport, Exit
<1>5. ExitTellsAbort'
  BY <1>2, SameReports DEF Exit, ExitTellsAbort
<1> QED
  BY <1>1, <1>2, <1>3, <1>4, <1>5 DEF RunInv, Exit, CutNeedsAbort

(* A first or a second ctrl-c, at any moment of the run, keeps the invariant. *)
LEMMA SignalInv == RunInv /\ (FirstSignal \/ SecondSignal) => RunInv'
<1> SUFFICES ASSUME RunInv, FirstSignal \/ SecondSignal PROVE RunInv'
  OBVIOUS
<1>1. RunTypeOK'
  <2>1. signals' \in 0 .. 2
    BY DEF FirstSignal, SecondSignal
  <2>4. cut' \in BOOLEAN /\ shutdown' \in BOOLEAN
    BY Zenon DEF RunInv, RunTypeOK, FirstSignal, SecondSignal
  <2>2. /\ at' \in {"setup", "warmup", "loop", "sessions", "report", "outcome", "written", "exited"}
        /\ exit' \in {Running, 0, 1, 130}
    BY DEF RunInv, RunTypeOK, FirstSignal, SecondSignal
  <2>3. UNCHANGED <<opt, kind, passes, files>>
    BY DEF FirstSignal, SecondSignal
  <2> QED
    BY <2>1, <2>2, <2>3, <2>4 DEF RunInv, RunTypeOK
<1>2. InPasses' => InPasses
  BY DEF FirstSignal, SecondSignal, InPasses
<1>3. AbortedIsLast' /\ WarmupComesFirst'
  BY <1>2, SameReports DEF RunInv, FirstSignal, SecondSignal, WarmupComesFirst
<1>4. RunLeavesItsReport'
  BY <1>2, SameReports DEF RunInv, RunLeavesItsReport, FirstSignal, SecondSignal
<1>5. ExitTellsAbort'
  BY <1>2, SameReports DEF RunInv, FirstSignal, SecondSignal, ExitTellsAbort
<1> QED
  BY <1>1, <1>2, <1>3, <1>4, <1>5 DEF RunInv, FirstSignal, SecondSignal, CutNeedsAbort

\* RunInv holds in every state of every run.
THEOREM RunInvariant == Spec => []RunInv
<1>1. RunInv /\ [Next]_vars => RunInv'
  <2> SUFFICES ASSUME RunInv, [Next]_vars PROVE RunInv'
    OBVIOUS
  <2>1. CASE UNCHANGED vars
    <3>1. InPasses' = InPasses
      BY <2>1 DEF vars, InPasses
    <3> QED
      BY <2>1, <3>1, SameReports
      DEF RunInv, vars, RunTypeOK, WarmupComesFirst, CutNeedsAbort, ExitTellsAbort,
          RunLeavesItsReport
  <2> QED
    BY <2>1, SetUpInv, FailInv, WarmupInv, LoopHeadInv, JoinInv, EndPassInv,
       WriteFileInv, ExitInv, SignalInv DEF Next, Work, Finished
<1> QED
  BY RunInit, <1>1, PTL DEF Spec

\* run_passes and ReplayOutcome::primary: wherever the abort comes there is a
\* report, a run that ends by itself has written it to --out, and an --out file
\* has the file of every pass it summarises next to it.
THEOREM ReportLeft == Spec => []RunLeavesItsReport
<1>1. RunInv => RunLeavesItsReport
  BY DEF RunInv
<1> QED
  BY RunInvariant, <1>1, PTL

\* run_passes: a warm-up report is only ever the sole report of an aborted run.
THEOREM WarmupApart == Spec => []WarmupIsNotMeasured
<1>1. RunInv => WarmupIsNotMeasured
  BY DEF RunInv, AbortedIsLast, WarmupComesFirst, Complete, WarmupIsNotMeasured
<1> QED
  BY RunInvariant, <1>1, PTL

\* run_pass and main: a run that leaves events of a reported pass behind marks
\* its headline report as aborted and does not exit with 0.
THEOREM CutMarked == Spec => []CutIsMarked
<1>1. RunInv => CutIsMarked
  <2> SUFFICES ASSUME RunInv, NEW i \in DOMAIN passes, passes[i].attempted < Events
               PROVE  PrimaryAborted /\ exit # 0
    BY DEF CutIsMarked
  <2>1. passes[i].aborted /\ i = Len(passes)
    BY RunAssumption DEF RunInv, AbortedIsLast, Complete
  <2> QED
    BY <2>1 DEF RunInv, ExitTellsAbort, AnyAborted, PrimaryAborted, Last
<1> QED
  BY RunInvariant, <1>1, PTL

\* run_passes: only the last report of a run can be a partial one.
THEOREM PartialIsLast == Spec => []OnlyLastIsPartial
<1>1. RunInv => OnlyLastIsPartial
  <2> SUFFICES ASSUME RunInv, NEW i \in DOMAIN passes, i < Len(passes)
               PROVE  passes[i].attempted = Events
    BY DEF OnlyLastIsPartial
  <2>1. passes \in Seq(PassReport)
    BY DEF RunInv, RunTypeOK
  <2>2. i # Len(passes)
    BY <2>1
  <2> QED
    BY <2>2 DEF RunInv, AbortedIsLast, Complete
<1> QED
  BY RunInvariant, <1>1, PTL
=============================================================================
