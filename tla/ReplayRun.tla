------------------------------ MODULE ReplayRun ------------------------------
(***************************************************************************)
(* A whole `sql-replay replay` run (replay.rs, run_replay and run_passes;  *)
(* main.rs, the Replay command): the set-up, the optional warm-up pass, up *)
(* to --repeat measured passes, the median over them, the files written,   *)
(* the exit code, and the signals that may arrive at any of these points.  *)
(* A pass is what ReplayPass models in full; here it ends with a report    *)
(* that says how many events an abort did not leave behind.                *)
(***************************************************************************)
EXTENDS Integers, Sequences, FiniteSets, SequencesExt

CONSTANTS
    Events,      \* events of the capture attempted by a complete pass
    MaxRepeat    \* largest --repeat considered

ASSUME RunAssumption == Events \in Nat \ {0} /\ MaxRepeat \in Nat \ {0}

VARIABLES
    opt,        \* the options --repeat, --warmup and --out
    at,         \* where run_passes (or its caller) is
    kind,       \* the pass that is running: "warmup" or "measured"
    cut,        \* the running pass saw the abort before all its events were attempted
    passes,     \* the reports collected so far; warmup is a history field of theirs
    shutdown,   \* the abort flag
    signals,    \* signals received, as far as the handler tells them apart
    files,      \* the files written: pass numbers, and 0 for --out itself
    exit        \* exit code of the process

vars == <<opt, at, kind, cut, passes, shutdown, signals, files, exit>>

Running == -1

\* clap accepts --repeat from 1; ReplayOptions built by hand may hold 0.
Repeat == IF opt.repeat < 1 THEN 1 ELSE opt.repeat

Init ==
    /\ opt \in [repeat : 0 .. MaxRepeat, warmup : BOOLEAN, out : BOOLEAN]
    /\ at = "setup"
    /\ kind = "measured"
    /\ cut = FALSE
    /\ passes = <<>>
    /\ shutdown = FALSE
    /\ signals = 0
    /\ files = {}
    /\ exit = Running

-----------------------------------------------------------------------------
\* The file-descriptor check, the probe of the target and the spool succeed.
SetUp ==
    /\ at = "setup"
    /\ at' = "warmup"
    /\ UNCHANGED <<opt, kind, cut, passes, shutdown, signals, files, exit>>

\* Set-up fails, a session task panics during a pass, or a report cannot be
\* written: the error reaches main, which exits with 1 and writes nothing more.
Fail ==
    /\ \/ at \in {"setup", "sessions"}
       \/ at = "outcome" /\ opt.out /\ 0 \notin files
    /\ at' = "exited"
    /\ exit' = 1
    /\ UNCHANGED <<opt, kind, cut, passes, shutdown, signals, files>>

StartPass(k) ==
    /\ kind' = k
    /\ cut' = FALSE
    /\ at' = "sessions"

\* The warm-up is skipped when the abort came first.
Warmup ==
    /\ at = "warmup"
    /\ IF opt.warmup /\ ~shutdown
       THEN StartPass("warmup")
       ELSE at' = "loop" /\ UNCHANGED <<kind, cut>>
    /\ UNCHANGED <<opt, passes, shutdown, signals, files, exit>>

\* Faulty variant: an abort before the first pass leaves no report.
LoopHeadEmpty ==
    /\ at = "loop"
    /\ IF Len(passes) < Repeat /\ ~shutdown
       THEN StartPass("measured")
       ELSE at' = "outcome" /\ UNCHANGED <<kind, cut>>
    /\ UNCHANGED <<opt, passes, shutdown, signals, files, exit>>

\* The head of the loop over the measured passes.
LoopHead ==
    /\ at = "loop"
    /\ IF Len(passes) < Repeat /\ ~(shutdown /\ passes # <<>>)
       THEN StartPass("measured")
       ELSE at' = "outcome" /\ UNCHANGED <<kind, cut>>
    /\ UNCHANGED <<opt, passes, shutdown, signals, files, exit>>

\* The sessions of the pass have all ended.  If the abort came first, they may
\* have left events behind.
JoinSessions ==
    /\ at = "sessions"
    /\ cut' \in IF shutdown THEN BOOLEAN ELSE {FALSE}
    /\ at' = "report"
    /\ UNCHANGED <<opt, kind, passes, shutdown, signals, files, exit>>

\* Faulty variant: a complete warm-up is kept.
EndPassKeepsWarmup ==
    /\ at = "report"
    /\ \E n \in IF cut THEN 0 .. (Events - 1) ELSE {Events} :
           /\ passes' = Append(passes, [attempted |-> n, aborted |-> shutdown,
                                        warmup |-> kind = "warmup"])
           /\ at' = IF shutdown THEN "outcome" ELSE "loop"
    /\ UNCHANGED <<opt, kind, cut, shutdown, signals, files, exit>>

\* Faulty variant: the warm-up starts over.
EndPassWarmsUpAgain ==
    /\ at = "report"
    /\ \E n \in IF cut THEN 0 .. (Events - 1) ELSE {Events} :
           IF kind = "warmup" /\ ~shutdown
           THEN at' = "warmup" /\ UNCHANGED passes
           ELSE /\ passes' = Append(passes, [attempted |-> n, aborted |-> shutdown,
                                             warmup |-> kind = "warmup"])
                /\ at' = IF shutdown THEN "outcome" ELSE "loop"
    /\ UNCHANGED <<opt, kind, cut, shutdown, signals, files, exit>>

\* Faulty variant: the abort is a notification that one pass consumes.
EndPassConsumesAbort ==
    /\ at = "report"
    /\ \E n \in IF cut THEN 0 .. (Events - 1) ELSE {Events} :
           IF kind = "warmup"
           THEN at' = "loop" /\ UNCHANGED passes
           ELSE /\ passes' = Append(passes, [attempted |-> n, aborted |-> shutdown,
                                             warmup |-> FALSE])
                /\ at' = "loop"
    /\ shutdown' = FALSE
    /\ UNCHANGED <<opt, kind, cut, signals, files, exit>>

\* The pass's report is built, reading the abort flag; an aborted warm-up is
\* the outcome, a complete one is discarded.
EndPass ==
    /\ at = "report"
    /\ \E n \in IF cut THEN 0 .. (Events - 1) ELSE {Events} :
           LET r == [attempted |-> n, aborted |-> shutdown, warmup |-> kind = "warmup"]
           IN  IF kind = "warmup" /\ ~r.aborted
               THEN at' = "loop" /\ UNCHANGED passes
               ELSE /\ passes' = Append(passes, r)
                    /\ at' = IF r.aborted THEN "outcome" ELSE "loop"
    /\ UNCHANGED <<opt, kind, cut, shutdown, signals, files, exit>>

-----------------------------------------------------------------------------
(* The outcome.                                                            *)

\* Faulty variant: one complete pass hides the aborted one.
AllAborted == \A i \in DOMAIN passes : passes[i].aborted

AnyAborted == \E i \in DOMAIN passes : passes[i].aborted

\* An aborted warm-up is returned without an aggregate, whatever --repeat says.
Aggregated == Repeat > 1 /\ ~\E i \in DOMAIN passes : passes[i].warmup

\* The abort flag of ReplayOutcome::primary, the report that becomes --out; its
\* numbers are the medians of module Reports.
PrimaryAborted == IF Aggregated THEN AnyAborted ELSE Last(passes).aborted

PassFiles == IF Aggregated THEN DOMAIN passes ELSE {}

\* main writes the passes of an aggregated run one by one, then the headline
\* report, if --out was given.
WriteFile ==
    /\ at = "outcome"
    /\ IF ~opt.out \/ 0 \in files
       THEN at' = "written" /\ UNCHANGED files
       ELSE /\ files' = files \cup {IF PassFiles \subseteq files THEN 0
                                    ELSE Min(PassFiles \ files)}
            /\ UNCHANGED at
    /\ UNCHANGED <<opt, kind, cut, passes, shutdown, signals, exit>>

Exit ==
    /\ at = "written"
    /\ exit' = IF AnyAborted THEN 130 ELSE 0
    /\ at' = "exited"
    /\ UNCHANGED <<opt, kind, cut, passes, shutdown, signals, files>>

-----------------------------------------------------------------------------
(* The signal task lives as long as the process.                           *)

FirstSignal ==
    /\ at # "exited" /\ signals = 0
    /\ signals' = 1
    /\ shutdown' = TRUE
    /\ UNCHANGED <<opt, at, kind, cut, passes, files, exit>>

\* The second one exits at once, whatever the run is doing.
SecondSignal ==
    /\ at # "exited" /\ signals = 1
    /\ signals' = 2
    /\ exit' = 130
    /\ at' = "exited"
    /\ UNCHANGED <<opt, kind, cut, passes, shutdown, files>>

Finished == at = "exited" /\ UNCHANGED vars

Work == SetUp \/ Warmup \/ LoopHead \/ JoinSessions \/ EndPass \/ WriteFile \/ Exit

Next == Work \/ Fail \/ FirstSignal \/ SecondSignal \/ Finished

Spec == Init /\ [][Next]_vars

\* A pass ends (see PassEnds of ReplayPass) and the code around it does not
\* wait for anything; signals and failures need not happen.
FairSpec == Spec /\ WF_vars(Work)

-----------------------------------------------------------------------------
(* Properties.                                                             *)

\* A warm-up report is only ever the sole report of an aborted run.
WarmupIsNotMeasured ==
    \A i \in DOMAIN passes :
        passes[i].warmup => Len(passes) = 1 /\ passes[i].aborted

\* A run that leaves events of a reported pass behind marks its headline
\* report as aborted and does not exit with 0.
CutIsMarked ==
    (\E i \in DOMAIN passes : passes[i].attempted < Events) =>
        (at = "written" => PrimaryAborted) /\ exit # 0

\* main.rs and ReplayOutcome::primary, which expects a report: there is one
\* wherever the abort came, before the first pass included; a run that ends by
\* itself has written it to --out; and wherever a second signal or a failed write
\* ends the process, an --out file has the file of every pass it summarises next
\* to it.
RunLeavesItsReport ==
    /\ at \in {"outcome", "written"} => passes # <<>>
    /\ at = "written" /\ opt.out => 0 \in files
    /\ 0 \in files => PassFiles \subseteq files

\* Only the last report of a run can be a partial one, so a median over passes
\* mixes at most one partial pass into complete ones.
OnlyLastIsPartial ==
    \A i \in DOMAIN passes : i < Len(passes) => passes[i].attempted = Events

\* Every run ends, with or without signals.
RunEnds == <>(at = "exited")
-----------------------------------------------------------------------------
(* The inductive invariant behind the safety properties.                   *)

\* The report of one pass; warmup is a history field.
PassReport == [attempted : 0 .. Events, aborted : BOOLEAN, warmup : BOOLEAN]

\* The types of the run's state.
RunTypeOK ==
    /\ opt \in [repeat : 0 .. MaxRepeat, warmup : BOOLEAN, out : BOOLEAN]
    /\ at \in {"setup", "warmup", "loop", "sessions", "report", "outcome", "written", "exited"}
    /\ kind \in {"warmup", "measured"}
    /\ cut \in BOOLEAN /\ shutdown \in BOOLEAN
    /\ passes \in Seq(PassReport)
    /\ signals \in 0 .. 2
    /\ files \subseteq Nat
    /\ exit \in {Running, 0, 1, 130}

\* Where run_passes still runs: nothing is written yet.
InPasses == at \in {"setup", "warmup", "loop", "sessions", "report"}

\* A measured pass that was not aborted attempted every event.
Complete(r) == ~r.aborted /\ ~r.warmup /\ r.attempted = Events

\* An aborted report ends the run, so it is the last one; all others are complete.
AbortedIsLast ==
    \A i \in DOMAIN passes :
        \/ Complete(passes[i])
        \/ passes[i].aborted /\ i = Len(passes) /\ ~InPasses

\* The warm-up comes before any report is collected.
WarmupComesFirst ==
    /\ at \in {"setup", "warmup"} \/ (at \in {"sessions", "report"} /\ kind = "warmup")
          => passes = <<>>
    /\ \A i \in DOMAIN passes : passes[i].warmup => Len(passes) = 1

\* A pass is cut short only by the abort, whose flag is never lowered.
CutNeedsAbort == cut => shutdown

\* The exit code of a run that ended by itself says whether it was aborted.
ExitTellsAbort ==
    /\ at # "exited" => exit = Running
    /\ exit = 0 => ~AnyAborted

RunInv ==
    /\ RunTypeOK
    /\ AbortedIsLast /\ WarmupComesFirst /\ CutNeedsAbort /\ ExitTellsAbort
    /\ InPasses => files = {}
    /\ RunLeavesItsReport
=============================================================================
