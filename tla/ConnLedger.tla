----------------------------- MODULE ConnLedger -----------------------------
(***************************************************************************)
(* What the capture promises about the connections it meets: each one is   *)
(* opened once and closed once, under one disposition, and every one that  *)
(* was opened is closed when the capture has been read to its end.         *)
(***************************************************************************)
EXTENDS Integers, FiniteSets, FiniteSetsExt

CONSTANT Dispositions

VARIABLES
    opened,   \* connections seen
    closed,   \* connections closed, by disposition
    result    \* "scanning", "ok" or "error"

vars == <<opened, closed, result>>

Closed(count) == MapThenSumSet(LAMBDA d : count[d], Dispositions)

Init ==
    /\ opened = 0
    /\ closed = [d \in Dispositions |-> 0]
    /\ result = "scanning"

\* A packet opens at most one connection and closes at most two: one that it
\* replaces, and its own.  Reading may stop with an error at any packet.
Packet ==
    /\ result = "scanning"
    /\ opened' \in {opened, opened + 1}
    /\ closed' \in [Dispositions -> Nat]
    /\ \A d \in Dispositions : closed'[d] >= closed[d]
    /\ Closed(closed') - Closed(closed) <= 2
    /\ Closed(closed') <= opened'
    /\ result' \in {"scanning", "error"}

\* At the end every open connection is closed.
Finish ==
    /\ result = "scanning"
    /\ result' \in {"ok", "error"}
    /\ closed' \in [Dispositions -> Nat]
    /\ \A d \in Dispositions : closed'[d] >= closed[d]
    /\ Closed(closed') = opened
    /\ UNCHANGED opened

Next == Packet \/ Finish

Spec == Init /\ [][Next]_vars
=============================================================================
