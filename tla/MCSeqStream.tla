---------------------------- MODULE MCSeqStream ----------------------------
(* Segmentations of a short stream for the model checker.                  *)
EXTENDS SeqStream

\* The sender always cuts the stream at the same places.
FixedCuts(n) == {[from |-> 2 * k, len |-> 2] : k \in 0 .. (n \div 2) - 1}

\* Retransmissions may be cut anywhere.
AnyCuts(n) == {s \in [from : 0 .. n - 1, len : 1 .. 3] : s.from + s.len <= n}

Fixed(n, syn) ==
    [segments |-> FixedCuts(n), synCaptured |-> syn, recut |-> FALSE]

Recut(n) ==
    [segments |-> AnyCuts(n), synCaptured |-> TRUE, recut |-> TRUE]

\* A stream longer than the sequence space, with and without its SYN.
Captures == {Recut(11), Fixed(12, TRUE), Fixed(12, FALSE)}
=============================================================================
