---------------------------- MODULE MCComparison ----------------------------
(***************************************************************************)
(* Small plans for module Comparison.                                      *)
(***************************************************************************)
EXTENDS Comparison

Row(hash, bytes) == [hash |-> hash, bytes |-> bytes]

\* Latencies 2 and 3 are just 50% apart.
Ev(fp, rows, us) == [fp |-> fp, columns |-> 1, rows |-> rows, us |-> us, writes |-> FALSE]

\* Fingerprint A has a small and a large result, V is volatile, W writes.
a1 == Ev("A", <<Row(3, 1), Row(40, 1)>>, {2, 3})
a2 == Ev("A", <<Row(500, 20)>>, {2, 3})
v  == Ev("V", <<Row(7, 1)>>, {2})
w  == [Ev("W", <<>>, {2}) EXCEPT !.writes = TRUE]

\* The other server: a row of a1 has another value, a2 is always slow, and V
\* answers something else.
wrong1 == [a1 EXCEPT !.rows = <<Row(3, 1), Row(41, 1)>>]
slow2  == [a2 EXCEPT !.us = {3}]
other  == [v EXCEPT !.rows = <<Row(9, 1)>>]

Meta(checksum, allow, family) ==
    [capture |-> "c", checksum |-> checksum, allow_writes |-> allow, filter |-> None,
     settings |-> {<<"sql_mode", family>>}, family |-> family]

Run(events, repeat, recorded, meta) ==
    [events |-> events, repeat |-> repeat, recorded |-> recorded, meta |-> meta]

MySQL   == Meta(TRUE, FALSE, "MySQL")
MariaDB == [Meta(TRUE, FALSE, "MariaDB") EXCEPT !.capture = "d"]

\* Around the thresholds of 20% and 29%, which are not exact in binary.
at100 == Ev("A", <<Row(3, 1)>>, {100})
above == [at100 EXCEPT !.us = {119, 120, 129, 130}]

MCPlans ==
    { <<Run(<<at100>>, 1, FALSE, MySQL), Run(<<above>>, 3, FALSE, MySQL)>>,
      <<Run(<<a1, a2>>, 1, FALSE, MySQL), Run(<<a1, a2>>, 3, FALSE, MySQL)>>,
      <<Run(<<a1, a2>>, 2, FALSE, MySQL), Run(<<a1, slow2>>, 1, FALSE, MySQL)>>,
      <<Run(<<a1, a2, v>>, 1, FALSE, MySQL), Run(<<wrong1, a2, other>>, 2, FALSE, MySQL)>>,
      <<Run(<<wrong1, a2>>, 2, FALSE, MySQL), Run(<<a1, a2>>, 2, FALSE, MariaDB)>>,
      <<Run(<<a1, a2, w>>, 1, TRUE, MySQL), Run(<<a1, a2, w>>, 2, FALSE, Meta(FALSE, TRUE, "MySQL"))>>,
      <<Run(<<a1, w>>, 1, FALSE, MySQL), Run(<<a2, v, w>>, 1, FALSE, Meta(FALSE, TRUE, "MySQL"))>> }

MCSizeBounds == <<10>>
=============================================================================
