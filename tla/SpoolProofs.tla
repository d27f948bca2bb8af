----------------------------- MODULE SpoolProofs -----------------------------
(***************************************************************************)
(* Proofs about the replay spool, for any captures and filters.            *)
(***************************************************************************)
EXTENDS Spool, SequenceTheorems, Induction

-----------------------------------------------------------------------------
(* The records of a capture.                                               *)

\* What is assumed of a capture file.
LEMMA CaptureType ==
    ASSUME NEW c \in Captures
    PROVE  /\ Len(c) \in Nat /\ DOMAIN c = 1 .. Len(c)
           /\ c \in Seq({c[k] : k \in DOMAIN c})
           /\ \A k \in 1 .. Len(c) :
                 c[k].type = "event" => c[k].size \in Nat \ {0} /\ c[k].ts \in Int
<1>1. c \in Seq({c[k] : k \in DOMAIN c})
  BY CaptureAssumption
<1>2. Len(c) \in Nat /\ DOMAIN c = 1 .. Len(c)
  BY <1>1, LenProperties
<1> QED
  BY <1>1, <1>2, CaptureAssumption

\* The positions that are counted are finitely many.
LEMMA PositionsFinite ==
    ASSUME NEW c, NEW n \in Nat
    PROVE  /\ IsFiniteSet(Selected(c, n)) /\ Selected(c, n) \subseteq 1 .. n
           /\ IsFiniteSet(Rejected(c, n)) /\ Rejected(c, n) \subseteq 1 .. n
           /\ \A s : IsFiniteSet(EventsAt(c, s, n)) /\ EventsAt(c, s, n) \subseteq Selected(c, n)
<1>1. IsFiniteSet(1 .. n)
  BY FS_Interval
<1>2. Selected(c, n) \subseteq 1 .. n /\ Rejected(c, n) \subseteq 1 .. n
  BY DEF Selected, Rejected
<1>3. \A s : EventsAt(c, s, n) \subseteq Selected(c, n)
  BY DEF EventsAt
<1>4. IsFiniteSet(Selected(c, n)) /\ IsFiniteSet(Rejected(c, n))
  BY <1>1, <1>2, FS_Subset
<1>5. \A s : IsFiniteSet(EventsAt(c, s, n))
  BY <1>3, <1>4, FS_Subset
<1> QED
  BY <1>2, <1>3, <1>4, <1>5

\* One more record: an event that passes the filters.
LEMMA SelectsNext ==
    ASSUME NEW c, NEW n \in Nat, c[n + 1].type = "event", Matches(c[n + 1])
    PROVE  /\ Selected(c, n + 1) = Selected(c, n) \cup {n + 1}
           /\ Rejected(c, n + 1) = Rejected(c, n)
           /\ EventsAt(c, c[n + 1].session, n + 1) = EventsAt(c, c[n + 1].session, n) \cup {n + 1}
           /\ \A s : s # c[n + 1].session => EventsAt(c, s, n + 1) = EventsAt(c, s, n)
<1>1. 1 .. n + 1 = (1 .. n) \cup {n + 1}
  OBVIOUS
<1>2. Selected(c, n + 1) = Selected(c, n) \cup {n + 1}
  BY <1>1 DEF Selected
<1>3. Rejected(c, n + 1) = Rejected(c, n)
  BY <1>1 DEF Rejected
<1> QED
  BY <1>2, <1>3 DEF EventsAt

\* An event that does not.
LEMMA RejectsNext ==
    ASSUME NEW c, NEW n \in Nat, c[n + 1].type = "event", ~Matches(c[n + 1])
    PROVE  /\ Selected(c, n + 1) = Selected(c, n)
           /\ Rejected(c, n + 1) = Rejected(c, n) \cup {n + 1}
           /\ \A s : EventsAt(c, s, n + 1) = EventsAt(c, s, n)
<1>1. 1 .. n + 1 = (1 .. n) \cup {n + 1}
  OBVIOUS
<1>2. Selected(c, n + 1) = Selected(c, n)
  BY <1>1 DEF Selected
<1>3. Rejected(c, n + 1) = Rejected(c, n) \cup {n + 1}
  BY <1>1 DEF Rejected
<1> QED
  BY <1>2, <1>3 DEF EventsAt

\* A header or a summary.
LEMMA PassesNext ==
    ASSUME NEW c, NEW n \in Nat, c[n + 1].type # "event"
    PROVE  /\ Selected(c, n + 1) = Selected(c, n)
           /\ Rejected(c, n + 1) = Rejected(c, n)
           /\ \A s : EventsAt(c, s, n + 1) = EventsAt(c, s, n)
<1>1. 1 .. n + 1 = (1 .. n) \cup {n + 1}
  OBVIOUS
<1>2. Selected(c, n + 1) = Selected(c, n) /\ Rejected(c, n + 1) = Rejected(c, n)
  BY <1>1 DEF Selected, Rejected
<1> QED
  BY <1>2 DEF EventsAt

\* Before the first record there is nothing.
LEMMA NothingYet ==
    ASSUME NEW c
    PROVE  /\ Selected(c, 0) = {} /\ Rejected(c, 0) = {}
           /\ \A s : EventsAt(c, s, 0) = {} /\ Bytes(c, s, 0) = 0
<1>1. Selected(c, 0) = {} /\ Rejected(c, 0) = {}
  BY DEF Selected, Rejected
<1>2. \A s : EventsAt(c, s, 0) = {}
  BY <1>1 DEF EventsAt
<1> QED
  BY <1>1, <1>2, TotalEmpty DEF Bytes

-----------------------------------------------------------------------------
(* The room a session's events take.                                       *)

\* Sizes are added up record by record.
LEMMA BytesStep ==
    ASSUME NEW c \in Captures, NEW s, NEW n \in Nat, n < Len(c)
    PROVE  /\ Bytes(c, s, n) \in Nat /\ Bytes(c, s, n + 1) \in Nat
           /\ n + 1 \in EventsAt(c, s, n + 1) =>
                 Bytes(c, s, n + 1) = Bytes(c, s, n) + c[n + 1].size
           /\ n + 1 \notin EventsAt(c, s, n + 1) => Bytes(c, s, n + 1) = Bytes(c, s, n)
<1> DEFINE S == EventsAt(c, s, n)
           T == EventsAt(c, s, n + 1)
           f == [k \in S |-> c[k].size]
           g == [k \in T |-> c[k].size]
<1>1. IsFiniteSet(S) /\ IsFiniteSet(T) /\ S \subseteq 1 .. n /\ T \subseteq 1 .. n + 1
  BY PositionsFinite, n + 1 \in Nat
<1>2. \A k \in T : c[k].size \in Nat
  <2>1. \A k \in T : c[k].type = "event" /\ k \in 1 .. Len(c)
    BY <1>1 DEF EventsAt, Selected
  <2> QED
    BY <2>1, CaptureType
<1>3. S = T \ {n + 1}
  <2>1. 1 .. n = (1 .. n + 1) \ {n + 1}
    OBVIOUS
  <2> QED
    BY <2>1 DEF EventsAt, Selected
<1>4. \A k \in T : g[k] = c[k].size /\ g[k] \in Nat /\ g[k] \in Int
  BY <1>2
<1>5. \A k \in S : f[k] = c[k].size /\ f[k] \in Nat /\ f[k] \in Int /\ g[k] = f[k]
  BY <1>2, <1>3
<1>6. Bytes(c, s, n) = Total(f, S) /\ Bytes(c, s, n + 1) = Total(g, T)
  BY DEF Bytes
<1> HIDE DEF S, T, f, g
<1>7. Total(f, S) \in Nat /\ Total(g, T) \in Nat
  BY <1>1, <1>4, <1>5, TotalNat
<1>8. Total(g, S) = Total(f, S)
  BY <1>1, <1>5, TotalSame
<1>9. n + 1 \in T => Total(g, T) = c[n + 1].size + Total(f, S)
  <2>1. \A k \in T : g[k] \in Int
    BY <1>4
  <2>2. \A k \in T : Total(g, T) = g[k] + Total(g, T \ {k})
    BY <1>1, <2>1, TotalSplit
  <2> QED
    BY <1>3, <1>4, <1>8, <2>2
<1>10. n + 1 \notin T => T = S
  BY <1>3
<1>11. n + 1 \in T => c[n + 1].size \in Nat
  BY <1>2
<1> QED
  <2>1. n + 1 \in T => Total(g, T) = Total(f, S) + c[n + 1].size
    BY <1>7, <1>9, <1>11
  <2>2. n + 1 \notin T => Total(g, T) = Total(f, S)
    BY <1>8, <1>10
  <2> QED
    BY <1>6, <1>7, <2>1, <2>2 DEF T

\* It is a natural number.
LEMMA BytesType ==
    ASSUME NEW c \in Captures, NEW s, NEW n \in 0 .. Len(c)
    PROVE  Bytes(c, s, n) \in Nat
<1>1. Len(c) \in Nat
  BY CaptureType
<1>2. CASE n = 0
  <2>1. Bytes(c, s, 0) = 0
    BY NothingYet, Zenon
  <2> QED
    BY <1>2, <2>1
<1>3. CASE n # 0
  <2>1. n - 1 \in Nat /\ n - 1 < Len(c) /\ (n - 1) + 1 = n
    BY <1>1, <1>3
  <2> QED
    BY <2>1, BytesStep
<1> QED
  BY <1>2, <1>3

\* More records take more room.
LEMMA BytesGrow ==
    ASSUME NEW c \in Captures, NEW s, NEW n \in 0 .. Len(c), NEW m \in 0 .. Len(c), n <= m
    PROVE  Bytes(c, s, n) <= Bytes(c, s, m)
<1> DEFINE N == {d \in Nat : n + d <= Len(c) => Bytes(c, s, n) <= Bytes(c, s, n + d)}
<1>1. Len(c) \in Nat /\ n \in Nat /\ m \in Nat
  BY CaptureType
<1>2. 0 \in N
  BY <1>1, BytesType
<1>3. ASSUME NEW d \in Nat, d \in N PROVE d + 1 \in N
  <2> SUFFICES ASSUME n + (d + 1) <= Len(c) PROVE Bytes(c, s, n) <= Bytes(c, s, n + (d + 1))
    BY <1>1
  <2>1. n + d \in Nat /\ n + d < Len(c) /\ n + (d + 1) = (n + d) + 1 /\ n + d \in 0 .. Len(c)
        /\ (n + d) + 1 \in 0 .. Len(c)
    BY <1>1
  <2>2. Bytes(c, s, n) <= Bytes(c, s, n + d)
    BY <1>3, <2>1 DEF N
  <2>3. Bytes(c, s, n) \in Nat /\ Bytes(c, s, n + d) \in Nat /\ Bytes(c, s, (n + d) + 1) \in Nat
    BY <2>1, BytesType
  <2>4. (n + d) + 1 \in EventsAt(c, s, (n + d) + 1) => c[(n + d) + 1].size \in Nat
    <3>1. (n + d) + 1 \in EventsAt(c, s, (n + d) + 1) => c[(n + d) + 1].type = "event"
      BY DEF EventsAt, Selected
    <3>2. (n + d) + 1 \in 1 .. Len(c)
      BY <1>1, <2>1
    <3> QED
      BY <3>1, <3>2, CaptureType
  <2>5. Bytes(c, s, n + d) <= Bytes(c, s, (n + d) + 1)
    BY <2>1, <2>3, <2>4, BytesStep
  <2> QED
    BY <2>1, <2>2, <2>3, <2>5
<1> HIDE DEF N
<1>4. m - n \in N
  BY <1>1, <1>2, <1>3, NatSetInduction
<1>5. n + (m - n) = m /\ m - n \in Nat
  BY <1>1
<1> QED
  BY <1>1, <1>4, <1>5 DEF N

-----------------------------------------------------------------------------
(* The events of a session, in order.                                      *)

\* Record n added to the events of session s before it.
Picked(c, s, n, before) == IF n \in EventsAt(c, s, n) THEN Append(before, c[n]) ELSE before

\* u is the table behind EventsUpTo.
EventTable(u, c, s, len) ==
    u = [n \in 0 .. len |-> IF n = 0 THEN <<>> ELSE Picked(c, s, n, u[n - 1])]

\* The table exists.
LEMMA EventTableExists ==
    ASSUME NEW c, NEW s, NEW len \in Nat
    PROVE  \E u : EventTable(u, c, s, len)
<1> DEFINE N == {n \in Nat : \E u : EventTable(u, c, s, n)}
<1>1. 0 \in N
  <2>1. EventTable([n \in 0 .. 0 |-> <<>>], c, s, 0)
    BY DEF EventTable
  <2> QED
    BY <2>1
<1>2. ASSUME NEW n \in Nat, n \in N PROVE n + 1 \in N
  <2>1. PICK u : EventTable(u, c, s, n)
    BY <1>2
  <2> DEFINE v == [i \in 0 .. n + 1 |-> IF i = n + 1 THEN Picked(c, s, n + 1, u[n]) ELSE u[i]]
  <2>2. \A i \in 0 .. n : v[i] = u[i] /\ u[i] = IF i = 0 THEN <<>> ELSE Picked(c, s, i, u[i - 1])
    BY <2>1 DEF EventTable
  <2>3. \A i \in 0 .. n + 1 : v[i] = IF i = 0 THEN <<>> ELSE Picked(c, s, i, v[i - 1])
    <3> SUFFICES ASSUME NEW i \in 0 .. n + 1
                 PROVE  v[i] = IF i = 0 THEN <<>> ELSE Picked(c, s, i, v[i - 1])
      OBVIOUS
    <3>1. CASE i = n + 1
      <4>1. v[i] = Picked(c, s, n + 1, u[n]) /\ v[n] = u[n] /\ i - 1 = n /\ i # 0
        BY <2>2, <3>1
      <4> HIDE DEF v
      <4> QED
        BY <3>1, <4>1
    <3>2. CASE i # n + 1
      <4>1. i \in 0 .. n /\ (i # 0 => i - 1 \in 0 .. n)
        BY <3>2
      <4> HIDE DEF v
      <4> QED
        BY <2>2, <4>1
    <3> QED
      BY <3>1, <3>2
  <2>4. v = [i \in 0 .. n + 1 |-> v[i]]
    OBVIOUS
  <2> HIDE DEF v
  <2>5. EventTable(v, c, s, n + 1)
    BY <2>3, <2>4 DEF EventTable
  <2> QED
    BY <2>5
<1> HIDE DEF N
<1>3. len \in N
  BY <1>1, <1>2, NatSetInduction
<1> QED
  BY <1>3 DEF N

\* EventsUpTo adds the records one by one.
LEMMA EventsByRecord ==
    ASSUME NEW c \in Captures, NEW s
    PROVE  /\ EventsUpTo(c, s)[0] = <<>>
           /\ \A n \in 1 .. Len(c) :
                 EventsUpTo(c, s)[n] = Picked(c, s, n, EventsUpTo(c, s)[n - 1])
<1> DEFINE u == EventsUpTo(c, s)
<1>1. Len(c) \in Nat
  BY CaptureType
<1>2. u = CHOOSE t : EventTable(t, c, s, Len(c))
  BY DEF EventsUpTo, EventTable, Picked
<1> HIDE DEF u
<1>3. EventTable(u, c, s, Len(c))
  BY <1>1, <1>2, EventTableExists
<1>4. \A n \in 0 .. Len(c) : u[n] = IF n = 0 THEN <<>> ELSE Picked(c, s, n, u[n - 1])
  BY <1>3 DEF EventTable
<1>5. u[0] = <<>>
  BY <1>1, <1>4
<1>6. \A n \in 1 .. Len(c) : u[n] = Picked(c, s, n, u[n - 1])
  BY <1>1, <1>4
<1> QED
  BY <1>5, <1>6 DEF u

\* EventsUpTo gives sequences of records.
LEMMA EventsType ==
    ASSUME NEW c \in Captures, NEW s, NEW n \in 0 .. Len(c)
    PROVE  EventsUpTo(c, s)[n] \in Seq({c[k] : k \in DOMAIN c})
<1> DEFINE R == {c[k] : k \in DOMAIN c}
           u == EventsUpTo(c, s)
           N == {d \in Nat : d <= Len(c) => u[d] \in Seq(R)}
<1>1. Len(c) \in Nat /\ DOMAIN c = 1 .. Len(c)
  BY CaptureType
<1>2. u[0] = <<>> /\ \A d \in 1 .. Len(c) : u[d] = Picked(c, s, d, u[d - 1])
  BY EventsByRecord
<1>3. \A d \in 1 .. Len(c) : c[d] \in R
  BY <1>1
<1> HIDE DEF u, R
<1>4. 0 \in N
  <2>1. <<>> \in Seq(R)
    OBVIOUS
  <2> QED
    BY <1>2, <2>1
<1>5. ASSUME NEW d \in Nat, d \in N PROVE d + 1 \in N
  <2> SUFFICES ASSUME d + 1 <= Len(c) PROVE u[d + 1] \in Seq(R)
    OBVIOUS
  <2>1. u[d] \in Seq(R) /\ c[d + 1] \in R /\ u[d + 1] = Picked(c, s, d + 1, u[d])
    <3>1. d + 1 \in 1 .. Len(c) /\ (d + 1) - 1 = d /\ d <= Len(c)
      BY <1>1
    <3> QED
      BY <1>2, <1>3, <1>5, <3>1
  <2>2. Append(u[d], c[d + 1]) \in Seq(R)
    BY <2>1, AppendProperties
  <2> QED
    BY <2>1, <2>2 DEF Picked
<1> HIDE DEF N
<1>6. n \in N
  BY <1>1, <1>4, <1>5, NatSetInduction
<1> QED
  BY <1>1, <1>6 DEF N, u, R

\* Between two positions without an event of the session nothing is added.
LEMMA EventsSkip ==
    ASSUME NEW c \in Captures, NEW s, NEW n \in 0 .. Len(c), NEW m \in 0 .. Len(c), n <= m,
           \A k \in EventsAt(c, s, m) : k <= n
    PROVE  EventsUpTo(c, s)[m] = EventsUpTo(c, s)[n] /\ Bytes(c, s, m) = Bytes(c, s, n)
<1> DEFINE u == EventsUpTo(c, s)
           N == {d \in Nat : n + d <= m => u[n + d] = u[n] /\ Bytes(c, s, n + d) = Bytes(c, s, n)}
<1>1. Len(c) \in Nat /\ n \in Nat /\ m \in Nat /\ m <= Len(c)
  BY CaptureType
<1>2. \A d \in 1 .. Len(c) : u[d] = Picked(c, s, d, u[d - 1])
  BY EventsByRecord
<1> HIDE DEF u
<1>3. 0 \in N
  BY <1>1
<1>4. ASSUME NEW d \in Nat, d \in N PROVE d + 1 \in N
  <2> SUFFICES ASSUME n + (d + 1) <= m
               PROVE  u[n + (d + 1)] = u[n] /\ Bytes(c, s, n + (d + 1)) = Bytes(c, s, n)
    BY <1>1
  <2>1. n + d \in Nat /\ n + d < Len(c) /\ n + (d + 1) = (n + d) + 1 /\ (n + d) + 1 \in 1 .. Len(c)
        /\ ((n + d) + 1) - 1 = n + d /\ n + d <= m /\ (n + d) + 1 \in 1 .. m /\ ~((n + d) + 1 <= n)
    BY <1>1
  <2>2. u[n + d] = u[n] /\ Bytes(c, s, n + d) = Bytes(c, s, n)
    BY <1>4, <2>1
  <2>3. (n + d) + 1 \notin EventsAt(c, s, (n + d) + 1)
    <3>1. (n + d) + 1 \notin EventsAt(c, s, m)
      BY <2>1
    <3> QED
      BY <2>1, <3>1 DEF EventsAt, Selected
  <2>4. u[(n + d) + 1] = u[n + d]
    BY <1>2, <2>1, <2>3 DEF Picked
  <2>5. Bytes(c, s, (n + d) + 1) = Bytes(c, s, n + d)
    BY <2>1, <2>3, BytesStep
  <2> QED
    BY <2>1, <2>2, <2>4, <2>5
<1> HIDE DEF N
<1>5. m - n \in N
  BY <1>1, <1>3, <1>4, NatSetInduction
<1>6. n + (m - n) = m /\ m - n \in Nat
  BY <1>1
<1> QED
  BY <1>1, <1>5, <1>6 DEF N, u

\* The events up to a position are the first of the events up to a later one.
LEMMA EventsGrow ==
    ASSUME NEW c \in Captures, NEW s, NEW n \in 0 .. Len(c), NEW m \in 0 .. Len(c), n <= m
    PROVE  IsPrefix(EventsUpTo(c, s)[n], EventsUpTo(c, s)[m])
<1> DEFINE R == {c[k] : k \in DOMAIN c}
           u == EventsUpTo(c, s)
           Extends(x, y) == Len(x) <= Len(y) /\ \A k \in 1 .. Len(x) : y[k] = x[k]
           N == {d \in Nat : n + d <= Len(c) => Extends(u[n], u[n + d])}
<1>1. Len(c) \in Nat /\ n \in Nat /\ m \in Nat /\ m <= Len(c)
  BY CaptureType
<1>2. \A d \in 1 .. Len(c) : u[d] = Picked(c, s, d, u[d - 1])
  BY EventsByRecord
<1>3. \A d \in 0 .. Len(c) : u[d] \in Seq(R) /\ Len(u[d]) \in Nat
  <2>1. \A d \in 0 .. Len(c) : u[d] \in Seq(R)
    BY EventsType
  <2> HIDE DEF u, R
  <2> QED
    BY <2>1, LenProperties
<1>4. \A d \in 1 .. Len(c) : c[d] \in R
  BY CaptureType
<1> HIDE DEF u, R
<1>5. 0 \in N
  BY <1>1, <1>3
<1>6. ASSUME NEW d \in Nat, d \in N PROVE d + 1 \in N
  <2> SUFFICES ASSUME n + (d + 1) <= Len(c) PROVE Extends(u[n], u[n + (d + 1)])
    BY <1>1
  <2>1. n + d \in 0 .. Len(c) /\ n + (d + 1) = (n + d) + 1 /\ (n + d) + 1 \in 1 .. Len(c)
        /\ ((n + d) + 1) - 1 = n + d /\ n + d <= Len(c)
    BY <1>1
  <2>2. Extends(u[n], u[n + d])
    BY <1>6, <2>1
  <2>3. u[(n + d) + 1] = Picked(c, s, (n + d) + 1, u[n + d])
    BY <1>2, <2>1
  <2>4. u[n] \in Seq(R) /\ u[n + d] \in Seq(R) /\ c[(n + d) + 1] \in R
    BY <1>1, <1>3, <1>4, <2>1
  <2>5. Extends(u[n], Append(u[n + d], c[(n + d) + 1]))
    <3>1. PICK x, y, z : x = u[n] /\ y = u[n + d] /\ z = c[(n + d) + 1]
      OBVIOUS
    <3>2. x \in Seq(R) /\ y \in Seq(R) /\ z \in R /\ Extends(x, y)
      BY <2>2, <2>4, <3>1
    <3>3. Len(Append(y, z)) = Len(y) + 1 /\ \A k \in 1 .. Len(y) : Append(y, z)[k] = y[k]
      BY <3>2, AppendProperties
    <3>4. Len(x) \in Nat /\ Len(y) \in Nat
      BY <3>2, LenProperties
    <3>5. Extends(x, Append(y, z))
      BY <3>2, <3>3, <3>4
    <3> QED
      BY <3>1, <3>5
  <2> HIDE DEF Extends
  <2> QED
    BY <2>1, <2>2, <2>3, <2>5 DEF Picked
<1> HIDE DEF N
<1>7. m - n \in N
  BY <1>1, <1>5, <1>6, NatSetInduction
<1>8. n + (m - n) = m /\ m - n \in Nat
  BY <1>1
<1>9. Extends(u[n], u[m])
  BY <1>1, <1>7, <1>8 DEF N
<1>10. u[n] \in Seq(R) /\ u[m] \in Seq(R)
  BY <1>1, <1>3
<1>11. IsPrefix(u[n], u[m])
  <2>1. PICK x, y : x = u[n] /\ y = u[m]
    OBVIOUS
  <2>2. x \in Seq(R) /\ y \in Seq(R) /\ Extends(x, y)
    BY <1>9, <1>10, <2>1
  <2>3. Len(x) \in Nat /\ Len(y) \in Nat /\ Len(x) <= Len(y)
    BY <2>2, LenProperties
  <2>4. SubSeq(x, 1, Len(x)) = SubSeq(y, 1, Len(x))
    BY <2>2, <2>3
  <2> QED
    BY <2>1, <2>3, <2>4 DEF IsPrefix
<1> QED
  BY <1>11 DEF u

\* Min is the element that none is below.
LEMMA MinIs ==
    ASSUME NEW T, T \subseteq Int, NEW x \in T, \A y \in T : x <= y
    PROVE  Min(T) = x
<1>1. Min(T) \in T /\ \A y \in T : Min(T) <= y
  BY Zenon DEF Min
<1>2. x \in Int /\ Min(T) \in Int /\ x <= Min(T) /\ Min(T) <= x
  BY <1>1
<1> QED
  BY <1>2

\* Among finitely many records one has the least timestamp.
LEMMA LeastValue ==
    ASSUME NEW S, IsFiniteSet(S), S # {}, NEW g, \A x \in S : g[x] \in Int
    PROVE  \E x \in S : \A y \in S : g[x] <= g[y]
<1> DEFINE F == {A \in SUBSET S : A = {} \/ \E x \in A : \A y \in A : g[x] <= g[y]}
<1>1. {} \in F
  OBVIOUS
<1>2. ASSUME NEW A \in SUBSET S, NEW x \in S \ A, A \in F PROVE A \cup {x} \in F
  <2>1. g[x] \in Int /\ \A y \in A : g[y] \in Int
    OBVIOUS
  <2>2. CASE A = {}
    BY <2>1, <2>2
  <2>3. CASE A # {}
    <3>1. PICK a \in A : \A y \in A : g[a] <= g[y]
      BY <1>2, <2>3
    <3>2. CASE g[x] <= g[a]
      <4>1. \A y \in A \cup {x} : g[x] <= g[y]
        BY <2>1, <3>1, <3>2
      <4> QED
        BY <4>1
    <3>3. CASE ~(g[x] <= g[a])
      <4>1. \A y \in A \cup {x} : g[a] <= g[y]
        BY <2>1, <3>1, <3>3
      <4> QED
        BY <4>1
    <3> QED
      BY <3>2, <3>3
  <2> QED
    BY <2>2, <2>3
<1> HIDE DEF F
<1>3. S \in F
  BY <1>1, <1>2, FiniteSetInduction
<1> QED
  BY <1>3 DEF F

-----------------------------------------------------------------------------
(* What pass A computes, record by record.                                 *)

\* The next record is an event that passes the filters.
Takes(c, n) == n \in Nat /\ c[n + 1].type = "event" /\ Matches(c[n + 1])

\* Another event of a known session leaves the order alone, the first one of a
\* new session puts it at the end.
LEMMA GroupedStep ==
    ASSUME NEW c \in Captures, NEW n, Takes(c, n), NEW S, NEW sids \in Seq(S), Grouped(c, sids, n)
    PROVE  /\ (\E i \in DOMAIN sids : sids[i] = c[n + 1].session) => Grouped(c, sids, n + 1)
           /\ ~(\E i \in DOMAIN sids : sids[i] = c[n + 1].session) =>
                 Grouped(c, Append(sids, c[n + 1].session), n + 1)
<1> DEFINE sid == c[n + 1].session
           E(s) == EventsAt(c, s, n)
           F(s) == EventsAt(c, s, n + 1)
<1>0. n \in Nat /\ c[n + 1].type = "event" /\ Matches(c[n + 1])
  BY DEF Takes
<1>1. /\ Selected(c, n + 1) = Selected(c, n) \cup {n + 1}
      /\ F(sid) = E(sid) \cup {n + 1}
      /\ \A s : s # sid => F(s) = E(s)
  BY <1>0, SelectsNext
<1>2. \A s : E(s) \subseteq 1 .. n
  BY <1>0, PositionsFinite
<1>3. {c[k].session : k \in Selected(c, n + 1)} = {c[k].session : k \in Selected(c, n)} \cup {sid}
  BY <1>1
<1>4. {sids[i] : i \in DOMAIN sids} = {c[k].session : k \in Selected(c, n)}
  BY DEF Grouped
<1>5. \A i, j \in DOMAIN sids : i < j => \E k \in E(sids[i]) : \A l \in E(sids[j]) : k < l
  BY DEF Grouped
<1>6. \A s : E(s) \subseteq F(s) /\ \A l \in F(s) : l \in E(s) \/ l = n + 1
  BY <1>1
<1>7. \A i \in DOMAIN sids : \E k \in E(sids[i]) : TRUE
  BY <1>4 DEF EventsAt
<1>8. \A s : \A k \in E(s) : k \in 1 .. n /\ k < n + 1
  BY <1>0, <1>2
<1> HIDE DEF E, F, sid
<1>9. \A i, j \in DOMAIN sids : i < j => \E k \in F(sids[i]) : \A l \in F(sids[j]) : k < l
  <2> SUFFICES ASSUME NEW i \in DOMAIN sids, NEW j \in DOMAIN sids, i < j
               PROVE  \E k \in F(sids[i]) : \A l \in F(sids[j]) : k < l
    OBVIOUS
  <2>1. PICK k \in E(sids[i]) : \A l \in E(sids[j]) : k < l
    BY <1>5
  <2>2. k < n + 1
    BY <1>8
  <2>3. \A l \in F(sids[j]) : k < l
    BY <1>6, <2>1, <2>2
  <2> QED
    BY <1>6, <2>3
<1>10. ASSUME \E i \in DOMAIN sids : sids[i] = sid PROVE Grouped(c, sids, n + 1)
  <2>1. {sids[i] : i \in DOMAIN sids} = {c[k].session : k \in Selected(c, n + 1)}
    BY <1>3, <1>4, <1>10
  <2> QED
    BY <1>9, <2>1 DEF Grouped, F
<1>11. ASSUME ~(\E i \in DOMAIN sids : sids[i] = sid) PROVE Grouped(c, Append(sids, sid), n + 1)
  <2> DEFINE more == Append(sids, sid)
  <2>1. /\ Len(sids) \in Nat /\ DOMAIN sids = 1 .. Len(sids)
        /\ DOMAIN more = 1 .. Len(sids) + 1
        /\ \A i \in 1 .. Len(sids) : more[i] = sids[i]
        /\ more[Len(sids) + 1] = sid
    <3>1. sids \in Seq(S \cup {sid}) /\ sid \in S \cup {sid}
      OBVIOUS
    <3> QED
      BY <3>1, AppendProperties, LenProperties
  <2> HIDE DEF more
  <2>2. \A i \in DOMAIN more : i \in DOMAIN sids \/ i = Len(sids) + 1
    BY <2>1
  <2>3. {more[i] : i \in DOMAIN more} = {sids[i] : i \in DOMAIN sids} \cup {sid}
    <3>1. \A i \in DOMAIN sids : i \in DOMAIN more /\ more[i] = sids[i]
      BY <2>1
    <3>2. Len(sids) + 1 \in DOMAIN more
      BY <2>1
    <3> QED
      BY <2>1, <2>2, <3>1, <3>2
  <2>4. E(sid) = {}
    <3>1. \A k \in Selected(c, n) : c[k].session # sid
      BY <1>4, <1>11
    <3> QED
      BY <3>1 DEF E, EventsAt
  <2>5. \A i, j \in DOMAIN more : i < j => \E k \in F(more[i]) : \A l \in F(more[j]) : k < l
    <3> SUFFICES ASSUME NEW i \in DOMAIN more, NEW j \in DOMAIN more, i < j
                 PROVE  \E k \in F(more[i]) : \A l \in F(more[j]) : k < l
      OBVIOUS
    <3>1. i \in DOMAIN sids /\ more[i] = sids[i]
      BY <2>1
    <3>2. CASE j \in DOMAIN sids
      <4>1. more[j] = sids[j]
        BY <2>1, <3>2
      <4> QED
        BY <1>9, <3>1, <3>2, <4>1
    <3>3. CASE j = Len(sids) + 1
      <4>1. PICK k \in E(sids[i]) : TRUE
        BY <1>7, <3>1
      <4>2. k < n + 1 /\ k \in F(sids[i])
        BY <1>6, <1>8
      <4>3. more[j] = sid /\ \A l \in F(sid) : l = n + 1
        BY <1>6, <2>1, <2>4, <3>3
      <4> QED
        BY <3>1, <4>2, <4>3
    <3> QED
      BY <2>2, <3>2, <3>3
  <2>6. {more[i] : i \in DOMAIN more} = {c[k].session : k \in Selected(c, n + 1)}
    BY <1>3, <1>4, <2>3
  <2> QED
    BY <2>5, <2>6 DEF Grouped, F, more
<1> QED
  BY <1>10, <1>11 DEF sid

\* Counts and write-gate verdicts follow the events of a session.
LEMMA CountedStep ==
    ASSUME NEW c \in Captures, NEW n, Takes(c, n), NEW was,
           Counted(c, was, c[n + 1].session, n), NEW is,
           is.count = was.count + 1, is.exec = (was.exec \/ ShouldExecute(c[n + 1]))
    PROVE  Counted(c, is, c[n + 1].session, n + 1)
<1> DEFINE E == EventsAt(c, c[n + 1].session, n)
           F == EventsAt(c, c[n + 1].session, n + 1)
<1>0. n \in Nat /\ c[n + 1].type = "event" /\ Matches(c[n + 1])
  BY DEF Takes
<1>1. F = E \cup {n + 1}
  BY <1>0, SelectsNext
<1>2. IsFiniteSet(E) /\ n + 1 \notin E
  <2>1. IsFiniteSet(E) /\ E \subseteq 1 .. n
    BY <1>0, PositionsFinite
  <2> QED
    BY <1>0, <2>1
<1>3. was.count = Cardinality(E)
  BY DEF Counted
<1>4. was.exec = (\E k \in E : ShouldExecute(c[k]))
  BY DEF Counted
<1> HIDE DEF E, F
<1>5. Cardinality(F) = Cardinality(E) + 1
  BY <1>1, <1>2, FS_AddElement
<1>6. is.exec = (\E k \in F : ShouldExecute(c[k]))
  BY <1>1, <1>4, Zenon
<1> QED
  BY <1>3, <1>5, <1>6 DEF Counted, F

\* The pacing origin is the least timestamp so far.
LEMMA BaseStep ==
    ASSUME NEW c \in Captures, NEW n, Takes(c, n), n < Len(c)
    PROVE  MinTs(BaseTs(c, n, None), c[n + 1].ts) = BaseTs(c, n + 1, None)
<1> DEFINE T == {c[k].ts : k \in Selected(c, n)}
           U == {c[k].ts : k \in Selected(c, n + 1)}
           b == c[n + 1].ts
<1>0. n \in Nat /\ c[n + 1].type = "event" /\ Matches(c[n + 1]) /\ n + 1 \in 1 .. Len(c)
  BY CaptureType DEF Takes
<1>1. Selected(c, n + 1) = Selected(c, n) \cup {n + 1}
  BY <1>0, SelectsNext
<1>2. U = T \cup {b} /\ Selected(c, n + 1) # {}
  BY <1>1
<1>3. \A k \in Selected(c, n + 1) : c[k].ts \in Int
  <2>1. \A k \in Selected(c, n + 1) : k \in 1 .. Len(c) /\ c[k].type = "event"
    BY <1>0, CaptureType DEF Selected
  <2> QED
    BY <2>1, CaptureType
<1>4. U \subseteq Int /\ b \in Int
  BY <1>2, <1>3
<1>5. BaseTs(c, n + 1, None) = Min(U)
  BY <1>2 DEF BaseTs
<1>6. \A x \in U : (\A y \in U : x <= y) => Min(U) = x
  BY <1>4 DEF Min
<1>7. CASE Selected(c, n) = {}
  <2>1. U = {b} /\ BaseTs(c, n, None) = None
    BY <1>2, <1>7 DEF BaseTs
  <2> HIDE DEF U, b
  <2>2. Min(U) = b
    BY <1>4, <1>6, <2>1
  <2>3. MinTs(None, b) = b
    BY DEF MinTs
  <2> QED
    BY <1>5, <2>1, <2>2, <2>3 DEF b
<1>8. CASE Selected(c, n) # {}
  <2>1. T \subseteq Int /\ \E a \in T : \A y \in T : a <= y
    <3> DEFINE g == [k \in Selected(c, n) |-> c[k].ts]
    <3>1. IsFiniteSet(Selected(c, n))
      BY <1>0, PositionsFinite
    <3>2. \A k \in Selected(c, n) : g[k] \in Int /\ g[k] = c[k].ts
      BY <1>1, <1>3
    <3> HIDE DEF g
    <3>3. \E x \in Selected(c, n) : \A y \in Selected(c, n) : g[x] <= g[y]
      BY <1>8, <3>1, <3>2, LeastValue
    <3> QED
      <4>1. PICK x \in Selected(c, n) : \A y \in Selected(c, n) : g[x] <= g[y]
        BY <3>3
      <4>2. c[x].ts \in T /\ \A a \in T : c[x].ts <= a
        BY <3>2, <4>1
      <4> QED
        BY <1>2, <1>4, <4>2
  <2>2. BaseTs(c, n, None) = Min(T)
    BY <1>8 DEF BaseTs
  <2> HIDE DEF T, U, b
  <2>3. PICK a \in T : \A y \in T : a <= y
    BY <2>1
  <2>4. Min(T) = a
    BY <2>1, <2>3, MinIs
  <2>5. a \in Int /\ a # None
    BY <2>1, <2>3, NoneAssumption
  <2>6. MinTs(a, b) = IF b < a THEN b ELSE a
    BY <2>5 DEF MinTs
  <2>7. CASE b < a
    <3>1. b \in U /\ \A y \in U : b <= y
      BY <1>2, <1>4, <2>1, <2>3, <2>5, <2>7
    <3> QED
      BY <1>5, <1>6, <2>2, <2>4, <2>6, <2>7, <3>1 DEF b
  <2>8. CASE ~(b < a)
    <3>1. a \in U /\ \A y \in U : a <= y
      BY <1>2, <1>4, <2>1, <2>3, <2>5, <2>8
    <3> QED
      BY <1>5, <1>6, <2>2, <2>4, <2>6, <2>8, <3>1 DEF b
  <2> QED
    BY <2>7, <2>8
<1> QED
  BY <1>7, <1>8

\* Nothing changes where no event passed or failed the filters.
LEMMA SameRecords ==
    ASSUME NEW c, NEW n, NEW m, Selected(c, m) = Selected(c, n)
    PROVE  /\ \A s : EventsAt(c, s, m) = EventsAt(c, s, n) /\ Bytes(c, s, m) = Bytes(c, s, n)
           /\ \A x : Grouped(c, x, n) => Grouped(c, x, m)
           /\ \A x, s : Counted(c, x, s, n) => Counted(c, x, s, m)
           /\ \A d : BaseTs(c, m, d) = BaseTs(c, n, d)
<1>1. \A s : EventsAt(c, s, m) = EventsAt(c, s, n)
  BY DEF EventsAt
<1>2. \A s : Bytes(c, s, m) = Bytes(c, s, n)
  BY <1>1 DEF Bytes
<1>3. \A x : Grouped(c, x, n) => Grouped(c, x, m)
  BY <1>1 DEF Grouped
<1>4. \A x, s : Counted(c, x, s, n) => Counted(c, x, s, m)
  BY <1>1 DEF Counted
<1>5. \A d : BaseTs(c, m, d) = BaseTs(c, n, d)
  BY DEF BaseTs
<1> QED
  BY <1>1, <1>2, <1>3, <1>4, <1>5

-----------------------------------------------------------------------------
(* The layout.                                                             *)

\* Each region starts where the one before it ends.
LEMMA OffsetStep ==
    ASSUME SpoolTypes
    PROVE  /\ Len(order) \in Nat /\ DOMAIN order = 1 .. Len(order)
           /\ \A i \in 1 .. Len(order) : Offset(i) \in Nat /\ Offset(i + 1) \in Nat
                                         /\ Offset(i + 1) = Offset(i) + plan[order[i]].bytes
           /\ \A i \in 1 .. Len(order) : plan[order[i]].bytes \in Nat
           /\ Offset(1) = 0
<1>1. Len(order) \in Nat /\ DOMAIN order = 1 .. Len(order)
  BY LenProperties DEF SpoolTypes
<1>2. \A i \in 1 .. Len(order) : plan[order[i]].bytes \in Nat
  <2>1. \A i \in 1 .. Len(order) : order[i] \in DOMAIN plan
    BY ElementOfSeq DEF SpoolTypes
  <2> QED
    BY <2>1 DEF SpoolTypes, Session
<1>3. ASSUME NEW i \in 1 .. Len(order)
      PROVE  Offset(i) \in Nat /\ Offset(i + 1) \in Nat
             /\ Offset(i + 1) = Offset(i) + plan[order[i]].bytes
  <2> DEFINE S == 1 .. i - 1
             T == 1 .. (i + 1) - 1
             f == [j \in S |-> plan[order[j]].bytes]
             g == [j \in T |-> plan[order[j]].bytes]
  <2>1. S = T \ {i} /\ i \in T /\ S \subseteq 1 .. Len(order) /\ T \subseteq 1 .. Len(order)
    BY <1>1
  <2>2. IsFiniteSet(S) /\ IsFiniteSet(T)
    BY <1>1, FS_Interval, i - 1 \in Int, (i + 1) - 1 \in Int
  <2>3. \A j \in T : g[j] = plan[order[j]].bytes /\ g[j] \in Nat /\ g[j] \in Int
    BY <1>2, <2>1
  <2>4. \A j \in S : f[j] \in Nat /\ f[j] \in Int /\ g[j] = f[j]
    BY <1>2, <2>1
  <2>5. Offset(i) = Total(f, S) /\ Offset(i + 1) = Total(g, T)
    BY DEF Offset
  <2> HIDE DEF S, T, f, g
  <2>6. Total(f, S) \in Nat /\ Total(g, T) \in Nat
    BY <2>2, <2>3, <2>4, TotalNat
  <2>7. Total(g, S) = Total(f, S)
    BY <2>2, <2>4, TotalSame
  <2>8. \A j \in T : g[j] \in Int
    BY <2>3
  <2>9. \A j \in T : Total(g, T) = g[j] + Total(g, T \ {j})
    BY <2>2, <2>8, TotalSplit
  <2>10. Total(g, T) = plan[order[i]].bytes + Total(f, S)
    BY <2>1, <2>3, <2>7, <2>9
  <2> QED
    BY <1>2, <2>5, <2>6, <2>10
<1>4. Offset(1) = 0
  <2>1. 1 .. 1 - 1 = {}
    OBVIOUS
  <2> QED
    BY <2>1, TotalEmpty DEF Offset
<1> QED
  BY <1>1, <1>2, <1>3, <1>4

\* A region ends before every later one starts.
LEMMA OffsetGrow ==
    ASSUME SpoolTypes, NEW i \in DOMAIN order, NEW j \in DOMAIN order, i < j
    PROVE  Offset(i) + plan[order[i]].bytes <= Offset(j)
<1> DEFINE N == {d \in Nat : i + 1 + d <= Len(order) => Offset(i + 1) <= Offset(i + 1 + d)}
<1>1. /\ Len(order) \in Nat /\ DOMAIN order = 1 .. Len(order)
      /\ \A k \in 1 .. Len(order) : Offset(k) \in Nat /\ Offset(k + 1) \in Nat
                                    /\ Offset(k + 1) = Offset(k) + plan[order[k]].bytes
      /\ \A k \in 1 .. Len(order) : plan[order[k]].bytes \in Nat
  BY OffsetStep
<1>2. i \in 1 .. Len(order) /\ j \in 1 .. Len(order) /\ i \in Nat /\ j \in Nat
  BY <1>1
<1>3. 0 \in N
  BY <1>1, <1>2
<1>4. ASSUME NEW d \in Nat, d \in N PROVE d + 1 \in N
  <2> SUFFICES ASSUME i + 1 + (d + 1) <= Len(order) PROVE Offset(i + 1) <= Offset(i + 1 + (d + 1))
    OBVIOUS
  <2>0. Len(order) \in Nat /\ i \in Nat
    BY <1>1, <1>2
  <2>1. i + 1 + d \in 1 .. Len(order) /\ i + 1 + (d + 1) = (i + 1 + d) + 1 /\ i + 1 + d <= Len(order)
    BY <2>0
  <2>2. Offset(i + 1) <= Offset(i + 1 + d)
    BY <1>4, <2>1
  <2>3. Offset(i + 1) \in Nat
    BY <1>1, <1>2
  <2> HIDE DEF N
  <2>4. PICK k \in 1 .. Len(order) : k = i + 1 + d
    BY <2>1
  <2>5. Offset(k + 1) = Offset(k) + plan[order[k]].bytes /\ plan[order[k]].bytes \in Nat
        /\ Offset(k) \in Nat
    BY <1>1
  <2> QED
    BY <2>1, <2>2, <2>3, <2>4, <2>5
<1> HIDE DEF N
<1>5. j - (i + 1) \in N
  BY <1>2, <1>3, <1>4, NatSetInduction
<1>6. i + 1 + (j - (i + 1)) = j
  BY <1>2
<1>7. Offset(i + 1) <= Offset(j)
  BY <1>2, <1>5, <1>6 DEF N
<1> QED
  BY <1>1, <1>2, <1>7

-----------------------------------------------------------------------------
(* The steps.                                                              *)

\* The build starts with its invariant.
LEMMA SpoolInit == Init => SpoolInv
<1> SUFFICES ASSUME Init PROVE SpoolInv
  OBVIOUS
<1>1. rd.next = 1 /\ Handled = 0 /\ DOMAIN rd = {"next", "header", "summary", "events"}
  BY DEF Init, NewRead, Handled
<1>2. capture \in Captures /\ Len(capture) \in Nat
  BY CaptureType DEF Init
<1>3. plan = <<>> /\ order = <<>> /\ DOMAIN plan = {} /\ DOMAIN order = {}
  BY DEF Init
<1>4. SpoolTypes
  <2>1. plan \in [DOMAIN plan -> Session] /\ order \in Seq(DOMAIN plan)
    BY <1>3
  <2>2. DOMAIN totals = {"base", "included", "filtered"}
    BY DEF Init
  <2>3. capture \in Captures /\ replaced \in BOOLEAN /\ corrupt = {}
    BY <1>2 DEF Init
  <2>4. rd.next \in 1 .. Len(capture) + 1
    BY <1>1, <1>2
  <2> QED
    BY <1>1, <1>3, <2>1, <2>2, <2>3, <2>4 DEF SpoolTypes
<1>5. Selected(capture, 0) = {} /\ Rejected(capture, 0) = {}
  BY NothingYet
<1>6. Sized(Handled)
  <2>1. Grouped(capture, order, 0)
    BY <1>3, <1>5 DEF Grouped
  <2> QED
    BY <1>1, <1>3, <2>1 DEF Sized
<1>7. Totalled(Handled, None)
  BY <1>1, <1>5, FS_EmptySet DEF Totalled, BaseTs, Init
<1> QED
  BY <1>4, <1>6, <1>7 DEF SpoolInv, Init, ChangeIsReal

\* A record that is no event says nothing about the sessions.
LEMMA ReadOtherInv == SpoolInv /\ ReadOther => SpoolInv'
<1> SUFFICES ASSUME SpoolInv, ReadOther PROVE SpoolInv'
  OBVIOUS
<1> USE DEF cursors
<1>1. SpoolTypes /\ capture \in Captures /\ Len(capture) \in Nat
  BY CaptureType DEF SpoolInv, SpoolTypes
<1>2. rd.next \in 1 .. Len(capture) /\ Handled \in Nat /\ rd.next = Handled + 1
  BY <1>1 DEF SpoolTypes, ReadOther, Handled
<1>3. capture[Handled + 1].type # "event"
  BY <1>2 DEF ReadOther, Rec
<1>4. rd'.next = rd.next + 1 /\ DOMAIN rd' = DOMAIN rd /\ Handled' = Handled + 1
  <2>1. DOMAIN rd = {"next", "header", "summary", "events"}
    BY <1>1 DEF SpoolTypes
  <2>2. \/ rd' = [rd EXCEPT !.next = @ + 1, !.header = TRUE]
        \/ rd' = [rd EXCEPT !.next = @ + 1, !.summary = Rec.events]
    BY DEF ReadOther
  <2>3. rd'.next = rd.next + 1 /\ DOMAIN rd' = DOMAIN rd
    BY <2>1, <2>2
  <2> QED
    BY <1>2, <2>3 DEF Handled
<1>5. SpoolTypes'
  BY <1>1, <1>2, <1>4 DEF SpoolTypes, ReadOther
<1>6. /\ Selected(capture, Handled + 1) = Selected(capture, Handled)
      /\ Rejected(capture, Handled + 1) = Rejected(capture, Handled)
  BY <1>2, <1>3, PassesNext
<1>7. /\ \A s : /\ EventsAt(capture, s, Handled + 1) = EventsAt(capture, s, Handled)
                /\ Bytes(capture, s, Handled + 1) = Bytes(capture, s, Handled)
      /\ \A x : Grouped(capture, x, Handled) => Grouped(capture, x, Handled + 1)
      /\ \A x, s : Counted(capture, x, s, Handled) => Counted(capture, x, s, Handled + 1)
      /\ \A d : BaseTs(capture, Handled + 1, d) = BaseTs(capture, Handled, d)
  BY <1>6, SameRecords
<1>8. UNCHANGED <<capture, replaced, phase, order, plan, totals, index, file, cursor, delivered, corrupt>>
  BY DEF ReadOther
<1>9. phase = "sizing" => (Sized(Handled) /\ Totalled(Handled, None))'
  <2> SUFFICES ASSUME phase = "sizing" PROVE (Sized(Handled) /\ Totalled(Handled, None))'
    OBVIOUS
  <2>1. Sized(Handled) /\ Totalled(Handled, None)
    BY DEF SpoolInv
  <2>2. Sized(Handled)'
    BY <1>4, <1>7, <1>8, <2>1 DEF Sized
  <2>3. Totalled(Handled, None)'
    BY <1>4, <1>6, <1>7, <1>8, <2>1 DEF Totalled
  <2> QED
    BY <2>2, <2>3
<1>10. phase = "writing" => (Written(Handled) /\ Intact(Handled))'
  <2> SUFFICES ASSUME phase = "writing" PROVE (Written(Handled) /\ Intact(Handled))'
    OBVIOUS
  <2>1. Written(Handled) /\ Intact(Handled)
    BY DEF SpoolInv
  <2>2. Written(Handled)'
    BY <1>4, <1>6, <1>7, <1>8, <2>1 DEF Written
  <2>3. Intact(Handled)'
    BY <1>4, <1>7, <1>8, <2>1 DEF Intact, Stored
  <2> QED
    BY <2>2, <2>3
<1>11. phase \in {"sizing", "writing"} /\ phase' = phase
  BY DEF ReadOther
<1>12. phase = "sizing" => ~replaced'
  BY <1>8 DEF SpoolInv
<1>13. phase = "writing" =>
          (Laid /\ (~replaced => Sized(Len(capture)) /\ Totalled(Len(capture), None)))'
  BY <1>8 DEF SpoolInv, Laid, Sized, Totalled
<1> QED
  BY <1>5, <1>9, <1>10, <1>11, <1>12, <1>13 DEF SpoolInv, ChangeIsReal

\* A build that gives up keeps what is known.
LEMMA FailsInv == SpoolInv /\ (StreamFails \/ DiskFails) => SpoolInv'
<1> SUFFICES ASSUME SpoolInv, StreamFails \/ DiskFails PROVE SpoolInv'
  OBVIOUS
<1>1. phase' \in {"unreadable", "no space"}
  BY DEF StreamFails, DiskFails
<1>2. UNCHANGED <<capture, replaced, rd, order, plan, totals, corrupt>>
  BY DEF StreamFails, DiskFails, cursors
<1>3. SpoolTypes'
  BY <1>1, <1>2 DEF SpoolInv, SpoolTypes
<1> QED
  BY <1>1, <1>3 DEF SpoolInv, ChangeIsReal

\* An event that is handled moves the reader on by one record.
LEMMA TakeMoves ==
    ASSUME SpoolInv, phase \in {"sizing", "writing"}, AtEvent, TakeEvent
    PROVE  /\ capture \in Captures /\ Len(capture) \in Nat
           /\ Handled \in Nat /\ Handled < Len(capture) /\ Handled + 1 = rd.next
           /\ Rec = capture[Handled + 1] /\ Rec.type = "event"
           /\ Rec.size \in Nat \ {0} /\ Rec.ts \in Int
           /\ Handled' = Handled + 1 /\ rd'.next \in 1 .. Len(capture) + 1
           /\ DOMAIN rd' = {"next", "header", "summary", "events"}
<1>1. capture \in Captures /\ Len(capture) \in Nat /\ rd.next \in 1 .. Len(capture)
  BY CaptureType DEF SpoolInv, SpoolTypes, AtEvent
<1>2. DOMAIN rd = {"next", "header", "summary", "events"}
  BY DEF SpoolInv, SpoolTypes
<1>3. rd'.next = rd.next + 1 /\ DOMAIN rd' = DOMAIN rd
  BY <1>2 DEF TakeEvent
<1>4. Rec = capture[rd.next] /\ Rec.type = "event"
  BY DEF AtEvent, Rec
<1>5. Rec.size \in Nat \ {0} /\ Rec.ts \in Int
  BY <1>1, <1>4, CaptureType
<1>6. Handled \in Nat /\ Handled < Len(capture) /\ Handled + 1 = rd.next
      /\ Handled' = Handled + 1 /\ rd'.next \in 1 .. Len(capture) + 1
  BY <1>1, <1>3 DEF Handled
<1> QED
  BY <1>1, <1>2, <1>3, <1>4, <1>5, <1>6

\* Pass A adds an event to its session, or to the filtered ones.
LEMMA SizeEventInv == SpoolInv /\ SizeEvent => SpoolInv'
<1> SUFFICES ASSUME SpoolInv, SizeEvent PROVE SpoolInv'
  OBVIOUS
<1> DEFINE c == capture
           n == Handled
<1>1. /\ c \in Captures /\ Len(c) \in Nat /\ n \in Nat /\ n < Len(c)
      /\ Rec = c[n + 1] /\ Rec.type = "event" /\ Rec.size \in Nat \ {0} /\ Rec.ts \in Int
      /\ Handled' = n + 1 /\ rd'.next \in 1 .. Len(c) + 1
      /\ DOMAIN rd' = {"next", "header", "summary", "events"}
  BY TakeMoves DEF SizeEvent
<1>2. UNCHANGED <<capture, replaced, phase, corrupt>> /\ phase = "sizing"
  BY DEF SizeEvent, cursors
<1>3. ~replaced /\ Sized(n) /\ Totalled(n, None) /\ SpoolTypes
  BY <1>2 DEF SpoolInv
<1>4. /\ plan \in [DOMAIN plan -> Session] /\ order \in Seq(DOMAIN plan)
      /\ \A s \in DOMAIN plan : \E i \in DOMAIN order : order[i] = s
      /\ \A i, j \in DOMAIN order : order[i] = order[j] => i = j
      /\ DOMAIN totals = {"base", "included", "filtered"}
      /\ replaced \in BOOLEAN /\ corrupt = {}
  BY <1>3 DEF SpoolTypes
<1>5. totals = [base |-> BaseTs(c, n, None), included |-> Cardinality(Selected(c, n)),
                filtered |-> Cardinality(Rejected(c, n))]
  BY <1>3 DEF Totalled
<1>6. Grouped(c, order, n)
  BY <1>3 DEF Sized
<1>7. \A s \in DOMAIN plan : plan[s].bytes = Bytes(c, s, n) /\ Counted(c, plan[s], s, n)
  BY <1>3 DEF Sized
<1>8. CASE ~Matches(Rec)
  <2>1. totals' = [totals EXCEPT !.filtered = @ + 1] /\ plan' = plan /\ order' = order
    BY <1>8 DEF SizeEvent
  <2>2. /\ Selected(c, n + 1) = Selected(c, n)
        /\ Rejected(c, n + 1) = Rejected(c, n) \cup {n + 1}
    BY <1>1, <1>8, RejectsNext
  <2>3. /\ \A s : Bytes(c, s, n + 1) = Bytes(c, s, n)
        /\ \A x : Grouped(c, x, n) => Grouped(c, x, n + 1)
        /\ \A x, s : Counted(c, x, s, n) => Counted(c, x, s, n + 1)
        /\ BaseTs(c, n + 1, None) = BaseTs(c, n, None)
    BY <2>2, SameRecords
  <2>4. Cardinality(Rejected(c, n + 1)) = Cardinality(Rejected(c, n)) + 1
    <3>1. IsFiniteSet(Rejected(c, n)) /\ n + 1 \notin Rejected(c, n)
      BY <1>1, PositionsFinite
    <3> QED
      BY <2>2, <3>1, FS_AddElement
  <2>5. totals' = [base |-> BaseTs(c, n + 1, None), included |-> Cardinality(Selected(c, n + 1)),
                   filtered |-> Cardinality(Rejected(c, n + 1))]
    BY <1>5, <2>1, <2>2, <2>3, <2>4
  <2>6. SpoolTypes'
    <3>1. DOMAIN totals' = {"base", "included", "filtered"}
      BY <2>5
    <3> QED
      BY <1>1, <1>2, <1>4, <2>1, <3>1 DEF SpoolTypes
  <2>7. Sized(Handled)'
    BY <1>1, <1>2, <1>6, <1>7, <2>1, <2>3 DEF Sized
  <2>8. Totalled(Handled, None)'
    BY <1>1, <1>2, <2>5 DEF Totalled
  <2> QED
    BY <1>2, <1>3, <2>6, <2>7, <2>8 DEF SpoolInv, ChangeIsReal
<1>9. CASE Matches(Rec)
  <2> DEFINE sid == Rec.session
             new == sid \notin DOMAIN plan
             was == IF new THEN [bytes |-> 0, count |-> 0, exec |-> FALSE, pos |-> 0] ELSE plan[sid]
             is  == [was EXCEPT !.bytes = @ + Rec.size, !.count = @ + 1,
                                !.exec = @ \/ ShouldExecute(Rec)]
  <2>1. /\ plan' = [s \in DOMAIN plan \cup {sid} |-> IF s = sid THEN is ELSE plan[s]]
        /\ order' = IF new THEN Append(order, sid) ELSE order
        /\ totals' = [totals EXCEPT !.included = @ + 1, !.base = MinTs(@, Rec.ts)]
    BY <1>9 DEF SizeEvent
  <2>2. Takes(c, n) /\ sid = c[n + 1].session
    BY <1>1, <1>9 DEF Takes
  <2>3. /\ Selected(c, n + 1) = Selected(c, n) \cup {n + 1}
        /\ Rejected(c, n + 1) = Rejected(c, n)
        /\ EventsAt(c, sid, n + 1) = EventsAt(c, sid, n) \cup {n + 1}
        /\ \A s : s # sid => EventsAt(c, s, n + 1) = EventsAt(c, s, n)
    BY <1>1, <1>9, SelectsNext
  <2>4. was \in Session /\ was.bytes = Bytes(c, sid, n) /\ Counted(c, was, sid, n)
    <3>1. CASE new
      <4>1. was = [bytes |-> 0, count |-> 0, exec |-> FALSE, pos |-> 0]
        BY <3>1
      <4>2. EventsAt(c, sid, n) = {}
        <5>1. sid \notin {order[i] : i \in DOMAIN order}
          BY <1>4, <3>1, ElementOfSeq, LenProperties
        <5>2. sid \notin {c[k].session : k \in Selected(c, n)}
          BY <1>6, <5>1 DEF Grouped
        <5> QED
          BY <5>2 DEF EventsAt
      <4>3. Bytes(c, sid, n) = 0
        BY <4>2, TotalEmpty DEF Bytes
      <4> HIDE DEF was
      <4>4. was.bytes = 0 /\ was.count = 0 /\ was.exec = FALSE /\ was \in Session
        <5>1. FALSE \in BOOLEAN
          OBVIOUS
        <5> QED
          BY <4>1, <5>1 DEF Session
      <4>5. Counted(c, was, sid, n)
        BY <4>2, <4>4, FS_EmptySet DEF Counted
      <4> QED
        BY <4>3, <4>4, <4>5
    <3>2. CASE ~new
      BY <1>4, <1>7, <3>2
    <3> QED
      BY <3>1, <3>2
  <2>5. /\ is \in Session /\ is.bytes = was.bytes + Rec.size /\ is.count = was.count + 1
        /\ is.exec = (was.exec \/ ShouldExecute(Rec))
    <3> HIDE DEF was
    <3>1. PICK e \in BOOLEAN : e = (was.exec \/ ShouldExecute(Rec))
      OBVIOUS
    <3>2. is = [was EXCEPT !.bytes = @ + Rec.size, !.count = @ + 1, !.exec = e]
      BY <3>1
    <3> HIDE DEF is
    <3>3. is \in Session /\ is.bytes = was.bytes + Rec.size /\ is.count = was.count + 1 /\ is.exec = e
      <4>1. PICK z \in Nat : z = Rec.size
        BY <1>1
      <4>2. was \in Session /\ e \in BOOLEAN
        BY <2>4
      <4>3. is = [was EXCEPT !.bytes = was.bytes + z, !.count = was.count + 1, !.exec = e]
        BY <3>2, <4>1
      <4>4. was.bytes + z \in Nat /\ was.count + 1 \in Nat
        BY <4>2 DEF Session
      <4>5. PICK a \in Nat, b \in Nat : a = was.bytes + z /\ b = was.count + 1
        BY <4>4
      <4>6. is = [was EXCEPT !.bytes = a, !.count = b, !.exec = e]
        BY <4>3, <4>5
      <4>7. is \in Session /\ is.bytes = a /\ is.count = b /\ is.exec = e
        BY ONLY <4>2, <4>6 DEF Session
      <4> QED
        BY <4>1, <4>5, <4>7
    <3> QED
      BY <3>1, <3>3, Zenon
  <2>6. Counted(c, is, sid, n + 1)
    <3> HIDE DEF was, is, c, n
    <3> QED
      BY <1>1, <2>2, <2>4, <2>5, CountedStep
  <2>7. is.bytes = Bytes(c, sid, n + 1)
    <3>1. n + 1 \in EventsAt(c, sid, n + 1)
      BY <2>3
    <3>2. Bytes(c, sid, n + 1) = Bytes(c, sid, n) + c[n + 1].size
      BY <1>1, <3>1, BytesStep
    <3> QED
      BY <1>1, <2>4, <2>5, <3>2
  <2> HIDE DEF is, was
  <2>8. /\ DOMAIN plan' = DOMAIN plan \cup {sid} /\ plan'[sid] = is
        /\ \A s \in DOMAIN plan : s # sid => plan'[s] = plan[s]
        /\ plan' \in [DOMAIN plan' -> Session]
    BY <1>4, <2>1, <2>5
  <2>9. /\ order' \in Seq(DOMAIN plan')
        /\ \A s \in DOMAIN plan' : \E i \in DOMAIN order' : order'[i] = s
        /\ \A i, j \in DOMAIN order' : order'[i] = order'[j] => i = j
    <3>1. CASE ~new
      <4>1. order' = order /\ DOMAIN plan' = DOMAIN plan
        BY <2>1, <2>8, <3>1
      <4> QED
        BY <1>4, <4>1
    <3>2. CASE new
      <4>1. order' = Append(order, sid) /\ order \in Seq(DOMAIN plan')
        BY <1>4, <2>1, <2>8, <3>2
      <4>2. /\ Len(order) \in Nat /\ DOMAIN order = 1 .. Len(order)
            /\ order' \in Seq(DOMAIN plan')
            /\ DOMAIN order' = 1 .. Len(order) + 1
            /\ \A i \in 1 .. Len(order) : order'[i] = order[i]
            /\ order'[Len(order) + 1] = sid
        BY <2>8, <4>1, AppendProperties, LenProperties
      <4>3. \A i \in DOMAIN order : order[i] # sid
        BY <1>4, <3>2, ElementOfSeq, LenProperties
      <4>4. \A i \in DOMAIN order' : i \in DOMAIN order \/ i = Len(order) + 1
        BY <4>2
      <4>5. \A s \in DOMAIN plan' : \E i \in DOMAIN order' : order'[i] = s
        <5>1. \A i \in DOMAIN order : i \in DOMAIN order' /\ order'[i] = order[i]
          BY <4>2
        <5>2. Len(order) + 1 \in DOMAIN order'
          BY <4>2
        <5> QED
          BY <1>4, <2>8, <4>2, <5>1, <5>2
      <4>6. \A i, j \in DOMAIN order' : order'[i] = order'[j] => i = j
        BY <1>4, <4>2, <4>3, <4>4
      <4> QED
        BY <4>2, <4>5, <4>6
    <3> QED
      BY <3>1, <3>2
  <2>10. Grouped(c, order', n + 1)
    <3>1. (\E i \in DOMAIN order : order[i] = sid) <=> ~new
      BY <1>4, ElementOfSeq, LenProperties
    <3>2. CASE ~new
      <4>1. order' = order
        BY <2>1, <3>2
      <4> QED
        BY <1>1, <1>4, <1>6, <2>2, <3>1, <3>2, <4>1, GroupedStep
    <3>3. CASE new
      <4>1. order' = Append(order, sid)
        BY <2>1, <3>3
      <4> QED
        BY <1>1, <1>4, <1>6, <2>2, <3>1, <3>3, <4>1, GroupedStep
    <3> QED
      BY <3>2, <3>3
  <2>11. Sized(Handled)'
    <3>1. \A s \in DOMAIN plan' : plan'[s].bytes = Bytes(c, s, n + 1) /\ Counted(c, plan'[s], s, n + 1)
      <4> SUFFICES ASSUME NEW s \in DOMAIN plan'
                   PROVE  plan'[s].bytes = Bytes(c, s, n + 1) /\ Counted(c, plan'[s], s, n + 1)
        OBVIOUS
      <4>1. CASE s = sid
        BY <2>6, <2>7, <2>8, <4>1
      <4>2. CASE s # sid
        <5>1. plan'[s] = plan[s] /\ s \in DOMAIN plan /\ EventsAt(c, s, n + 1) = EventsAt(c, s, n)
          BY <2>3, <2>8, <4>2
        <5> QED
          BY <1>7, <5>1 DEF Bytes, Counted
      <4> QED
        BY <4>1, <4>2
    <3> QED
      BY <1>1, <1>2, <2>10, <3>1 DEF Sized
  <2>12. totals' = [base |-> BaseTs(c, n + 1, None), included |-> Cardinality(Selected(c, n + 1)),
                    filtered |-> Cardinality(Rejected(c, n + 1))]
    <3>1. Cardinality(Selected(c, n + 1)) = Cardinality(Selected(c, n)) + 1
      <4>1. IsFiniteSet(Selected(c, n)) /\ n + 1 \notin Selected(c, n)
        BY <1>1, PositionsFinite
      <4> QED
        BY <2>3, <4>1, FS_AddElement
    <3>2. MinTs(BaseTs(c, n, None), Rec.ts) = BaseTs(c, n + 1, None)
      BY <1>1, <2>2, BaseStep
    <3> QED
      BY <1>5, <2>1, <2>3, <3>1, <3>2
  <2>13. SpoolTypes'
    <3>1. DOMAIN totals' = {"base", "included", "filtered"}
      BY <2>12
    <3> QED
      BY <1>1, <1>2, <1>4, <2>8, <2>9, <3>1 DEF SpoolTypes
  <2>14. Totalled(Handled, None)'
    BY <1>1, <1>2, <2>12 DEF Totalled
  <2> QED
    BY <1>2, <1>3, <2>11, <2>13, <2>14 DEF SpoolInv, ChangeIsReal
<1> QED
  BY <1>8, <1>9

\* The end of pass A fixes the regions, one per session, or refuses the selection.
LEMMA LayoutInv == SpoolInv /\ Layout => SpoolInv'
<1> SUFFICES ASSUME SpoolInv, Layout PROVE SpoolInv'
  OBVIOUS
<1>1. phase = "sizing" /\ UNCHANGED <<capture, replaced, rd, order, totals, corrupt>>
  BY DEF Layout, cursors
<1>2. SpoolTypes /\ ~replaced /\ Sized(Handled) /\ Totalled(Handled, None)
  BY <1>1 DEF SpoolInv
<1>3. Handled = Len(capture)
  <2>1. Len(capture) \in Nat /\ rd.next \in 1 .. Len(capture) + 1 /\ rd.next > Len(capture)
    BY <1>1, <1>2, CaptureType DEF SpoolTypes, Layout, AtEnd
  <2> QED
    BY <2>1 DEF Handled
<1>4. CASE phase' # "layout"
  <2>1. phase' = "filtered out" /\ plan' = plan
    BY <1>4 DEF Layout
  <2>2. SpoolTypes'
    BY <1>1, <1>2, <2>1 DEF SpoolTypes
  <2> QED
    BY <2>1, <2>2 DEF SpoolInv, ChangeIsReal
<1>5. CASE phase' = "layout"
  <2> DEFINE Nth(s) == CHOOSE i \in DOMAIN order : order[i] = s
  <2>1. /\ index' = [i \in DOMAIN order |-> Region(i)]
        /\ plan' = [s \in DOMAIN plan |-> [plan[s] EXCEPT !.pos = Offset(Nth(s))]]
    BY <1>5 DEF Layout
  <2>2. /\ plan \in [DOMAIN plan -> Session] /\ order \in Seq(DOMAIN plan)
        /\ \A s \in DOMAIN plan : \E i \in DOMAIN order : order[i] = s
        /\ \A i, j \in DOMAIN order : order[i] = order[j] => i = j
    BY <1>2 DEF SpoolTypes
  <2>3. \A i \in DOMAIN order : order[i] \in DOMAIN plan
    BY <2>2, ElementOfSeq, LenProperties
  <2>4. \A s \in DOMAIN plan : Nth(s) \in DOMAIN order /\ order[Nth(s)] = s
    BY <2>2
  <2> HIDE DEF Nth
  <2>5. \A i \in DOMAIN order : Nth(order[i]) = i
    BY <2>2, <2>3, <2>4
  <2>6. \A i \in DOMAIN order : Offset(i) \in Nat
    BY <1>2, OffsetStep
  <2>7. /\ DOMAIN plan' = DOMAIN plan /\ plan' \in [DOMAIN plan -> Session]
        /\ \A s \in DOMAIN plan : plan'[s].bytes = plan[s].bytes /\ plan'[s].count = plan[s].count
                                  /\ plan'[s].exec = plan[s].exec /\ plan'[s].pos = Offset(Nth(s))
    <3>1. \A s \in DOMAIN plan : plan[s] \in Session /\ Offset(Nth(s)) \in Nat
      BY <2>2, <2>4, <2>6
    <3> QED
      BY <2>1, <3>1 DEF Session
  <2>8. SpoolTypes'
    BY <1>1, <1>2, <1>5, <2>7 DEF SpoolTypes
  <2>9. /\ DOMAIN index' = DOMAIN order
        /\ \A i \in DOMAIN order :
              /\ index'[i].session = order[i] /\ index'[i].start = Offset(i)
              /\ index'[i].end = Offset(i) + plan[order[i]].bytes
              /\ index'[i].count = plan[order[i]].count /\ index'[i].exec = plan[order[i]].exec
    BY <2>1 DEF Region
  <2>10. Laid'
    <3>1. \A i, j \in DOMAIN order : i < j => index'[i].end <= index'[j].start
      BY <1>2, <2>9, OffsetGrow
    <3> QED
      BY <1>1, <2>3, <2>6, <2>7, <2>9, <3>1 DEF Laid
  <2>11. \A i \in DOMAIN index' : plan'[order'[i]].pos = index'[i].start
    BY <1>1, <2>3, <2>5, <2>7, <2>9
  <2>12. Sized(Len(capture))'
    BY <1>1, <1>2, <1>3, <2>7 DEF Sized, Counted
  <2>13. Totalled(Len(capture), None)'
    BY <1>1, <1>2, <1>3 DEF Totalled
  <2> QED
    BY <1>5, <2>8, <2>10, <2>11, <2>12, <2>13 DEF SpoolInv, ChangeIsReal
<1> QED
  BY <1>4, <1>5

\* Another capture in the place of the first: the regions stay.
LEMMA ReplaceInv == SpoolInv /\ Replace => SpoolInv'
<1> SUFFICES ASSUME SpoolInv, Replace PROVE SpoolInv'
  OBVIOUS
<1>1. /\ phase = "layout" /\ capture' \in Captures /\ replaced' = TRUE
      /\ UNCHANGED <<phase, rd, order, plan, totals, index, file, corrupt>>
  BY DEF Replace, cursors
<1>2. SpoolTypes /\ Laid
  BY <1>1 DEF SpoolInv
<1>3. SpoolTypes'
  <2>1. replaced' \in BOOLEAN
    BY <1>1
  <2> QED
    BY <1>1, <1>2, <2>1 DEF SpoolTypes
<1>4. Laid'
  BY <1>1, <1>2 DEF Laid
<1> QED
  BY <1>1, <1>3, <1>4 DEF SpoolInv, ChangeIsReal

\* Pass B starts with nothing written.
LEMMA OpenAgainInv == SpoolInv /\ OpenAgain => SpoolInv'
<1> SUFFICES ASSUME SpoolInv, OpenAgain PROVE SpoolInv'
  OBVIOUS
<1>1. /\ phase = "layout" /\ phase' = "writing" /\ rd' = NewRead
      /\ UNCHANGED <<capture, replaced, order, plan, totals, index, file, corrupt>>
  BY DEF OpenAgain, cursors
<1>2. SpoolTypes /\ Laid /\ capture \in Captures /\ Len(capture) \in Nat
  BY <1>1, CaptureType DEF SpoolInv, SpoolTypes
<1>3. rd'.next = 1 /\ Handled' = 0 /\ DOMAIN rd' = {"next", "header", "summary", "events"}
  BY <1>1 DEF NewRead, Handled
<1>4. SpoolTypes'
  BY <1>1, <1>2, <1>3 DEF SpoolTypes
<1>5. Selected(capture, 0) = {} /\ \A s : EventsAt(capture, s, 0) = {} /\ Bytes(capture, s, 0) = 0
  BY NothingYet
<1>6. \A i \in DOMAIN index : plan[order[i]].pos = index[i].start /\ index[i].start \in Nat
  BY <1>1, <1>2 DEF SpoolInv, Laid
<1>7. Written(Handled)'
  BY <1>1, <1>3, <1>5, <1>6 DEF Written
<1>8. Intact(Handled)'
  BY <1>1, <1>3, <1>5 DEF Intact
<1>9. Laid' /\ (~replaced => Sized(Len(capture)) /\ Totalled(Len(capture), None))'
  BY <1>1, <1>2 DEF SpoolInv, Laid, Sized, Totalled
<1> QED
  BY <1>1, <1>4, <1>7, <1>8, <1>9 DEF SpoolInv, ChangeIsReal

\* A record lies within what its session has written.
LEMMA CellBelow ==
    ASSUME NEW c \in Captures, NEW s, NEW n \in 0 .. Len(c), NEW k \in EventsAt(c, s, n),
           NEW p \in 0 .. c[k].size - 1
    PROVE  /\ Bytes(c, s, k - 1) \in Nat /\ Bytes(c, s, n) \in Nat
           /\ Bytes(c, s, k) = Bytes(c, s, k - 1) + c[k].size
           /\ Bytes(c, s, k) <= Bytes(c, s, n)
           /\ Bytes(c, s, k - 1) + p < Bytes(c, s, n)
<1>1. Len(c) \in Nat /\ n \in Nat /\ n <= Len(c)
  BY CaptureType
<1>2. k \in 1 .. n /\ c[k].type = "event" /\ k \in EventsAt(c, s, k)
  <2>1. k \in 1 .. n
    BY DEF EventsAt, Selected
  <2> QED
    BY <2>1 DEF EventsAt, Selected
<1>3. k - 1 \in Nat /\ k - 1 < Len(c) /\ (k - 1) + 1 = k /\ k \in 0 .. Len(c) /\ k \in 1 .. Len(c) /\ k <= n
  BY <1>1, <1>2
<1>4. c[k].size \in Nat /\ p \in Nat /\ p < c[k].size
  <2>1. c[k].size \in Nat
    BY <1>2, <1>3, CaptureType
  <2> QED
    BY <2>1
<1>5. Bytes(c, s, k) = Bytes(c, s, k - 1) + c[k].size
  BY <1>2, <1>3, BytesStep
<1>6. Bytes(c, s, k) <= Bytes(c, s, n)
  BY <1>3, BytesGrow
<1>7. Bytes(c, s, k - 1) \in Nat /\ Bytes(c, s, k) \in Nat /\ Bytes(c, s, n) \in Nat
  BY <1>1, <1>3, BytesStep, BytesType
<1> QED
  BY <1>4, <1>5, <1>6, <1>7

\* Pass B puts an event behind what its session has written.
LEMMA WriteEventInv == SpoolInv /\ WriteEvent => SpoolInv'
<1> SUFFICES ASSUME SpoolInv, WriteEvent PROVE SpoolInv'
  OBVIOUS
<1> DEFINE c == capture
           n == Handled
<1>1. /\ phase = "writing" /\ AtEvent
      /\ UNCHANGED <<capture, replaced, order, totals, index, corrupt>>
  BY DEF WriteEvent, cursors
<1>2. SpoolTypes /\ Laid /\ Written(n) /\ Intact(n)
      /\ (~replaced => Sized(Len(c)) /\ Totalled(Len(c), None))
  BY <1>1 DEF SpoolInv
<1>3. /\ plan \in [DOMAIN plan -> Session] /\ order \in Seq(DOMAIN plan)
      /\ \A s \in DOMAIN plan : \E i \in DOMAIN order : order[i] = s
      /\ \A i, j \in DOMAIN order : order[i] = order[j] => i = j
      /\ \A i \in DOMAIN order : order[i] \in DOMAIN plan
  BY <1>2, ElementOfSeq, LenProperties DEF SpoolTypes
<1>4. CASE Matches(Rec) /\ Rec.session \notin DOMAIN plan
  <2>1. phase' = "changed" /\ UNCHANGED <<rd, plan>>
    BY <1>4 DEF WriteEvent
  <2>2. SpoolTypes'
    BY <1>1, <1>2, <2>1 DEF SpoolTypes
  <2>3. replaced
    <3> SUFFICES ASSUME ~replaced PROVE FALSE
      OBVIOUS
    <3>1. Grouped(c, order, Len(c))
      BY <1>2 DEF Sized
    <3>2. c \in Captures /\ Len(c) \in Nat /\ rd.next \in 1 .. Len(c) /\ c[rd.next].type = "event"
      BY <1>1, <1>2, CaptureType DEF SpoolTypes, AtEvent, Rec
    <3>3. rd.next \in Selected(c, Len(c))
      BY <1>4, <3>2 DEF Selected, Rec
    <3>4. Rec.session \in {order[i] : i \in DOMAIN order}
      BY <3>1, <3>3 DEF Grouped, Rec
    <3> QED
      BY <1>3, <1>4, <3>4
  <2> QED
    BY <1>1, <2>1, <2>2, <2>3 DEF SpoolInv, ChangeIsReal
<1>5. CASE ~(Matches(Rec) /\ Rec.session \notin DOMAIN plan)
  <2>1. TakeEvent /\ phase' = phase
    BY <1>5 DEF WriteEvent
  <2>2. /\ c \in Captures /\ Len(c) \in Nat /\ n \in Nat /\ n < Len(c)
        /\ Rec = c[n + 1] /\ Rec.type = "event" /\ Rec.size \in Nat \ {0}
        /\ Handled' = n + 1 /\ rd'.next \in 1 .. Len(c) + 1
        /\ DOMAIN rd' = {"next", "header", "summary", "events"}
    BY <1>1, <2>1, TakeMoves
  <2>3. CASE ~Matches(Rec)
    <3>1. UNCHANGED <<plan, file>>
      BY <2>3 DEF WriteEvent
    <3>2. Selected(c, n + 1) = Selected(c, n)
      BY <2>2, <2>3, RejectsNext
    <3>3. \A s : EventsAt(c, s, n + 1) = EventsAt(c, s, n) /\ Bytes(c, s, n + 1) = Bytes(c, s, n)
      BY <3>2, SameRecords
    <3>4. SpoolTypes'
      BY <1>1, <1>2, <2>2, <3>1 DEF SpoolTypes
    <3>5. Written(Handled)'
      BY <1>1, <1>2, <2>2, <3>1, <3>2, <3>3 DEF Written
    <3>6. Intact(Handled)'
      BY <1>1, <1>2, <2>2, <3>1, <3>3 DEF Intact, Stored
    <3>7. Laid' /\ (~replaced => Sized(Len(capture)) /\ Totalled(Len(capture), None))'
      BY <1>1, <1>2, <3>1 DEF Laid, Sized, Totalled
    <3> QED
      BY <1>1, <2>1, <3>4, <3>5, <3>6, <3>7 DEF SpoolInv, ChangeIsReal
  <2>4. CASE Matches(Rec)
    <3> DEFINE sid  == Rec.session
               at   == plan[sid].pos
               size == Rec.size
    <3>1. /\ sid \in DOMAIN plan /\ size \in Nat /\ size > 0
          /\ file' = [q \in DOMAIN file \cup at .. at + size - 1 |->
                        IF q \in at .. at + size - 1 THEN [event |-> Rec, part |-> q - at] ELSE file[q]]
          /\ plan' = [plan EXCEPT ![sid].pos = @ + size]
      BY <1>5, <2>2, <2>4 DEF WriteEvent, WriteAt
    <3>2. PICK i0 \in DOMAIN order : order[i0] = sid
      BY <1>3, <3>1
    <3>3. /\ DOMAIN index = DOMAIN order
          /\ \A i \in DOMAIN index : index[i].session = order[i] /\ index[i].start \in Nat
                /\ index[i].end = index[i].start + plan[order[i]].bytes
                /\ index[i].count = plan[order[i]].count /\ index[i].exec = plan[order[i]].exec
          /\ \A i, j \in DOMAIN index : i < j => index[i].end <= index[j].start
      BY <1>2 DEF Laid
    <3>4. \A s \in DOMAIN plan : plan[s] \in Session /\ plan[s].pos \in Nat /\ plan[s].bytes \in Nat
      BY <1>3 DEF Session
    <3>5. /\ DOMAIN plan' = DOMAIN plan /\ plan' \in [DOMAIN plan -> Session]
          /\ plan'[sid].pos = at + size
          /\ \A s \in DOMAIN plan :
                /\ plan'[s].bytes = plan[s].bytes /\ plan'[s].count = plan[s].count
                /\ plan'[s].exec = plan[s].exec
                /\ s # sid => plan'[s].pos = plan[s].pos
      <4>1. at + size \in Nat
        BY <3>1, <3>4
      <4>2. PICK z \in Nat, r \in Session : z = at + size /\ r = plan[sid]
        BY <3>1, <3>4, <4>1
      <4>3. plan' = [plan EXCEPT ![sid] = [r EXCEPT !.pos = z]]
        BY <3>1, <4>2
      <4>4. PICK w : w = [r EXCEPT !.pos = z]
        OBVIOUS
      <4>5. w \in Session /\ w.pos = z /\ w.bytes = r.bytes /\ w.count = r.count /\ w.exec = r.exec
        BY ONLY <4>4, r \in Session, z \in Nat DEF Session
      <4>6. /\ DOMAIN plan' = DOMAIN plan /\ plan'[sid] = w
            /\ \A s \in DOMAIN plan : s # sid => plan'[s] = plan[s]
            /\ plan' \in [DOMAIN plan -> Session]
        BY <1>3, <3>1, <4>3, <4>4, <4>5
      <4> QED
        BY <4>2, <4>5, <4>6
    <3>6. /\ Selected(c, n + 1) = Selected(c, n) \cup {n + 1}
          /\ EventsAt(c, sid, n + 1) = EventsAt(c, sid, n) \cup {n + 1}
          /\ \A s : s # sid => EventsAt(c, s, n + 1) = EventsAt(c, s, n)
      BY <2>2, <2>4, SelectsNext
    <3>7. /\ Bytes(c, sid, n + 1) = Bytes(c, sid, n) + size
          /\ \A s : s # sid => Bytes(c, s, n + 1) = Bytes(c, s, n)
      <4>1. n + 1 \in EventsAt(c, sid, n + 1)
        BY <3>6
      <4>2. Bytes(c, sid, n + 1) = Bytes(c, sid, n) + c[n + 1].size
        BY <2>2, <4>1, BytesStep
      <4> QED
        BY <2>2, <3>6, <4>2 DEF Bytes
    <3>8. \A i \in DOMAIN index : plan[order[i]].pos = index[i].start + Bytes(c, order[i], n)
                                  /\ Bytes(c, order[i], n) \in Nat
      BY <1>2, <2>2, BytesStep DEF Written
    <3> HIDE DEF c, n, sid, at, size
    <3>9. SpoolTypes'
      BY <1>1, <1>2, <2>1, <2>2, <3>5 DEF SpoolTypes, c
    <3>10. Laid'
      BY <1>1, <1>3, <3>3, <3>5 DEF Laid
    <3>11. (~replaced => Sized(Len(capture)) /\ Totalled(Len(capture), None))'
      <4> SUFFICES ASSUME ~replaced PROVE (Sized(Len(capture)) /\ Totalled(Len(capture), None))'
        BY <1>1
      <4>1. Sized(Len(capture)) /\ Totalled(Len(capture), None)
        BY <1>2 DEF c
      <4>2. Sized(Len(capture))'
        BY <1>1, <3>5, <4>1 DEF Sized, Counted
      <4>3. Totalled(Len(capture), None)'
        BY <1>1, <4>1 DEF Totalled
      <4> QED
        BY <4>2, <4>3
    <3>12. \A i \in DOMAIN index : plan'[order[i]].pos = index[i].start + Bytes(c, order[i], n + 1)
      <4> SUFFICES ASSUME NEW i \in DOMAIN index
                   PROVE  plan'[order[i]].pos = index[i].start + Bytes(c, order[i], n + 1)
        OBVIOUS
      <4>1. order[i] \in DOMAIN plan /\ index[i].start \in Nat
        BY <1>3, <3>3
      <4>2. CASE order[i] = sid
        BY <3>1, <3>5, <3>7, <3>8, <4>1, <4>2 DEF at
      <4>3. CASE order[i] # sid
        BY <3>5, <3>7, <3>8, <4>1, <4>3
      <4> QED
        BY <4>2, <4>3
    <3>13. Written(Handled)'
      <4>1. \A k \in Selected(c, n + 1) : c[k].session \in DOMAIN plan
        <5>1. \A k \in Selected(c, n) : c[k].session \in DOMAIN plan
          BY <1>2 DEF Written, c
        <5>2. c[n + 1].session \in DOMAIN plan
          BY <2>2, <3>1 DEF sid
        <5> QED
          BY <3>6, <5>1, <5>2
      <4> QED
        BY <1>1, <2>2, <3>5, <3>12, <4>1 DEF Written, c
    <3>14. Intact(Handled)'
      <4> SUFFICES ASSUME \A i \in DOMAIN index : plan'[order[i]].pos <= index[i].end,
                          NEW i \in DOMAIN index, NEW k \in EventsAt(c, order[i], n + 1),
                          NEW p \in 0 .. c[k].size - 1
                   PROVE  LET q == index[i].start + Bytes(c, order[i], k - 1) + p
                          IN  q \in DOMAIN file' /\ file'[q] = [event |-> c[k], part |-> p]
        BY <1>1, <2>2 DEF Intact, Stored, c
      <4> DEFINE q == index[i].start + Bytes(c, order[i], k - 1) + p
      <4>1. \A j \in DOMAIN index : plan[order[j]].pos <= plan'[order[j]].pos
                /\ plan[order[j]].pos \in Nat /\ plan'[order[j]].pos \in Nat
        <5> SUFFICES ASSUME NEW j \in DOMAIN index
                     PROVE  plan[order[j]].pos <= plan'[order[j]].pos
                            /\ plan[order[j]].pos \in Nat /\ plan'[order[j]].pos \in Nat
          OBVIOUS
        <5>1. order[j] \in DOMAIN plan
          BY <1>3, <3>3
        <5>2. plan[order[j]].pos \in Nat /\ plan'[order[j]].pos \in Nat
          BY <3>4, <3>5, <5>1 DEF Session
        <5>3. CASE order[j] = sid
          BY <3>1, <3>5, <5>2, <5>3 DEF at
        <5>4. CASE order[j] # sid
          BY <3>5, <5>1, <5>2, <5>4
        <5> QED
          BY <5>2, <5>3, <5>4
      <4>2. \A j \in DOMAIN index : index[j].start \in Nat /\ index[j].end \in Nat
        BY <1>3, <3>3, <3>4
      <4>3. \A j \in DOMAIN index : plan[order[j]].pos <= index[j].end
        BY <4>1, <4>2
      <4>4. i0 \in DOMAIN index /\ at = plan[order[i0]].pos /\ plan'[order[i0]].pos = at + size
            /\ at \in Nat /\ at + size \in Nat /\ at + size <= index[i0].end
            /\ index[i0].start <= at
        <5>1. i0 \in DOMAIN index /\ at = plan[order[i0]].pos /\ plan'[order[i0]].pos = at + size
          BY <3>2, <3>3, <3>5 DEF at
        <5>2. at = index[i0].start + Bytes(c, order[i0], n) /\ Bytes(c, order[i0], n) \in Nat
          BY <3>8, <5>1
        <5> QED
          BY <3>1, <4>1, <4>2, <5>1, <5>2
      <4>5. CASE k = n + 1
        <5>1. order[i] = sid
          <6>1. c[k].session = order[i]
            BY DEF EventsAt
          <6> QED
            BY <2>2, <4>5, <6>1 DEF sid
        <5>2. i = i0
          BY <1>3, <3>2, <3>3, <5>1
        <5>3. c[k] = Rec /\ p \in Nat /\ p <= size - 1 /\ k - 1 = n
          BY <2>2, <3>1, <4>5 DEF size
        <5>4. q = at + p
          BY <3>8, <4>4, <5>2, <5>3
        <5> HIDE DEF q
        <5>5. q \in at .. at + size - 1 /\ q - at = p
          BY <3>1, <4>4, <5>3, <5>4
        <5>6. q \in DOMAIN file' /\ file'[q] = [event |-> Rec, part |-> q - at]
          BY <3>1, <5>5
        <5> QED
          BY <5>3, <5>5, <5>6 DEF q
      <4>6. CASE k # n + 1
        <5>1. k \in EventsAt(c, order[i], n)
          BY <3>6, <4>6
        <5>2. Stored(i, k)
          BY <1>2, <4>3, <5>1 DEF Intact, c
        <5>3. q \in DOMAIN file /\ file[q] = [event |-> c[k], part |-> p]
          BY <5>2 DEF Stored, c
        <5>4. /\ Bytes(c, order[i], k - 1) \in Nat /\ Bytes(c, order[i], n) \in Nat
              /\ Bytes(c, order[i], k - 1) + p < Bytes(c, order[i], n)
          <6>1. n \in 0 .. Len(c)
            BY <2>2
          <6> QED
            BY <2>2, <5>1, <6>1, CellBelow
        <5>5. c[k].size \in Nat /\ p \in Nat
          <6>1. c[k].size \in Nat
            <7>1. k \in 1 .. n /\ c[k].type = "event"
              BY <5>1 DEF EventsAt, Selected
            <7>2. k \in 1 .. Len(c)
              BY <2>2, <7>1
            <7> QED
              BY <2>2, <7>1, <7>2, CaptureType
          <6> QED
            BY <6>1
        <5>6. q < plan[order[i]].pos /\ index[i].start <= q /\ q \in Nat
          BY <3>8, <4>2, <5>4, <5>5
        <5> HIDE DEF q
        <5>7. q \notin at .. at + size - 1
          <6>1. CASE i = i0
            BY <3>1, <4>4, <5>6, <6>1
          <6>2. CASE i # i0 /\ i < i0
            <7>1. index[i].end <= index[i0].start
              BY <3>3, <4>4, <6>2
            <7> QED
              BY <3>1, <4>1, <4>2, <4>3, <4>4, <5>6, <7>1
          <6>3. CASE i # i0 /\ i0 < i
            <7>1. index[i0].end <= index[i].start
              BY <3>3, <4>4, <6>3
            <7> QED
              BY <3>1, <4>2, <4>4, <5>6, <7>1
          <6>4. i \in Nat /\ i0 \in Nat
            <7>1. Len(order) \in Nat /\ DOMAIN order = 1 .. Len(order)
              BY <1>3, LenProperties
            <7> QED
              BY <3>2, <3>3, <7>1
          <6> QED
            BY <6>1, <6>2, <6>3, <6>4
        <5> QED
          BY <3>1, <5>3, <5>7 DEF q
      <4> QED
        BY <4>5, <4>6
    <3> QED
      BY <1>1, <2>1, <3>9, <3>10, <3>11, <3>13, <3>14 DEF SpoolInv, ChangeIsReal
  <2> QED
    BY <2>3, <2>4
<1> QED
  BY <1>4, <1>5

\* The end of pass B: a spool is used only when every region is exactly full.
LEMMA BuiltInv == SpoolInv /\ Built => SpoolInv'
<1> SUFFICES ASSUME SpoolInv, Built PROVE SpoolInv'
  OBVIOUS
<1> DEFINE c == capture
<1>1. /\ phase = "writing"
      /\ phase' = IF RegionsFull THEN "built" ELSE "changed"
      /\ totals' = [totals EXCEPT !.base = IF totals.included > 0 THEN @ ELSE 0]
      /\ cursor' = [i \in DOMAIN index |-> index[i].start]
      /\ delivered' = [i \in DOMAIN index |-> <<>>]
      /\ UNCHANGED <<capture, replaced, rd, order, plan, index, file, corrupt>>
  BY DEF Built
<1>2. SpoolTypes /\ Laid /\ Written(Handled) /\ Intact(Handled)
      /\ (~replaced => Sized(Len(c)) /\ Totalled(Len(c), None))
  BY <1>1 DEF SpoolInv
<1>3. c \in Captures /\ Len(c) \in Nat /\ Handled = Len(c)
  <2>1. c \in Captures /\ Len(c) \in Nat /\ rd.next \in 1 .. Len(c) + 1 /\ rd.next > Len(c)
    BY <1>1, <1>2, CaptureType DEF SpoolTypes, Built, AtEnd
  <2> QED
    BY <2>1 DEF Handled
<1>4. SpoolTypes'
  <2>1. DOMAIN totals' = DOMAIN totals
    BY <1>1
  <2>2. phase' \notin {"sizing", "writing"}
    BY <1>1
  <2> QED
    BY <1>1, <1>2, <2>1, <2>2 DEF SpoolTypes
<1>5. /\ DOMAIN index = DOMAIN order
      /\ \A i \in DOMAIN index :
            /\ index[i].session = order[i] /\ index[i].start \in Nat
            /\ index[i].end = index[i].start + plan[order[i]].bytes
            /\ plan[order[i]].pos = index[i].start + Bytes(c, order[i], Len(c))
  BY <1>2, <1>3 DEF Laid, Written
<1>6. CASE ~RegionsFull
  <2>1. phase' = "changed"
    BY <1>1, <1>6
  <2>2. replaced
    <3> SUFFICES ASSUME ~replaced PROVE FALSE
      OBVIOUS
    <3>1. \A i \in DOMAIN index : order[i] \in DOMAIN plan
      BY <1>2, <1>5, ElementOfSeq, LenProperties DEF SpoolTypes
    <3>2. \A i \in DOMAIN index : plan[order[i]].bytes = Bytes(c, order[i], Len(c))
      BY <1>2, <3>1 DEF Sized
    <3> QED
      BY <1>5, <1>6, <3>2 DEF RegionsFull
  <2> QED
    BY <1>1, <1>4, <2>1, <2>2 DEF SpoolInv, ChangeIsReal
<1>7. CASE RegionsFull
  <2>1. phase' = "built"
    BY <1>1, <1>7
  <2>2. Laid' /\ RegionsFull' /\ Written(Len(capture))' /\ Intact(Len(capture))'
    BY <1>1, <1>2, <1>3, <1>7 DEF Laid, RegionsFull, Written, Intact, Stored
  <2>3. \A i \in DOMAIN index : index[i].end = index[i].start + Bytes(c, order[i], Len(c))
    BY <1>5, <1>7 DEF RegionsFull
  <2>4. Delivering'
    <3>1. \A s : Bytes(c, s, 0) = 0 /\ EventsUpTo(c, s)[0] = <<>>
      BY <1>3, NothingYet, EventsByRecord
    <3>2. \A i \in DOMAIN index : ReadUpTo(i, 0)'
      BY <1>1, <1>5, <3>1 DEF ReadUpTo
    <3>3. 0 \in 0 .. Len(c)
      BY <1>3
    <3> QED
      BY <1>1, <2>3, <3>2, <3>3 DEF Delivering
  <2>5. (~replaced => Sized(Len(capture)) /\ Totalled(Len(capture), 0))'
    <3> SUFFICES ASSUME ~replaced PROVE (Sized(Len(capture)) /\ Totalled(Len(capture), 0))'
      BY <1>1
    <3>1. Sized(Len(capture))'
      BY <1>1, <1>2 DEF Sized
    <3>2. totals = [base |-> BaseTs(c, Len(c), None), included |-> Cardinality(Selected(c, Len(c))),
                    filtered |-> Cardinality(Rejected(c, Len(c)))]
      BY <1>2 DEF Totalled
    <3>3. Cardinality(Selected(c, Len(c))) \in Nat
          /\ (Cardinality(Selected(c, Len(c))) = 0 <=> Selected(c, Len(c)) = {})
      BY <1>3, PositionsFinite, FS_CardinalityType, FS_EmptySet
    <3>4. (IF totals.included > 0 THEN totals.base ELSE 0) = BaseTs(c, Len(c), 0)
      BY <3>2, <3>3 DEF BaseTs
    <3>5. totals' = [base |-> BaseTs(c, Len(c), 0), included |-> Cardinality(Selected(c, Len(c))),
                     filtered |-> Cardinality(Rejected(c, Len(c)))]
      <4>1. PICK b : b = IF totals.included > 0 THEN totals.base ELSE 0
        OBVIOUS
      <4>2. totals' = [totals EXCEPT !.base = b]
        BY <1>1, <4>1
      <4> QED
        BY <3>2, <3>4, <4>1, <4>2
    <3>6. Totalled(Len(capture), 0)'
      BY <1>1, <3>5 DEF Totalled
    <3> QED
      BY <3>1, <3>6
  <2> QED
    BY <1>4, <2>1, <2>2, <2>4, <2>5 DEF SpoolInv, ChangeIsReal
<1> QED
  BY <1>6, <1>7

\* After n records there is another event of the session exactly when there is
\* room left, and it is the next one.
LEMMA NextPosition ==
    ASSUME NEW c \in Captures, NEW s, NEW n \in 0 .. Len(c), Bytes(c, s, n) < Bytes(c, s, Len(c))
    PROVE  \E m \in EventsAt(c, s, Len(c)) :
              /\ EventsUpTo(c, s)[m - 1] = EventsUpTo(c, s)[n]
              /\ Bytes(c, s, m - 1) = Bytes(c, s, n)
<1> DEFINE E == EventsAt(c, s, Len(c))
           T == {k \in E : k > n}
<1>1. Len(c) \in Nat /\ n \in Nat /\ Len(c) \in 0 .. Len(c) /\ n <= Len(c)
  BY CaptureType
<1>2. E \subseteq 1 .. Len(c)
  BY <1>1, PositionsFinite
<1>3. T # {}
  <2> SUFFICES ASSUME T = {} PROVE FALSE
    OBVIOUS
  <2>1. \A k \in E : k <= n
    BY <1>1, <1>2
  <2>2. Bytes(c, s, Len(c)) = Bytes(c, s, n)
    BY <1>1, <2>1, EventsSkip
  <2>3. Bytes(c, s, n) \in Nat
    BY BytesType
  <2> QED
    BY <2>2, <2>3
<1>4. T \in SUBSET Nat
  BY <1>1, <1>2
<1>5. PICK m \in T : \A k \in T : m <= k
  BY <1>3, <1>4, LeastNatural
<1>6. m \in 1 .. Len(c) /\ m > n /\ m \in E
  BY <1>2, <1>5
<1>7. m - 1 \in 0 .. Len(c) /\ n <= m - 1
  BY <1>1, <1>6
<1>8. \A k \in EventsAt(c, s, m - 1) : k <= n
  <2> SUFFICES ASSUME NEW k \in EventsAt(c, s, m - 1), ~(k <= n) PROVE FALSE
    OBVIOUS
  <2>1. k \in 1 .. m - 1
    BY DEF EventsAt, Selected
  <2>2. k \in 1 .. Len(c) /\ k > n /\ k < m
    BY <1>1, <1>6, <2>1
  <2>3. k \in E
    BY <2>2 DEF EventsAt, Selected
  <2> QED
    BY <1>5, <1>6, <2>2, <2>3
<1>9. EventsUpTo(c, s)[m - 1] = EventsUpTo(c, s)[n] /\ Bytes(c, s, m - 1) = Bytes(c, s, n)
  BY <1>7, <1>8, EventsSkip
<1> QED
  BY <1>6, <1>9

\* A cursor finds the next event of its session, whole.
LEMMA NextEventInv ==
    ASSUME SpoolInv, NEW i \in DOMAIN index, NextEvent(i) PROVE SpoolInv'
<1> DEFINE c == capture
           s == order[i]
           at == cursor[i]
<1>1. /\ phase = "built" /\ at < index[i].end
      /\ UNCHANGED <<capture, replaced, phase, rd, order, plan, totals, index, file>>
  BY DEF NextEvent
<1>2. /\ SpoolTypes /\ Laid /\ RegionsFull /\ Intact(Len(c)) /\ Delivering /\ Written(Len(c))
      /\ (~replaced => Sized(Len(c)) /\ Totalled(Len(c), 0))
  BY <1>1 DEF SpoolInv
<1>3. c \in Captures /\ Len(c) \in Nat /\ Len(c) \in 0 .. Len(c)
  BY <1>2, CaptureType DEF SpoolTypes
<1>4. PICK n \in 0 .. Len(c) : ReadUpTo(i, n)
  BY <1>2 DEF Delivering
<1>5. index[i].start \in Nat /\ index[i].end = index[i].start + Bytes(c, s, Len(c))
      /\ delivered[i] = EventsUpTo(c, s)[n] /\ at = index[i].start + Bytes(c, s, n)
      /\ i \in DOMAIN cursor /\ i \in DOMAIN delivered
  BY <1>2, <1>4 DEF Laid, Delivering, ReadUpTo
<1>6. Bytes(c, s, n) \in Nat /\ Bytes(c, s, Len(c)) \in Nat
  BY <1>3, BytesType
<1>7. Bytes(c, s, n) < Bytes(c, s, Len(c))
  BY <1>1, <1>5, <1>6
<1>8. PICK m \in EventsAt(c, s, Len(c)) : /\ EventsUpTo(c, s)[m - 1] = EventsUpTo(c, s)[n]
                                          /\ Bytes(c, s, m - 1) = Bytes(c, s, n)
  BY <1>3, <1>7, NextPosition
<1>9. m \in 1 .. Len(c) /\ c[m].type = "event" /\ m \in EventsAt(c, s, m)
  <2>1. m \in 1 .. Len(c)
    BY DEF EventsAt, Selected
  <2> QED
    BY <2>1 DEF EventsAt, Selected
<1>10. c[m].size \in Nat /\ c[m].size > 0 /\ 0 \in 0 .. c[m].size - 1
  <2>1. c[m].size \in Nat \ {0}
    BY <1>3, <1>9, CaptureType
  <2> QED
    BY <2>1
<1>11. \A p \in 0 .. c[m].size - 1 : file[at + p] = [event |-> c[m], part |-> p]
  <2>1. \A j \in DOMAIN index : plan[order[j]].pos <= index[j].end
    <3>1. \A j \in DOMAIN index : plan[order[j]].pos = index[j].end
      BY <1>2 DEF RegionsFull, Laid
    <3>2. ASSUME NEW j \in DOMAIN index PROVE plan[order[j]].pos \in Nat
      <4>1. order[j] \in DOMAIN plan
        BY <1>2, ElementOfSeq, LenProperties DEF SpoolTypes, Laid
      <4> QED
        BY <1>2, <4>1 DEF SpoolTypes, Session
    <3>3. ASSUME NEW j \in DOMAIN index PROVE plan[order[j]].pos <= index[j].end
      <4>1. plan[order[j]].pos \in Nat /\ plan[order[j]].pos = index[j].end
        BY <3>1, <3>2
      <4> QED
        BY <4>1
    <3> QED
      BY <3>3
  <2>2. Stored(i, m)
    BY <1>2, <1>8, <2>1 DEF Intact
  <2> QED
    BY <1>5, <1>8, <2>2 DEF Stored
<1>12. /\ Bytes(c, s, m) = Bytes(c, s, n) + c[m].size
       /\ Bytes(c, s, m) <= Bytes(c, s, Len(c)) /\ Bytes(c, s, m) \in Nat
  <2>1. /\ Bytes(c, s, m) = Bytes(c, s, m - 1) + c[m].size
        /\ Bytes(c, s, m) <= Bytes(c, s, Len(c))
    BY <1>3, <1>10, CellBelow
  <2> QED
    BY <1>6, <1>8, <1>10, <2>1
<1>13. at \in Nat /\ at + 0 = at /\ at + c[m].size <= index[i].end
  <2> DEFINE x == index[i].start
             b == Bytes(c, s, n)
             z == c[m].size
             t == Bytes(c, s, Len(c))
  <2>1. x \in Nat /\ b \in Nat /\ z \in Nat /\ t \in Nat /\ b + z <= t
    BY <1>5, <1>6, <1>10, <1>12
  <2>2. at = x + b /\ index[i].end = x + t
    BY <1>5
  <2> HIDE DEF x, b, z, t, at
  <2>3. at \in Nat /\ at + 0 = at /\ at + z <= index[i].end
    BY <2>1, <2>2
  <2> QED
    BY <2>3 DEF z
<1> HIDE DEF at
<1>14. file[at].event = c[m] /\ file[at].part = 0
  <2>1. file[at + 0] = [event |-> c[m], part |-> 0]
    BY <1>10, <1>11, Zenon
  <2>2. file[at] = [event |-> c[m], part |-> 0]
    BY <1>13, <2>1, Zenon
  <2> QED
    BY <2>2
<1>15. /\ delivered' = [delivered EXCEPT ![i] = Append(@, c[m])]
       /\ cursor' = [cursor EXCEPT ![i] = @ + c[m].size]
       /\ corrupt' = corrupt
  BY <1>11, <1>13, <1>14 DEF NextEvent, at
<1>16. delivered'[i] = EventsUpTo(c, s)[m]
  <2>1. EventsUpTo(c, s)[m] = Append(EventsUpTo(c, s)[m - 1], c[m])
    BY <1>3, <1>9, EventsByRecord DEF Picked
  <2> QED
    BY <1>5, <1>8, <1>15, <2>1
<1>17. cursor'[i] = index[i].start + Bytes(c, s, m)
  <2>1. cursor'[i] = at + c[m].size
    BY <1>5, <1>15 DEF at
  <2> QED
    BY <1>5, <1>6, <1>10, <1>12, <2>1
<1>18. Delivering'
  <2>1. \A j \in DOMAIN index : \E d \in 0 .. Len(c) : ReadUpTo(j, d)'
    <3> SUFFICES ASSUME NEW j \in DOMAIN index PROVE \E d \in 0 .. Len(c) : ReadUpTo(j, d)'
      OBVIOUS
    <3>1. CASE j = i
      <4>1. ReadUpTo(i, m)'
        BY <1>1, <1>16, <1>17 DEF ReadUpTo
      <4>2. m \in 0 .. Len(c)
        BY <1>3, <1>9
      <4> QED
        BY <3>1, <4>1, <4>2
    <3>2. CASE j # i
      <4>1. PICK d \in 0 .. Len(c) : ReadUpTo(j, d)
        BY <1>2 DEF Delivering
      <4>2. j \in DOMAIN cursor /\ j \in DOMAIN delivered
        BY <1>2 DEF Delivering
      <4>3. cursor'[j] = cursor[j] /\ delivered'[j] = delivered[j]
        BY <1>15, <3>2, <4>2
      <4>4. ReadUpTo(j, d)'
        BY <1>1, <4>1, <4>3 DEF ReadUpTo
      <4> QED
        BY <4>4
    <3> QED
      BY <3>1, <3>2
  <2>2. DOMAIN cursor' = DOMAIN cursor /\ DOMAIN delivered' = DOMAIN delivered
    BY <1>15
  <2> QED
    BY <1>1, <1>2, <2>1, <2>2 DEF Delivering
<1>19. SpoolTypes'
  BY <1>1, <1>2, <1>15 DEF SpoolTypes
<1>20. Laid' /\ RegionsFull' /\ Intact(Len(capture))' /\ Written(Len(capture))'
  BY <1>1, <1>2 DEF Laid, RegionsFull, Intact, Stored, Written
<1>21. (~replaced => Sized(Len(capture)) /\ Totalled(Len(capture), 0))'
  BY <1>1, <1>2 DEF Sized, Totalled
<1> QED
  BY <1>1, <1>18, <1>19, <1>20, <1>21 DEF SpoolInv, ChangeIsReal

\* Every step of the build and of the cursors keeps the invariant.
LEMMA SpoolNext == SpoolInv /\ [Next]_vars => SpoolInv'
<1> SUFFICES ASSUME SpoolInv, [Next]_vars PROVE SpoolInv'
  OBVIOUS
<1>1. CASE UNCHANGED vars
  <2>1. UNCHANGED <<capture, replaced, phase, rd, order, plan, totals, index, file, cursor,
                    delivered, corrupt>>
    BY <1>1 DEF vars
  <2>2. SpoolTypes' = SpoolTypes /\ Laid' = Laid /\ RegionsFull' = RegionsFull
        /\ Delivering' = Delivering /\ ChangeIsReal' = ChangeIsReal
    BY <2>1 DEF SpoolTypes, Laid, RegionsFull, Delivering, ReadUpTo, ChangeIsReal
  <2>3. Handled' = Handled
    BY <2>1 DEF Handled
  <2>4. /\ Sized(Handled)' = Sized(Handled) /\ Sized(Len(capture))' = Sized(Len(capture))
        /\ Written(Handled)' = Written(Handled) /\ Written(Len(capture))' = Written(Len(capture))
        /\ Intact(Handled)' = Intact(Handled) /\ Intact(Len(capture))' = Intact(Len(capture))
    BY <2>1, <2>3 DEF Sized, Written, Intact, Stored
  <2>5. /\ Totalled(Handled, None)' = Totalled(Handled, None)
        /\ Totalled(Len(capture), None)' = Totalled(Len(capture), None)
        /\ Totalled(Len(capture), 0)' = Totalled(Len(capture), 0)
    BY <2>1, <2>3 DEF Totalled
  <2> QED
    BY <2>1, <2>2, <2>4, <2>5 DEF SpoolInv
<1>2. CASE Work
  BY <1>2, ReadOtherInv, FailsInv, SizeEventInv, LayoutInv, OpenAgainInv, WriteEventInv,
     BuiltInv, NextEventInv DEF Work
<1>3. CASE Finished
  BY <1>1, <1>3 DEF Finished
<1>4. CASE Replace \/ DiskFails
  BY <1>4, ReplaceInv, FailsInv
<1> QED
  BY <1>1, <1>2, <1>3, <1>4 DEF Next

-----------------------------------------------------------------------------
(* The theorems.                                                           *)

\* SpoolInv holds whatever the capture file holds in either pass, through every
\* failure of Spool::build and every order of the cursors' reads.
THEOREM SpoolInvariant == Spec => []SpoolInv
<1>1. Init => SpoolInv
  BY SpoolInit
<1>2. SpoolInv /\ [Next]_vars => SpoolInv'
  BY SpoolNext
<1> QED
  BY <1>1, <1>2, PTL DEF Spec

\* "capture changed while being spooled" is never reported of a capture that did
\* not change: the two passes of Spool::build agree.
THEOREM ChangesAreReal == Spec => []ChangeIsReal
<1>1. SpoolInv => ChangeIsReal
  BY DEF SpoolInv
<1> QED
  BY <1>1, SpoolInvariant, PTL

\* Every cursor of a built spool delivers its session's events of the capture that
\* pass B read, in order and whole, whatever was overwritten while it was built.
THEOREM CursorsDeliver == Spec => []CursorsDeliverTheCapture
<1>1. SpoolInv => CursorsDeliverTheCapture
  <2> SUFFICES ASSUME SpoolInv, phase = "built" PROVE CursorsDeliverTheCapture
    BY DEF CursorsDeliverTheCapture
  <2> DEFINE c == capture
  <2>1. SpoolTypes /\ Laid /\ Delivering /\ Written(Len(c))
    BY DEF SpoolInv
  <2>2. c \in Captures /\ Len(c) \in Nat /\ Len(c) \in 0 .. Len(c)
    BY <2>1, CaptureType DEF SpoolTypes
  <2>3. ASSUME NEW i \in DOMAIN index
        PROVE  /\ IsPrefix(delivered[i], EventsOf(c, index[i].session))
               /\ CursorAtEnd(i) => delivered[i] = EventsOf(c, index[i].session)
    <3> DEFINE s == order[i]
    <3>1. PICK n \in 0 .. Len(c) : ReadUpTo(i, n)
      BY <2>1 DEF Delivering
    <3>2. /\ delivered[i] = EventsUpTo(c, s)[n] /\ index[i].session = s
          /\ cursor[i] = index[i].start + Bytes(c, s, n)
          /\ index[i].end = index[i].start + Bytes(c, s, Len(c)) /\ index[i].start \in Nat
      BY <2>1, <3>1 DEF Laid, Delivering, ReadUpTo
    <3>3. EventsOf(c, s) = EventsUpTo(c, s)[Len(c)]
      BY DEF EventsOf
    <3>4. n \in Nat /\ n <= Len(c)
      BY <2>2
    <3>5. IsPrefix(delivered[i], EventsOf(c, s))
      BY <2>2, <3>2, <3>3, <3>4, EventsGrow
    <3>6. ASSUME CursorAtEnd(i) PROVE delivered[i] = EventsOf(c, s)
      <4>1. cursor[i] >= index[i].end
        BY <2>1, <3>6 DEF CursorAtEnd, SpoolTypes
      <4>2. Bytes(c, s, n) \in Nat /\ Bytes(c, s, Len(c)) \in Nat
        BY <2>2, BytesType
      <4>3. Bytes(c, s, Len(c)) <= Bytes(c, s, n)
        BY <3>2, <4>1, <4>2
      <4>4. \A k \in EventsAt(c, s, Len(c)) : k <= n
        <5> SUFFICES ASSUME NEW k \in EventsAt(c, s, Len(c)), ~(k <= n) PROVE FALSE
          OBVIOUS
        <5>1. k \in 1 .. Len(c) /\ c[k].type = "event"
          BY DEF EventsAt, Selected
        <5>2. c[k].size \in Nat \ {0}
          BY <2>2, <5>1, CaptureType
        <5>3. 0 \in 0 .. c[k].size - 1 /\ k - 1 \in 0 .. Len(c) /\ n <= k - 1
          BY <2>2, <3>4, <5>1, <5>2
        <5>4. Bytes(c, s, k - 1) + 0 < Bytes(c, s, Len(c)) /\ Bytes(c, s, k - 1) \in Nat
          BY <2>2, <5>3, CellBelow
        <5>5. Bytes(c, s, n) <= Bytes(c, s, k - 1)
          BY <2>2, <5>3, BytesGrow
        <5> QED
          BY <4>2, <4>3, <5>4, <5>5
      <4>5. EventsUpTo(c, s)[Len(c)] = EventsUpTo(c, s)[n]
        BY <2>2, <3>4, <4>4, EventsSkip
      <4> QED
        BY <3>2, <3>3, <4>5
    <3> QED
      BY <3>2, <3>5, <3>6
  <2>4. \A k \in Selected(c, Len(c)) : \E i \in DOMAIN index : index[i].session = c[k].session
    <3>1. \A k \in Selected(c, Len(c)) : c[k].session \in DOMAIN plan
      BY <2>1 DEF Written
    <3> QED
      BY <2>1, <3>1 DEF SpoolTypes, Laid
  <2> QED
    BY <2>3, <2>4 DEF CursorsDeliverTheCapture
<1> QED
  BY <1>1, SpoolInvariant, PTL

\* The spool path and the in-memory path agree on an unchanged capture.
THEOREM SpoolIsEquivalent == Spec => []SameAsInMemory
<1>1. SpoolInv => SameAsInMemory
  <2> SUFFICES ASSUME SpoolInv, phase = "built", ~replaced PROVE SameAsInMemory
    BY DEF SameAsInMemory
  <2> DEFINE c == capture
             sids == [i \in DOMAIN index |-> index[i].session]
  <2>1. SpoolTypes /\ Laid /\ Sized(Len(c)) /\ Totalled(Len(c), 0)
    BY DEF SpoolInv
  <2>2. \A i \in DOMAIN index : order[i] \in DOMAIN plan
    BY <2>1, ElementOfSeq, LenProperties DEF SpoolTypes, Laid
  <2>3. DOMAIN sids = DOMAIN order /\ \A i \in DOMAIN order : sids[i] = order[i]
    BY <2>1 DEF Laid
  <2>4. Grouped(c, order, Len(c))
    BY <2>1 DEF Sized
  <2> HIDE DEF sids
  <2>5. Grouped(c, sids, Len(c))
    BY <2>3, <2>4 DEF Grouped
  <2>6. \A i \in DOMAIN index : Counted(c, index[i], index[i].session, Len(c))
    <3>1. \A i \in DOMAIN index : Counted(c, plan[order[i]], order[i], Len(c))
      BY <2>1, <2>2 DEF Sized
    <3>2. ASSUME NEW i \in DOMAIN index PROVE Counted(c, index[i], index[i].session, Len(c))
      <4>1. /\ index[i].session = order[i] /\ index[i].count = plan[order[i]].count
            /\ index[i].exec = plan[order[i]].exec
        BY <2>1 DEF Laid
      <4>2. Counted(c, plan[order[i]], order[i], Len(c))
        BY <3>1
      <4> QED
        BY <4>1, <4>2, Zenon DEF Counted
    <3> QED
      BY <3>2
  <2> QED
    BY <2>1, <2>5, <2>6 DEF SameAsInMemory, Totalled, sids
<1> QED
  BY <1>1, SpoolInvariant, PTL
=============================================================================
