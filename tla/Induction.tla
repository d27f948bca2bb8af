------------------------------ MODULE Induction ------------------------------
(***************************************************************************)
(* Induction in a form the provers can instantiate: over sets of naturals  *)
(* and sets of finite sets instead of predicates, and what it gives about  *)
(* the folds the models are written with.                                  *)
(***************************************************************************)
EXTENDS Integers, FiniteSets, FiniteSetsExt, Sums, FiniteSetTheorems,
        WellFoundedInduction, TLAPS

-----------------------------------------------------------------------------
(* Induction over the naturals.                                            *)

\* Every non-empty set of naturals has a least element (as Min relies on where
\* the next pass file or the next buffered segment is picked).
LEMMA LeastNatural ==
    ASSUME NEW T \in SUBSET Nat, T # {}
    PROVE  \E m \in T : \A k \in T : m <= k
<1> DEFINE Less == {p \in Nat \X Nat : p[1] < p[2]}
<1>1. IsWellFoundedOn(Less, Nat)
  BY NatLessThanWellFounded DEF OpToRel
<1> HIDE DEF Less
<1>2. PICK m \in T : \A k \in T : <<k, m>> \notin Less
  BY <1>1, WFMin
<1>3. \A k \in T : ~(k < m)
  BY <1>2 DEF Less
<1> QED
  BY <1>3

\* Min of a non-empty set of naturals is its least element.
LEMMA MinIsLeast ==
    ASSUME NEW T \in SUBSET Nat, T # {}
    PROVE  Min(T) \in T /\ \A k \in T : Min(T) <= k
BY LeastNatural DEF Min

\* A set that holds 0 and is closed under successor holds every natural.
LEMMA NatSetInduction ==
    ASSUME NEW T, 0 \in T, \A n \in Nat : n \in T => n + 1 \in T
    PROVE  Nat \subseteq T
<1> SUFFICES ASSUME Nat \ T # {} PROVE FALSE
  OBVIOUS
<1>1. PICK m \in Nat \ T : \A k \in Nat \ T : m <= k
  <2>1. Nat \ T \in SUBSET Nat
    OBVIOUS
  <2> QED
    BY <2>1, LeastNatural
<1>2. m # 0 /\ m - 1 \in Nat /\ (m - 1) + 1 = m
  OBVIOUS
<1>3. m - 1 \in T
  BY <1>1, <1>2
<1> QED
  BY <1>2, <1>3
-----------------------------------------------------------------------------
(* Induction over finite sets.                                             *)

\* A family of sets that holds the empty set and can take in the elements of S
\* one by one holds S.
LEMMA FiniteSetInduction ==
    ASSUME NEW S, IsFiniteSet(S), NEW F, {} \in F,
           \A T \in SUBSET S : \A x \in S \ T : T \in F => T \cup {x} \in F
    PROVE  S \in F
<1> DEFINE N == {n \in Nat : \A T \in SUBSET S : Cardinality(T) = n => T \in F}
<1>1. 0 \in N
  <2> SUFFICES ASSUME NEW T \in SUBSET S, Cardinality(T) = 0 PROVE T \in F
    OBVIOUS
  <2>1. T = {}
    BY FS_Subset, FS_EmptySet
  <2> QED
    BY <2>1
<1>2. ASSUME NEW n \in Nat, n \in N PROVE n + 1 \in N
  <2> SUFFICES ASSUME NEW T \in SUBSET S, Cardinality(T) = n + 1 PROVE T \in F
    OBVIOUS
  <2>1. IsFiniteSet(T)
    BY FS_Subset
  <2>2. PICK x \in T : TRUE
    <3>1. Cardinality({}) = 0 /\ n + 1 # 0
      BY FS_EmptySet
    <3> QED
      BY <3>1
  <2>3. Cardinality(T \ {x}) = n
    <3>1. Cardinality(T \ {x}) = Cardinality(T) - 1
      BY <2>1, FS_RemoveElement
    <3> QED
      BY <3>1
  <2>4. T \ {x} \in F
    BY <1>2, <2>3
  <2>5. (T \ {x}) \cup {x} \in F
    BY <2>2, <2>4
  <2>6. (T \ {x}) \cup {x} = T
    BY <2>2
  <2> QED
    BY <2>5, <2>6
<1> HIDE DEF N
<1>3. Nat \subseteq N
  BY <1>1, <1>2, NatSetInduction
<1>4. Cardinality(S) \in N
  BY <1>3, FS_CardinalityType
<1> QED
  BY <1>4 DEF N

-----------------------------------------------------------------------------
(* Sums over finite sets.                                                  *)

\* g is the table of partial sums of f that the fold behind Total builds.
PartialSums(g, f, P) ==
    g = [s \in P |-> IF s = {} THEN 0
                      ELSE f[CHOOSE x \in s : TRUE] + g[s \ {CHOOSE x \in s : TRUE}]]

\* The table exists, whatever f is: it is built up by the size of the sets.
LEMMA PartialSumsExist ==
    ASSUME NEW S, IsFiniteSet(S), NEW f
    PROVE  \E g : PartialSums(g, f, SUBSET S)
<1> DEFINE Small(n) == {s \in SUBSET S : Cardinality(s) <= n}
           N == {n \in Nat : \E g : PartialSums(g, f, Small(n))}
<1>0. \A s \in SUBSET S : IsFiniteSet(s) /\ Cardinality(s) \in Nat /\ (Cardinality(s) = 0 <=> s = {})
  BY FS_Subset, FS_CardinalityType, FS_EmptySet
<1>1. 0 \in N
  <2>1. Small(0) = {{}}
    BY <1>0
  <2>2. PartialSums([s \in Small(0) |-> 0], f, Small(0))
    BY <2>1 DEF PartialSums
  <2> QED
    BY <2>2
<1>2. ASSUME NEW n \in Nat, n \in N PROVE n + 1 \in N
  <2>1. PICK g : PartialSums(g, f, Small(n))
    BY <1>2
  <2> DEFINE x(s) == CHOOSE y \in s : TRUE
             h == [s \in Small(n + 1) |-> IF s = {} THEN 0 ELSE f[x(s)] + g[s \ {x(s)}]]
  <2>2. \A s \in Small(n) : h[s] = g[s]
    <3>1. Small(n) \subseteq Small(n + 1)
      BY <1>0
    <3>2. \A s \in Small(n) : g[s] = IF s = {} THEN 0 ELSE f[x(s)] + g[s \ {x(s)}]
      BY <2>1 DEF PartialSums
    <3> QED
      BY <3>1, <3>2
  <2>3. \A s \in Small(n + 1) : s # {} => s \ {x(s)} \in Small(n)
    <3> SUFFICES ASSUME NEW s \in Small(n + 1), s # {} PROVE s \ {x(s)} \in Small(n)
      OBVIOUS
    <3>1. x(s) \in s
      OBVIOUS
    <3>2. Cardinality(s \ {x(s)}) = Cardinality(s) - 1
      BY <1>0, <3>1, FS_RemoveElement
    <3> QED
      BY <1>0, <3>2
  <2> HIDE DEF Small, x
  <2>4. \A s \in Small(n + 1) : s # {} => h[s \ {x(s)}] = g[s \ {x(s)}]
    BY <2>2, <2>3
  <2>5. h = [s \in Small(n + 1) |-> IF s = {} THEN 0 ELSE f[x(s)] + h[s \ {x(s)}]]
    BY <2>4
  <2>6. PartialSums(h, f, Small(n + 1))
    BY <2>5 DEF PartialSums, x
  <2> QED
    BY <2>6
<1> HIDE DEF N
<1>3. Cardinality(S) \in N
  BY <1>1, <1>2, NatSetInduction, FS_CardinalityType
<1>4. Small(Cardinality(S)) = SUBSET S
  <2>1. \A s \in SUBSET S : Cardinality(s) <= Cardinality(S)
    BY FS_Subset
  <2> QED
    BY <2>1
<1> QED
  BY <1>3, <1>4 DEF N

\* Total is the last entry of such a table.
LEMMA TotalPartialSums ==
    ASSUME NEW S, IsFiniteSet(S), NEW f
    PROVE  \E g : PartialSums(g, f, SUBSET S) /\ Total(f, S) = g[S]
<1> DEFINE g == CHOOSE iter : iter = [s \in SUBSET S |->
                    IF s = {} THEN 0
                    ELSE f[CHOOSE x \in s : TRUE] + iter[s \ {CHOOSE x \in s : TRUE}]]
<1>1. Total(f, S) = g[S]
  BY DEF Total, MapThenSumSet, MapThenFoldSet
<1>2. PartialSums(g, f, SUBSET S)
  <2>1. g = CHOOSE h : PartialSums(h, f, SUBSET S)
    BY DEF PartialSums
  <2> HIDE DEF g
  <2> QED
    BY <2>1, PartialSumsExist
<1> QED
  BY <1>1, <1>2

\* The order in which the fold takes the elements does not matter.
LEMMA PartialSumsAny ==
    ASSUME NEW S, IsFiniteSet(S), NEW f, \A x \in S : f[x] \in Int,
           NEW g, PartialSums(g, f, SUBSET S)
    PROVE  \A T \in SUBSET S : /\ g[T] \in Int
                               /\ \A x \in T : g[T] = f[x] + g[T \ {x}]
<1> DEFINE Good(T) == g[T] \in Int /\ \A x \in T : g[T] = f[x] + g[T \ {x}]
           N == {n \in Nat : \A T \in SUBSET S : Cardinality(T) <= n => Good(T)}
<1>0. /\ g[{}] = 0
      /\ \A T \in SUBSET S : T # {} => \E y \in T : g[T] = f[y] + g[T \ {y}]
  BY DEF PartialSums
<1>1. 0 \in N
  <2> SUFFICES ASSUME NEW T \in SUBSET S, Cardinality(T) <= 0 PROVE Good(T)
    OBVIOUS
  <2>1. T = {}
    <3>1. IsFiniteSet(T) /\ Cardinality(T) \in Nat
      BY FS_Subset, FS_CardinalityType
    <3>2. Cardinality(T) = 0
      BY <3>1
    <3> QED
      BY <3>1, <3>2, FS_EmptySet
  <2> QED
    BY <1>0, <2>1
<1>2. ASSUME NEW n \in Nat, n \in N PROVE n + 1 \in N
  <2> SUFFICES ASSUME NEW T \in SUBSET S, Cardinality(T) <= n + 1 PROVE Good(T)
    OBVIOUS
  <2>1. IsFiniteSet(T) /\ Cardinality(T) \in Nat
    BY FS_Subset, FS_CardinalityType
  <2>2. \A x \in T : Good(T \ {x})
    <3> SUFFICES ASSUME NEW x \in T PROVE Good(T \ {x})
      OBVIOUS
    <3>1. Cardinality(T \ {x}) = Cardinality(T) - 1
      BY <2>1, FS_RemoveElement
    <3>2. Cardinality(T \ {x}) <= n
      BY <2>1, <3>1
    <3> QED
      BY <1>2, <3>2
  <2>3. CASE T = {}
    BY <1>0, <2>3
  <2>4. CASE T # {}
    <3>1. PICK y \in T : g[T] = f[y] + g[T \ {y}]
      BY <1>0, <2>4
    <3>2. g[T] \in Int
      BY <2>2, <3>1
    <3>3. ASSUME NEW x \in T, x # y PROVE g[T] = f[x] + g[T \ {x}]
      <4>1. g[T \ {y}] = f[x] + g[(T \ {y}) \ {x}]
        BY <2>2, <3>3
      <4>2. g[T \ {x}] = f[y] + g[(T \ {x}) \ {y}]
        BY <2>2, <3>3
      <4>3. (T \ {y}) \ {x} = (T \ {x}) \ {y}
        OBVIOUS
      <4>4. g[(T \ {x}) \ {y}] \in Int
        <5>1. Cardinality((T \ {x}) \ {y}) <= n
          <6>1. IsFiniteSet(T \ {x}) /\ Cardinality(T \ {x}) = Cardinality(T) - 1
            BY <2>1, FS_RemoveElement
          <6>2. Cardinality((T \ {x}) \ {y}) = Cardinality(T) - 2
            <7>1. y \in T \ {x} /\ Cardinality((T \ {x}) \ {y}) = Cardinality(T \ {x}) - 1
              BY <3>3, <6>1, FS_RemoveElement
            <7> QED
              BY <2>1, <6>1, <7>1
          <6> QED
            BY <2>1, <6>2
        <5> QED
          BY <1>2, <5>1
      <4>5. f[x] \in Int /\ f[y] \in Int
        OBVIOUS
      <4>6. /\ g[T] = f[y] + (f[x] + g[(T \ {x}) \ {y}])
            /\ g[T \ {x}] = f[y] + g[(T \ {x}) \ {y}]
        BY <3>1, <4>1, <4>2, <4>3
      <4> DEFINE a == g[(T \ {x}) \ {y}]
      <4>7. f[y] + (f[x] + a) = f[x] + (f[y] + a)
        <5> HIDE DEF a
        <5>1. a \in Int
          BY <4>4 DEF a
        <5> QED
          BY <4>5, <5>1
      <4> QED
        BY <4>6, <4>7
    <3> QED
      BY <3>1, <3>2, <3>3
  <2> QED
    BY <2>3, <2>4
<1> HIDE DEF N
<1>3. Nat \subseteq N
  BY <1>1, <1>2, NatSetInduction
<1> SUFFICES ASSUME NEW T \in SUBSET S PROVE Good(T)
  OBVIOUS
<1>4. Cardinality(T) \in Nat
  BY FS_Subset, FS_CardinalityType
<1>5. Cardinality(T) \in N /\ Cardinality(T) <= Cardinality(T)
  BY <1>3, <1>4
<1> QED
  BY <1>5 DEF N

\* A sum over integers is an integer, and splits off any of its terms.
LEMMA TotalSplit ==
    ASSUME NEW S, IsFiniteSet(S), NEW f, \A x \in S : f[x] \in Int
    PROVE  /\ Total(f, S) \in Int
           /\ \A x \in S : Total(f, S) = f[x] + Total(f, S \ {x})
<1>1. PICK g : PartialSums(g, f, SUBSET S) /\ Total(f, S) = g[S]
  BY TotalPartialSums
<1>2. \A T \in SUBSET S : g[T] \in Int /\ \A x \in T : g[T] = f[x] + g[T \ {x}]
  BY <1>1, PartialSumsAny
<1>3. ASSUME NEW x \in S PROVE Total(f, S) = f[x] + Total(f, S \ {x})
  <2> DEFINE R == S \ {x}
  <2>1. IsFiniteSet(R)
    BY FS_RemoveElement
  <2> HIDE DEF R
  <2>2. PICK h : PartialSums(h, f, SUBSET R) /\ Total(f, R) = h[R]
    BY <2>1, TotalPartialSums
  <2>3. R \subseteq S
    BY DEF R
  <2>4. \A T \in SUBSET R : h[T] \in Int /\ \A y \in T : h[T] = f[y] + h[T \ {y}]
    <3>1. \A y \in R : f[y] \in Int
      BY <2>3
    <3> QED
      BY <2>1, <2>2, <3>1, PartialSumsAny
  <2> DEFINE F == {T \in SUBSET R : g[T] = h[T]}
  <2>5. {} \in F
    BY <1>1, <2>2 DEF PartialSums
  <2>6. \A T \in SUBSET R : \A y \in R \ T : T \in F => T \cup {y} \in F
    <3> SUFFICES ASSUME NEW T \in SUBSET R, NEW y \in R \ T, g[T] = h[T]
                 PROVE  g[T \cup {y}] = h[T \cup {y}]
      OBVIOUS
    <3>1. (T \cup {y}) \ {y} = T /\ T \cup {y} \in SUBSET R /\ T \cup {y} \in SUBSET S
      BY <2>3
    <3>2. g[T \cup {y}] = f[y] + g[T]
      BY <1>2, <3>1
    <3>3. h[T \cup {y}] = f[y] + h[T]
      BY <2>4, <3>1
    <3> QED
      BY <3>2, <3>3
  <2> HIDE DEF F
  <2>7. R \in F
    BY <2>1, <2>5, <2>6, FiniteSetInduction
  <2>8. g[R] = h[R]
    BY <2>7 DEF F
  <2> QED
    BY <1>1, <1>2, <2>2, <2>8 DEF R
<1> QED
  BY <1>1, <1>2, <1>3

\* The empty sum.
LEMMA TotalEmpty == ASSUME NEW f PROVE Total(f, {}) = 0
<1>1. PICK g : PartialSums(g, f, SUBSET {}) /\ Total(f, {}) = g[{}]
  BY TotalPartialSums, FS_EmptySet
<1> QED
  BY <1>1 DEF PartialSums

\* Only the values on S matter.
LEMMA TotalSame ==
    ASSUME NEW S, IsFiniteSet(S), NEW f, NEW g,
           \A x \in S : f[x] \in Int /\ g[x] = f[x]
    PROVE  Total(g, S) = Total(f, S)
<1> DEFINE F == {T \in SUBSET S : Total(g, T) = Total(f, T)}
<1>1. {} \in F
  BY TotalEmpty
<1>2. \A T \in SUBSET S : \A x \in S \ T : T \in F => T \cup {x} \in F
  <2> SUFFICES ASSUME NEW T \in SUBSET S, NEW x \in S \ T, Total(g, T) = Total(f, T)
               PROVE  Total(g, T \cup {x}) = Total(f, T \cup {x})
    OBVIOUS
  <2> DEFINE U == T \cup {x}
  <2>1. IsFiniteSet(U) /\ x \in U /\ U \ {x} = T /\ U \subseteq S
    BY FS_Subset
  <2> HIDE DEF U
  <2>2. Total(g, U) = g[x] + Total(g, U \ {x})
    BY <2>1, TotalSplit
  <2>3. Total(f, U) = f[x] + Total(f, U \ {x})
    BY <2>1, TotalSplit
  <2> QED
    BY <2>1, <2>2, <2>3 DEF U
<1> HIDE DEF F
<1>3. S \in F
  BY <1>1, <1>2, FiniteSetInduction
<1> QED
  BY <1>3 DEF F

\* A sum of zeros.
LEMMA TotalZero ==
    ASSUME NEW S, IsFiniteSet(S), NEW f, \A x \in S : f[x] = 0
    PROVE  Total(f, S) = 0
<1> DEFINE F == {T \in SUBSET S : Total(f, T) = 0}
<1>1. {} \in F
  BY TotalEmpty
<1>2. \A T \in SUBSET S : \A x \in S \ T : T \in F => T \cup {x} \in F
  <2> SUFFICES ASSUME NEW T \in SUBSET S, NEW x \in S \ T, Total(f, T) = 0
               PROVE  Total(f, T \cup {x}) = 0
    OBVIOUS
  <2>1. IsFiniteSet(T \cup {x}) /\ (T \cup {x}) \ {x} = T /\ T \cup {x} \subseteq S
    BY FS_Subset
  <2>2. Total(f, T \cup {x}) = f[x] + Total(f, (T \cup {x}) \ {x})
    BY <2>1, TotalSplit
  <2> QED
    BY <2>1, <2>2
<1> HIDE DEF F
<1>3. S \in F
  BY <1>1, <1>2, FiniteSetInduction
<1> QED
  BY <1>3 DEF F

\* A sum of naturals.
LEMMA TotalNat ==
    ASSUME NEW S, IsFiniteSet(S), NEW f, \A x \in S : f[x] \in Nat
    PROVE  Total(f, S) \in Nat
<1> DEFINE F == {T \in SUBSET S : Total(f, T) \in Nat}
<1>1. {} \in F
  BY TotalEmpty
<1>2. \A T \in SUBSET S : \A x \in S \ T : T \in F => T \cup {x} \in F
  <2> SUFFICES ASSUME NEW T \in SUBSET S, NEW x \in S \ T, Total(f, T) \in Nat
               PROVE  Total(f, T \cup {x}) \in Nat
    OBVIOUS
  <2>1. IsFiniteSet(T \cup {x}) /\ (T \cup {x}) \ {x} = T /\ T \cup {x} \subseteq S
    BY FS_Subset
  <2>2. Total(f, T \cup {x}) = f[x] + Total(f, (T \cup {x}) \ {x})
    BY <2>1, TotalSplit
  <2> QED
    BY <2>1, <2>2
<1> HIDE DEF F
<1>3. S \in F
  BY <1>1, <1>2, FiniteSetInduction
<1> QED
  BY <1>3 DEF F

\* Changing one term changes the sum by the same amount.
LEMMA TotalUpdate ==
    ASSUME NEW S, IsFiniteSet(S), NEW f, NEW g, NEW x \in S,
           \A y \in S : f[y] \in Int /\ g[y] \in Int,
           \A y \in S \ {x} : g[y] = f[y]
    PROVE  Total(g, S) = Total(f, S) + g[x] - f[x]
<1>1. IsFiniteSet(S \ {x})
  BY FS_RemoveElement
<1>2. Total(g, S \ {x}) = Total(f, S \ {x})
  BY <1>1, TotalSame
<1>3. Total(f, S \ {x}) \in Int
  BY <1>1, TotalSplit
<1>4. Total(f, S) = f[x] + Total(f, S \ {x}) /\ Total(g, S) = g[x] + Total(g, S \ {x})
  BY TotalSplit
<1> QED
  BY <1>2, <1>3, <1>4

=============================================================================
