------------------------------ MODULE NatFacts ------------------------------
(***************************************************************************)
(* Facts about natural numbers that the proofs of several components use.  *)
(***************************************************************************)
EXTENDS Integers, WellFoundedInduction, FiniteSetTheorems, TLAPS

\* A scan for the minimum of a nonempty set of numbers finds one.
LEMMA LeastNatural ==
  ASSUME NEW S \in SUBSET Nat, S # {}
  PROVE  \E m \in S : \A n \in S : m <= n
<1> DEFINE less == {ss \in Nat \X Nat : ss[1] < ss[2]}
<1>1. IsWellFoundedOn(less, Nat)
  BY NatLessThanWellFounded DEF OpToRel
<1>2. PICK m \in S : \A n \in S : ~ (<<n, m>> \in less)
  <2> HIDE DEF less
  <2> QED
    BY <1>1, WFMin
<1>3. \A n \in S : ~(n < m)
  BY <1>2
<1> QED
  BY <1>3

\* A set of numbers up to n that is not empty has a greatest one.
LEMMA GreatestNatural ==
  ASSUME NEW n \in Nat, NEW S \in SUBSET (0 .. n), S # {}
  PROVE  \E m \in S : \A k \in S : k <= m
<1> DEFINE T == {k \in 0 .. n : n - k \in S}
<1>1. T \in SUBSET Nat
  OBVIOUS
<1>2. T # {}
  <2>1. PICK k \in S : k \in 0 .. n
    OBVIOUS
  <2>2. PICK i \in 0 .. n : i = n - k /\ n - i = k
    <3>1. n - k \in 0 .. n /\ n - (n - k) = k
      BY <2>1
    <3> QED
      BY <3>1
  <2> QED
    BY <2>1, <2>2
<1>3. PICK i \in T : \A k \in T : i <= k
  <2> HIDE DEF T
  <2> QED
    BY <1>1, <1>2, LeastNatural
<1>4. i \in 0 .. n /\ n - i \in S
  OBVIOUS
<1>5. ASSUME NEW k \in S PROVE k <= n - i
  <2>1. PICK x \in 0 .. n : x = n - k /\ n - x = k
    <3>1. k \in 0 .. n
      BY <1>5
    <3>2. n - k \in 0 .. n /\ n - (n - k) = k
      BY <3>1
    <3> QED
      BY <3>2
  <2>2. x \in T
    BY <1>5, <2>1
  <2>3. i <= x
    BY <1>3, <2>2
  <2> QED
    BY <1>4, <2>1, <2>3
<1> QED
  BY <1>4, <1>5

\* An array of n slots has the indices 0 .. n-1.
LEMMA IndexSet ==
  ASSUME NEW n \in Nat
  PROVE  IsFiniteSet(0 .. n - 1) /\ Cardinality(0 .. n - 1) = n
<1>1. 0 \in Int /\ n - 1 \in Int
  OBVIOUS
<1>2. /\ IsFiniteSet(0 .. n - 1)
      /\ Cardinality(0 .. n - 1) = IF 0 > n - 1 THEN 0 ELSE n - 1 - 0 + 1
  BY <1>1, FS_Interval
<1> QED
  BY <1>2

\* A property of the steps of a loop that holds before the first and is kept by each
\* holds after all: S is the set of the counts it holds at.
LEMMA UpTo ==
  ASSUME NEW n \in Nat, NEW S, 0 \in S, \A i \in 1 .. n : i - 1 \in S => i \in S
  PROVE  \A i \in 0 .. n : i \in S
<1> DEFINE T == {i \in 0 .. n : i \notin S}
<1>1. CASE T # {}
  <2>1. T \in SUBSET Nat
    OBVIOUS
  <2> HIDE DEF T
  <2>2. PICK m \in T : \A i \in T : m <= i
    BY <1>1, <2>1, LeastNatural
  <2>3. m \in 0 .. n /\ m \notin S /\ \A i \in 0 .. n : i < m => i \in S
    BY <2>1, <2>2 DEF T
  <2>4. m # 0 /\ m \in 1 .. n /\ m - 1 \in 0 .. n /\ m - 1 < m
    BY <2>3
  <2>5. m - 1 \in S
    BY <2>3, <2>4
  <2> QED
    BY <2>3, <2>4, <2>5
<1> QED
  BY <1>1

\* A loop of n turns has its results, one after the other: step[i, v] is what turn i
\* makes of v.
Results(f, n, v0, step) == f[0] = v0 /\ \A i \in 1 .. n : f[i] = step[<<i, f[i - 1]>>]

LEMMA LoopResults ==
  ASSUME NEW n \in Nat, NEW V, NEW v0 \in V, NEW step \in [(1 .. n) \X V -> V]
  PROVE  \E f \in [0 .. n -> V] : Results(f, n, v0, step)
<1> USE DEF Results
<1> DEFINE Goes(m, f) == Results(f, m, v0, step)
           S == {m \in 0 .. n : \E f \in [0 .. m -> V] : Goes(m, f)}
<1>1. 0 \in S
  <2>1. [i \in 0 .. 0 |-> v0] \in [0 .. 0 -> V] /\ Goes(0, [i \in 0 .. 0 |-> v0])
    OBVIOUS
  <2>2. 0 \in 0 .. n
    OBVIOUS
  <2> HIDE DEF Goes
  <2> QED
    BY <2>1, <2>2
<1>2. ASSUME NEW m \in 1 .. n, m - 1 \in S PROVE m \in S
  <2>1. PICK f \in [0 .. m - 1 -> V] : Goes(m - 1, f)
    BY <1>2
  <2> DEFINE g == [i \in 0 .. m |-> IF i = m THEN step[<<m, f[m - 1]>>] ELSE f[i]]
  <2>2. f[m - 1] \in V /\ step[<<m, f[m - 1]>>] \in V
    OBVIOUS
  <2>3. g \in [0 .. m -> V]
    BY <2>2
  <2>4. \A i \in 0 .. m - 1 : g[i] = f[i]
    OBVIOUS
  <2>5. \A i \in 1 .. m : i - 1 \in 0 .. m - 1 /\ (i = m \/ i \in 1 .. m - 1)
    OBVIOUS
  <2>6. g[m] = step[<<m, f[m - 1]>>] /\ 0 \in 0 .. m - 1
    OBVIOUS
  <2> HIDE DEF g
  <2>7. Goes(m, g)
    <3>1. g[0] = v0
      BY <2>1, <2>4, <2>6
    <3>2. ASSUME NEW i \in 1 .. m PROVE g[i] = step[<<i, g[i - 1]>>]
      <4>1. g[i - 1] = f[i - 1]
        BY <2>4, <2>5
      <4>2. CASE i = m
        BY <2>6, <4>1, <4>2
      <4>3. CASE i \in 1 .. m - 1
        BY <2>1, <2>4, <4>1, <4>3
      <4> QED
        BY <2>5, <4>2, <4>3
    <3> QED
      BY <3>1, <3>2
  <2> QED
    BY <2>3, <2>7
<1> HIDE DEF S
<1>3. n \in S
  BY <1>1, <1>2, UpTo
<1> QED
  BY <1>3 DEF S

\* The same of a loop whose value after turn i is in the set V[i].
LEMMA LoopStays ==
  ASSUME NEW n \in Nat, NEW V, NEW v0 \in V[0], NEW turn,
         \A i \in 1 .. n : \A x \in V[i - 1] : turn[<<i, x>>] \in V[i]
  PROVE  \E f : /\ f = [i \in 0 .. n |-> f[i]]
                /\ Results(f, n, v0, turn)
                /\ \A i \in 0 .. n : f[i] \in V[i]
<1> DEFINE U == UNION {V[i] : i \in 0 .. n}
           step == [y \in (1 .. n) \X U |-> IF y[2] \in V[y[1] - 1] THEN turn[<<y[1], y[2]>>] ELSE v0]
<1>1. \A i \in 0 .. n : \A x \in V[i] : x \in U
  OBVIOUS
<1>2. v0 \in U
  BY <1>1
<1>3. \A i \in 1 .. n : i - 1 \in 0 .. n /\ i \in 0 .. n
  OBVIOUS
<1> HIDE DEF U
<1>4. \A i \in 1 .. n : \A x \in U : (IF x \in V[i - 1] THEN turn[<<i, x>>] ELSE v0) \in U
  BY <1>1, <1>2, <1>3
<1>5. step \in [(1 .. n) \X U -> U]
  BY <1>4
<1>6. \A i \in 1 .. n : \A x \in U : x \in V[i - 1] => step[<<i, x>>] = turn[<<i, x>>]
  OBVIOUS
<1> HIDE DEF step
<1>7. PICK f \in [0 .. n -> U] : Results(f, n, v0, step)
  BY <1>2, <1>5, LoopResults
<1> DEFINE S == {i \in 0 .. n : f[i] \in V[i]}
<1>8. 0 \in S
  BY <1>7 DEF Results
<1>9. ASSUME NEW i \in 1 .. n, i - 1 \in S PROVE i \in S
  <2>1. f[i] = step[<<i, f[i - 1]>>] /\ f[i - 1] \in U /\ f[i - 1] \in V[i - 1]
    BY <1>3, <1>7, <1>9 DEF Results
  <2>2. f[i] = turn[<<i, f[i - 1]>>]
    BY <1>6, <2>1
  <2> QED
    BY <1>3, <2>1, <2>2
<1> HIDE DEF S
<1>10. \A i \in 0 .. n : i \in S
  BY <1>8, <1>9, UpTo
<1> USE DEF S
<1>11. \A i \in 0 .. n : f[i] \in V[i]
  BY <1>10
<1>12. \A i \in 1 .. n : f[i] = turn[<<i, f[i - 1]>>]
  <2> TAKE i \in 1 .. n
  <2>1. f[i] = step[<<i, f[i - 1]>>] /\ f[i - 1] \in U /\ f[i - 1] \in V[i - 1]
    BY <1>3, <1>7, <1>11 DEF Results
  <2> QED
    BY <1>6, <2>1
<1>13. f = [i \in 0 .. n |-> f[i]] /\ f[0] = v0
  BY <1>7 DEF Results
<1> QED
  BY <1>11, <1>12, <1>13 DEF Results

=============================================================================
