----------------------------- MODULE RingProofs -----------------------------
(***************************************************************************)
(* What the rings of ready_ring.h hold, for rings of any size: a queue of  *)
(* values, or a set of indices each of which is in one slot.  A window of  *)
(* slots counted from a head, as in the reorder buffer and the store       *)
(* queue, grows at its tail and shrinks at its head.                       *)
(***************************************************************************)
EXTENDS ReadyRing, NatFacts, SequenceTheorems

-----------------------------------------------------------------------------
(* The rings *)

\* The distance of slot i from the head h in a ring of n slots, and the slot x places on.
Dist(n, h, i) == IF h <= i THEN i - h ELSE i - h + n
Wrap(n, x) == IF x >= n THEN x - n ELSE x

(***************************************************************************)
(* A ring of n slots holds the elements of q, sequence over V, from its    *)
(* head on and the sentinel in its other slots.                            *)
(***************************************************************************)
RingHolds(r, n, V, q) ==
  /\ r \in [at : [0 .. n - 1 -> V \cup {Nil}], head : 0 .. n - 1, tail : 0 .. n - 1]
  /\ q \in Seq(V)
  /\ Len(q) <= n
  /\ r.tail = Wrap(n, r.head + Len(q))
  /\ \A i \in 0 .. n - 1 :
       r.at[i] = IF Dist(n, r.head, i) < Len(q) THEN q[Dist(n, r.head, i) + 1] ELSE Nil

\* The slot as far from the head as slot i is slot i.
LEMMA DistIsPlace ==
  ASSUME NEW n \in Nat \ {0}, NEW h \in 0 .. n - 1, NEW i \in 0 .. n - 1
  PROVE  /\ Dist(n, h, i) \in 0 .. n - 1
         /\ Wrap(n, h + Dist(n, h, i)) = i
         /\ (h + Dist(n, h, i)) % n = i
         /\ Dist(n, h, h) = 0
<1>1. Dist(n, h, i) \in 0 .. n - 1 /\ Wrap(n, h + Dist(n, h, i)) = i /\ Dist(n, h, h) = 0
  BY DEF Dist, Wrap
<1>2. CASE h <= i
  BY <1>1, <1>2 DEF Dist
<1>3. CASE ~(h <= i)
  <2>1. h + Dist(n, h, i) = i + n /\ i + n \in n .. n + n - 1
    BY <1>3 DEF Dist
  <2> QED
    BY <1>1, <2>1
<1> QED
  BY <1>2, <1>3

\* The slot d places from the head is at distance d.
LEMMA PlaceIsDist ==
  ASSUME NEW n \in Nat \ {0}, NEW h \in 0 .. n - 1, NEW d \in 0 .. n - 1
  PROVE  /\ Wrap(n, h + d) \in 0 .. n - 1
         /\ (h + d) % n = Wrap(n, h + d)
         /\ Dist(n, h, Wrap(n, h + d)) = d
<1>1. Wrap(n, h + d) \in 0 .. n - 1 /\ Dist(n, h, Wrap(n, h + d)) = d
  BY DEF Dist, Wrap
<1>2. CASE h + d >= n
  <2>1. h + d \in n .. n + n - 1
    BY <1>2
  <2> QED
    BY <1>1, <1>2, <2>1 DEF Wrap
<1>3. CASE ~(h + d >= n)
  BY <1>1, <1>3 DEF Wrap
<1> QED
  BY <1>2, <1>3

\* The tail of a ring that is not full, and where it moves.
LEMMA TailMoves ==
  ASSUME NEW n \in Nat \ {0}, NEW h \in 0 .. n - 1, NEW c \in 0 .. n - 1,
         NEW t, t = Wrap(n, h + c), NEW u, u = (IF t + 1 = n THEN 0 ELSE t + 1)
  PROVE  /\ Dist(n, h, t) = c
         /\ \A i \in 0 .. n - 1 : Dist(n, h, i) = c => i = t
         /\ u = Wrap(n, h + (c + 1))
         /\ t \in 0 .. n - 1 /\ u \in 0 .. n - 1
BY DEF Dist, Wrap

\* The head of a ring that is not empty, and where it moves.
HeadIsNext(n, h, c, g) ==
  /\ g \in 0 .. n - 1
  /\ \A i \in 0 .. n - 1 : i # h => Dist(n, g, i) = Dist(n, h, i) - 1 /\ Dist(n, h, i) > 0
  /\ Dist(n, g, h) = n - 1
  /\ Wrap(n, g + (c - 1)) = Wrap(n, h + c)

\* As the head moves one place on, every distance but that of the old head falls by one.
LEMMA HeadMoves ==
  ASSUME NEW n \in Nat \ {0}, NEW h \in 0 .. n - 1, NEW c \in 1 .. n, NEW g, g = (IF h + 1 = n THEN 0 ELSE h + 1)
  PROVE  HeadIsNext(n, h, c, g)
BY DEF Dist, Wrap, HeadIsNext

\* The sizes of two sets of numbers up to n, of which one is within the other, and of the rest.
Divides(A, B) ==
  /\ Cardinality(A) \in Nat /\ Cardinality(B) \in Nat /\ Cardinality(A \ B) \in Nat
  /\ Cardinality(A \ B) = Cardinality(A) - Cardinality(B)
  /\ Cardinality(B) = 0 <=> B = {}
  /\ Cardinality(A \ B) = 0 <=> A \ B = {}

\* A finite set has as many members as a subset of it and the rest.
LEMMA SizeOfRest ==
  ASSUME NEW n \in Nat, NEW A \in SUBSET (1 .. n), NEW B \in SUBSET A
  PROVE  Divides(A, B)
<1>1. 1 \in Int /\ n \in Int
  OBVIOUS
<1>2. IsFiniteSet(1 .. n)
  BY <1>1, FS_Interval
<1>3. IsFiniteSet(A)
  BY <1>2, FS_Subset
<1>4. IsFiniteSet(B)
  BY <1>3, FS_Subset
<1> DEFINE C == A \ B
           I == A \cap B
<1>5. IsFiniteSet(C) /\ Cardinality(C) = Cardinality(A) - Cardinality(I)
  BY <1>3, FS_Difference
<1>6. I = B
  OBVIOUS
<1>7. Cardinality(A) \in Nat /\ Cardinality(B) \in Nat /\ Cardinality(C) \in Nat
  BY <1>3, <1>4, <1>5, FS_CardinalityType
<1>8. (Cardinality(B) = 0 <=> B = {}) /\ (Cardinality(C) = 0 <=> C = {})
  BY <1>4, <1>5, FS_EmptySet
<1> QED
  BY <1>5, <1>6, <1>7, <1>8 DEF Divides

\* A window of w places from h on grows by the place x at its end, and its end moves to y.
WindowGrows(n, h, w, x, y) ==
  /\ w = n => Dist(n, h, x) < w
  /\ w # n => /\ Dist(n, h, x) = w
              /\ w < n
              /\ y = Wrap(n, h + (w + 1))
              /\ \A i \in 0 .. n - 1 : Dist(n, h, i) < w + 1 <=> i = x \/ Dist(n, h, i) < w

\* The slot at the tail is the only one a window that grows by one gains.
LEMMA AtTail ==
  ASSUME NEW n \in Nat \ {0}, NEW h \in 0 .. n - 1, NEW w \in 0 .. n,
         NEW x, x = Wrap(n, h + w), NEW y, y = (x + 1) % n
  PROVE  WindowGrows(n, h, w, x, y)
<1>1. x \in 0 .. n - 1 /\ y = IF x + 1 = n THEN 0 ELSE x + 1
  <2>1. x \in 0 .. n - 1
    BY DEF Wrap
  <2> QED
    BY <2>1
<1>2. \A i \in 0 .. n - 1 : Dist(n, h, i) \in 0 .. n - 1
  BY DEF Dist
<1>3. ASSUME w = n PROVE Dist(n, h, x) < w
  BY <1>3, <1>2, <1>1
<1>4. ASSUME w # n
      PROVE  /\ Dist(n, h, x) = w
             /\ w < n
             /\ y = Wrap(n, h + (w + 1))
             /\ \A i \in 0 .. n - 1 : Dist(n, h, i) = w => i = x
  BY <1>4, <1>1 DEF Dist, Wrap
<1>5. ASSUME w # n, NEW i \in 0 .. n - 1
      PROVE  Dist(n, h, i) < w + 1 <=> i = x \/ Dist(n, h, i) < w
  BY <1>2, <1>4, <1>5
<1> QED
  BY <1>3, <1>4, <1>5 DEF WindowGrows

\* A window of w places from h on loses its first place, and the head moves to g.
WindowShrinks(n, h, w, x, g) ==
  /\ x = Wrap(n, g + (w - 1))
  /\ ~(Dist(n, g, h) < w - 1)
  /\ \A i \in 0 .. n - 1 : i # h =>
       /\ Dist(n, g, i) = Dist(n, h, i) - 1
       /\ Dist(n, h, i) \in Nat
       /\ Dist(n, g, i) < w - 1 <=> Dist(n, h, i) < w

\* The slot at the head is the only one a window that shrinks by one loses.
LEMMA AtHead ==
  ASSUME NEW n \in Nat \ {0}, NEW h \in 0 .. n - 1, NEW w \in 1 .. n,
         NEW x, x = Wrap(n, h + w), NEW g, g = (h + 1) % n
  PROVE  WindowShrinks(n, h, w, x, g)
<1>1. g \in 0 .. n - 1 /\ g = IF h + 1 = n THEN 0 ELSE h + 1
  OBVIOUS
<1>2. HeadIsNext(n, h, w, g)
  BY <1>1, HeadMoves
<1>3. \A i \in 0 .. n - 1 : Dist(n, h, i) \in Nat
  BY DEF Dist
<1>4. /\ \A i \in 0 .. n - 1 : i # h => Dist(n, g, i) = Dist(n, h, i) - 1
      /\ Dist(n, g, h) = n - 1 /\ x = Wrap(n, g + (w - 1))
  BY <1>2 DEF HeadIsNext
<1>5. ~(Dist(n, g, h) < w - 1)
  BY <1>4
<1> QED
  BY <1>3, <1>4, <1>5 DEF WindowShrinks

\* RingSize is the number of slots.
LEMMA SizeOfRing ==
  ASSUME NEW n \in Nat \ {0}, NEW V, NEW q, NEW r, RingHolds(r, n, V, q)
  PROVE  RingSize(r) = n
BY IndexSet DEF RingHolds, RingSize

\* An empty ring holds no element.
LEMMA EmptyHoldsNothing ==
  ASSUME NEW n \in Nat \ {0}, NEW V
  PROVE  RingHolds(EmptyRing(n), n, V, << >>)
BY DEF RingHolds, EmptyRing, Wrap, Dist

\* The element at the head is the first of the queue.
LEMMA FirstOfRing ==
  ASSUME NEW n \in Nat \ {0}, NEW V, Nil \notin V, NEW q, NEW r, RingHolds(r, n, V, q)
  PROVE  /\ First(r) # Nil <=> q # << >>
         /\ q # << >> => First(r) = q[1] /\ Len(q) > 0 /\ First(r) \in V
<1>1. Dist(n, r.head, r.head) = 0 /\ r.head \in 0 .. n - 1 /\ q \in Seq(V)
  BY DEF RingHolds, Dist
<1>2. r.at[r.head] = IF 0 < Len(q) THEN q[0 + 1] ELSE Nil
  BY <1>1 DEF RingHolds
<1>3. q = << >> <=> Len(q) = 0
  BY <1>1, EmptySeq
<1>4. Len(q) > 0 => q[1] \in V
  BY <1>1, ElementOfSeq
<1> QED
  BY <1>1, <1>2, <1>3, <1>4, LenProperties DEF First

\* A push to a ring that is not full appends to its queue.
LEMMA PushHolds ==
  ASSUME NEW n \in Nat \ {0}, NEW V, NEW q, NEW r, RingHolds(r, n, V, q), NEW v \in V, Len(q) < n
  PROVE  RingHolds(Push(r, v), n, V, Append(q, v))
<1> DEFINE p == Push(r, v)
           w == Append(q, v)
           c == Len(q)
<1>1. q \in Seq(V) /\ c \in 0 .. n - 1 /\ r.head \in 0 .. n - 1 /\ r.tail = Wrap(n, r.head + c)
  BY LenProperties DEF RingHolds
<1>2. w \in Seq(V) /\ Len(w) = c + 1 /\ w[c + 1] = v /\ \A i \in 1 .. c : w[i] = q[i]
  BY <1>1, AppendProperties
<1>3. RingSize(r) = n
  BY SizeOfRing
<1>4. /\ Dist(n, r.head, r.tail) = c
      /\ \A i \in 0 .. n - 1 : Dist(n, r.head, i) = c => i = r.tail
      /\ After(r, r.tail) = Wrap(n, r.head + (c + 1))
      /\ r.tail \in 0 .. n - 1 /\ After(r, r.tail) \in 0 .. n - 1
  <2>1. After(r, r.tail) = IF r.tail + 1 = n THEN 0 ELSE r.tail + 1
    BY <1>3 DEF After
  <2> HIDE DEF c
  <2> QED
    BY <1>1, <2>1, TailMoves
<1>5. r \in [at : [0 .. n - 1 -> V \cup {Nil}], head : 0 .. n - 1, tail : 0 .. n - 1]
  BY DEF RingHolds
<1>6. /\ p.at = [r.at EXCEPT ![r.tail] = v] /\ p.head = r.head /\ p.tail = After(r, r.tail)
      /\ p \in [at : [0 .. n - 1 -> V \cup {Nil}], head : 0 .. n - 1, tail : 0 .. n - 1]
  BY <1>4, <1>5 DEF Push
<1>7. \A i \in 0 .. n - 1 :
        r.at[i] = IF Dist(n, r.head, i) < c THEN q[Dist(n, r.head, i) + 1] ELSE Nil
  BY DEF RingHolds
<1> HIDE DEF p, w, c
<1>8. ASSUME NEW i \in 0 .. n - 1
      PROVE  p.at[i] = IF Dist(n, p.head, i) < Len(w) THEN w[Dist(n, p.head, i) + 1] ELSE Nil
  <2> DEFINE d == Dist(n, r.head, i)
  <2>1. d \in 0 .. n - 1
    BY <1>1, DistIsPlace
  <2>2. r.at[i] = IF d < c THEN q[d + 1] ELSE Nil
    BY <1>7
  <2>3. i # r.tail => d # c
    BY <1>4
  <2>4. d = c => i = r.tail
    BY <1>4
  <2>5. i = r.tail => d = c
    BY <1>4
  <2>6. p.at[i] = IF i = r.tail THEN v ELSE r.at[i]
    BY <1>5, <1>6
  <2> HIDE DEF d
  <2>7. p.at[i] = IF d < c + 1 THEN w[d + 1] ELSE Nil
    <3>1. CASE d = c
      BY <1>1, <1>2, <2>4, <2>6, <3>1
    <3>2. CASE d < c
      <4>1. d + 1 \in 1 .. c /\ d < c + 1
        BY <1>1, <2>1, <3>2
      <4>2. i # r.tail
        BY <1>1, <2>1, <2>5, <3>2
      <4> QED
        BY <1>2, <2>2, <2>6, <3>2, <4>1, <4>2
    <3>3. CASE d > c
      <4>1. i # r.tail /\ ~(d < c) /\ ~(d < c + 1)
        BY <1>1, <2>1, <2>5, <3>3
      <4> QED
        BY <2>2, <2>6, <4>1
    <3> QED
      BY <1>1, <2>1, <3>1, <3>2, <3>3
  <2> QED
    BY <1>2, <1>6, <2>7 DEF d
<1>9. Len(w) <= n /\ p.tail = Wrap(n, p.head + Len(w))
  <2>1. Len(w) <= n
    BY <1>1, <1>2
  <2> QED
    BY <2>1, <1>2, <1>4, <1>6
<1> QED
  BY <1>2, <1>6, <1>8, <1>9 DEF RingHolds, p, w

\* A pop of a ring that is not empty takes the first of its queue.
LEMMA PopHolds ==
  ASSUME NEW n \in Nat \ {0}, NEW V, NEW q, NEW r, RingHolds(r, n, V, q), q # << >>
  PROVE  RingHolds(Pop(r), n, V, Tail(q))
<1> DEFINE p == Pop(r)
           w == Tail(q)
           c == Len(q)
<1>1. q \in Seq(V) /\ c \in 1 .. n /\ r.head \in 0 .. n - 1 /\ r.tail = Wrap(n, r.head + c)
  BY LenProperties, EmptySeq DEF RingHolds
<1>2. w \in Seq(V) /\ Len(w) = c - 1 /\ \A i \in 1 .. c - 1 : w[i] = q[i + 1]
  BY <1>1, HeadTailProperties
<1>3. RingSize(r) = n
  BY SizeOfRing
<1> DEFINE g == After(r, r.head)
<1>4. g = IF r.head + 1 = n THEN 0 ELSE r.head + 1
  BY <1>3 DEF After
<1>5. /\ g \in 0 .. n - 1
      /\ \A i \in 0 .. n - 1 : i # r.head =>
           Dist(n, g, i) = Dist(n, r.head, i) - 1 /\ Dist(n, r.head, i) > 0
      /\ Dist(n, g, r.head) = n - 1
      /\ Wrap(n, g + (c - 1)) = Wrap(n, r.head + c)
  <2> HIDE DEF g, c
  <2>1. HeadIsNext(n, r.head, c, g)
    BY <1>1, <1>4, HeadMoves
  <2> QED
    BY <2>1 DEF HeadIsNext
<1>6. r \in [at : [0 .. n - 1 -> V \cup {Nil}], head : 0 .. n - 1, tail : 0 .. n - 1]
  BY DEF RingHolds
<1>7. /\ p.at = [r.at EXCEPT ![r.head] = Nil] /\ p.head = g /\ p.tail = r.tail
      /\ p \in [at : [0 .. n - 1 -> V \cup {Nil}], head : 0 .. n - 1, tail : 0 .. n - 1]
  <2> HIDE DEF g
  <2>1. p.at = [r.at EXCEPT ![r.head] = Nil] /\ p.tail = r.tail /\ p.head = g
    BY <1>5, <1>6 DEF Pop, g
  <2>2. p = [at |-> [r.at EXCEPT ![r.head] = Nil], head |-> g, tail |-> r.tail]
    BY <1>6 DEF Pop, g
  <2> QED
    BY <1>5, <1>6, <2>1, <2>2
<1>8. \A i \in 0 .. n - 1 :
        r.at[i] = IF Dist(n, r.head, i) < c THEN q[Dist(n, r.head, i) + 1] ELSE Nil
  BY DEF RingHolds
<1> HIDE DEF p, w, c, g
<1>9. ASSUME NEW i \in 0 .. n - 1
      PROVE  p.at[i] = IF Dist(n, p.head, i) < Len(w) THEN w[Dist(n, p.head, i) + 1] ELSE Nil
  <2> DEFINE d == Dist(n, r.head, i)
             e == Dist(n, g, i)
  <2>1. d \in 0 .. n - 1 /\ e \in 0 .. n - 1
    BY <1>1, <1>5, DistIsPlace
  <2>2. r.at[i] = IF d < c THEN q[d + 1] ELSE Nil
    BY <1>8
  <2>3. p.at[i] = IF i = r.head THEN Nil ELSE r.at[i]
    BY <1>6, <1>7
  <2>4. i # r.head => e = d - 1 /\ d > 0
    BY <1>5
  <2>5. i = r.head => e = n - 1
    BY <1>5
  <2> HIDE DEF d, e
  <2>6. p.at[i] = IF e < c - 1 THEN w[e + 1] ELSE Nil
    <3>1. CASE i = r.head
      BY <1>1, <2>1, <2>3, <2>5, <3>1
    <3>2. CASE i # r.head
      <4>1. e < c - 1 <=> d < c
        BY <1>1, <2>1, <2>4, <3>2
      <4>2. e < c - 1 => e + 1 \in 1 .. c - 1 /\ e + 1 + 1 = d + 1
        BY <1>1, <2>1, <2>4, <3>2
      <4> QED
        BY <1>2, <2>2, <2>3, <3>2, <4>1, <4>2
    <3> QED
      BY <3>1, <3>2
  <2> QED
    BY <1>2, <1>7, <2>6 DEF e
<1>10. Len(w) <= n /\ p.tail = Wrap(n, p.head + Len(w))
  BY <1>1, <1>2, <1>5, <1>7
<1> QED
  BY <1>2, <1>7, <1>9, <1>10 DEF RingHolds, p, w

-----------------------------------------------------------------------------
(* Enumerations of sets *)

\* q lists the elements of S, each once.
Enumerates(q, S) ==
  /\ q \in Seq(S)
  /\ \A i, j \in 1 .. Len(q) : q[i] = q[j] => i = j
  /\ \A v \in S : \E i \in 1 .. Len(q) : q[i] = v

\* A list without repetition of a set is as long as the set is large.
LEMMA EnumerationCounts ==
  ASSUME NEW S, NEW q, Enumerates(q, S)
  PROVE  IsFiniteSet(S) /\ Cardinality(S) = Len(q) /\ Len(q) \in Nat
<1>1. q \in Seq(S) /\ Len(q) \in Nat /\ q \in [1 .. Len(q) -> S]
  BY LenProperties DEF Enumerates
<1>2. q \in Bijection(1 .. Len(q), S)
  BY <1>1 DEF Enumerates, Bijection, Injection, IsInjective, Surjection
<1>3. ExistsBijection(1 .. Len(q), S)
  BY <1>2 DEF ExistsBijection
<1>4. Cardinality(S) = Len(q)
  BY <1>1, <1>3, FS_CountingElements
<1>5. IsFiniteSet(1 .. Len(q))
  BY <1>1, FS_Interval
<1> QED
  BY <1>1, <1>3, <1>4, <1>5, FS_Bijection

\* The empty list lists the empty set.
LEMMA EnumerateEmpty == Enumerates(<< >>, {})
BY EmptySeq DEF Enumerates

\* A list goes on with a new member.
LEMMA EnumerateOne ==
  ASSUME NEW S, NEW q, Enumerates(q, S), NEW v, v \notin S
  PROVE  Enumerates(Append(q, v), S \cup {v})
<1>1. q \in Seq(S) /\ Len(q) \in Nat
  BY LenProperties DEF Enumerates
<1>2. q \in Seq(S \cup {v})
  BY <1>1, SeqMonotonic
<1> DEFINE w == Append(q, v)
<1>3. w \in Seq(S \cup {v}) /\ Len(w) = Len(q) + 1 /\ w[Len(q) + 1] = v
      /\ \A i \in 1 .. Len(q) : w[i] = q[i]
  BY <1>2, AppendProperties
<1>4. \A i \in 1 .. Len(q) : q[i] \in S
  BY <1>1, ElementOfSeq
<1>5. \A i \in 1 .. Len(q) + 1 : i \in 1 .. Len(q) \/ i = Len(q) + 1
  BY <1>1
<1>6. \A i \in 1 .. Len(q) : i \in 1 .. Len(q) + 1 /\ Len(q) + 1 \in 1 .. Len(q) + 1
  BY <1>1
<1>7. Len(q) + 1 \in 1 .. Len(q) + 1
  BY <1>1
<1> HIDE DEF w
<1>8. \A i, j \in 1 .. Len(w) : w[i] = w[j] => i = j
  BY <1>3, <1>4, <1>5 DEF Enumerates
<1>9. \A x \in S \cup {v} : \E i \in 1 .. Len(w) : w[i] = x
  BY <1>3, <1>6, <1>7 DEF Enumerates
<1> QED
  BY <1>3, <1>8, <1>9 DEF Enumerates, w

\* A list without its first member lists the rest of the set.
LEMMA EnumerateRest ==
  ASSUME NEW S, NEW q, Enumerates(q, S), q # << >>
  PROVE  q[1] \in S /\ Enumerates(Tail(q), S \ {q[1]})
<1> DEFINE w == Tail(q)
           n == Len(q)
<1>1. q \in Seq(S) /\ n \in Nat \ {0} /\ q \in [1 .. n -> S]
  BY LenProperties, EmptySeq DEF Enumerates
<1>2. w \in Seq(S) /\ Len(w) = n - 1 /\ \A i \in 1 .. n - 1 : w[i] = q[i + 1]
  BY <1>1, HeadTailProperties
<1> HIDE DEF n
<1>3. 1 \in 1 .. n /\ \A i \in 1 .. n - 1 : i + 1 \in 1 .. n /\ i + 1 # 1
  BY <1>1
<1>4. \A i \in 1 .. n : i = 1 \/ (i - 1 \in 1 .. n - 1 /\ i - 1 + 1 = i)
  BY <1>1
<1>5. \A i, j \in 1 .. n : q[i] = q[j] => i = j
  BY DEF Enumerates, n
<1> HIDE DEF w
<1>6. \A i \in 1 .. n - 1 : w[i] \in S \ {q[1]}
  BY <1>1, <1>2, <1>3, <1>5
<1>7. w \in Seq(S \ {q[1]})
  <2>1. w \in [1 .. n - 1 -> S \ {q[1]}]
    BY <1>2, <1>6, LenProperties
  <2>2. n - 1 \in Nat
    BY <1>1
  <2> QED
    BY <2>1, <2>2, SeqDef
<1>8. \A i, j \in 1 .. n - 1 : w[i] = w[j] => i = j
  <2> TAKE i, j \in 1 .. n - 1
  <2> HAVE w[i] = w[j]
  <2>1. q[i + 1] = q[j + 1]
    BY <1>2
  <2>2. i + 1 = j + 1
    BY <1>3, <1>5, <2>1
  <2> QED
    BY <2>2
<1>9. \A v \in S \ {q[1]} : \E i \in 1 .. n - 1 : w[i] = v
  <2> TAKE v \in S \ {q[1]}
  <2>1. PICK i \in 1 .. n : q[i] = v
    BY DEF Enumerates, n
  <2>2. i - 1 \in 1 .. n - 1 /\ i - 1 + 1 = i
    BY <1>4, <2>1
  <2> QED
    BY <1>2, <2>1, <2>2
<1> QED
  BY <1>1, <1>2, <1>3, <1>7, <1>8, <1>9 DEF Enumerates, w

\* Two lists of sets that share no member list both, one after the other.
LEMMA EnumerateBoth ==
  ASSUME NEW S, NEW T, NEW q, NEW w, Enumerates(q, S), Enumerates(w, T), S \cap T = {}
  PROVE  Enumerates(q \o w, S \cup T)
<1> DEFINE m == Len(q)
           n == Len(w)
           c == q \o w
<1>1. q \in Seq(S) /\ w \in Seq(T) /\ m \in Nat /\ n \in Nat
  BY LenProperties DEF Enumerates
<1>2. q \in Seq(S \cup T) /\ w \in Seq(S \cup T)
  BY <1>1, SeqMonotonic
<1>3. /\ c \in Seq(S \cup T) /\ Len(c) = m + n
      /\ \A i \in 1 .. m + n : c[i] = IF i <= m THEN q[i] ELSE w[i - m]
  BY <1>2, ConcatProperties
<1>4. (\A i \in 1 .. m : q[i] \in S) /\ \A i \in 1 .. n : w[i] \in T
  BY <1>1, ElementOfSeq
<1>5. /\ \A i, j \in 1 .. m : q[i] = q[j] => i = j
      /\ \A i, j \in 1 .. n : w[i] = w[j] => i = j
      /\ \A v \in S : \E i \in 1 .. m : q[i] = v
      /\ \A v \in T : \E i \in 1 .. n : w[i] = v
  BY DEF Enumerates
<1> HIDE DEF m, n, c
<1>6. \A i \in 1 .. m + n : (i \in 1 .. m /\ i <= m) \/ (i - m \in 1 .. n /\ ~(i <= m))
  BY <1>1
<1>7. \A i, j \in 1 .. m + n : c[i] = c[j] => i = j
  <2> TAKE i, j \in 1 .. m + n
  <2> HAVE c[i] = c[j]
  <2>1. CASE i <= m /\ j <= m
    BY <1>3, <1>5, <1>6, <2>1
  <2>2. CASE i <= m /\ ~(j <= m)
    BY <1>3, <1>4, <1>6, <2>2
  <2>3. CASE ~(i <= m) /\ j <= m
    BY <1>3, <1>4, <1>6, <2>3
  <2>4. CASE ~(i <= m) /\ ~(j <= m)
    <3>1. w[i - m] = w[j - m] /\ i - m \in 1 .. n /\ j - m \in 1 .. n
      BY <1>3, <1>6, <2>4
    <3>2. i - m = j - m
      BY <1>5, <3>1
    <3> QED
      BY <1>1, <3>2
  <2> QED
    BY <2>1, <2>2, <2>3, <2>4
<1>8. \A v \in S : \E i \in 1 .. m + n : c[i] = v
  <2> TAKE v \in S
  <2>1. PICK i \in 1 .. m : q[i] = v
    BY <1>5
  <2>2. i \in 1 .. m + n /\ i <= m
    BY <1>1
  <2> QED
    BY <1>3, <2>1, <2>2
<1>9. \A v \in T : \E i \in 1 .. m + n : c[i] = v
  <2> TAKE v \in T
  <2>1. PICK i \in 1 .. n : w[i] = v
    BY <1>5
  <2>2. PICK x \in 1 .. m + n : ~(x <= m) /\ x - m = i
    <3>1. PICK x \in Int : x = m + i
      BY <1>1
    <3>2. x \in 1 .. m + n /\ ~(x <= m) /\ x - m = i
      BY <1>1, <3>1
    <3> QED
      BY <3>2
  <2>3. c[x] = v
    BY <1>3, <2>1, <2>2
  <2> QED
    BY <2>2, <2>3
<1> QED
  BY <1>3, <1>7, <1>8, <1>9 DEF Enumerates, c

-----------------------------------------------------------------------------
(* Sets in ascending order *)

Ascends(f, n) == \A i, j \in 1 .. n : i < j => f[i] < f[j]

\* A finite set of numbers can be listed in ascending order.
LEMMA SortedSet ==
  ASSUME NEW S \in SUBSET Nat, IsFiniteSet(S)
  PROVE  \E f \in [1 .. Cardinality(S) -> S] : Ascends(f, Cardinality(S))
<1> DEFINE n == Cardinality(S)
           K == {k \in 0 .. n : \A T \in SUBSET S :
                   Cardinality(T) = k => \E f \in [1 .. k -> T] : Ascends(f, k)}
<1>1. n \in Nat
  BY FS_CardinalityType
<1>2. \A T \in SUBSET S : IsFiniteSet(T)
  BY FS_Subset
<1>3. 0 \in K
  <2>1. \A T \in SUBSET S : Cardinality(T) = 0 => T = {}
    BY <1>2, FS_EmptySet
  <2>2. [i \in 1 .. 0 |-> 0] \in [1 .. 0 -> {}] /\ Ascends([i \in 1 .. 0 |-> 0], 0)
    BY DEF Ascends
  <2>3. ASSUME NEW T \in SUBSET S, Cardinality(T) = 0 PROVE \E f \in [1 .. 0 -> T] : Ascends(f, 0)
    <3>1. T = {}
      BY <2>1, <2>3
    <3> QED
      BY <2>2, <3>1
  <2>4. 0 \in 0 .. n
    BY <1>1
  <2> QED
    BY <2>3, <2>4
<1>4. ASSUME NEW k \in 1 .. n, k - 1 \in K PROVE k \in K
  <2>1. SUFFICES ASSUME NEW T \in SUBSET S, Cardinality(T) = k
                 PROVE  \E f \in [1 .. k -> T] : Ascends(f, k)
    BY <1>1
  <2>2. T # {} /\ T \in SUBSET Nat
    BY <1>2, <2>1, FS_EmptySet
  <2>3. PICK m \in T : \A x \in T : m <= x
    BY <2>2, LeastNatural
  <2>4. Cardinality(T \ {m}) = k - 1
    BY <1>1, <1>2, <2>1, <2>3, FS_RemoveElement
  <2>5. PICK g \in [1 .. k - 1 -> T \ {m}] : Ascends(g, k - 1)
    BY <1>4, <2>4
  <2> DEFINE f == [i \in 1 .. k |-> IF i = 1 THEN m ELSE g[i - 1]]
  <2>6. \A i \in 1 .. k : i = 1 \/ i - 1 \in 1 .. k - 1
    BY <1>1
  <2>7. f \in [1 .. k -> T]
    BY <2>5, <2>6
  <2>8. \A x \in T : x \in Nat /\ m <= x
    BY <2>2, <2>3
  <2>9. ASSUME NEW i \in 1 .. k, NEW j \in 1 .. k, i < j PROVE f[i] < f[j]
    <3>1. j # 1 /\ j - 1 \in 1 .. k - 1 /\ f[j] = g[j - 1] /\ f[j] \in T \ {m}
      BY <1>1, <2>5, <2>6, <2>9
    <3>2. CASE i = 1
      <4>1. f[i] = m
        BY <3>2
      <4> HIDE DEF f
      <4>2. f[j] \in Nat /\ m \in Nat /\ m <= f[j] /\ f[j] # m
        BY <2>8, <3>1
      <4> QED
        BY <4>1, <4>2
    <3>3. CASE i # 1
      <4>1. i - 1 \in 1 .. k - 1 /\ i - 1 < j - 1 /\ f[i] = g[i - 1]
        BY <1>1, <2>6, <2>9, <3>3
      <4> HIDE DEF f
      <4> QED
        BY <2>5, <3>1, <4>1 DEF Ascends
    <3> QED
      BY <3>2, <3>3
  <2> HIDE DEF f
  <2>10. Ascends(f, k)
    BY <2>9 DEF Ascends
  <2> QED
    BY <2>7, <2>10
<1> HIDE DEF K
<1>5. n \in 0 .. n
  BY <1>1
<1>6. n \in K
  <2> HIDE DEF n
  <2> QED
    BY <1>1, <1>3, <1>4, <1>5, UpTo
<1> QED
  BY <1>6 DEF K

\* Ascending lists its set.
LEMMA AscendingEnumerates ==
  ASSUME NEW S \in SUBSET Nat, IsFiniteSet(S)
  PROVE  Enumerates(Ascending(S), S)
<1> DEFINE n == Cardinality(S)
           f == Ascending(S)
<1>1. n \in Nat
  BY FS_CardinalityType
<1>2. PICK g \in [1 .. n -> S] : Ascends(g, n)
  BY SortedSet
<1>3. \A i, j \in DOMAIN g : i < j => g[i] < g[j]
  BY <1>2 DEF Ascends
<1>4. f \in [1 .. n -> S] /\ \A i, j \in DOMAIN f : i < j => f[i] < f[j]
  BY <1>2, <1>3 DEF Ascending
<1> HIDE DEF f, n
<1>5. f \in Seq(S) /\ Len(f) = n
  <2>1. f \in Seq(S)
    BY <1>1, <1>4, SeqDef
  <2>2. DOMAIN f = 1 .. n /\ DOMAIN f = 1 .. Len(f) /\ Len(f) \in Nat
    BY <1>4, <2>1, LenProperties
  <2> QED
    BY <1>1, <2>1, <2>2
<1>6. \A i, j \in 1 .. n : f[i] = f[j] => i = j
  <2> TAKE i, j \in 1 .. n
  <2> HAVE f[i] = f[j]
  <2>1. DOMAIN f = 1 .. n /\ f[i] \in Nat /\ f[j] \in Nat
    BY <1>4
  <2>2. ~(i < j) /\ ~(j < i)
    <3>1. i < j => f[i] < f[j]
      BY <1>4, <2>1
    <3>2. j < i => f[j] < f[i]
      BY <1>4, <2>1
    <3> QED
      BY <2>1, <3>1, <3>2
  <2> QED
    BY <2>2
<1>7. f \in Injection(1 .. n, S)
  BY <1>4, <1>6 DEF Injection, IsInjective
<1>8. IsFiniteSet(1 .. n) /\ Cardinality(1 .. n) = n
  <2>1. 1 \in Int /\ n \in Int
    BY <1>1
  <2>2. Cardinality(1 .. n) = IF 1 > n THEN 0 ELSE n - 1 + 1
    BY <2>1, FS_Interval
  <2>3. IsFiniteSet(1 .. n)
    BY <2>1, FS_Interval
  <2> QED
    BY <1>1, <2>2, <2>3
<1>9. f \in Surjection(1 .. n, S)
  BY <1>7, <1>8, FS_Injection DEF n
<1>10. \A v \in S : \E i \in 1 .. n : f[i] = v
  BY <1>9 DEF Surjection
<1> QED
  BY <1>5, <1>6, <1>10 DEF Enumerates, f

-----------------------------------------------------------------------------
(* Rings of indices *)

(***************************************************************************)
(* A ring of n slots holds the indices in S, each once, from its head on.  *)
(***************************************************************************)
RingOf(r, n, S) == \E q : RingHolds(r, n, 0 .. n - 1, q) /\ Enumerates(q, S)

\* An empty ring holds the empty set.
LEMMA EmptyIsRing ==
  ASSUME NEW n \in Nat \ {0}
  PROVE  RingOf(EmptyRing(n), n, {})
BY EmptyHoldsNothing, EnumerateEmpty DEF RingOf

\* The type of a ring of indices.
LEMMA RingIsRecord ==
  ASSUME NEW n, NEW S, NEW r, RingOf(r, n, S)
  PROVE  r \in [at : [0 .. n - 1 -> (0 .. n - 1) \cup {Nil}], head : 0 .. n - 1, tail : 0 .. n - 1]
BY DEF RingOf, RingHolds

\* What a ring of indices holds is a finite set of them.
LEMMA RingSet ==
  ASSUME NEW n \in Nat \ {0}, NEW S, NEW r, RingOf(r, n, S)
  PROVE  S \subseteq 0 .. n - 1 /\ IsFiniteSet(S)
<1>1. PICK q : RingHolds(r, n, 0 .. n - 1, q) /\ Enumerates(q, S)
  BY DEF RingOf
<1>2. q \in Seq(0 .. n - 1)
  BY <1>1 DEF RingHolds
<1>3. \A i \in 1 .. Len(q) : q[i] \in 0 .. n - 1
  BY <1>2, ElementOfSeq
<1> QED
  BY <1>1, <1>3, EnumerationCounts DEF Enumerates

\* The index at the head is one the ring holds, and there is none if it holds none.
LEMMA FirstIsInRing ==
  ASSUME NEW n \in Nat \ {0}, Nil \notin Int, NEW S, NEW r, RingOf(r, n, S)
  PROVE  /\ First(r) = Nil <=> S = {}
         /\ First(r) # Nil => First(r) \in S
<1>1. PICK q : RingHolds(r, n, 0 .. n - 1, q) /\ Enumerates(q, S)
  BY DEF RingOf
<1>2. Nil \notin 0 .. n - 1
  OBVIOUS
<1>3. (First(r) # Nil <=> q # << >>) /\ (q # << >> => First(r) = q[1] /\ Len(q) > 0)
  BY <1>1, <1>2, FirstOfRing
<1>4. Len(q) \in Nat /\ q \in Seq(S)
  BY <1>1, EnumerationCounts DEF Enumerates
<1>5. q # << >> => 1 \in 1 .. Len(q) /\ q[1] \in S
  BY <1>3, <1>4, ElementOfSeq
<1>6. q = << >> => S = {}
  BY <1>1, EmptySeq DEF Enumerates
<1> QED
  BY <1>3, <1>5, <1>6

\* A ring of indices has room for every index it does not hold.
LEMMA PushToRing ==
  ASSUME NEW n \in Nat \ {0}, NEW S, NEW r, RingOf(r, n, S), NEW v \in 0 .. n - 1, v \notin S
  PROVE  RingOf(Push(r, v), n, S \cup {v})
<1>1. PICK q : RingHolds(r, n, 0 .. n - 1, q) /\ Enumerates(q, S)
  BY DEF RingOf
<1>2. Enumerates(Append(q, v), S \cup {v})
  BY <1>1, EnumerateOne
<1>3. Cardinality(S) = Len(q) /\ Len(q) \in Nat /\ IsFiniteSet(S)
  BY <1>1, EnumerationCounts
<1>4. Cardinality(S \cup {v}) = Len(q) + 1
  BY <1>3, FS_AddElement
<1>5. S \cup {v} \in SUBSET (0 .. n - 1)
  BY RingSet
<1>6. Cardinality(S \cup {v}) <= Cardinality(0 .. n - 1)
  BY <1>5, IndexSet, FS_Subset
<1>7. Len(q) < n
  BY <1>3, <1>4, <1>6, IndexSet
<1>8. RingHolds(Push(r, v), n, 0 .. n - 1, Append(q, v))
  BY <1>1, <1>7, PushHolds
<1> QED
  BY <1>2, <1>8 DEF RingOf

\* A pop takes the index at the head and leaves the others.
LEMMA PopFromRing ==
  ASSUME NEW n \in Nat \ {0}, Nil \notin Int, NEW S, NEW r, RingOf(r, n, S), First(r) # Nil
  PROVE  First(r) \in S /\ RingOf(Pop(r), n, S \ {First(r)})
<1>1. PICK q : RingHolds(r, n, 0 .. n - 1, q) /\ Enumerates(q, S)
  BY DEF RingOf
<1>2. Nil \notin 0 .. n - 1
  OBVIOUS
<1>3. q # << >> /\ First(r) = q[1]
  BY <1>1, <1>2, FirstOfRing
<1>4. RingHolds(Pop(r), n, 0 .. n - 1, Tail(q))
  BY <1>1, <1>3, PopHolds
<1>5. q[1] \in S /\ Enumerates(Tail(q), S \ {q[1]})
  BY <1>1, <1>3, EnumerateRest
<1> QED
  BY <1>3, <1>4, <1>5 DEF RingOf

\* RTL0_head++, RTL0_tail++: no index is overwritten, and none is there twice.
LEMMA RingIsContiguous ==
  ASSUME NEW n \in Nat \ {0}, NEW V, Nil \notin V, NEW r, NEW q, RingHolds(r, n, V, q)
  PROVE  Contiguous(r) /\ IsFiniteSet(Taken(r)) /\ Cardinality(Taken(r)) = Len(q)
<1> DEFINE c == Len(q)
           P == [i \in 1 .. c |-> Wrap(n, r.head + (i - 1))]
<1>1. q \in Seq(V) /\ c \in 0 .. n /\ r.head \in 0 .. n - 1 /\ q \in [1 .. c -> V]
  BY LenProperties DEF RingHolds
<1>2. DOMAIN r.at = 0 .. n - 1
  BY DEF RingHolds
<1>3. \A i \in 0 .. n - 1 :
        r.at[i] = IF Dist(n, r.head, i) < c THEN q[Dist(n, r.head, i) + 1] ELSE Nil
  BY DEF RingHolds
<1> HIDE DEF c
<1>4. ASSUME NEW i \in 0 .. n - 1
      PROVE  /\ Dist(n, r.head, i) \in 0 .. n - 1 /\ Wrap(n, r.head + Dist(n, r.head, i)) = i
             /\ r.at[i] # Nil <=> Dist(n, r.head, i) < c
  <2>1. Dist(n, r.head, i) \in 0 .. n - 1 /\ Wrap(n, r.head + Dist(n, r.head, i)) = i
    BY <1>1, DistIsPlace
  <2>2. Dist(n, r.head, i) < c => Dist(n, r.head, i) + 1 \in 1 .. c
    BY <1>1, <2>1
  <2>3. Dist(n, r.head, i) < c => q[Dist(n, r.head, i) + 1] \in V
    BY <1>1, <2>2
  <2> QED
    BY <1>3, <2>1, <2>3
<1>5. ASSUME NEW d \in 0 .. n - 1
      PROVE  /\ Wrap(n, r.head + d) \in 0 .. n - 1 /\ Dist(n, r.head, Wrap(n, r.head + d)) = d
             /\ (r.head + d) % n = Wrap(n, r.head + d)
             /\ r.at[Wrap(n, r.head + d)] # Nil <=> d < c
  <2>1. /\ Wrap(n, r.head + d) \in 0 .. n - 1 /\ Dist(n, r.head, Wrap(n, r.head + d)) = d
        /\ (r.head + d) % n = Wrap(n, r.head + d)
    BY <1>1, PlaceIsDist
  <2> QED
    BY <1>4, <2>1
<1>6. Enumerates(P, Taken(r))
  <2>1. \A i \in 1 .. c : i - 1 \in 0 .. n - 1 /\ i - 1 < c
    BY <1>1
  <2>2. \A i \in 1 .. c : P[i] \in Taken(r) /\ Dist(n, r.head, P[i]) = i - 1
    BY <1>2, <1>5, <2>1 DEF Taken
  <2>3. P \in [1 .. c -> Taken(r)]
    BY <2>2
  <2>4. DOMAIN P = 1 .. c
    OBVIOUS
  <2>5. \A i \in 0 .. n - 1 : Dist(n, r.head, i) < c => P[Dist(n, r.head, i) + 1] = i
    <3> TAKE i \in 0 .. n - 1
    <3> HAVE Dist(n, r.head, i) < c
    <3>0. PICK d \in 0 .. n - 1 : d = Dist(n, r.head, i)
      BY <1>4
    <3>1. d + 1 \in 1 .. c /\ d + 1 - 1 = d
      BY <1>1, <3>0
    <3> QED
      BY <1>4, <3>0, <3>1
  <2> HIDE DEF P
  <2>6. P \in Seq(Taken(r)) /\ Len(P) = c
    <3>1. P \in Seq(Taken(r))
      BY <1>1, <2>3, SeqDef
    <3>2. 1 .. Len(P) = 1 .. c /\ Len(P) \in Nat
      BY <2>4, <3>1, LenProperties
    <3> QED
      BY <1>1, <3>1, <3>2
  <2>7. \A i, j \in 1 .. c : P[i] = P[j] => i = j
    <3> TAKE i, j \in 1 .. c
    <3> HAVE P[i] = P[j]
    <3>1. i - 1 = j - 1
      BY <2>2
    <3> QED
      BY <3>1
  <2>8. \A v \in Taken(r) : \E i \in 1 .. c : P[i] = v
    <3> TAKE v \in Taken(r)
    <3>1. v \in 0 .. n - 1 /\ Dist(n, r.head, v) < c /\ Dist(n, r.head, v) \in 0 .. n - 1
      BY <1>2, <1>4 DEF Taken
    <3>2. Dist(n, r.head, v) + 1 \in 1 .. c
      BY <1>1, <3>1
    <3> QED
      BY <2>5, <3>1, <3>2
  <2> QED
    BY <2>6, <2>7, <2>8 DEF Enumerates
<1>7. DOMAIN P = 1 .. c /\ IsFiniteSet(Taken(r)) /\ Cardinality(Taken(r)) = Len(P) /\ Len(P) \in Nat
  <2>1. DOMAIN P = 1 .. c
    OBVIOUS
  <2> HIDE DEF P
  <2> QED
    BY <1>6, <2>1, EnumerationCounts
<1>8. Cardinality(Taken(r)) = c
  <2> HIDE DEF P
  <2>1. 1 .. c = 1 .. Len(P)
    BY <1>6, <1>7, LenProperties DEF Enumerates
  <2> QED
    BY <1>1, <1>7, <2>1
<1>9. Contiguous(r)
  <2>1. RingSize(r) = n
    BY SizeOfRing
  <2> QED
    BY <1>5, <1>8, <2>1 DEF Contiguous
<1> QED
  BY <1>7, <1>8, <1>9 DEF c

\* An index a ring holds is in exactly one of its slots.
LEMMA InRingOnce ==
  ASSUME NEW n \in Nat \ {0}, Nil \notin Int, NEW S, NEW r, RingOf(r, n, S), NEW v \in 0 .. n - 1
  PROVE  /\ v \in S => \E i \in 0 .. n - 1 : {j \in 0 .. n - 1 : r.at[j] = v} = {i}
         /\ v \notin S => {j \in 0 .. n - 1 : r.at[j] = v} = {}
<1>1. PICK q : RingHolds(r, n, 0 .. n - 1, q) /\ Enumerates(q, S)
  BY DEF RingOf
<1> DEFINE c == Len(q)
           h == r.head
<1>2. q \in Seq(S) /\ c \in 0 .. n /\ h \in 0 .. n - 1 /\ q \in [1 .. c -> S]
  BY <1>1, LenProperties DEF RingHolds, Enumerates
<1>3. /\ \A i \in 0 .. n - 1 : r.at[i] = IF Dist(n, h, i) < c THEN q[Dist(n, h, i) + 1] ELSE Nil
      /\ \A i, j \in 1 .. c : q[i] = q[j] => i = j
      /\ \A x \in S : \E i \in 1 .. c : q[i] = x
  BY <1>1 DEF RingHolds, Enumerates
<1> HIDE DEF c, h
<1>4. \A i \in 0 .. n - 1 : Dist(n, h, i) \in 0 .. n - 1 /\ Wrap(n, h + Dist(n, h, i)) = i
  BY <1>2, DistIsPlace
<1>5. ASSUME NEW j \in 0 .. n - 1, r.at[j] = v
      PROVE  Dist(n, h, j) < c /\ Dist(n, h, j) + 1 \in 1 .. c /\ q[Dist(n, h, j) + 1] = v /\ v \in S
  <2>1. Dist(n, h, j) < c
    BY <1>3, <1>5
  <2>2. Dist(n, h, j) + 1 \in 1 .. c
    <3>1. PICK d \in 0 .. n - 1 : d = Dist(n, h, j)
      BY <1>4
    <3> QED
      BY <1>2, <2>1, <3>1
  <2> QED
    BY <1>2, <1>3, <1>5, <2>1, <2>2
<1>6. ASSUME v \in S PROVE \E i \in 0 .. n - 1 : {j \in 0 .. n - 1 : r.at[j] = v} = {i}
  <2>1. PICK k \in 1 .. c : q[k] = v
    BY <1>3, <1>6
  <2>2. k - 1 \in 0 .. n - 1 /\ k - 1 < c
    BY <1>2
  <2>3. PICK d \in 0 .. n - 1 : d = k - 1 /\ d + 1 = k
    BY <2>2
  <2> DEFINE i == Wrap(n, h + d)
  <2>4. i \in 0 .. n - 1 /\ Dist(n, h, i) = d
    BY <1>2, PlaceIsDist
  <2>5. r.at[i] = v
    BY <1>3, <2>1, <2>2, <2>3, <2>4
  <2>6. ASSUME NEW j \in 0 .. n - 1, r.at[j] = v PROVE j = i
    <3>1. Dist(n, h, j) + 1 = k /\ Dist(n, h, j) \in 0 .. n - 1
      BY <1>3, <1>4, <1>5, <2>1, <2>6
    <3>2. Dist(n, h, j) = d
      BY <2>3, <3>1
    <3> QED
      BY <1>4, <3>2
  <2> QED
    BY <2>4, <2>5, <2>6
<1> QED
  BY <1>5, <1>6

-----------------------------------------------------------------------------
(* PushAll *)

\* A push keeps the type of a ring, full or not.
LEMMA PushIsRecord ==
  ASSUME NEW n \in Nat \ {0}, NEW V, NEW v \in V,
         NEW r \in [at : [0 .. n - 1 -> V \cup {Nil}], head : 0 .. n - 1, tail : 0 .. n - 1]
  PROVE  Push(r, v) \in [at : [0 .. n - 1 -> V \cup {Nil}], head : 0 .. n - 1, tail : 0 .. n - 1]
<1>1. RingSize(r) = n
  BY IndexSet DEF RingSize
<1>2. After(r, r.tail) \in 0 .. n - 1
  BY <1>1 DEF After
<1> QED
  BY <1>2 DEF Push

\* The states of the ring during the pushes.
LEMMA PushedByTurns ==
  ASSUME NEW n \in Nat \ {0}, NEW V, NEW w \in Seq(V),
         NEW r \in [at : [0 .. n - 1 -> V \cup {Nil}], head : 0 .. n - 1, tail : 0 .. n - 1]
  PROVE  \E push : /\ PushAll(r, w) = push[Len(w)]
                   /\ push[0] = r
                   /\ \A i \in 1 .. Len(w) : push[i] = Push(push[i - 1], w[i])
<1> DEFINE k == Len(w)
           RT == [at : [0 .. n - 1 -> V \cup {Nil}], head : 0 .. n - 1, tail : 0 .. n - 1]
           step == [x \in (1 .. k) \X RT |-> Push(x[2], w[x[1]])]
           Loop(g) == [i \in 0 .. k |-> IF i = 0 THEN r ELSE Push(g[i - 1], w[i])]
           push == CHOOSE g : g = Loop(g)
<1>1. k \in Nat /\ \A i \in 1 .. k : w[i] \in V
  BY LenProperties, ElementOfSeq
<1>2. r \in RT
  OBVIOUS
<1>3. ASSUME NEW x \in RT, NEW i \in 1 .. k PROVE Push(x, w[i]) \in RT
  BY <1>1, PushIsRecord
<1> HIDE DEF k, RT
<1>4. step \in [(1 .. k) \X RT -> RT]
  BY <1>3
<1>5. \A i \in 1 .. k : \A x \in RT : step[<<i, x>>] = Push(x, w[i])
  OBVIOUS
<1> HIDE DEF step, Loop, push
<1>6. PICK f \in [0 .. k -> RT] : Results(f, k, r, step)
  BY <1>1, <1>2, <1>4, LoopResults
<1>7. \A i \in 1 .. k : f[i] = Push(f[i - 1], w[i])
  <2>1. \A i \in 1 .. k : i - 1 \in 0 .. k
    BY <1>1
  <2> QED
    BY <1>5, <1>6, <2>1 DEF Results
<1> USE DEF Loop, push
<1>8. f = Loop(f)
  <2>1. \A i \in 0 .. k : i = 0 \/ i \in 1 .. k
    BY <1>1
  <2> QED
    BY <1>6, <1>7, <2>1 DEF Results
<1>9. push = Loop(push)
  <2> HIDE DEF Loop
  <2> QED
    BY <1>8
<1>10. PushAll(r, w) = push[k]
  BY DEF PushAll, k
<1> HIDE DEF push
<1>11. push[0] = r /\ \A i \in 1 .. k : push[i] = Push(push[i - 1], w[i])
  <2>1. 0 \in 0 .. k /\ \A i \in 1 .. k : i \in 0 .. k /\ i # 0
    BY <1>1
  <2> QED
    BY <1>9, <2>1
<1> QED
  BY <1>10, <1>11 DEF k

\* The pushes of a list append it to the queue if there is room.
LEMMA PushAllHolds ==
  ASSUME NEW n \in Nat \ {0}, NEW V, NEW q, NEW r, RingHolds(r, n, V, q),
         NEW w \in Seq(V), Len(q) + Len(w) <= n
  PROVE  RingHolds(PushAll(r, w), n, V, q \o w)
<1> DEFINE k == Len(w)
           m == Len(q)
           c == q \o w
<1>1. k \in Nat /\ m \in Nat /\ q \in Seq(V) /\ \A i \in 1 .. k : w[i] \in V
  BY LenProperties, ElementOfSeq DEF RingHolds
<1>2. /\ c \in Seq(V) /\ Len(c) = m + k
      /\ \A i \in 1 .. m + k : c[i] = IF i <= m THEN q[i] ELSE w[i - m]
  BY <1>1, ConcatProperties
<1>3. m + k <= n
  OBVIOUS
<1>4. r \in [at : [0 .. n - 1 -> V \cup {Nil}], head : 0 .. n - 1, tail : 0 .. n - 1]
  BY DEF RingHolds
<1>5. PICK push : /\ PushAll(r, w) = push[k]
                  /\ push[0] = r
                  /\ \A i \in 1 .. k : push[i] = Push(push[i - 1], w[i])
  BY <1>4, PushedByTurns
<1> DEFINE S == {i \in 0 .. k : RingHolds(push[i], n, V, SubSeq(c, 1, m + i))}
<1> HIDE DEF c, k, m
<1>6. \A i \in 0 .. m + k : /\ SubSeq(c, 1, i) \in Seq(V) /\ Len(SubSeq(c, 1, i)) = i
                            /\ \A j \in 1 .. i : SubSeq(c, 1, i)[j] = c[j]
  <2> TAKE i \in 0 .. m + k
  <2>1. \A j \in 1 .. i : c[j] \in V
    <3>1. \A j \in 1 .. i : j \in 1 .. Len(c)
      BY <1>1, <1>2
    <3> QED
      BY <1>2, <3>1, ElementOfSeq
  <2>2. 1 \in Int /\ i \in Int
    OBVIOUS
  <2> DEFINE s == SubSeq(c, 1, i)
  <2>3. /\ s \in Seq(V) /\ Len(s) = (IF 1 <= i THEN i - 1 + 1 ELSE 0)
        /\ \A j \in 1 .. i - 1 + 1 : s[j] = c[1 + j - 1]
    BY <2>1, <2>2, SubSeqProperties
  <2> HIDE DEF s
  <2>4. Len(s) = i /\ \A j \in 1 .. i : s[j] = c[j]
    <3>1. i - 1 + 1 = i /\ \A j \in 1 .. i : 1 + j - 1 = j
      OBVIOUS
    <3> QED
      BY <2>3, <3>1
  <2> QED
    BY <2>3, <2>4 DEF s
<1>7. 0 \in S
  <2> DEFINE s == SubSeq(c, 1, m)
  <2>1. m \in 0 .. m + k /\ m + 0 = m /\ \A j \in 1 .. m : j \in 1 .. m + k /\ j <= m
    BY <1>1
  <2>2. s \in Seq(V) /\ Len(s) = m /\ \A j \in 1 .. m : s[j] = c[j]
    BY <1>6, <2>1
  <2> HIDE DEF s
  <2>3. \A j \in 1 .. m : s[j] = q[j]
    BY <1>2, <2>1, <2>2
  <2>4. Len(q) = m
    BY DEF m
  <2>5. s = q
    BY <1>1, <2>2, <2>3, <2>4, SeqEqual
  <2>6. RingHolds(push[0], n, V, SubSeq(c, 1, m + 0))
    BY <1>5, <2>1, <2>5 DEF s
  <2> QED
    BY <1>1, <2>6
<1>8. ASSUME NEW i \in 1 .. k, i - 1 \in S PROVE i \in S
  <2> DEFINE s == SubSeq(c, 1, m + (i - 1))
             t == SubSeq(c, 1, m + i)
  <2>1. m + (i - 1) \in 0 .. m + k /\ m + i \in 0 .. m + k /\ m + i \in 1 .. m + k
    BY <1>1
  <2>2. /\ s \in Seq(V) /\ Len(s) = m + (i - 1) /\ \A j \in 1 .. m + (i - 1) : s[j] = c[j]
        /\ t \in Seq(V) /\ Len(t) = m + i /\ \A j \in 1 .. m + i : t[j] = c[j]
    BY <1>6, <2>1
  <2>3. RingHolds(push[i - 1], n, V, s)
    BY <1>8
  <2> HIDE DEF s, t
  <2>4. Len(s) < n
    BY <1>1, <1>3, <2>2
  <2>5. RingHolds(push[i], n, V, Append(s, w[i]))
    BY <1>1, <1>5, <2>3, <2>4, PushHolds
  <2>6. Append(s, w[i]) = t
    <3> DEFINE a == Append(s, w[i])
    <3>1. /\ a \in Seq(V) /\ Len(a) = Len(s) + 1 /\ a[Len(s) + 1] = w[i]
          /\ \A j \in 1 .. Len(s) : a[j] = s[j]
      BY <1>1, <2>2, AppendProperties
    <3> HIDE DEF a
    <3>2. PICK x \in 1 .. m + k : x = m + i /\ x - m = i /\ ~(x <= m)
      <4>1. PICK x \in Int : x = m + i
        BY <1>1
      <4>2. x \in 1 .. m + k /\ x - m = i /\ ~(x <= m)
        BY <1>1, <4>1
      <4> QED
        BY <4>1, <4>2
    <3>3. Len(s) + 1 = x /\ Len(a) = x /\ Len(t) = x
      BY <1>1, <2>2, <3>1, <3>2
    <3>4. c[x] = w[i]
      BY <1>2, <3>2
    <3>5. \A j \in 1 .. x : j = x \/ j \in 1 .. Len(s)
      BY <1>1, <2>2, <3>2
    <3>6. \A j \in 1 .. x : a[j] = t[j]
      BY <2>2, <3>1, <3>2, <3>3, <3>4, <3>5
    <3>7. a = t
      BY <2>2, <3>1, <3>3, <3>6, SeqEqual
    <3> QED
      BY <3>7 DEF a
  <2>7. RingHolds(push[i], n, V, t)
    BY <2>5, <2>6
  <2>8. i \in 0 .. k
    BY <1>1
  <2> QED
    BY <2>7, <2>8 DEF t
<1> HIDE DEF S
<1>9. k \in 0 .. k
  BY <1>1
<1>10. k \in S
  BY <1>1, <1>7, <1>8, <1>9, UpTo
<1>11. SubSeq(c, 1, m + k) = c
  BY <1>2, SubSeqFull
<1> QED
  BY <1>5, <1>10, <1>11 DEF S, c

\* The indices of a set the ring does not meet fit into it, in any order.
LEMMA PushSetToRing ==
  ASSUME NEW n \in Nat \ {0}, NEW S, NEW r, RingOf(r, n, S),
         NEW w, NEW T \in SUBSET (0 .. n - 1), Enumerates(w, T), S \cap T = {}
  PROVE  RingOf(PushAll(r, w), n, S \cup T)
<1>1. PICK q : RingHolds(r, n, 0 .. n - 1, q) /\ Enumerates(q, S)
  BY DEF RingOf
<1>2. Enumerates(q \o w, S \cup T)
  BY <1>1, EnumerateBoth
<1>3. S \cup T \in SUBSET (0 .. n - 1)
  BY RingSet
<1>4. Cardinality(S \cup T) <= n
  BY <1>3, IndexSet, FS_Subset
<1>5. /\ Cardinality(S \cup T) = Len(q \o w) /\ q \in Seq(S) /\ w \in Seq(T)
  BY <1>1, <1>2, EnumerationCounts DEF Enumerates
<1>6. q \in Seq(0 .. n - 1) /\ w \in Seq(0 .. n - 1)
  BY <1>3, <1>5, SeqMonotonic
<1>7. Len(q) + Len(w) <= n
  BY <1>4, <1>5, <1>6, ConcatProperties
<1>8. RingHolds(PushAll(r, w), n, 0 .. n - 1, q \o w)
  BY <1>1, <1>6, <1>7, PushAllHolds
<1> QED
  BY <1>2, <1>8 DEF RingOf

\* The records of a ring of n slots over V.
RingRec(n, V) == [at : [0 .. n - 1 -> V \cup {Nil}], head : 0 .. n - 1, tail : 0 .. n - 1]

\* The type of an empty ring.
LEMMA EmptyIsRec ==
  ASSUME NEW n \in Nat \ {0}, NEW V
  PROVE  EmptyRing(n) \in RingRec(n, V)
BY DEF EmptyRing, RingRec

\* A push keeps it,
LEMMA PushIsRec ==
  ASSUME NEW n \in Nat \ {0}, NEW V, NEW v \in V, NEW r \in RingRec(n, V)
  PROVE  Push(r, v) \in RingRec(n, V)
BY PushIsRecord DEF RingRec

\* so does a pop,
LEMMA PopIsRec ==
  ASSUME NEW n \in Nat \ {0}, NEW V, NEW r \in RingRec(n, V)
  PROVE  Pop(r) \in RingRec(n, V)
<1>1. RingSize(r) = n
  BY IndexSet DEF RingSize, RingRec
<1>2. After(r, r.head) \in 0 .. n - 1
  BY <1>1 DEF After, RingRec
<1> QED
  BY <1>2 DEF Pop, RingRec

\* and so do the pushes of a list.
LEMMA PushAllIsRec ==
  ASSUME NEW n \in Nat \ {0}, NEW V, NEW w \in Seq(V), NEW r \in RingRec(n, V)
  PROVE  PushAll(r, w) \in RingRec(n, V)
<1> DEFINE k == Len(w)
<1>1. k \in Nat /\ \A i \in 1 .. k : w[i] \in V
  BY LenProperties, ElementOfSeq
<1>2. PICK push : /\ PushAll(r, w) = push[k]
                  /\ push[0] = r
                  /\ \A i \in 1 .. k : push[i] = Push(push[i - 1], w[i])
  BY PushedByTurns DEF RingRec
<1> DEFINE S == {i \in 0 .. k : push[i] \in RingRec(n, V)}
<1> HIDE DEF k
<1>3. 0 \in S
  BY <1>1, <1>2
<1>4. ASSUME NEW i \in 1 .. k, i - 1 \in S PROVE i \in S
  BY <1>1, <1>2, <1>4, PushIsRec
<1>5. \A i \in 0 .. k : i \in S
  <2> HIDE DEF S
  <2> QED
    BY <1>1, <1>3, <1>4, UpTo
<1> QED
  BY <1>1, <1>2, <1>5 DEF k

=============================================================================
