---------------------------- MODULE CacheProofs -----------------------------
(***************************************************************************)
(* What holds of the caches and TLBs for any wiring and any number of      *)
(* blocks.  The queues and MSHRs never overflow; a cache the core reads    *)
(* never holds a block twice, nor one that it waits for; what is dirty     *)
(* stays dirty until memory has it; each miss is answered once, and each   *)
(* request of the core is in one place until it is; memory is not asked    *)
(* again for what it is about to send.                                     *)
(***************************************************************************)
EXTENDS CacheHierarchy, NatFacts, SequenceTheorems

Place == Cache \cup {Memory}
LineType == [addr : Block \cup {0}, valid : BOOLEAN, dirty : BOOLEAN]

Bounded(q, size) ==
  /\ q \in [Place -> Seq(PacketType)]
  /\ \A c \in Place : Len(q[c]) <= size[c]

\* A TLB is never asked to prefetch; of the caches the core reads only the L1D is asked
\* to write.
Quiet(w, p) ==
  /\ \A c \in Cache \cap TLB : p[c] = << >>
  /\ \A c \in CoreCache \ {"L1D"} : w[c] = << >>

QueuesFit(r, w, p) == Bounded(r, RQ_SIZE) /\ Bounded(w, WQ_SIZE) /\ Bounded(p, PQ_SIZE) /\ Quiet(w, p)

\* The MSHRs of a cache suffice, and each is of a block of its own.
MissesFit(m) ==
  /\ m \in [Cache -> SUBSET PacketType]
  /\ \A c \in Cache : IsFiniteSet(m[c]) /\ Cardinality(m[c]) <= MSHR_SIZE[c]
  /\ \A c \in Cache : \A e, f \in m[c] : e.addr = f.addr => e = f

\* A dirty way holds a block, or has held it until a swap.
LinesFit(l) ==
  /\ DOMAIN l = Cache
  /\ \A c \in Cache : l[c] \in [1..NUM_WAY[c] -> LineType]
  /\ \A c \in Cache : \A w \in 1..NUM_WAY[c] : l[c][w].dirty => l[c][w].addr \in Block

CoreFits(done, failed, wait, m) ==
  /\ done \in [CoreCache -> Seq(PacketType)]
  /\ failed \in BOOLEAN
  /\ wait \in [Request -> [cache : CoreCache, addr : Block] \cup {Idle}]
  /\ m \subseteq Block

\* The blocks cache c waits for, those it holds, and OneCopyPerBlock in their terms.
Waiting(m, c) == {e.addr : e \in m[c]}
Has(l, c, a) == \E w \in 1..NUM_WAY[c] : l[c][w].valid /\ l[c][w].addr = a
Once(l, m, c) ==
  /\ \A v, w \in 1..NUM_WAY[c] :
       l[c][v].valid /\ l[c][w].valid /\ l[c][v].addr = l[c][w].addr => v = w
  /\ \A a \in Waiting(m, c) : ~Has(l, c, a)
OnceEach(l, m) == \A c \in CoreCache : Once(l, m, c)

\* With MSHRs n instead of m only cache c waits for more, for block a.
AlsoWaits(n, m, c, a) ==
  \A d \in Cache : Waiting(n, d) = IF d = c THEN Waiting(m, c) \cup {a} ELSE Waiting(m, d)

CacheInv ==
  /\ QueuesFit(rq, wq, pq) /\ MissesFit(mshr) /\ LinesFit(line)
  /\ CoreFits(processed, asserted, pending, modified) /\ OnceEach(line, mshr)

LEMMA NextInv ==
  ASSUME QueuesFit(rq', wq', pq'), MissesFit(mshr'), LinesFit(line'),
         CoreFits(processed', asserted', pending', modified'), OnceEach(line', mshr')
  PROVE  CacheInv'
BY DEF CacheInv, QueuesFit, Bounded, Quiet, MissesFit, LinesFit, CoreFits, OnceEach, Once,
       Waiting, Has

-----------------------------------------------------------------------------
(* The wiring and the packets *)

LEMMA Wiring ==
  /\ \A c \in Cache : c # "STLB" => Below[c] \in Place /\ Below[c] # c
  /\ \A c \in Cache : c # "STLB" => Below[c] \notin CoreCache
  /\ \A c \in Cache \ TLB : Below[c] \notin TLB
  /\ \A c \in Cache : Level(c) \in {1, 2, 4}
  /\ CoreCache \subseteq Cache /\ Cache \subseteq Place /\ Memory \in Place /\ Memory \notin Cache
  /\ "L1D" \in Cache => "L1D" \in CoreCache /\ "L2C" \in Cache
BY CacheAssumption DEF Below, Place, Memory, TLB, CoreCache, InstrCache, DataCache, Level

LEMMA Sizes ==
  /\ \A c \in Place : RQ_SIZE[c] \in Nat /\ WQ_SIZE[c] \in Nat /\ PQ_SIZE[c] \in Nat
  /\ \A c \in Cache : MSHR_SIZE[c] \in Nat \ {0} /\ NUM_WAY[c] \in Nat \ {0}
BY SizesAssumption DEF Place

\* The packets that the core and the prefetchers make, those sent down, and those returned.
LEMMA PacketMade ==
  ASSUME NEW c, NEW a \in Block, NEW w \in Word, NEW l \in {1, 2, 4, 8},
         NEW t \in {"LOAD", "RFO", "PREFETCH", "WRITEBACK"}, NEW R \in SUBSET Request
  PROVE  Packet(c, a, w, t, l, R) \in PacketType /\ Packet(c, a, w, t, l, R).addr = a
<1>1. (c \in InstrCache) \in BOOLEAN /\ (c \in DataCache) \in BOOLEAN
  BY DEF InstrCache, DataCache
<1> QED
  BY <1>1 DEF Packet, PacketType

LEMMA PacketSent ==
  ASSUME NEW p \in PacketType
  PROVE  Sent(p) \in PacketType
BY CacheAssumption DEF PacketType, Sent

LEMMA PacketReturned ==
  ASSUME NEW p \in PacketType, NEW b \in BOOLEAN
  PROVE  [p EXCEPT !.returned = b] \in PacketType /\ [p EXCEPT !.returned = b].addr = p.addr
BY DEF PacketType

LEMMA Merging ==
  ASSUME NEW e \in PacketType, NEW p \in PacketType
  PROVE  /\ Joined(e, p) \in PacketType /\ MergedPrefetch(e, p) \in PacketType
         /\ MergedPrefetch(e, p).addr = e.addr
         /\ e.addr = p.addr => Merged(e, p) \in PacketType /\ Merged(e, p).addr = e.addr
<1>1. Least(e.level, p.level) \in {1, 2, 4, 8}
  BY DEF PacketType, Least
<1>2. Joined(e, p) \in PacketType
  BY DEF PacketType, Joined
<1>3. MergedPrefetch(e, p) \in PacketType /\ MergedPrefetch(e, p).addr = e.addr
  BY <1>1 DEF PacketType, MergedPrefetch
<1>4. ASSUME e.addr = p.addr PROVE Merged(e, p) \in PacketType /\ Merged(e, p).addr = e.addr
  <2>1. CASE e.type = "PREFETCH"
    BY <1>4, <2>1 DEF PacketType, Merged
  <2>2. CASE e.type # "PREFETCH"
    BY <1>1, <2>2 DEF PacketType, Merged
  <2> QED
    BY <2>1, <2>2
<1> QED
  BY <1>2, <1>3, <1>4

-----------------------------------------------------------------------------
(* The queues *)

\* Where a queue holds a block.
LEMMA Found ==
  ASSUME NEW q \in Seq(PacketType), NEW a, Holds(q, a)
  PROVE  Find(q, a) \in 1 .. Len(q) /\ q[Find(q, a)] \in PacketType
<1>1. Find(q, a) \in 1 .. Len(q)
  BY DEF Holds, Find, Ends
<1> QED
  BY <1>1, ElementOfSeq

LEMMA Appended ==
  ASSUME NEW q \in Seq(PacketType), NEW p \in PacketType
  PROVE  Append(q, p) \in Seq(PacketType) /\ Len(Append(q, p)) = Len(q) + 1
OBVIOUS

\* add_rq
LEMMA RqAfterFits ==
  ASSUME NEW d, NEW q \in Seq(PacketType), NEW p \in PacketType,
         RQ_SIZE[d] \in Nat, Len(q) <= RQ_SIZE[d]
  PROVE  RqAfter(d, q, p) \in Seq(PacketType) /\ Len(RqAfter(d, q, p)) <= RQ_SIZE[d]
<1>1. CASE Forwards(d, p)
  BY <1>1 DEF RqAfter
<1>2. CASE ~Forwards(d, p) /\ Holds(q, p.addr)
  <2> DEFINE i == Find(q, p.addr)
  <2>1. i \in 1 .. Len(q) /\ Joined(q[i], p) \in PacketType
    BY <1>2, Found, Merging
  <2>2. RqAfter(d, q, p) = [q EXCEPT ![i] = Joined(q[i], p)]
    BY <1>2 DEF RqAfter
  <2> HIDE DEF i
  <2> QED
    BY <2>1, <2>2, ExceptSeq
<1>3. CASE ~Forwards(d, p) /\ ~Holds(q, p.addr) /\ Len(q) >= RQ_SIZE[d]
  BY <1>3 DEF RqAfter
<1>4. CASE ~Forwards(d, p) /\ ~Holds(q, p.addr) /\ ~(Len(q) >= RQ_SIZE[d])
  <2>1. RqAfter(d, q, p) = Append(q, p)
    BY <1>4 DEF RqAfter
  <2>2. Len(q) \in Nat
    BY LenProperties
  <2> QED
    BY <1>4, <2>1, <2>2, Appended
<1> QED
  BY <1>1, <1>2, <1>3, <1>4

\* add_pq
LEMMA PqAfterFits ==
  ASSUME NEW d, NEW q \in Seq(PacketType), NEW p \in PacketType,
         PQ_SIZE[d] \in Nat, Len(q) <= PQ_SIZE[d]
  PROVE  PqAfter(d, q, p) \in Seq(PacketType) /\ Len(PqAfter(d, q, p)) <= PQ_SIZE[d]
<1>1. CASE Forwards(d, p)
  BY <1>1 DEF PqAfter
<1>2. CASE ~Forwards(d, p) /\ Holds(q, p.addr)
  <2> DEFINE i == Find(q, p.addr)
  <2>1. i \in 1 .. Len(q) /\ MergedPrefetch(q[i], p) \in PacketType
    BY <1>2, Found, Merging
  <2>2. PqAfter(d, q, p) = [q EXCEPT ![i] = MergedPrefetch(q[i], p)]
    BY <1>2 DEF PqAfter
  <2> HIDE DEF i
  <2> QED
    BY <2>1, <2>2, ExceptSeq
<1>3. CASE ~Forwards(d, p) /\ ~Holds(q, p.addr) /\ Len(q) >= PQ_SIZE[d]
  BY <1>3 DEF PqAfter
<1>4. CASE ~Forwards(d, p) /\ ~Holds(q, p.addr) /\ ~(Len(q) >= PQ_SIZE[d])
  <2>1. PqAfter(d, q, p) = Append(q, p)
    BY <1>4 DEF PqAfter
  <2>2. Len(q) \in Nat
    BY LenProperties
  <2> QED
    BY <1>4, <2>1, <2>2, Appended
<1> QED
  BY <1>1, <1>2, <1>3, <1>4

\* A queue of a bounded family is replaced, or loses an entry.
LEMMA Reassigned ==
  ASSUME NEW q, NEW size, Bounded(q, size), NEW d \in Place,
         NEW s \in Seq(PacketType), Len(s) <= size[d]
  PROVE  Bounded([q EXCEPT ![d] = s], size)
BY DEF Bounded

LEMMA HeadAndTail ==
  ASSUME NEW q, NEW size, Bounded(q, size), NEW d \in Place, size[d] \in Nat, q[d] # << >>
  PROVE  /\ Head(q[d]) \in PacketType /\ Tail(q[d]) \in Seq(PacketType)
         /\ Len(Tail(q[d])) <= size[d]
<1>1. q[d] \in Seq(PacketType) /\ Len(q[d]) <= size[d]
  BY DEF Bounded
<1>2. Head(q[d]) \in PacketType /\ Tail(q[d]) \in Seq(PacketType) /\ Len(Tail(q[d])) = Len(q[d]) - 1
  BY <1>1, HeadTailProperties
<1>3. Len(q[d]) \in Nat
  BY <1>1, LenProperties
<1> QED
  BY <1>1, <1>2, <1>3

LEMMA Popped ==
  ASSUME NEW q, NEW size, Bounded(q, size), NEW d \in Place, size[d] \in Nat, q[d] # << >>
  PROVE  Bounded([q EXCEPT ![d] = Tail(@)], size)
<1>1. Tail(q[d]) \in Seq(PacketType) /\ Len(Tail(q[d])) <= size[d]
  BY HeadAndTail
<1> QED
  BY <1>1, Reassigned

LEMMA WithoutOne ==
  ASSUME NEW q, NEW size, Bounded(q, size), NEW d \in Place, size[d] \in Nat,
         NEW i \in Ends(q[d])
  PROVE  Bounded([q EXCEPT ![d] = Without(@, i)], size)
<1> DEFINE s == q[d]
           n == Len(s)
<1>1. s \in Seq(PacketType) /\ n \in Nat /\ n <= size[d] /\ i \in 1 .. n
  BY LenProperties DEF Bounded, Ends
<1>2. \A j \in 1 .. n : s[j] \in PacketType
  BY <1>1, ElementOfSeq
<1> HIDE DEF n, s
<1>3. SubSeq(s, 1, i - 1) \in Seq(PacketType) /\ Len(SubSeq(s, 1, i - 1)) = i - 1
  <2>1. \A j \in 1 .. i - 1 : s[j] \in PacketType
    BY <1>1, <1>2
  <2> QED
    BY <1>1, <2>1, SubSeqProperties
<1>4. SubSeq(s, i + 1, n) \in Seq(PacketType) /\ Len(SubSeq(s, i + 1, n)) = n - i
  <2>1. \A j \in i + 1 .. n : s[j] \in PacketType
    BY <1>1, <1>2
  <2> QED
    BY <1>1, <2>1, SubSeqProperties
<1> DEFINE t == SubSeq(s, 1, i - 1) \o SubSeq(s, i + 1, n)
<1>5. t \in Seq(PacketType) /\ Len(t) = (i - 1) + (n - i)
  BY <1>3, <1>4, ConcatProperties
<1>6. Len(t) <= size[d]
  BY <1>1, <1>5
<1>7. Without(q[d], i) = t
  BY DEF Without, n, s
<1> HIDE DEF t
<1> QED
  BY <1>5, <1>6, <1>7, Reassigned

-----------------------------------------------------------------------------
(* The MSHRs: what fits still fits, and which blocks a cache waits for. *)

LEMMA EntryFound ==
  ASSUME NEW c, NEW a, InMshr(c, a)
  PROVE  Entry(c, a) \in mshr[c] /\ Entry(c, a).addr = a
BY DEF InMshr, Entry

\* return_data marks entries, and neither adds nor removes one.
LEMMA ReturnedFits ==
  ASSUME NEW m, MissesFit(m), NEW T, NEW a
  PROVE  /\ MissesFit(Returned(m, T, a))
         /\ \A c \in Cache : Waiting(Returned(m, T, a), c) = Waiting(m, c)
<1> DEFINE mark(e) == IF e.addr = a THEN [e EXCEPT !.returned = TRUE] ELSE e
           n == Returned(m, T, a)
<1>1. \A e \in PacketType : mark(e) \in PacketType /\ mark(e).addr = e.addr
  BY PacketReturned
<1>2. /\ n = [c \in Cache |-> n[c]]
      /\ \A c \in Cache : n[c] = IF c \in T THEN {mark(e) : e \in m[c]} ELSE m[c]
  BY DEF Returned
<1>3. \A c \in Cache : m[c] \subseteq PacketType
  BY DEF MissesFit
<1> HIDE DEF mark, n
<1>4. ASSUME NEW c \in Cache
      PROVE  /\ n[c] \subseteq PacketType /\ IsFiniteSet(n[c])
             /\ Cardinality(n[c]) <= MSHR_SIZE[c]
             /\ \A e, f \in n[c] : e.addr = f.addr => e = f
             /\ Waiting(n, c) = Waiting(m, c)
  <2>1. /\ IsFiniteSet(m[c]) /\ Cardinality(m[c]) <= MSHR_SIZE[c]
        /\ \A e, f \in m[c] : e.addr = f.addr => e = f
    BY DEF MissesFit
  <2>2. CASE c \notin T
    BY <1>2, <1>3, <2>1, <2>2 DEF Waiting
  <2>3. CASE c \in T
    <3>1. n[c] = {mark(e) : e \in m[c]}
      BY <1>2, <2>3
    <3>2. [e \in m[c] |-> mark(e)] \in Surjection(m[c], n[c])
      BY <3>1 DEF Surjection
    <3>3. IsFiniteSet(n[c]) /\ Cardinality(n[c]) <= Cardinality(m[c])
      BY <2>1, <3>2, FS_Surjection
    <3>4. /\ Cardinality(n[c]) \in Nat /\ Cardinality(m[c]) \in Nat
          /\ MSHR_SIZE[c] \in Nat
      BY <2>1, <3>3, FS_CardinalityType, Sizes
    <3>5. Cardinality(n[c]) <= MSHR_SIZE[c]
      BY <2>1, <3>3, <3>4
    <3>6. \A e, f \in n[c] : e.addr = f.addr => e = f
      BY <1>1, <1>3, <2>1, <3>1
    <3>7. n[c] \subseteq PacketType
      BY <1>1, <1>3, <3>1
    <3>8. Waiting(n, c) = Waiting(m, c)
      BY <1>1, <1>3, <3>1 DEF Waiting
    <3> QED
      BY <3>3, <3>5, <3>6, <3>7, <3>8
  <2> QED
    BY <2>2, <2>3
<1>5. MissesFit(n)
  <2>1. n \in [Cache -> SUBSET PacketType]
    BY <1>2, <1>4
  <2> QED
    BY <1>4, <2>1 DEF MissesFit
<1> QED
  BY <1>4, <1>5 DEF n

\* add_mshr, called when no entry has the block and one is free.
LEMMA AddedFits ==
  ASSUME MissesFit(mshr), NEW c \in Cache, NEW p \in PacketType,
         ~InMshr(c, p.addr), Cardinality(mshr[c]) < MSHR_SIZE[c]
  PROVE  /\ MissesFit(AddMshr(c, p))
         /\ \A d \in Cache : Waiting(AddMshr(c, p), d) =
                               IF d = c THEN Waiting(mshr, c) \cup {p.addr} ELSE Waiting(mshr, d)
<1> DEFINE e == [p EXCEPT !.returned = FALSE]
           n == AddMshr(c, p)
<1>1. e \in PacketType /\ e.addr = p.addr
  BY PacketReturned
<1> HIDE DEF e
<1>2. /\ DOMAIN n = Cache /\ n[c] = mshr[c] \cup {e}
      /\ \A d \in Cache : d # c => n[d] = mshr[d]
  BY DEF AddMshr, e, MissesFit
<1> HIDE DEF n
<1>3. /\ mshr[c] \subseteq PacketType /\ IsFiniteSet(mshr[c])
      /\ \A f, g \in mshr[c] : f.addr = g.addr => f = g
  BY DEF MissesFit
<1>4. \A f \in mshr[c] : f.addr # e.addr
  BY <1>1 DEF InMshr
<1>5. IsFiniteSet(n[c]) /\ Cardinality(n[c]) <= MSHR_SIZE[c]
  <2>1. IsFiniteSet(n[c]) /\ Cardinality(n[c]) = Cardinality(mshr[c]) + 1
    BY <1>2, <1>3, <1>4, FS_AddElement
  <2>2. Cardinality(mshr[c]) \in Nat /\ MSHR_SIZE[c] \in Nat
    BY <1>3, FS_CardinalityType, Sizes
  <2> QED
    BY <2>1, <2>2
<1>6. n[c] \subseteq PacketType /\ \A f, g \in n[c] : f.addr = g.addr => f = g
  BY <1>1, <1>2, <1>3, <1>4
<1>7. MissesFit(n)
  <2>1. n \in [Cache -> SUBSET PacketType]
    <3>1. \A d \in Cache : n[d] \in SUBSET PacketType
      BY <1>2, <1>6 DEF MissesFit
    <3>2. n = [d \in Cache |-> n[d]]
      BY DEF n, AddMshr, MissesFit
    <3> QED
      BY <3>1, <3>2
  <2> QED
    BY <2>1, <1>2, <1>5, <1>6 DEF MissesFit
<1>8. ASSUME NEW d \in Cache
      PROVE  Waiting(n, d) = IF d = c THEN Waiting(mshr, c) \cup {p.addr} ELSE Waiting(mshr, d)
  BY <1>1, <1>2 DEF Waiting
<1> QED
  BY <1>7, <1>8 DEF n

\* A merge changes what an entry says, but not its block.
LEMMA ReplacedFits ==
  ASSUME MissesFit(mshr), NEW c \in Cache, NEW e \in mshr[c], NEW f \in PacketType,
         f.addr = e.addr
  PROVE  /\ MissesFit(Replace(c, e, f))
         /\ \A d \in Cache : Waiting(Replace(c, e, f), d) = Waiting(mshr, d)
<1> DEFINE n == Replace(c, e, f)
<1>1. /\ DOMAIN n = Cache /\ n[c] = (mshr[c] \ {e}) \cup {f}
      /\ \A d \in Cache : d # c => n[d] = mshr[d]
      /\ n = [d \in Cache |-> n[d]]
  BY DEF Replace, MissesFit
<1> HIDE DEF n
<1>2. /\ mshr[c] \subseteq PacketType /\ IsFiniteSet(mshr[c])
      /\ Cardinality(mshr[c]) <= MSHR_SIZE[c]
      /\ \A g, h \in mshr[c] : g.addr = h.addr => g = h
  BY DEF MissesFit
<1>3. IsFiniteSet(n[c]) /\ Cardinality(n[c]) <= MSHR_SIZE[c]
  <2>1. IsFiniteSet(mshr[c] \ {e}) /\ Cardinality(mshr[c] \ {e}) = Cardinality(mshr[c]) - 1
    BY <1>2, FS_RemoveElement
  <2>2. /\ IsFiniteSet(n[c])
        /\ \/ Cardinality(n[c]) = Cardinality(mshr[c] \ {e})
           \/ Cardinality(n[c]) = Cardinality(mshr[c] \ {e}) + 1
    <3> DEFINE r == mshr[c] \ {e}
    <3>1. IsFiniteSet(r)
      BY <2>1
    <3> HIDE DEF r
    <3>2. /\ IsFiniteSet(r \cup {f})
          /\ Cardinality(r \cup {f}) = Cardinality(r) \/ Cardinality(r \cup {f}) = Cardinality(r) + 1
      BY <3>1, FS_AddElement
    <3> QED
      BY <1>1, <3>2 DEF r
  <2>3. Cardinality(mshr[c]) \in Nat /\ MSHR_SIZE[c] \in Nat
    BY <1>2, FS_CardinalityType, Sizes
  <2> QED
    BY <1>2, <2>1, <2>2, <2>3
<1>4. n[c] \subseteq PacketType /\ \A g, h \in n[c] : g.addr = h.addr => g = h
  BY <1>1, <1>2
<1>5. MissesFit(n)
  <2>1. \A d \in Cache : n[d] \in SUBSET PacketType
    BY <1>1, <1>4 DEF MissesFit
  <2>2. n \in [Cache -> SUBSET PacketType]
    BY <1>1, <2>1
  <2> QED
    BY <2>2, <1>1, <1>3, <1>4 DEF MissesFit
<1>6. ASSUME NEW d \in Cache
      PROVE  Waiting(n, d) = Waiting(mshr, d)
  BY <1>1 DEF Waiting
<1> QED
  BY <1>5, <1>6 DEF n

\* A fill gives its entry back.
LEMMA DroppedFits ==
  ASSUME MissesFit(mshr), NEW c \in Cache, NEW e \in mshr[c]
  PROVE  LET n == [mshr EXCEPT ![c] = @ \ {e}]
         IN  /\ MissesFit(n)
             /\ \A d \in Cache : Waiting(n, d) =
                                   IF d = c THEN Waiting(mshr, c) \ {e.addr} ELSE Waiting(mshr, d)
<1> DEFINE n == [mshr EXCEPT ![c] = @ \ {e}]
<1>1. /\ DOMAIN n = Cache /\ n[c] = mshr[c] \ {e}
      /\ \A d \in Cache : d # c => n[d] = mshr[d]
      /\ n = [d \in Cache |-> n[d]]
  BY DEF MissesFit
<1> HIDE DEF n
<1>2. /\ mshr[c] \subseteq PacketType /\ IsFiniteSet(mshr[c])
      /\ Cardinality(mshr[c]) <= MSHR_SIZE[c]
      /\ \A g, h \in mshr[c] : g.addr = h.addr => g = h
  BY DEF MissesFit
<1>3. IsFiniteSet(n[c]) /\ Cardinality(n[c]) <= MSHR_SIZE[c]
  <2>1. IsFiniteSet(n[c]) /\ Cardinality(n[c]) = Cardinality(mshr[c]) - 1
    BY <1>1, <1>2, FS_RemoveElement
  <2>2. Cardinality(mshr[c]) \in Nat /\ MSHR_SIZE[c] \in Nat
    BY <1>2, FS_CardinalityType, Sizes
  <2> QED
    BY <1>2, <2>1, <2>2
<1>4. MissesFit(n)
  <2>1. \A d \in Cache : n[d] \in SUBSET PacketType
    BY <1>1, <1>2 DEF MissesFit
  <2>2. n \in [Cache -> SUBSET PacketType]
    BY <1>1, <2>1
  <2> QED
    BY <2>2, <1>1, <1>2, <1>3 DEF MissesFit
<1>5. ASSUME NEW d \in Cache
      PROVE  Waiting(n, d) = IF d = c THEN Waiting(mshr, c) \ {e.addr} ELSE Waiting(mshr, d)
  BY <1>1, <1>2 DEF Waiting
<1> QED
  BY <1>4, <1>5 DEF n

-----------------------------------------------------------------------------
(* The ways *)

\* A victim is a way, and check_hit finds the first way of a block.
LEMMA VictimIsAWay ==
  ASSUME NEW c, NEW w \in Victims(c)
  PROVE  w \in 1..NUM_WAY[c]
BY DEF Victims

LEMMA HitIsAWay ==
  ASSUME NEW c \in Cache, NEW a, Filled(c, a)
  PROVE  HitWay(c, a) \in 1..NUM_WAY[c] /\ line[c][HitWay(c, a)].addr = a
<1> DEFINE S == {w \in 1..NUM_WAY[c] : line[c][w].valid /\ line[c][w].addr = a}
<1>1. S \in SUBSET Nat /\ S # {} /\ NUM_WAY[c] \in Nat
  BY Sizes DEF Filled
<1>2. PICK m \in S : \A n \in S : m <= n
  BY <1>1, LeastNatural
<1>3. \A v \in 1 .. m-1 : v \notin S
  BY <1>1, <1>2
<1>4. \A v \in 1 .. m-1 : v \in 1..NUM_WAY[c]
  BY <1>1, <1>2
<1>5. \A v \in 1 .. m-1 : ~(line[c][v].valid /\ line[c][v].addr = a)
  BY <1>3, <1>4
<1>6. \E w \in 1..NUM_WAY[c] :
        /\ line[c][w].valid /\ line[c][w].addr = a
        /\ \A v \in 1 .. w-1 : ~(line[c][v].valid /\ line[c][v].addr = a)
  BY <1>2, <1>5
<1> QED
  BY <1>6 DEF HitWay

\* The ways of all caches when one is written, or its bits change.
Written(c, w, e) == [line EXCEPT ![c] = [line[c] EXCEPT ![w] = e]]

LEMMA Rewritten ==
  ASSUME LinesFit(line), NEW c \in Cache, NEW w \in 1..NUM_WAY[c],
         NEW e \in LineType, e.dirty => e.addr \in Block
  PROVE  /\ LinesFit(Written(c, w, e))
         /\ \A d \in Cache : d # c => Written(c, w, e)[d] = line[d]
         /\ \A v \in 1..NUM_WAY[c] : Written(c, w, e)[c][v] = IF v = w THEN e ELSE line[c][v]
<1> DEFINE l == Written(c, w, e)
<1>1. line[c] \in [1..NUM_WAY[c] -> LineType] /\ DOMAIN line = Cache
  BY DEF LinesFit
<1>2. /\ DOMAIN l = Cache /\ \A d \in Cache : d # c => l[d] = line[d]
      /\ l[c] = [line[c] EXCEPT ![w] = e]
  BY <1>1 DEF Written
<1> HIDE DEF l
<1>3. /\ l[c] \in [1..NUM_WAY[c] -> LineType]
      /\ \A v \in 1..NUM_WAY[c] : l[c][v] = IF v = w THEN e ELSE line[c][v]
  BY <1>1, <1>2
<1>4. LinesFit(l)
  <2>1. ASSUME NEW d \in Cache
        PROVE  /\ l[d] \in [1..NUM_WAY[d] -> LineType]
               /\ \A v \in 1..NUM_WAY[d] : l[d][v].dirty => l[d][v].addr \in Block
    <3>1. CASE d = c
      <4>1. \A v \in 1..NUM_WAY[c] : line[c][v].dirty => line[c][v].addr \in Block
        BY DEF LinesFit
      <4>2. \A v \in 1..NUM_WAY[c] : l[c][v].dirty => l[c][v].addr \in Block
        BY <1>3, <4>1
      <4> QED
        BY <1>3, <3>1, <4>2
    <3>2. CASE d # c
      <4>1. l[d] = line[d]
        BY <1>2, <3>2
      <4> QED
        BY <4>1 DEF LinesFit
    <3> QED
      BY <3>1, <3>2
  <2> QED
    BY <1>2, <1>3, <2>1 DEF LinesFit
<1> QED
  BY <1>2, <1>3, <1>4 DEF l

\* No new copies and nothing new to wait for.
LEMMA StillOnce ==
  ASSUME NEW l, NEW m, NEW k, NEW n, NEW c, Once(l, m, c),
         \A w \in 1..NUM_WAY[c] : k[c][w].valid => l[c][w].valid /\ k[c][w].addr = l[c][w].addr,
         Waiting(n, c) \subseteq Waiting(m, c)
  PROVE  Once(k, n, c)
BY DEF Once, Has

\* A miss of a block that the cache does not hold.
LEMMA MissedOnce ==
  ASSUME NEW l, NEW m, NEW n, NEW c, NEW a, Once(l, m, c), ~Has(l, c, a),
         Waiting(n, c) \subseteq Waiting(m, c) \cup {a}
  PROVE  Once(l, n, c)
BY DEF Once

\* The way of a block is filled by the block's miss, which ends.
LEMMA FilledOnce ==
  ASSUME NEW l, NEW m, NEW k, NEW n, NEW c, NEW w \in 1..NUM_WAY[c], NEW e, Once(l, m, c),
         \A v \in 1..NUM_WAY[c] : k[c][v] = IF v = w THEN e ELSE l[c][v],
         e.addr \in Waiting(m, c), Waiting(n, c) \subseteq Waiting(m, c) \ {e.addr}
  PROVE  Once(k, n, c)
<1>1. \A v \in 1..NUM_WAY[c] : l[c][v].valid => l[c][v].addr # e.addr
  BY DEF Once, Has
<1>2. \A v, u \in 1..NUM_WAY[c] :
        k[c][v].valid /\ k[c][u].valid /\ k[c][v].addr = k[c][u].addr => v = u
  BY <1>1 DEF Once
<1>3. ASSUME NEW a \in Waiting(n, c), NEW v \in 1..NUM_WAY[c], k[c][v].valid, k[c][v].addr = a
      PROVE  FALSE
  <2>1. a # e.addr /\ a \in Waiting(m, c)
    OBVIOUS
  <2>2. l[c][v].valid /\ l[c][v].addr = a
    BY <1>3, <2>1
  <2> QED
    BY <2>1, <2>2 DEF Once, Has
<1> QED
  BY <1>2, <1>3 DEF Once, Has

\* The write queues after a writeback for which there is room.
LEMMA AfterWritebackFits ==
  ASSUME CacheInv, NEW c \in Cache, NEW w \in 1..NUM_WAY[c], MayReplace(c, w)
  PROVE  /\ Bounded(AfterWriteback(c, w), WQ_SIZE)
         /\ \A d \in Place : d # Below[c] => AfterWriteback(c, w)[d] = wq[d]
         /\ \A d \in CoreCache \ {"L1D"} : AfterWriteback(c, w)[d] = wq[d]
         /\ AfterWriteback(c, w)[c] = wq[c]
<1>1. Bounded(wq, WQ_SIZE)
  BY DEF CacheInv, QueuesFit
<1>2. CASE ~WritesBack(c, w)
  BY <1>1, <1>2 DEF AfterWriteback
<1>3. CASE WritesBack(c, w)
  <2> DEFINE d == Below[c]
             p == Packet("none", line[c][w].addr, 0, "WRITEBACK", 2 * Level(c), {})
  <2>1. d \in Place /\ d # c /\ d \notin CoreCache
    BY <1>3, Wiring DEF WritesBack, HasLower
  <2>2. line[c][w].addr \in Block
    BY <1>3 DEF CacheInv, LinesFit, WritesBack
  <2>3. 2 * Level(c) \in {1, 2, 4, 8}
    BY Wiring
  <2>4. p \in PacketType
    BY <2>2, <2>3, PacketMade, CacheAssumption
  <2> HIDE DEF p
  <2>5. wq[d] \in Seq(PacketType) /\ Len(wq[d]) <= WQ_SIZE[d] /\ DOMAIN wq = Place
    BY <1>1, <2>1 DEF Bounded
  <2>6. Len(wq[d]) \in Nat /\ WQ_SIZE[d] \in Nat /\ Len(wq[d]) # WQ_SIZE[d]
    BY <1>3, <2>1, <2>5, LenProperties, Sizes DEF MayReplace
  <2>7. WqAfter(d, p) \in Seq(PacketType) /\ Len(WqAfter(d, p)) <= WQ_SIZE[d]
    BY <2>4, <2>5, <2>6, Appended DEF WqAfter
  <2>8. AfterWriteback(c, w) = [wq EXCEPT ![d] = WqAfter(d, p)]
    BY <1>3 DEF AfterWriteback, p
  <2> HIDE DEF d
  <2>9. Bounded(AfterWriteback(c, w), WQ_SIZE)
    <3> DEFINE s == WqAfter(d, p)
    <3>1. s \in Seq(PacketType) /\ Len(s) <= WQ_SIZE[d]
      BY <2>7
    <3> HIDE DEF s
    <3>2. Bounded([wq EXCEPT ![d] = s], WQ_SIZE)
      BY <1>1, <2>1, <3>1, Reassigned
    <3> QED
      BY <2>8, <3>2 DEF s
  <2> QED
    BY <2>1, <2>5, <2>8, <2>9, Wiring DEF d
<1> QED
  BY <1>2, <1>3

-----------------------------------------------------------------------------
(* The core *)

\* PROCESSED takes packets, and an assert fails or not.
LEMMA ProcessedFits ==
  ASSUME NEW c \in CoreCache, NEW p \in PacketType, processed \in [CoreCache -> Seq(PacketType)]
  PROVE  [processed EXCEPT ![c] = Processed(c, p)] \in [CoreCache -> Seq(PacketType)]
<1>1. Processed(c, p) \in Seq(PacketType)
  BY Appended DEF Processed
<1> QED
  BY <1>1

LEMMA OrphanIsBoolean ==
  ASSUME NEW m, NEW T, NEW a
  PROVE  Orphan(m, T, a) \in BOOLEAN
BY DEF Orphan

\* Nothing but queues and what the core keeps changes.
LEMMA CachesKeep ==
  ASSUME CacheInv, UNCHANGED <<mshr, line>>, QueuesFit(rq', wq', pq'),
         CoreFits(processed', asserted', pending', modified')
  PROVE  CacheInv'
BY NextInv DEF CacheInv

LEMMA ReadKeeps ==
  ASSUME CacheInv, NEW c \in CoreCache, NEW r \in Request, NEW a \in Block, NEW w \in Word,
         NEW t \in {"LOAD", "RFO"}, CoreRead(c, r, a, w, t)
  PROVE  CacheInv'
<1> DEFINE R == IF c \in InstrCache THEN {} ELSE {r}
           p == Packet(c, a, w, t, 1, R)
<1>1. p \in PacketType
  <2>1. R \in SUBSET Request /\ t \in {"LOAD", "RFO", "PREFETCH", "WRITEBACK"} /\ 1 \in {1, 2, 4, 8}
    OBVIOUS
  <2> HIDE DEF R
  <2> QED
    BY <2>1, PacketMade
<1>2. /\ pending' = [pending EXCEPT ![r] = [cache |-> c, addr |-> a]]
      /\ rq' = [rq EXCEPT ![c] = RqAfter(c, @, p)]
      /\ \/ processed' = processed
         \/ processed' = [processed EXCEPT ![c] = Processed(c, p)]
      /\ UNCHANGED <<wq, pq, mshr, line, asserted, modified>>
  BY DEF CoreRead
<1> HIDE DEF p
<1>3. c \in Place /\ QueuesFit(rq, wq, pq) /\ CoreFits(processed, asserted, pending, modified)
  BY Wiring DEF CacheInv
<1>4. rq[c] \in Seq(PacketType) /\ Len(rq[c]) <= RQ_SIZE[c] /\ RQ_SIZE[c] \in Nat
  BY <1>3, Sizes DEF QueuesFit, Bounded
<1> DEFINE s == RqAfter(c, rq[c], p)
<1>5. s \in Seq(PacketType) /\ Len(s) <= RQ_SIZE[c] /\ rq' = [rq EXCEPT ![c] = s]
  BY <1>1, <1>2, <1>4, RqAfterFits
<1> HIDE DEF s
<1>6. Bounded(rq', RQ_SIZE)
  BY <1>3, <1>5, Reassigned DEF QueuesFit
<1>7. QueuesFit(rq', wq', pq')
  BY <1>2, <1>3, <1>6 DEF QueuesFit
<1>8. processed' \in [CoreCache -> Seq(PacketType)]
  BY <1>1, <1>2, <1>3, ProcessedFits DEF CoreFits
<1>9. CoreFits(processed', asserted', pending', modified')
  BY <1>2, <1>3, <1>8 DEF CoreFits
<1> QED
  BY <1>2, <1>7, <1>9, CachesKeep

LEMMA WriteKeeps ==
  ASSUME CacheInv, NEW a \in Block, NEW w \in Word, CoreWrite(a, w)
  PROVE  CacheInv'
<1> DEFINE p == Packet("L1D", a, w, "RFO", 1, {})
<1>1. p \in PacketType
  BY PacketMade
<1>2. /\ "L1D" \in Cache /\ Len(wq["L1D"]) < WQ_SIZE["L1D"]
      /\ wq' = [wq EXCEPT !["L1D"] = WqAfter("L1D", p)]
      /\ UNCHANGED <<rq, pq, mshr, line, processed, asserted, pending, modified>>
  BY DEF CoreWrite
<1> HIDE DEF p
<1>3. /\ "L1D" \in Place /\ QueuesFit(rq, wq, pq)
      /\ CoreFits(processed, asserted, pending, modified)
  BY <1>2, Wiring DEF CacheInv
<1>4. wq["L1D"] \in Seq(PacketType) /\ Len(wq["L1D"]) \in Nat /\ WQ_SIZE["L1D"] \in Nat
  BY <1>3, Sizes, LenProperties DEF QueuesFit, Bounded
<1> DEFINE s == WqAfter("L1D", p)
<1>5. s \in Seq(PacketType) /\ Len(s) <= WQ_SIZE["L1D"]
  BY <1>1, <1>2, <1>4, Appended DEF WqAfter
<1>6. wq' = [wq EXCEPT !["L1D"] = s]
  BY <1>2
<1> HIDE DEF s
<1>7. Bounded(wq', WQ_SIZE)
  BY <1>3, <1>5, <1>6, Reassigned DEF QueuesFit
<1>8. QueuesFit(rq', wq', pq')
  BY <1>2, <1>3, <1>6, <1>7 DEF QueuesFit, Quiet
<1>9. CoreFits(processed', asserted', pending', modified')
  BY <1>2, <1>3
<1> QED
  BY <1>2, <1>8, <1>9, CachesKeep

LEMMA TakeKeeps ==
  ASSUME CacheInv, NEW c \in CoreCache, TakeProcessed(c)
  PROVE  CacheInv'
<1>1. /\ processed[c] # << >> /\ processed' = [processed EXCEPT ![c] = Tail(@)]
      /\ UNCHANGED <<rq, wq, pq, mshr, line, asserted, modified>>
      /\ pending' \in [Request -> [cache : CoreCache, addr : Block] \cup {Idle}]
  <2>1. pending \in [Request -> [cache : CoreCache, addr : Block] \cup {Idle}]
    BY DEF CacheInv, CoreFits
  <2> QED
    BY <2>1 DEF TakeProcessed, queues
<1>2. QueuesFit(rq, wq, pq) /\ CoreFits(processed, asserted, pending, modified)
  BY DEF CacheInv
<1>3. Tail(processed[c]) \in Seq(PacketType)
  BY <1>1, <1>2, HeadTailProperties DEF CoreFits
<1>4. CoreFits(processed', asserted', pending', modified')
  BY <1>1, <1>2, <1>3 DEF CoreFits
<1> QED
  BY <1>1, <1>2, <1>4, CachesKeep

LEMMA PrefetchLineKeeps ==
  ASSUME CacheInv, NEW c \in Cache, NEW a \in Block, NEW l \in {1, 2, 4}, PrefetchLine(c, a, l)
  PROVE  CacheInv'
<1> DEFINE p == [Packet(c, a, 0, "PREFETCH", l, {}) EXCEPT !.l1d = (l = 1 /\ c # "L1I")]
<1>1. p \in PacketType
  <2>1. Packet(c, a, 0, "PREFETCH", l, {}) \in PacketType
    BY PacketMade, CacheAssumption
  <2> QED
    BY <2>1 DEF PacketType
<1>2. /\ c \notin TLB /\ pq' = [pq EXCEPT ![c] = PqAfter(c, @, p)]
      /\ UNCHANGED <<rq, wq, mshr, line, processed, asserted, pending, modified>>
  BY DEF PrefetchLine
<1> HIDE DEF p
<1>3. c \in Place /\ QueuesFit(rq, wq, pq) /\ CoreFits(processed, asserted, pending, modified)
  BY Wiring DEF CacheInv
<1>4. pq[c] \in Seq(PacketType) /\ Len(pq[c]) <= PQ_SIZE[c] /\ PQ_SIZE[c] \in Nat
  BY <1>3, Sizes DEF QueuesFit, Bounded
<1> DEFINE s == PqAfter(c, pq[c], p)
<1>5. s \in Seq(PacketType) /\ Len(s) <= PQ_SIZE[c] /\ pq' = [pq EXCEPT ![c] = s]
  BY <1>1, <1>2, <1>4, PqAfterFits
<1> HIDE DEF s
<1>6. Bounded(pq', PQ_SIZE)
  BY <1>3, <1>5, Reassigned DEF QueuesFit
<1>7. QueuesFit(rq', wq', pq')
  BY <1>2, <1>3, <1>5, <1>6 DEF QueuesFit, Quiet
<1>8. CoreFits(processed', asserted', pending', modified')
  BY <1>2, <1>3
<1> QED
  BY <1>2, <1>7, <1>8, CachesKeep

-----------------------------------------------------------------------------
(***************************************************************************)
(* The handlers.  A change of the MSHRs alone keeps the copies apart if a  *)
(* cache begins to wait only for a block it does not hold.                 *)
(***************************************************************************)

LEMMA SameMissesKeep ==
  ASSUME CacheInv, line' = line, QueuesFit(rq', wq', pq'), MissesFit(mshr'),
         CoreFits(processed', asserted', pending', modified'),
         \A d \in Cache : Waiting(mshr', d) \subseteq Waiting(mshr, d)
  PROVE  CacheInv'
<1>1. \A d \in CoreCache : Once(line', mshr', d)
  BY StillOnce, Wiring DEF CacheInv, OnceEach
<1> QED
  BY <1>1, NextInv DEF CacheInv, OnceEach

LEMMA NewMissKeeps ==
  ASSUME CacheInv, line' = line, QueuesFit(rq', wq', pq'), MissesFit(mshr'),
         CoreFits(processed', asserted', pending', modified'), NEW c \in Cache, NEW a,
         ~Filled(c, a), AlsoWaits(mshr', mshr, c, a)
  PROVE  CacheInv'
<1>1. ASSUME NEW d \in CoreCache
      PROVE  Once(line', mshr', d)
  <2>1. Once(line, mshr, d) /\ d \in Cache
    BY Wiring DEF CacheInv, OnceEach
  <2>2. CASE d = c
    BY <2>1, <2>2, MissedOnce DEF Filled, Has, AlsoWaits
  <2>3. CASE d # c
    BY <2>1, <2>3, StillOnce DEF AlsoWaits
  <2> QED
    BY <2>2, <2>3
<1> QED
  BY <1>1, NextInv DEF CacheInv, OnceEach

\* What add_mshr and return_data do together to the MSHRs.
LEMMA MissSent ==
  ASSUME MissesFit(mshr), NEW c \in Cache, NEW p \in PacketType, NEW T,
         ~InMshr(c, p.addr), Cardinality(mshr[c]) < MSHR_SIZE[c],
         NEW n, n = Returned(AddMshr(c, p), T, p.addr)
  PROVE  MissesFit(n) /\ AlsoWaits(n, mshr, c, p.addr)
<1> DEFINE m == AddMshr(c, p)
<1>1. /\ MissesFit(m)
      /\ \A d \in Cache : Waiting(m, d) =
                            IF d = c THEN Waiting(mshr, c) \cup {p.addr} ELSE Waiting(mshr, d)
  BY AddedFits
<1> HIDE DEF m
<1>2. /\ MissesFit(Returned(m, T, p.addr))
      /\ \A d \in Cache : Waiting(Returned(m, T, p.addr), d) = Waiting(m, d)
  BY <1>1, ReturnedFits
<1> QED
  BY <1>1, <1>2 DEF m, AlsoWaits

\* What is known of a state in which the invariant holds.
LEMMA Parts ==
  ASSUME CacheInv
  PROVE  /\ QueuesFit(rq, wq, pq) /\ MissesFit(mshr) /\ LinesFit(line)
         /\ CoreFits(processed, asserted, pending, modified)
         /\ Bounded(rq, RQ_SIZE) /\ Bounded(wq, WQ_SIZE) /\ Bounded(pq, PQ_SIZE) /\ Quiet(wq, pq)
BY DEF CacheInv, QueuesFit

\* handle_fill
LEMMA FillKeeps ==
  ASSUME CacheInv, NEW c \in Cache, HandleFill(c)
  PROVE  CacheInv'
<1>1. PICK e \in mshr[c], w \in Victims(c) :
        /\ MayReplace(c, w) /\ wq' = AfterWriteback(c, w)
        /\ FillCache(c, w, e.addr, c = "L1D" /\ e.type = "RFO")
        /\ mshr' = Returned([mshr EXCEPT ![c] = @ \ {e}], ReturnsTo(c, e), e.addr)
        /\ asserted' = (asserted \/ Orphan(mshr, ReturnsTo(c, e), e.addr))
        /\ processed' = IF c \in CoreCache /\ (c = "L1D" => e.type # "PREFETCH")
                        THEN [processed EXCEPT ![c] = Processed(c, e)] ELSE processed
        /\ modified' = IF c = "L1D" /\ e.type = "RFO" THEN modified \cup {e.addr} ELSE modified
        /\ UNCHANGED <<rq, pq, pending>>
  BY DEF HandleFill
<1>2. w \in 1..NUM_WAY[c] /\ e \in PacketType /\ e.addr \in Block /\ e.addr \in Waiting(mshr, c)
  BY Parts, VictimIsAWay DEF MissesFit, PacketType, Waiting
<1>3. QueuesFit(rq', wq', pq')
  BY <1>1, <1>2, Parts, AfterWritebackFits DEF QueuesFit, Quiet
<1> DEFINE m == [mshr EXCEPT ![c] = @ \ {e}]
           f == [addr |-> e.addr, valid |-> TRUE, dirty |-> (c = "L1D" /\ e.type = "RFO")]
<1>4. /\ MissesFit(m)
      /\ \A d \in Cache : Waiting(m, d) =
                            IF d = c THEN Waiting(mshr, c) \ {e.addr} ELSE Waiting(mshr, d)
  BY Parts, DroppedFits
<1>5. mshr' = Returned(m, ReturnsTo(c, e), e.addr)
  BY <1>1
<1> HIDE DEF m
<1>6. /\ MissesFit(mshr')
      /\ \A d \in Cache : Waiting(mshr', d) =
                            IF d = c THEN Waiting(mshr, c) \ {e.addr} ELSE Waiting(mshr, d)
  BY <1>4, <1>5, ReturnedFits
<1>7. f \in LineType /\ f.addr = e.addr /\ f.addr \in Block
  BY <1>2 DEF LineType
<1>8. line' = Written(c, w, f)
  BY <1>1 DEF FillCache, Written
<1> HIDE DEF f
<1>9. /\ LinesFit(line') /\ \A d \in Cache : d # c => line'[d] = line[d]
      /\ \A v \in 1..NUM_WAY[c] : line'[c][v] = IF v = w THEN f ELSE line[c][v]
  BY <1>2, <1>7, <1>8, Parts, Rewritten
<1>10. OnceEach(line', mshr')
  <2>1. ASSUME NEW d \in CoreCache
        PROVE  Once(line', mshr', d)
    <3>1. Once(line, mshr, d) /\ d \in Cache
      BY Wiring DEF CacheInv, OnceEach
    <3>2. CASE d = c
      <4>1. /\ f.addr \in Waiting(mshr, c) /\ Waiting(mshr', c) \subseteq Waiting(mshr, c) \ {f.addr}
            /\ Once(line, mshr, c)
        BY <1>2, <1>6, <1>7, <3>1, <3>2
      <4>2. Once(line', mshr', c)
        BY <1>2, <1>9, <4>1, FilledOnce
      <4> QED
        BY <3>2, <4>2
    <3>3. CASE d # c
      BY <1>6, <1>9, <3>1, <3>3, StillOnce
    <3> QED
      BY <3>2, <3>3
  <2> QED
    BY <2>1 DEF OnceEach
<1>11. CoreFits(processed', asserted', pending', modified')
  <2>1. processed' \in [CoreCache -> Seq(PacketType)]
    BY <1>1, <1>2, Parts, ProcessedFits DEF CoreFits
  <2>2. asserted' \in BOOLEAN
    BY <1>1, OrphanIsBoolean, Parts DEF CoreFits
  <2> QED
    BY <1>1, <1>2, <2>1, <2>2, Parts DEF CoreFits
<1> QED
  BY <1>3, <1>6, <1>9, <1>10, <1>11, NextInv

LEMMA BypassKeeps ==
  ASSUME CacheInv, "LLC" \in Cache, BypassFill
  PROVE  CacheInv'
<1>1. PICK e \in mshr["LLC"] :
        /\ mshr' = Returned([mshr EXCEPT !["LLC"] = @ \ {e}], ReturnsTo("LLC", e), e.addr)
        /\ asserted' = (asserted \/ Orphan(mshr, ReturnsTo("LLC", e), e.addr))
        /\ UNCHANGED <<rq, wq, pq, line, processed, pending, modified>>
  BY DEF BypassFill, queues
<1> DEFINE m == [mshr EXCEPT !["LLC"] = @ \ {e}]
<1>2. /\ MissesFit(m)
      /\ \A d \in Cache : Waiting(m, d) =
                            IF d = "LLC" THEN Waiting(mshr, "LLC") \ {e.addr} ELSE Waiting(mshr, d)
  BY Parts, DroppedFits
<1>3. mshr' = Returned(m, ReturnsTo("LLC", e), e.addr)
  BY <1>1
<1> HIDE DEF m
<1>4. MissesFit(mshr') /\ \A d \in Cache : Waiting(mshr', d) \subseteq Waiting(mshr, d)
  BY <1>2, <1>3, ReturnedFits
<1>5. asserted' \in BOOLEAN
  BY <1>1, OrphanIsBoolean, Parts DEF CoreFits
<1>6. QueuesFit(rq', wq', pq') /\ CoreFits(processed', asserted', pending', modified')
  BY <1>1, <1>5, Parts DEF CoreFits
<1> QED
  BY <1>1, <1>4, <1>6, SameMissesKeep

\* A packet leaves the head of the RQ of one cache and is read from another, or below.
LEMMA SentDown ==
  ASSUME Bounded(rq, RQ_SIZE), NEW c \in Place, NEW d \in Place, c # d, rq[c] # << >>,
         NEW p \in PacketType
  PROVE  Bounded([rq EXCEPT ![c] = Tail(@), ![d] = RqAfter(d, @, p)], RQ_SIZE)
<1> DEFINE q == [rq EXCEPT ![c] = Tail(@)]
           s == RqAfter(d, rq[d], p)
<1>1. Bounded(q, RQ_SIZE)
  BY Popped, Sizes
<1>2. s \in Seq(PacketType) /\ Len(s) <= RQ_SIZE[d]
  BY RqAfterFits, Sizes DEF Bounded
<1>3. [rq EXCEPT ![c] = Tail(@), ![d] = RqAfter(d, @, p)] = [q EXCEPT ![d] = s]
  BY DEF Bounded
<1> HIDE DEF q, s
<1>4. Bounded([q EXCEPT ![d] = s], RQ_SIZE)
  BY <1>1, <1>2, Reassigned
<1> QED
  BY <1>3, <1>4

\* handle_read: a hit, a new miss, a merge.
LEMMA HeadOfRead ==
  ASSUME CacheInv, NEW c \in Cache, rq[c] # << >>
  PROVE  /\ Head(rq[c]) \in PacketType /\ Bounded([rq EXCEPT ![c] = Tail(@)], RQ_SIZE)
         /\ QueuesFit([rq EXCEPT ![c] = Tail(@)], wq, pq)
<1>1. c \in Place /\ Bounded(rq, RQ_SIZE) /\ QueuesFit(rq, wq, pq)
  BY Parts, Wiring
<1>2. Head(rq[c]) \in PacketType
  BY <1>1, HeadAndTail, Sizes
<1>3. Bounded([rq EXCEPT ![c] = Tail(@)], RQ_SIZE)
  BY <1>1, Popped, Sizes
<1> QED
  BY <1>1, <1>2, <1>3 DEF QueuesFit

LEMMA ReadHitKeeps ==
  ASSUME CacheInv, NEW c \in Cache, ReadHit(c)
  PROVE  CacheInv'
<1> DEFINE p == Head(rq[c])
           up == ReturnsTo(c, p)
<1>1. /\ rq[c] # << >> /\ rq' = [rq EXCEPT ![c] = Tail(@)]
      /\ mshr' = Returned(mshr, up, p.addr) /\ asserted' = (asserted \/ Orphan(mshr, up, p.addr))
      /\ processed' = IF c \in CoreCache THEN [processed EXCEPT ![c] = Processed(c, p)]
                                         ELSE processed
      /\ UNCHANGED <<wq, pq, line, pending, modified>>
  BY DEF ReadHit, PopRead
<1>2. p \in PacketType /\ QueuesFit(rq', wq', pq')
  BY <1>1, HeadOfRead
<1> HIDE DEF p, up
<1>3. MissesFit(mshr') /\ \A d \in Cache : Waiting(mshr', d) = Waiting(mshr, d)
  BY <1>1, Parts, ReturnedFits
<1>4. processed' \in [CoreCache -> Seq(PacketType)]
  BY <1>1, <1>2, Parts, ProcessedFits DEF CoreFits
<1>5. CoreFits(processed', asserted', pending', modified')
  BY <1>1, <1>4, OrphanIsBoolean, Parts DEF CoreFits
<1> QED
  BY <1>1, <1>2, <1>3, <1>5, SameMissesKeep

LEMMA ReadNewMissKeeps ==
  ASSUME CacheInv, NEW c \in Cache, ReadNewMiss(c)
  PROVE  CacheInv'
<1> DEFINE p == Head(rq[c])
           d == Below[c]
           up == IF HasLower(c) THEN IF Forwards(d, p) THEN ReturnsTo(d, p) ELSE {} ELSE {c}
<1>1. /\ rq[c] # << >> /\ ~Filled(c, p.addr) /\ ~InMshr(c, p.addr)
      /\ Cardinality(mshr[c]) < MSHR_SIZE[c]
      /\ mshr' = Returned(AddMshr(c, p), up, p.addr)
      /\ asserted' = (asserted \/ Orphan(AddMshr(c, p), up, p.addr))
      /\ IF HasLower(c) THEN rq' = [rq EXCEPT ![c] = Tail(@), ![d] = RqAfter(d, @, Sent(p))]
                        ELSE rq' = [rq EXCEPT ![c] = Tail(@)]
      /\ UNCHANGED <<wq, pq, line, processed, pending, modified>>
  BY DEF ReadNewMiss, PopRead, PopReadAndSend
<1>2. p \in PacketType /\ QueuesFit([rq EXCEPT ![c] = Tail(@)], wq, pq)
  BY <1>1, HeadOfRead
<1> HIDE DEF p, up, d
<1>3. QueuesFit(rq', wq', pq')
  <2>1. CASE HasLower(c)
    <3>1. d \in Place /\ c \in Place /\ c # d
      BY <2>1, Wiring DEF HasLower, d
    <3>2. Bounded(rq', RQ_SIZE)
      BY <1>1, <1>2, <2>1, <3>1, PacketSent, SentDown, Parts
    <3> QED
      BY <1>1, <3>2, Parts DEF QueuesFit
  <2>2. CASE ~HasLower(c)
    BY <1>1, <1>2, <2>2
  <2> QED
    BY <2>1, <2>2
<1>4. MissesFit(mshr') /\ AlsoWaits(mshr', mshr, c, p.addr)
  <2>1. /\ ~InMshr(c, p.addr) /\ Cardinality(mshr[c]) < MSHR_SIZE[c]
        /\ mshr' = Returned(AddMshr(c, p), up, p.addr)
    BY <1>1
  <2>2. MissesFit(mshr) /\ p \in PacketType /\ c \in Cache
    BY <1>2, Parts
  <2> QED
    BY <2>1, <2>2, MissSent
<1>5. CoreFits(processed', asserted', pending', modified')
  BY <1>1, OrphanIsBoolean, Parts DEF CoreFits
<1> QED
  BY <1>1, <1>3, <1>4, <1>5, NewMissKeeps

LEMMA ReadMergeKeeps ==
  ASSUME CacheInv, NEW c \in Cache, ReadMerge(c)
  PROVE  CacheInv'
<1> DEFINE p == Head(rq[c])
           e == Entry(c, p.addr)
<1>1. /\ rq[c] # << >> /\ InMshr(c, p.addr) /\ mshr' = Replace(c, e, Merged(e, p))
      /\ rq' = [rq EXCEPT ![c] = Tail(@)]
      /\ UNCHANGED <<wq, pq, line, processed, asserted, pending, modified>>
  BY DEF ReadMerge, PopRead
<1>2. p \in PacketType /\ QueuesFit(rq', wq', pq')
  BY <1>1, HeadOfRead
<1>3. e \in mshr[c] /\ e.addr = p.addr /\ e \in PacketType
  BY <1>1, EntryFound, Parts DEF MissesFit
<1> HIDE DEF p, e
<1>4. Merged(e, p) \in PacketType /\ Merged(e, p).addr = e.addr
  BY <1>2, <1>3, Merging
<1>5. MissesFit(mshr') /\ \A d \in Cache : Waiting(mshr', d) = Waiting(mshr, d)
  BY <1>1, <1>3, <1>4, Parts, ReplacedFits
<1>6. CoreFits(processed', asserted', pending', modified')
  BY <1>1, Parts
<1> QED
  BY <1>1, <1>2, <1>5, <1>6, SameMissesKeep

\* handle_writeback: a hit, a store's miss or merge, an allocation.
LEMMA HeadOfWrite ==
  ASSUME CacheInv, NEW c \in Cache, wq[c] # << >>
  PROVE  /\ Head(wq[c]) \in PacketType /\ QueuesFit(rq, [wq EXCEPT ![c] = Tail(@)], pq)
<1>1. c \in Place /\ Bounded(wq, WQ_SIZE) /\ QueuesFit(rq, wq, pq)
  BY Parts, Wiring
<1>2. Head(wq[c]) \in PacketType
  BY <1>1, HeadAndTail, Sizes
<1>3. Bounded([wq EXCEPT ![c] = Tail(@)], WQ_SIZE)
  BY <1>1, Popped, Sizes
<1>4. Quiet([wq EXCEPT ![c] = Tail(@)], pq)
  BY <1>1, Wiring DEF QueuesFit, Quiet, Bounded
<1> QED
  BY <1>1, <1>2, <1>3, <1>4 DEF QueuesFit

LEMMA WriteHitKeeps ==
  ASSUME CacheInv, NEW c \in Cache, WriteHit(c)
  PROVE  CacheInv'
<1> DEFINE p == Head(wq[c])
           w == HitWay(c, p.addr)
           e == [line[c][w] EXCEPT !.dirty = TRUE]
<1>1. /\ wq[c] # << >> /\ Filled(c, p.addr)
      /\ line' = [line EXCEPT ![c] = [@ EXCEPT ![w].dirty = TRUE]]
      /\ modified' = IF c = "L1D" THEN modified \cup {p.addr} ELSE modified
      /\ wq' = [wq EXCEPT ![c] = Tail(@)]
      /\ UNCHANGED <<rq, pq, mshr, processed, asserted, pending>>
  BY DEF WriteHit
<1>2. p \in PacketType /\ QueuesFit(rq', wq', pq')
  BY <1>1, HeadOfWrite
<1>3. w \in 1..NUM_WAY[c] /\ line[c][w].addr = p.addr /\ p.addr \in Block
  BY <1>1, <1>2, HitIsAWay DEF PacketType
<1>4. line[c][w] \in LineType
  BY <1>3, Parts DEF LinesFit
<1>5. e \in LineType /\ e.addr = line[c][w].addr /\ e.valid = line[c][w].valid
  BY <1>4 DEF LineType
<1>6. line' = Written(c, w, e)
  BY <1>1 DEF Written
<1> HIDE DEF p, w, e
<1>7. /\ LinesFit(line') /\ \A d \in Cache : d # c => line'[d] = line[d]
      /\ \A v \in 1..NUM_WAY[c] : line'[c][v] = IF v = w THEN e ELSE line[c][v]
  BY <1>3, <1>5, <1>6, Parts, Rewritten
<1>8. ASSUME NEW d \in CoreCache
      PROVE  Once(line', mshr', d)
  <2>1. Once(line, mshr, d) /\ d \in Cache
    BY Wiring DEF CacheInv, OnceEach
  <2>2. \A v \in 1..NUM_WAY[d] : line'[d][v].valid =>
                                   line[d][v].valid /\ line'[d][v].addr = line[d][v].addr
    BY <1>5, <1>7, <2>1
  <2> QED
    BY <1>1, <2>1, <2>2, StillOnce
<1>9. OnceEach(line', mshr') /\ MissesFit(mshr')
  BY <1>1, <1>8, Parts DEF OnceEach
<1>10. CoreFits(processed', asserted', pending', modified')
  BY <1>1, <1>3, Parts DEF CoreFits
<1> QED
  BY <1>2, <1>7, <1>9, <1>10, NextInv

LEMMA StoreNewMissKeeps ==
  ASSUME CacheInv, "L1D" \in Cache, StoreNewMiss
  PROVE  CacheInv'
<1> DEFINE c == "L1D"
           p == Head(wq[c])
           up == IF Forwards("L2C", p) THEN ReturnsTo("L2C", p) ELSE {}
           s == RqAfter("L2C", rq["L2C"], Sent(p))
<1>1. /\ wq[c] # << >> /\ ~Filled(c, p.addr) /\ ~InMshr(c, p.addr)
      /\ Cardinality(mshr[c]) < MSHR_SIZE[c]
      /\ mshr' = Returned(AddMshr(c, p), up, p.addr)
      /\ asserted' = (asserted \/ Orphan(AddMshr(c, p), up, p.addr))
      /\ rq' = [rq EXCEPT !["L2C"] = s]
      /\ wq' = [wq EXCEPT ![c] = Tail(@)]
      /\ UNCHANGED <<pq, line, processed, pending, modified>>
  BY DEF StoreNewMiss
<1>2. p \in PacketType /\ QueuesFit(rq, wq', pq)
  BY <1>1, HeadOfWrite
<1>3. "L2C" \in Place /\ c \in Cache
  BY Wiring
<1> HIDE DEF p, up, c
<1>4. s \in Seq(PacketType) /\ Len(s) <= RQ_SIZE["L2C"]
  BY <1>2, <1>3, PacketSent, RqAfterFits, Sizes DEF QueuesFit, Bounded
<1> HIDE DEF s
<1>5. Bounded(rq', RQ_SIZE)
  BY <1>1, <1>3, <1>4, Parts, Reassigned
<1>6. QueuesFit(rq', wq', pq')
  BY <1>1, <1>2, <1>5 DEF QueuesFit
<1>7. MissesFit(mshr') /\ AlsoWaits(mshr', mshr, c, p.addr)
  <2>1. /\ ~InMshr(c, p.addr) /\ Cardinality(mshr[c]) < MSHR_SIZE[c]
        /\ mshr' = Returned(AddMshr(c, p), up, p.addr)
    BY <1>1
  <2>2. MissesFit(mshr) /\ p \in PacketType /\ c \in Cache
    BY <1>2, <1>3, Parts
  <2> QED
    BY <2>1, <2>2, MissSent
<1>8. CoreFits(processed', asserted', pending', modified')
  BY <1>1, OrphanIsBoolean, Parts DEF CoreFits
<1> QED
  BY <1>1, <1>3, <1>6, <1>7, <1>8, NewMissKeeps

LEMMA StoreMergeKeeps ==
  ASSUME CacheInv, "L1D" \in Cache, StoreMerge
  PROVE  CacheInv'
<1> DEFINE c == "L1D"
           p == Head(wq[c])
           e == Entry(c, p.addr)
<1>1. /\ wq[c] # << >> /\ InMshr(c, p.addr) /\ mshr' = Replace(c, e, Merged(e, p))
      /\ wq' = [wq EXCEPT ![c] = Tail(@)]
      /\ UNCHANGED <<rq, pq, line, processed, asserted, pending, modified>>
  BY DEF StoreMerge
<1>2. p \in PacketType /\ QueuesFit(rq', wq', pq')
  BY <1>1, HeadOfWrite
<1>3. e \in mshr[c] /\ e.addr = p.addr /\ e \in PacketType /\ c \in Cache
  BY <1>1, EntryFound, Parts DEF MissesFit
<1> HIDE DEF p, e, c
<1>4. Merged(e, p) \in PacketType /\ Merged(e, p).addr = e.addr
  BY <1>2, <1>3, Merging
<1>5. MissesFit(mshr') /\ \A d \in Cache : Waiting(mshr', d) = Waiting(mshr, d)
  BY <1>1, <1>3, <1>4, Parts, ReplacedFits
<1>6. CoreFits(processed', asserted', pending', modified')
  BY <1>1, Parts
<1> QED
  BY <1>1, <1>2, <1>5, <1>6, SameMissesKeep

\* No cache the core reads allocates: only the L1D among them has anything in its WQ.
LEMMA AllocateKeeps ==
  ASSUME CacheInv, NEW c \in Cache, c # "L1D", WriteAllocate(c)
  PROVE  CacheInv'
<1> DEFINE p == Head(wq[c])
<1>1. PICK w \in Victims(c) :
        /\ wq[c] # << >> /\ MayReplace(c, w)
        /\ wq' = [AfterWriteback(c, w) EXCEPT ![c] = Tail(@)]
        /\ FillCache(c, w, p.addr, TRUE)
        /\ UNCHANGED <<rq, pq, mshr, processed, asserted, pending, modified>>
  BY DEF WriteAllocate
<1>2. c \notin CoreCache /\ c \in Place
  BY <1>1, Parts, Wiring DEF Quiet
<1>3. p \in PacketType /\ p.addr \in Block
  BY <1>1, HeadOfWrite DEF PacketType
<1>4. w \in 1..NUM_WAY[c]
  BY VictimIsAWay
<1>5. QueuesFit(rq', wq', pq')
  <2> DEFINE q == AfterWriteback(c, w)
  <2>1. /\ Bounded(q, WQ_SIZE) /\ q[c] = wq[c]
        /\ \A d \in CoreCache \ {"L1D"} : q[d] = wq[d]
    BY <1>1, <1>4, AfterWritebackFits
  <2>2. wq' = [q EXCEPT ![c] = Tail(@)]
    BY <1>1
  <2> HIDE DEF q
  <2>3. Bounded(wq', WQ_SIZE)
    <3>1. q[c] # << >> /\ WQ_SIZE[c] \in Nat
      BY <1>1, <1>2, <2>1, Sizes
    <3>2. Bounded([q EXCEPT ![c] = Tail(@)], WQ_SIZE)
      BY <1>2, <2>1, <3>1, Popped
    <3> QED
      BY <2>2, <3>2
  <2>4. \A d \in CoreCache \ {"L1D"} : wq'[d] = wq[d]
    BY <1>2, <2>1, <2>2, Wiring DEF Bounded
  <2> QED
    BY <1>1, <2>3, <2>4, Parts DEF QueuesFit, Quiet
<1> DEFINE f == [addr |-> p.addr, valid |-> TRUE, dirty |-> TRUE]
<1>6. f \in LineType /\ f.addr \in Block
  BY <1>3 DEF LineType
<1>7. line' = Written(c, w, f)
  BY <1>1 DEF FillCache, Written
<1> HIDE DEF f, p
<1>8. LinesFit(line') /\ \A d \in Cache : d # c => line'[d] = line[d]
  BY <1>4, <1>6, <1>7, Parts, Rewritten
<1>9. ASSUME NEW d \in CoreCache
      PROVE  Once(line', mshr', d)
  <2>1. Once(line, mshr, d) /\ line'[d] = line[d]
    BY <1>2, <1>8, Wiring DEF CacheInv, OnceEach
  <2> QED
    BY <1>1, <2>1, StillOnce
<1>10. OnceEach(line', mshr') /\ MissesFit(mshr')
  BY <1>1, <1>9, Parts DEF OnceEach
<1>11. CoreFits(processed', asserted', pending', modified')
  BY <1>1, Parts
<1> QED
  BY <1>5, <1>8, <1>10, <1>11, NextInv

\* handle_prefetch, which no TLB runs: a hit, a new miss, a merge.
LEMMA HeadOfPrefetch ==
  ASSUME CacheInv, NEW c \in Cache, pq[c] # << >>
  PROVE  /\ Head(pq[c]) \in PacketType /\ c \notin TLB /\ c \in Place
         /\ Bounded([pq EXCEPT ![c] = Tail(@)], PQ_SIZE)
         /\ QueuesFit(rq, wq, [pq EXCEPT ![c] = Tail(@)])
<1>1. c \in Place /\ Bounded(pq, PQ_SIZE) /\ QueuesFit(rq, wq, pq)
  BY Parts, Wiring
<1>2. Head(pq[c]) \in PacketType
  BY <1>1, HeadAndTail, Sizes
<1>3. c \notin TLB
  BY <1>1 DEF QueuesFit, Quiet
<1>4. Bounded([pq EXCEPT ![c] = Tail(@)], PQ_SIZE)
  BY <1>1, Popped, Sizes
<1>5. Quiet(wq, [pq EXCEPT ![c] = Tail(@)])
  BY <1>1, <1>3, Wiring DEF QueuesFit, Quiet, Bounded
<1> QED
  BY <1>1, <1>2, <1>3, <1>4, <1>5 DEF QueuesFit

LEMMA PrefetchHitKeeps ==
  ASSUME CacheInv, NEW c \in Cache, PrefetchHit(c)
  PROVE  CacheInv'
<1> DEFINE p == Head(pq[c])
           up == ReturnsTo(c, p)
<1>1. /\ pq[c] # << >> /\ pq' = [pq EXCEPT ![c] = Tail(@)]
      /\ mshr' = Returned(mshr, up, p.addr) /\ asserted' = (asserted \/ Orphan(mshr, up, p.addr))
      /\ UNCHANGED <<rq, wq, line, processed, pending, modified>>
  BY DEF PrefetchHit
<1>2. QueuesFit(rq', wq', pq')
  BY <1>1, HeadOfPrefetch
<1> HIDE DEF p, up
<1>3. MissesFit(mshr') /\ \A d \in Cache : Waiting(mshr', d) = Waiting(mshr, d)
  BY <1>1, Parts, ReturnedFits
<1>4. CoreFits(processed', asserted', pending', modified')
  BY <1>1, OrphanIsBoolean, Parts DEF CoreFits
<1> QED
  BY <1>1, <1>2, <1>3, <1>4, SameMissesKeep

LEMMA PrefetchNewMissKeeps ==
  ASSUME CacheInv, NEW c \in Cache, PrefetchNewMiss(c)
  PROVE  CacheInv'
<1> DEFINE p == Head(pq[c])
           d == Below[c]
           m == IF FillsHere(c, p) THEN AddMshr(c, p) ELSE mshr
           up == IF Forwards(d, p) THEN ReturnsTo(d, p) ELSE {}
<1>1. /\ pq[c] # << >> /\ ~Filled(c, p.addr) /\ ~InMshr(c, p.addr)
      /\ Cardinality(mshr[c]) < MSHR_SIZE[c]
      /\ mshr' = Returned(m, up, p.addr) /\ asserted' = (asserted \/ Orphan(m, up, p.addr))
      /\ \/ /\ rq' = [rq EXCEPT ![d] = RqAfter(d, @, Sent(p))]
            /\ pq' = [pq EXCEPT ![c] = Tail(@)]
         \/ /\ pq' = [pq EXCEPT ![c] = Tail(@), ![d] = PqAfter(d, @, Sent(p))]
            /\ UNCHANGED rq
      /\ UNCHANGED <<wq, line, processed, pending, modified>>
  BY DEF PrefetchNewMiss
<1>2. /\ p \in PacketType /\ c \notin TLB /\ c \in Place
      /\ QueuesFit(rq, wq, [pq EXCEPT ![c] = Tail(@)])
  BY <1>1, HeadOfPrefetch
<1>3. d \in Place /\ d # c /\ d \notin TLB
  BY <1>2, Wiring DEF TLB
<1>4. /\ Bounded(rq, RQ_SIZE) /\ Bounded(wq, WQ_SIZE) /\ Bounded(pq, PQ_SIZE) /\ Quiet(wq, pq)
      /\ MissesFit(mshr) /\ Sent(p) \in PacketType
  BY <1>2, Parts, PacketSent
<1> DEFINE r == RqAfter(d, rq[d], Sent(p))
           s == PqAfter(d, pq[d], Sent(p))
           q == [pq EXCEPT ![c] = Tail(@)]
<1>5. r \in Seq(PacketType) /\ Len(r) <= RQ_SIZE[d]
  BY <1>3, <1>4, RqAfterFits, Sizes DEF Bounded
<1>6. s \in Seq(PacketType) /\ Len(s) <= PQ_SIZE[d]
  BY <1>3, <1>4, PqAfterFits, Sizes DEF Bounded
<1>7. /\ DOMAIN pq = Place
      /\ \/ rq' = [rq EXCEPT ![d] = r] /\ pq' = q
         \/ rq' = rq /\ pq' = [q EXCEPT ![d] = s]
  BY <1>1, <1>3, <1>4 DEF Bounded
<1>8. Bounded(q, PQ_SIZE) /\ Quiet(wq, q)
  BY <1>2 DEF QueuesFit
<1> HIDE DEF p, d, up, r, s, q
<1>9. QueuesFit(rq', wq', pq')
  <2>1. CASE rq' = [rq EXCEPT ![d] = r] /\ pq' = q
    <3>1. Bounded(rq', RQ_SIZE)
      BY <1>3, <1>4, <1>5, <2>1, Reassigned
    <3> QED
      BY <1>1, <1>4, <1>8, <2>1, <3>1 DEF QueuesFit
  <2>2. CASE rq' = rq /\ pq' = [q EXCEPT ![d] = s]
    <3>1. Bounded(pq', PQ_SIZE)
      BY <1>3, <1>6, <1>8, <2>2, Reassigned
    <3>2. Quiet(wq, pq')
      BY <1>3, <1>8, <2>2 DEF Quiet
    <3> QED
      BY <1>1, <1>4, <2>2, <3>1, <3>2 DEF QueuesFit
  <2> QED
    BY <1>7, <2>1, <2>2
<1>10. CoreFits(processed', asserted', pending', modified')
  BY <1>1, OrphanIsBoolean, Parts DEF CoreFits
<1>11. CASE FillsHere(c, p)
  <2>1. /\ ~InMshr(c, p.addr) /\ Cardinality(mshr[c]) < MSHR_SIZE[c]
        /\ mshr' = Returned(AddMshr(c, p), up, p.addr)
    BY <1>1, <1>11
  <2>2. p \in PacketType /\ MissesFit(mshr)
    BY <1>2, <1>4
  <2> HIDE DEF m
  <2>3. MissesFit(mshr') /\ AlsoWaits(mshr', mshr, c, p.addr)
    BY <2>1, <2>2, MissSent
  <2> QED
    BY <1>1, <1>9, <1>10, <2>3, NewMissKeeps
<1>12. CASE ~FillsHere(c, p)
  <2>1. mshr' = Returned(mshr, up, p.addr)
    BY <1>1, <1>12
  <2>2. MissesFit(mshr') /\ \A b \in Cache : Waiting(mshr', b) = Waiting(mshr, b)
    BY <1>4, <2>1, ReturnedFits
  <2> QED
    BY <1>1, <1>9, <1>10, <2>2, SameMissesKeep
<1> QED
  BY <1>11, <1>12

LEMMA PrefetchMergeKeeps ==
  ASSUME CacheInv, NEW c \in Cache, PrefetchMerge(c)
  PROVE  CacheInv'
<1> DEFINE p == Head(pq[c])
           e == Entry(c, p.addr)
<1>1. /\ pq[c] # << >> /\ InMshr(c, p.addr) /\ mshr' = Replace(c, e, MergedPrefetch(e, p))
      /\ pq' = [pq EXCEPT ![c] = Tail(@)]
      /\ UNCHANGED <<rq, wq, line, processed, asserted, pending, modified>>
  BY DEF PrefetchMerge
<1>2. p \in PacketType /\ QueuesFit(rq', wq', pq')
  BY <1>1, HeadOfPrefetch
<1>3. e \in mshr[c] /\ e \in PacketType
  BY <1>1, EntryFound, Parts DEF MissesFit
<1> HIDE DEF p, e
<1>4. MergedPrefetch(e, p) \in PacketType /\ MergedPrefetch(e, p).addr = e.addr
  BY <1>2, <1>3, Merging
<1>5. MissesFit(mshr') /\ \A d \in Cache : Waiting(mshr', d) = Waiting(mshr, d)
  BY <1>1, <1>3, <1>4, Parts, ReplacedFits
<1>6. CoreFits(processed', asserted', pending', modified')
  BY <1>1, Parts
<1> QED
  BY <1>1, <1>2, <1>5, <1>6, SameMissesKeep

\* What is below the last cache, and the page table's swap.
LEMMA MemoryReturnsKeeps ==
  ASSUME CacheInv, MemoryReturns
  PROVE  CacheInv'
<1>1. PICK T, a :
        /\ mshr' = Returned(mshr, T, a) /\ asserted' = (asserted \/ Orphan(mshr, T, a))
        /\ \/ \E i \in Ends(rq[Memory]) : rq' = [rq EXCEPT ![Memory] = Without(@, i)] /\ UNCHANGED pq
           \/ \E i \in Ends(pq[Memory]) : pq' = [pq EXCEPT ![Memory] = Without(@, i)] /\ UNCHANGED rq
        /\ UNCHANGED <<wq, line, processed, pending, modified>>
  BY DEF MemoryReturns
<1>2. /\ Bounded(rq, RQ_SIZE) /\ Bounded(wq, WQ_SIZE) /\ Bounded(pq, PQ_SIZE) /\ Quiet(wq, pq)
      /\ MissesFit(mshr) /\ Memory \in Place /\ Memory \notin Cache /\ Cache \subseteq Place
  BY Parts, Wiring
<1>3. Bounded(rq', RQ_SIZE)
  BY <1>1, <1>2, WithoutOne, Sizes
<1>4. Bounded(pq', PQ_SIZE)
  BY <1>1, <1>2, WithoutOne, Sizes
<1>5. Quiet(wq', pq')
  <2>1. \A c \in Cache : pq'[c] = pq[c]
    BY <1>1, <1>2 DEF Bounded
  <2> QED
    BY <1>1, <1>2, <2>1 DEF Quiet
<1>6. QueuesFit(rq', wq', pq')
  BY <1>1, <1>2, <1>3, <1>4, <1>5 DEF QueuesFit
<1>7. MissesFit(mshr') /\ \A d \in Cache : Waiting(mshr', d) = Waiting(mshr, d)
  BY <1>1, <1>2, ReturnedFits
<1>8. CoreFits(processed', asserted', pending', modified')
  BY <1>1, OrphanIsBoolean, Parts DEF CoreFits
<1> QED
  BY <1>1, <1>6, <1>7, <1>8, SameMissesKeep

LEMMA MemoryWritesKeeps ==
  ASSUME CacheInv, MemoryWrites
  PROVE  CacheInv'
<1>1. PICK i \in Ends(wq[Memory]) : wq' = [wq EXCEPT ![Memory] = Without(@, i)]
  BY DEF MemoryWrites
<1>2. UNCHANGED <<rq, pq, mshr, line, processed, asserted, pending>> /\ modified' \subseteq modified
  BY DEF MemoryWrites
<1>3. Bounded(wq, WQ_SIZE) /\ Memory \in Place /\ Memory \notin CoreCache
  BY Parts, Wiring
<1>4. Bounded(wq', WQ_SIZE)
  BY <1>1, <1>3, WithoutOne, Sizes
<1>5. QueuesFit(rq', wq', pq')
  BY <1>1, <1>2, <1>3, <1>4, Parts DEF QueuesFit, Quiet, Bounded
<1>6. CoreFits(processed', asserted', pending', modified')
  BY <1>2, Parts DEF CoreFits
<1> QED
  BY <1>2, <1>5, <1>6, CachesKeep

\* invalidate_entry in every cache: ways lose their block, and none gets one.
LEMMA SwapKeeps ==
  ASSUME CacheInv, NEW a \in Block, SwapOut(a)
  PROVE  CacheInv'
<1>1. /\ line' = [c \in Cache |->
           IF Filled(c, a) THEN [line[c] EXCEPT ![HitWay(c, a)].valid = FALSE] ELSE line[c]]
      /\ UNCHANGED <<rq, wq, pq, mshr, processed, asserted, pending, modified>>
  BY DEF SwapOut, queues
<1>2. ASSUME NEW c \in Cache
      PROVE  /\ line'[c] \in [1..NUM_WAY[c] -> LineType]
             /\ \A v \in 1..NUM_WAY[c] :
                  /\ line'[c][v].addr = line[c][v].addr /\ line'[c][v].dirty = line[c][v].dirty
                  /\ line'[c][v].valid => line[c][v].valid
  <2>1. line[c] \in [1..NUM_WAY[c] -> LineType]
    BY Parts DEF LinesFit
  <2>2. CASE ~Filled(c, a)
    BY <1>1, <2>1, <2>2
  <2>3. CASE Filled(c, a)
    <3> DEFINE w == HitWay(c, a)
               e == [line[c][w] EXCEPT !.valid = FALSE]
    <3>1. w \in 1..NUM_WAY[c]
      BY <2>3, HitIsAWay
    <3>2. e \in LineType /\ e.addr = line[c][w].addr /\ e.dirty = line[c][w].dirty /\ ~e.valid
      BY <2>1, <3>1 DEF LineType
    <3>3. line'[c] = [line[c] EXCEPT ![w] = e]
      BY <1>1, <2>3
    <3> HIDE DEF w, e
    <3>4. \A v \in 1..NUM_WAY[c] : line'[c][v] = IF v = w THEN e ELSE line[c][v]
      BY <2>1, <3>1, <3>3
    <3>5. line'[c] \in [1..NUM_WAY[c] -> LineType]
      BY <2>1, <3>1, <3>2, <3>3
    <3> QED
      BY <3>2, <3>4, <3>5
  <2> QED
    BY <2>2, <2>3
<1>3. LinesFit(line')
  <2>1. DOMAIN line' = Cache
    BY <1>1
  <2> QED
    BY <1>2, <2>1, Parts DEF LinesFit
<1>4. ASSUME NEW c \in CoreCache
      PROVE  Once(line', mshr', c)
  <2>1. Once(line, mshr, c) /\ c \in Cache
    BY Wiring DEF CacheInv, OnceEach
  <2> QED
    BY <1>1, <1>2, <2>1, StillOnce
<1>5. QueuesFit(rq', wq', pq') /\ CoreFits(processed', asserted', pending', modified') /\ MissesFit(mshr')
  BY <1>1, Parts
<1> QED
  BY <1>3, <1>4, <1>5, NextInv DEF OnceEach

-----------------------------------------------------------------------------
(* The theorems *)

LEMMA InitInv == Init => CacheInv
<1> SUFFICES ASSUME Init PROVE CacheInv
  OBVIOUS
<1>1. QueuesFit(rq, wq, pq)
  <2>1. \A c \in Place : 0 <= RQ_SIZE[c] /\ 0 <= WQ_SIZE[c] /\ 0 <= PQ_SIZE[c]
    BY Sizes
  <2>2. << >> \in Seq(PacketType) /\ Len(<< >>) = 0
    BY EmptySeq
  <2>3. Bounded(rq, RQ_SIZE) /\ Bounded(wq, WQ_SIZE) /\ Bounded(pq, PQ_SIZE)
    BY <2>1, <2>2 DEF Init, Bounded, Place
  <2> QED
    BY <2>3, Wiring DEF QueuesFit, Quiet, Init, Place
<1>2. MissesFit(mshr)
  <2>1. IsFiniteSet({}) /\ Cardinality({}) = 0 /\ \A c \in Cache : 0 <= MSHR_SIZE[c]
    BY FS_EmptySet, Sizes
  <2> QED
    BY <2>1 DEF MissesFit, Init
<1>3. LinesFit(line)
  BY DEF LinesFit, LineType, Init
<1>4. CoreFits(processed, asserted, pending, modified)
  BY EmptySeq DEF CoreFits, Init
<1>5. OnceEach(line, mshr)
  <2>1. \A c \in CoreCache : /\ mshr[c] = {}
                            /\ \A w \in 1..NUM_WAY[c] : ~line[c][w].valid
    BY Wiring DEF Init
  <2> QED
    BY <2>1 DEF OnceEach, Once, Waiting, Has
<1> QED
  BY <1>1, <1>2, <1>3, <1>4, <1>5 DEF CacheInv

LEMMA StepKeepsInv == CacheInv /\ [Next]_vars => CacheInv'
<1> SUFFICES ASSUME CacheInv, [Next]_vars PROVE CacheInv'
  OBVIOUS
<1>1. CASE Core
  BY <1>1, ReadKeeps, WriteKeeps, TakeKeeps DEF Core
<1>2. ASSUME NEW c \in Cache, NEW a \in Block, NEW l \in {1, 2, 4}, PrefetchLine(c, a, l)
      PROVE  CacheInv'
  BY <1>2, PrefetchLineKeeps
<1>3. ASSUME NEW c \in Cache, operate(c)
      PROVE  CacheInv'
  <2>1. CASE HandleFill(c)
    BY <2>1, FillKeeps
  <2>2. CASE HandleWriteback(c)
    BY <2>2, WriteHitKeeps, StoreNewMissKeeps, StoreMergeKeeps, AllocateKeeps
       DEF HandleWriteback
  <2>3. CASE HandleRead(c)
    BY <2>3, ReadHitKeeps, ReadNewMissKeeps, ReadMergeKeeps DEF HandleRead
  <2>4. CASE HandlePrefetch(c)
    BY <2>4, PrefetchHitKeeps, PrefetchNewMissKeeps, PrefetchMergeKeeps DEF HandlePrefetch
  <2> QED
    BY <1>3, <2>1, <2>2, <2>3, <2>4 DEF operate
<1>4. CASE "LLC" \in Cache /\ BypassFill
  BY <1>4, BypassKeeps
<1>5. CASE MemoryReturns \/ MemoryWrites
  BY <1>5, MemoryReturnsKeeps, MemoryWritesKeeps
<1>6. ASSUME NEW a \in Block, SwapOut(a)
      PROVE  CacheInv'
  BY <1>6, SwapKeeps
<1>7. CASE UNCHANGED vars
  BY <1>7, CachesKeep, Parts DEF vars, queues
<1> QED
  BY <1>1, <1>2, <1>3, <1>4, <1>5, <1>6, <1>7 DEF Next

LEMMA InvAlways == Spec => []CacheInv
BY InitInv, StepKeepsInv, PTL DEF Spec

\* No queue and no MSHR ever overflows, for any sizes and any wiring: every add is behind
\* a look at the occupancy, is merged or is refused (add_rq, add_wq, add_pq, add_mshr).
THEOREM QueuesNeverOverflow == Spec => []TypeOK
<1>1. CacheInv => TypeOK
  <2> SUFFICES ASSUME CacheInv PROVE TypeOK
    OBVIOUS
  <2>1. \A c \in Cache \cup {Memory} :
          /\ rq[c] \in Seq(PacketType) /\ Len(rq[c]) <= RQ_SIZE[c]
          /\ wq[c] \in Seq(PacketType) /\ Len(wq[c]) <= WQ_SIZE[c]
          /\ pq[c] \in Seq(PacketType) /\ Len(pq[c]) <= PQ_SIZE[c]
    BY Parts DEF Bounded, Place
  <2>2. \A c \in Cache :
          /\ mshr[c] \subseteq PacketType /\ Cardinality(mshr[c]) <= MSHR_SIZE[c]
          /\ line[c] \in [1..NUM_WAY[c] -> [addr : Block \cup {0}, valid : BOOLEAN, dirty : BOOLEAN]]
    BY Parts DEF MissesFit, LinesFit, LineType
  <2>3. CoreFits(processed, asserted, pending, modified)
    BY Parts
  <2> QED
    BY <2>1, <2>2, <2>3 DEF TypeOK, CoreFits
<1> QED
  BY <1>1, InvAlways, PTL

\* An L1 or TLB never holds a block twice, nor one that it waits for (handle_fill takes a
\* victim without looking for the block; check_hit returns the first way that has it).
THEOREM CopiesStayUnique == Spec => []OneCopyPerBlock
<1>1. CacheInv => OneCopyPerBlock
  BY DEF CacheInv, OneCopyPerBlock, OnceEach, Once, Waiting, Has, Filled
<1> QED
  BY <1>1, InvAlways, PTL

-----------------------------------------------------------------------------
(***************************************************************************)
(* Dirty blocks.  A dirty way that is taken is written to the cache below, *)
(* whose WQ has room or the block already; only the STLB has none below,   *)
(* and no TLB is ever given a dirty way.                                   *)
(***************************************************************************)
Lower == (Cache \ CoreCache) \cup {Memory}

DirtyIn(l, a) == \E c \in Cache : \E w \in 1..NUM_WAY[c] : l[c][w].dirty /\ l[c][w].addr = a
QueuedIn(q, a) == \E c \in Lower : Holds(q[c], a)

CleanTLBs(q, l) ==
  \A c \in Cache \cap TLB : q[c] = << >> /\ \A w \in 1..NUM_WAY[c] : ~l[c][w].dirty

\* What was dirty somewhere still is.
NothingLost(q, l, r, k) ==
  \A a : DirtyIn(l, a) \/ QueuedIn(q, a) => DirtyIn(k, a) \/ QueuedIn(r, a)

DirtyInv == CleanTLBs(wq, line) /\ DirtyNeverDropped

LEMMA DirtyCopies ==
  /\ \A a : DirtyCopy(a) <=> DirtyIn(line, a) \/ QueuedIn(wq, a)
  /\ DirtyNeverDropped' <=> \A a \in modified' : DirtyIn(line', a) \/ QueuedIn(wq', a)
BY DEF DirtyCopy, DirtyNeverDropped, DirtyIn, QueuedIn, Lower, Holds, Ends

LEMMA CleanLater ==
  CleanTLBs(wq', line') => CleanTLBs(wq, line)'
BY DEF CleanTLBs

\* Appending to a queue and taking its head.
LEMMA HeldAfterAppend ==
  ASSUME NEW q \in Seq(PacketType), NEW p \in PacketType
  PROVE  /\ Holds(Append(q, p), p.addr)
         /\ \A a : Holds(q, a) => Holds(Append(q, p), a)
<1>1. Len(q) \in Nat /\ Append(q, p) \in Seq(PacketType) /\ Len(Append(q, p)) = Len(q) + 1
  BY Appended, LenProperties
<1>2. Append(q, p)[Len(q) + 1] = p /\ \A i \in 1 .. Len(q) : Append(q, p)[i] = q[i]
  BY <1>1
<1>3. Len(q) + 1 \in 1 .. Len(Append(q, p)) /\ 1 .. Len(q) \subseteq 1 .. Len(Append(q, p))
  BY <1>1
<1> QED
  BY <1>2, <1>3 DEF Holds, Ends

LEMMA HeldAfterTail ==
  ASSUME NEW q \in Seq(PacketType), q # << >>, NEW a, Holds(q, a)
  PROVE  a = Head(q).addr \/ Holds(Tail(q), a)
<1>1. PICK i \in 1 .. Len(q) : q[i].addr = a
  BY DEF Holds, Ends
<1>2. Len(q) \in Nat /\ Head(q) = q[1]
  BY LenProperties
<1>3. /\ Len(Tail(q)) = Len(q) - 1
      /\ \A j \in 1 .. Len(Tail(q)) : Tail(q)[j] = q[j + 1]
  BY HeadTailProperties
<1>4. CASE i # 1
  <2>1. i - 1 \in 1 .. Len(Tail(q)) /\ (i - 1) + 1 = i
    BY <1>1, <1>2, <1>3, <1>4
  <2> QED
    BY <1>1, <1>3, <2>1 DEF Holds, Ends
<1> QED
  BY <1>1, <1>2, <1>4

LEMMA HeldAfterWq ==
  ASSUME NEW d, wq[d] \in Seq(PacketType), NEW p \in PacketType
  PROVE  /\ Holds(WqAfter(d, p), p.addr)
         /\ \A a : Holds(wq[d], a) => Holds(WqAfter(d, p), a)
<1>1. CASE Forwards(d, p)
  BY <1>1 DEF WqAfter, Forwards, Matches, Holds
<1>2. CASE ~Forwards(d, p)
  BY <1>2, HeldAfterAppend DEF WqAfter
<1> QED
  BY <1>1, <1>2

\* The block of the victim is queued below if it was dirty.
LEMMA HeldAfterWriteback ==
  ASSUME CacheInv, CleanTLBs(wq, line), NEW c \in Cache, NEW w \in 1..NUM_WAY[c]
  PROVE  /\ \A d \in Lower : \A a : Holds(wq[d], a) => Holds(AfterWriteback(c, w)[d], a)
         /\ line[c][w].dirty =>
              \E d \in Lower : d # c /\ Holds(AfterWriteback(c, w)[d], line[c][w].addr)
         /\ c \in TLB => AfterWriteback(c, w) = wq
         /\ \A d \in Cache \cap TLB : AfterWriteback(c, w)[d] = wq[d]
<1>1. Bounded(wq, WQ_SIZE)
  BY Parts
<1>2. c \in TLB => ~line[c][w].dirty
  BY DEF CleanTLBs
<1>3. CASE ~WritesBack(c, w)
  <2>1. AfterWriteback(c, w) = wq /\ ~line[c][w].dirty
    BY <1>2, <1>3 DEF AfterWriteback, WritesBack, HasLower, TLB
  <2> QED
    BY <2>1
<1>4. CASE WritesBack(c, w)
  <2> DEFINE d == Below[c]
             p == Packet("none", line[c][w].addr, 0, "WRITEBACK", 2 * Level(c), {})
  <2>1. /\ d \in Place /\ d # c /\ d \notin CoreCache /\ line[c][w].dirty /\ c \notin TLB
        /\ d \notin TLB /\ d \in Lower
    BY <1>2, <1>4, Wiring DEF WritesBack, HasLower, Lower, Place
  <2>2. line[c][w].addr \in Block /\ 2 * Level(c) \in {1, 2, 4, 8}
    BY <1>4, Wiring DEF CacheInv, LinesFit, WritesBack
  <2>3. p \in PacketType /\ p.addr = line[c][w].addr
    <3> DEFINE b == line[c][w].addr
               l == 2 * Level(c)
    <3>1. b \in Block /\ l \in {1, 2, 4, 8} /\ 0 \in Word
      BY <2>2, CacheAssumption
    <3> HIDE DEF b, l
    <3>2. /\ Packet("none", b, 0, "WRITEBACK", l, {}) \in PacketType
          /\ Packet("none", b, 0, "WRITEBACK", l, {}).addr = b
      BY <3>1, PacketMade
    <3> QED
      BY <3>2 DEF b, l
  <2>4. AfterWriteback(c, w) = [wq EXCEPT ![d] = WqAfter(d, p)]
    BY <1>4 DEF AfterWriteback
  <2> HIDE DEF p, d
  <2>5. wq[d] \in Seq(PacketType) /\ DOMAIN wq = Place
    BY <1>1, <2>1 DEF Bounded
  <2>6. /\ Holds(WqAfter(d, p), p.addr)
        /\ \A a : Holds(wq[d], a) => Holds(WqAfter(d, p), a)
    BY <2>3, <2>5, HeldAfterWq
  <2>7. AfterWriteback(c, w)[d] = WqAfter(d, p) /\ \A b \in Place : b # d => AfterWriteback(c, w)[b] = wq[b]
    BY <2>1, <2>4, <2>5
  <2>8. Lower \subseteq Place
    BY DEF Lower, Place
  <2> QED
    BY <2>1, <2>3, <2>6, <2>7, <2>8, Wiring
<1> QED
  BY <1>3, <1>4

\* A way is taken for another block.
LEMMA NothingLostByFill ==
  ASSUME CacheInv, CleanTLBs(wq, line), NEW c \in Cache, NEW w \in 1..NUM_WAY[c],
         NEW e \in LineType, e.dirty => c \notin TLB /\ e.addr \in Block, NEW k, k = Written(c, w, e)
  PROVE  /\ NothingLost(wq, line, AfterWriteback(c, w), k) /\ CleanTLBs(AfterWriteback(c, w), k)
         /\ e.dirty => DirtyIn(k, e.addr)
<1> DEFINE r == AfterWriteback(c, w)
<1>1. /\ \A d \in Lower : \A a : Holds(wq[d], a) => Holds(r[d], a)
      /\ line[c][w].dirty => \E d \in Lower : d # c /\ Holds(r[d], line[c][w].addr)
      /\ \A d \in Cache \cap TLB : r[d] = wq[d]
  BY HeldAfterWriteback
<1> HIDE DEF r
<1>2. /\ \A d \in Cache : d # c => k[d] = line[d]
      /\ \A v \in 1..NUM_WAY[c] : k[c][v] = IF v = w THEN e ELSE line[c][v]
  BY Parts, Rewritten
<1>3. ASSUME NEW a, DirtyIn(line, a)
      PROVE  DirtyIn(k, a) \/ QueuedIn(r, a)
  <2>1. PICK d \in Cache : \E v \in 1..NUM_WAY[d] : line[d][v].dirty /\ line[d][v].addr = a
    BY <1>3 DEF DirtyIn
  <2>2. PICK v \in 1..NUM_WAY[d] : line[d][v].dirty /\ line[d][v].addr = a
    BY <2>1
  <2>3. CASE d = c /\ v = w
    BY <1>1, <2>2, <2>3 DEF QueuedIn
  <2>4. CASE ~(d = c /\ v = w)
    <3>1. k[d][v] = line[d][v]
      BY <1>2, <2>4
    <3> QED
      BY <2>2, <3>1 DEF DirtyIn
  <2> QED
    BY <2>3, <2>4
<1>4. ASSUME NEW a, QueuedIn(wq, a)
      PROVE  QueuedIn(r, a)
  BY <1>1, <1>4 DEF QueuedIn
<1>5. CleanTLBs(r, k)
  BY <1>1, <1>2 DEF CleanTLBs
<1>6. e.dirty => DirtyIn(k, e.addr)
  BY <1>2 DEF DirtyIn
<1> QED
  BY <1>3, <1>4, <1>5, <1>6 DEF NothingLost, r

\* A step that loses nothing and marks only what is dirty keeps the invariant.
LEMMA DirtyKeeps ==
  ASSUME DirtyInv, NothingLost(wq, line, wq', line'), CleanTLBs(wq', line'),
         \A a \in modified' : a \in modified \/ DirtyIn(line', a) \/ QueuedIn(wq', a)
  PROVE  DirtyInv'
<1>1. \A a \in modified : DirtyIn(line, a) \/ QueuedIn(wq, a)
  BY DirtyCopies DEF DirtyInv, DirtyNeverDropped
<1>2. \A a \in modified' : DirtyIn(line', a) \/ QueuedIn(wq', a)
  BY <1>1 DEF NothingLost
<1>3. DirtyNeverDropped'
  BY <1>2, DirtyCopies
<1>4. CleanTLBs(wq, line)'
  BY CleanLater
<1> QED
  BY <1>3, <1>4 DEF DirtyInv

\* The WQ of the L1D holds stores that have made nothing dirty yet.
LEMMA StoresKeepDirty ==
  ASSUME DirtyInv, \A d \in Place \ {"L1D"} : wq'[d] = wq[d], UNCHANGED <<line, modified>>
  PROVE  DirtyInv'
<1>1. Lower \subseteq Place \ {"L1D"} /\ Cache \cap TLB \subseteq Place \ {"L1D"}
  BY Wiring DEF Lower, Place, TLB, Memory
<1>2. \A a : QueuedIn(wq, a) => QueuedIn(wq', a)
  BY <1>1 DEF QueuedIn
<1>3. NothingLost(wq, line, wq', line')
  BY <1>2 DEF NothingLost
<1>4. CleanTLBs(wq', line')
  BY <1>1 DEF DirtyInv, CleanTLBs
<1> QED
  BY <1>3, <1>4, DirtyKeeps

LEMMA FillKeepsDirty ==
  ASSUME CacheInv, DirtyInv, NEW c \in Cache, HandleFill(c)
  PROVE  DirtyInv'
<1>1. PICK e \in mshr[c], w \in Victims(c) :
        /\ wq' = AfterWriteback(c, w)
        /\ FillCache(c, w, e.addr, c = "L1D" /\ e.type = "RFO")
        /\ modified' = IF c = "L1D" /\ e.type = "RFO" THEN modified \cup {e.addr} ELSE modified
  BY DEF HandleFill
<1> DEFINE f == [addr |-> e.addr, valid |-> TRUE, dirty |-> (c = "L1D" /\ e.type = "RFO")]
<1>2. w \in 1..NUM_WAY[c] /\ e.addr \in Block
  BY Parts, VictimIsAWay DEF MissesFit, PacketType
<1>3. /\ f \in LineType /\ f.addr = e.addr /\ (f.dirty => c \notin TLB /\ f.addr \in Block)
      /\ f.dirty = (c = "L1D" /\ e.type = "RFO")
  BY <1>2 DEF LineType, TLB
<1>4. line' = Written(c, w, f)
  BY <1>1 DEF FillCache, Written
<1> HIDE DEF f
<1>5. /\ NothingLost(wq, line, wq', line') /\ CleanTLBs(wq', line')
      /\ f.dirty => DirtyIn(line', f.addr)
  <2>1. CleanTLBs(wq, line)
    BY DEF DirtyInv
  <2> QED
    BY <1>1, <1>2, <1>3, <1>4, <2>1, NothingLostByFill
<1>6. \A a \in modified' : a \in modified \/ DirtyIn(line', a)
  BY <1>1, <1>3, <1>5
<1> QED
  BY <1>5, <1>6, DirtyKeeps

LEMMA WriteHitKeepsDirty ==
  ASSUME CacheInv, DirtyInv, NEW c \in Cache, WriteHit(c)
  PROVE  DirtyInv'
<1> DEFINE p == Head(wq[c])
           w == HitWay(c, p.addr)
           e == [line[c][w] EXCEPT !.dirty = TRUE]
<1>1. /\ wq[c] # << >> /\ Filled(c, p.addr)
      /\ line' = [line EXCEPT ![c] = [@ EXCEPT ![w].dirty = TRUE]]
      /\ modified' = IF c = "L1D" THEN modified \cup {p.addr} ELSE modified
      /\ wq' = [wq EXCEPT ![c] = Tail(@)]
  BY DEF WriteHit
<1>2. p \in PacketType /\ wq[c] \in Seq(PacketType) /\ DOMAIN wq = Place /\ c \in Place /\ c \notin TLB
  BY <1>1, HeadOfWrite, Parts, Wiring DEF Bounded, DirtyInv, CleanTLBs
<1>3. w \in 1..NUM_WAY[c] /\ line[c][w].addr = p.addr /\ p.addr \in Block
  BY <1>1, <1>2, HitIsAWay DEF PacketType
<1>4. line[c][w] \in LineType
  BY <1>3, Parts DEF LinesFit
<1>5. e \in LineType /\ e.addr = line[c][w].addr /\ e.dirty
  BY <1>4 DEF LineType
<1>6. line' = Written(c, w, e)
  BY <1>1 DEF Written
<1>7. \A a : Holds(wq[c], a) => a = p.addr \/ Holds(wq'[c], a)
  BY <1>1, <1>2, HeldAfterTail
<1> HIDE DEF p, w, e
<1>8. /\ \A d \in Cache : d # c => line'[d] = line[d]
      /\ \A v \in 1..NUM_WAY[c] : line'[c][v] = IF v = w THEN e ELSE line[c][v]
  BY <1>3, <1>5, <1>6, Parts, Rewritten
<1>9. DirtyIn(line', p.addr)
  BY <1>3, <1>5, <1>8 DEF DirtyIn
<1>10. ASSUME NEW a, DirtyIn(line, a)
       PROVE  DirtyIn(line', a)
  <2>1. PICK d \in Cache : \E v \in 1..NUM_WAY[d] : line[d][v].dirty /\ line[d][v].addr = a
    BY <1>10 DEF DirtyIn
  <2>2. PICK v \in 1..NUM_WAY[d] : line[d][v].dirty /\ line[d][v].addr = a
    BY <2>1
  <2>3. line'[d][v].dirty /\ line'[d][v].addr = a
    BY <1>5, <1>8, <2>2
  <2> QED
    BY <2>3 DEF DirtyIn
<1>11. ASSUME NEW a, QueuedIn(wq, a)
       PROVE  QueuedIn(wq', a) \/ a = p.addr
  <2>1. PICK d \in Lower : Holds(wq[d], a)
    BY <1>11 DEF QueuedIn
  <2>2. CASE d = c
    BY <1>7, <2>1, <2>2 DEF QueuedIn
  <2>3. CASE d # c
    BY <1>1, <1>2, <2>1, <2>3 DEF QueuedIn
  <2> QED
    BY <2>2, <2>3
<1>12. NothingLost(wq, line, wq', line')
  BY <1>9, <1>10, <1>11 DEF NothingLost
<1>13. CleanTLBs(wq', line')
  BY <1>1, <1>2, <1>8, Wiring DEF DirtyInv, CleanTLBs
<1>14. \A a \in modified' : a \in modified \/ DirtyIn(line', a)
  BY <1>1, <1>9
<1> QED
  BY <1>12, <1>13, <1>14, DirtyKeeps

LEMMA AllocateKeepsDirty ==
  ASSUME CacheInv, DirtyInv, NEW c \in Cache, c # "L1D", WriteAllocate(c)
  PROVE  DirtyInv'
<1> DEFINE p == Head(wq[c])
           f == [addr |-> p.addr, valid |-> TRUE, dirty |-> TRUE]
<1>1. PICK w \in Victims(c) :
        /\ wq[c] # << >> /\ MayReplace(c, w)
        /\ wq' = [AfterWriteback(c, w) EXCEPT ![c] = Tail(@)]
        /\ FillCache(c, w, p.addr, TRUE)
        /\ modified' = modified
  BY DEF WriteAllocate
<1>2. /\ p \in PacketType /\ wq[c] \in Seq(PacketType) /\ c \in Place /\ c \notin TLB
      /\ w \in 1..NUM_WAY[c]
  BY <1>1, HeadOfWrite, Parts, Wiring, VictimIsAWay DEF Bounded, DirtyInv, CleanTLBs
<1>3. f \in LineType /\ f.addr = p.addr /\ f.addr \in Block /\ f.dirty
  BY <1>2 DEF LineType, PacketType
<1>4. line' = Written(c, w, f)
  BY <1>1 DEF FillCache, Written
<1> DEFINE q == AfterWriteback(c, w)
<1>5. Bounded(q, WQ_SIZE) /\ q[c] = wq[c]
  BY <1>1, <1>2, AfterWritebackFits
<1>6. wq' = [q EXCEPT ![c] = Tail(@)] /\ DOMAIN q = Place
  BY <1>1, <1>5 DEF Bounded
<1>7. \A a : Holds(q[c], a) => a = p.addr \/ Holds(wq'[c], a)
  BY <1>1, <1>2, <1>5, <1>6, HeldAfterTail
<1> HIDE DEF f, p
<1>8. NothingLost(wq, line, q, line') /\ CleanTLBs(q, line') /\ DirtyIn(line', f.addr)
  <2>1. CleanTLBs(wq, line)
    BY DEF DirtyInv
  <2> QED
    BY <1>2, <1>3, <1>4, <2>1, NothingLostByFill
<1> HIDE DEF q
<1>9. ASSUME NEW a, QueuedIn(q, a)
      PROVE  QueuedIn(wq', a) \/ DirtyIn(line', a)
  <2>1. PICK d \in Lower : Holds(q[d], a)
    BY <1>9 DEF QueuedIn
  <2>2. CASE d = c
    BY <1>3, <1>7, <1>8, <2>1, <2>2 DEF QueuedIn
  <2>3. CASE d # c
    BY <1>6, <2>1, <2>3 DEF QueuedIn
  <2> QED
    BY <2>2, <2>3
<1>10. NothingLost(wq, line, wq', line')
  BY <1>8, <1>9 DEF NothingLost
<1>11. CleanTLBs(wq', line')
  BY <1>2, <1>6, <1>8, Wiring DEF CleanTLBs
<1> QED
  BY <1>1, <1>10, <1>11, DirtyKeeps

\* What memory takes from its queue is not modified any more, unless it is dirty elsewhere.
LEMMA HeldAfterWithout ==
  ASSUME NEW q \in Seq(PacketType), NEW i \in 1 .. Len(q), NEW a, Holds(q, a), a # q[i].addr
  PROVE  Holds(Without(q, i), a)
<1>1. PICK j \in 1 .. Len(q) : q[j].addr = a
  BY DEF Holds, Ends
<1>2. j # i /\ Len(q) \in Nat /\ \A k \in 1 .. Len(q) : q[k] \in PacketType
  BY <1>1, LenProperties, ElementOfSeq
<1> DEFINE s == SubSeq(q, 1, i - 1)
           t == SubSeq(q, i + 1, Len(q))
<1>3. /\ s \in Seq(PacketType) /\ Len(s) = i - 1 /\ \A k \in 1 .. i - 1 : s[k] = q[k]
  <2>1. \A k \in 1 .. i - 1 : q[k] \in PacketType
    BY <1>2
  <2>2. (i - 1) - 1 + 1 = i - 1 /\ \A k \in 1 .. i - 1 : 1 + k - 1 = k
    OBVIOUS
  <2> QED
    BY <1>2, <2>1, <2>2, SubSeqProperties
<1>4. /\ t \in Seq(PacketType) /\ Len(t) = Len(q) - i
      /\ \A k \in 1 .. Len(q) - i : t[k] = q[i + k]
  <2>1. \A k \in i + 1 .. Len(q) : q[k] \in PacketType
    BY <1>2
  <2>2. \A k \in 1 .. Len(q) - i : (i + 1) + k - 1 = i + k
    BY <1>2
  <2> QED
    BY <1>2, <2>1, <2>2, SubSeqProperties
<1>5. Without(q, i) = s \o t
  BY DEF Without
<1> HIDE DEF s, t
<1>6. /\ Len(s \o t) = Len(q) - 1
      /\ \A k \in 1 .. Len(q) - 1 : (s \o t)[k] = IF k <= i - 1 THEN s[k] ELSE t[k - (i - 1)]
  <2>1. Len(s) + Len(t) = Len(q) - 1 /\ Len(s) = i - 1
    BY <1>2, <1>3, <1>4
  <2>2. /\ Len(s \o t) = Len(s) + Len(t)
        /\ \A k \in 1 .. Len(s) + Len(t) : (s \o t)[k] = IF k <= Len(s) THEN s[k] ELSE t[k - Len(s)]
    BY <1>3, <1>4, ConcatProperties
  <2> QED
    BY <2>1, <2>2
<1>7. CASE j < i
  <2>1. j \in 1 .. Len(q) - 1 /\ j <= i - 1 /\ j \in 1 .. i - 1
    BY <1>1, <1>2, <1>7
  <2>2. (s \o t)[j] = q[j]
    BY <1>3, <1>6, <2>1
  <2> QED
    BY <1>1, <1>5, <1>6, <2>1, <2>2 DEF Holds, Ends
<1>8. CASE j > i
  <2>1. j - 1 \in 1 .. Len(q) - 1 /\ ~(j - 1 <= i - 1) /\ (j - 1) - (i - 1) = j - i
    BY <1>1, <1>2, <1>8
  <2>2. j - i \in 1 .. Len(q) - i /\ i + (j - i) = j
    BY <1>1, <1>2, <1>8
  <2>3. (s \o t)[j - 1] = q[j]
    BY <1>4, <1>6, <2>1, <2>2
  <2> QED
    BY <1>1, <1>5, <1>6, <2>1, <2>3 DEF Holds, Ends
<1> QED
  BY <1>1, <1>2, <1>7, <1>8

LEMMA MemoryWritesKeepsDirty ==
  ASSUME CacheInv, DirtyInv, MemoryWrites
  PROVE  DirtyInv'
<1>1. PICK i \in Ends(wq[Memory]) :
        /\ wq' = [wq EXCEPT ![Memory] = Without(@, i)] /\ line' = line
        /\ modified' = {a \in modified : a # wq[Memory][i].addr \/ DirtyCopy(a)'}
  BY DEF MemoryWrites
<1>2. /\ wq[Memory] \in Seq(PacketType) /\ DOMAIN wq = Place /\ Memory \in Place /\ Memory \notin Cache
      /\ i \in 1 .. Len(wq[Memory])
  BY Parts, Wiring DEF Bounded, Ends
<1>3. /\ wq'[Memory] = Without(wq[Memory], i)
      /\ \A d \in Place : d # Memory => wq'[d] = wq[d]
  BY <1>1, <1>2
<1>4. ASSUME NEW a \in modified', a # wq[Memory][i].addr
      PROVE  DirtyIn(line', a) \/ QueuedIn(wq', a)
  <2>1. DirtyIn(line, a) \/ QueuedIn(wq, a)
    BY <1>1, DirtyCopies DEF DirtyInv, DirtyNeverDropped
  <2>2. ASSUME NEW d \in Lower, Holds(wq[d], a)
        PROVE  Holds(wq'[d], a)
    <3>1. CASE d = Memory
      BY <1>2, <1>3, <1>4, <2>2, <3>1, HeldAfterWithout
    <3>2. CASE d # Memory
      BY <1>3, <2>2, <3>2 DEF Lower, Place
    <3> QED
      BY <3>1, <3>2
  <2> QED
    BY <1>1, <2>1, <2>2 DEF QueuedIn
<1>5. ASSUME NEW a \in modified', a = wq[Memory][i].addr
      PROVE  DirtyIn(line', a) \/ QueuedIn(wq', a)
  <2>1. DirtyCopy(a)'
    BY <1>1, <1>5
  <2> QED
    BY <2>1 DEF DirtyCopy, DirtyIn, QueuedIn, Lower, Holds, Ends
<1>6. DirtyNeverDropped'
  BY <1>4, <1>5, DirtyCopies
<1>7. CleanTLBs(wq', line')
  BY <1>1, <1>2, <1>3, Wiring DEF DirtyInv, CleanTLBs
<1> QED
  BY <1>6, <1>7, CleanLater DEF DirtyInv

\* A line that is invalidated stays dirty, so that its eviction writes it back.
LEMMA SwapKeepsDirty ==
  ASSUME CacheInv, DirtyInv, NEW a \in Block, SwapOut(a)
  PROVE  DirtyInv'
<1>1. /\ line' = [c \in Cache |->
           IF Filled(c, a) THEN [line[c] EXCEPT ![HitWay(c, a)].valid = FALSE] ELSE line[c]]
      /\ UNCHANGED <<wq, modified>>
  BY DEF SwapOut, queues
<1>2. ASSUME NEW c \in Cache, NEW v \in 1..NUM_WAY[c]
      PROVE  line'[c][v].addr = line[c][v].addr /\ line'[c][v].dirty = line[c][v].dirty
  <2>1. line[c] \in [1..NUM_WAY[c] -> LineType]
    BY Parts DEF LinesFit
  <2>2. CASE ~Filled(c, a)
    BY <1>1, <2>2
  <2>3. CASE Filled(c, a)
    <3> DEFINE w == HitWay(c, a)
               e == [line[c][w] EXCEPT !.valid = FALSE]
    <3>1. w \in 1..NUM_WAY[c]
      BY <2>3, HitIsAWay
    <3>2. e.addr = line[c][w].addr /\ e.dirty = line[c][w].dirty
      BY <2>1, <3>1 DEF LineType
    <3>3. line'[c] = [line[c] EXCEPT ![w] = e]
      BY <1>1, <2>3
    <3> HIDE DEF w, e
    <3>4. line'[c][v] = IF v = w THEN e ELSE line[c][v]
      BY <2>1, <3>1, <3>3
    <3> QED
      BY <3>2, <3>4
  <2> QED
    BY <2>2, <2>3
<1>3. \A b : DirtyIn(line, b) => DirtyIn(line', b)
  BY <1>2 DEF DirtyIn
<1>4. NothingLost(wq, line, wq', line')
  BY <1>1, <1>3 DEF NothingLost
<1>5. CleanTLBs(wq', line')
  BY <1>1, <1>2 DEF DirtyInv, CleanTLBs
<1> QED
  BY <1>1, <1>4, <1>5, DirtyKeeps

LEMMA StepKeepsDirty == CacheInv /\ DirtyInv /\ [Next]_vars => DirtyInv'
<1> SUFFICES ASSUME CacheInv, DirtyInv, [Next]_vars PROVE DirtyInv'
  OBVIOUS
<1>1. ASSUME UNCHANGED <<wq, line, modified>>
      PROVE  DirtyInv'
  BY <1>1, StoresKeepDirty
<1>2. CASE Core
  <2>1. ASSUME NEW a \in Block, NEW w \in Word, CoreWrite(a, w)
        PROVE  DirtyInv'
    <3>1. \A d \in Place \ {"L1D"} : wq'[d] = wq[d]
      BY <2>1, Parts DEF CoreWrite, Bounded
    <3> QED
      BY <2>1, <3>1, StoresKeepDirty DEF CoreWrite
  <2>2. ASSUME NEW c \in CoreCache, TakeProcessed(c)
        PROVE  DirtyInv'
    BY <1>1, <2>2 DEF TakeProcessed, queues
  <2>3. ASSUME NEW c \in CoreCache, NEW r \in Request, NEW a \in Block, NEW w \in Word,
               NEW t \in {"LOAD", "RFO"}, CoreRead(c, r, a, w, t)
        PROVE  DirtyInv'
    BY <1>1, <2>3 DEF CoreRead
  <2> QED
    BY <1>2, <2>1, <2>2, <2>3 DEF Core
<1>3. ASSUME NEW c \in Cache, NEW a \in Block, NEW l \in {1, 2, 4}, PrefetchLine(c, a, l)
      PROVE  DirtyInv'
  BY <1>1, <1>3 DEF PrefetchLine
<1>4. ASSUME NEW c \in Cache, operate(c)
      PROVE  DirtyInv'
  <2>1. CASE HandleFill(c)
    BY <2>1, FillKeepsDirty
  <2>2. CASE WriteHit(c)
    BY <2>2, WriteHitKeepsDirty
  <2>3. CASE StoreNewMiss \/ StoreMerge
    <3>1. \A d \in Place \ {"L1D"} : wq'[d] = wq[d]
      BY <2>3, Parts DEF StoreNewMiss, StoreMerge, Bounded
    <3> QED
      BY <2>3, <3>1, StoresKeepDirty DEF StoreNewMiss, StoreMerge
  <2>4. CASE c # "L1D" /\ WriteAllocate(c)
    BY <2>4, AllocateKeepsDirty
  <2>5. CASE HandleRead(c)
    BY <1>1, <2>5 DEF HandleRead, ReadHit, ReadNewMiss, ReadMerge
  <2>6. CASE HandlePrefetch(c)
    BY <1>1, <2>6 DEF HandlePrefetch, PrefetchHit, PrefetchNewMiss, PrefetchMerge
  <2> QED
    BY <1>4, <2>1, <2>2, <2>3, <2>4, <2>5, <2>6 DEF operate, HandleWriteback
<1>5. CASE BypassFill \/ MemoryReturns \/ UNCHANGED vars
  BY <1>1, <1>5 DEF BypassFill, MemoryReturns, vars, queues
<1>6. CASE MemoryWrites
  BY <1>6, MemoryWritesKeepsDirty
<1>7. ASSUME NEW a \in Block, SwapOut(a)
      PROVE  DirtyInv'
  BY <1>7, SwapKeepsDirty
<1> QED
  BY <1>2, <1>3, <1>4, <1>5, <1>6, <1>7 DEF Next

\* Whatever is evicted, allocated by a writeback, filled, bypassed or invalidated, a block
\* that was marked dirty is dirty somewhere or on its way down until memory has it.
THEOREM DirtyStaysSomewhere == Spec => []DirtyNeverDropped
<1>1. Init => DirtyInv
  BY DEF Init, DirtyInv, CleanTLBs, DirtyNeverDropped
<1>2. DirtyInv => DirtyNeverDropped
  BY DEF DirtyInv
<1> QED
  BY <1>1, <1>2, StepKeepsDirty, InvAlways, PTL DEF Spec
-----------------------------------------------------------------------------
(***************************************************************************)
(* The misses and the packets they wait for.  First, what the queues hold  *)
(* of the packets in a set G: some, and at most one.                       *)
(***************************************************************************)

Some(q, G) == \E i \in 1 .. Len(q) : q[i] \in G
OnlyOne(q, G) == \A i, j \in 1 .. Len(q) : q[i] \in G /\ q[j] \in G => i = j

LEMMA NoneInEmpty ==
  ASSUME NEW G
  PROVE  ~Some(<< >>, G) /\ OnlyOne(<< >>, G)
BY DEF Some, OnlyOne

\* The head leaves.
LEMMA SomeInTail ==
  ASSUME NEW S, NEW q \in Seq(S), q # << >>, NEW G, OnlyOne(q, G)
  PROVE  /\ Tail(q) \in Seq(S) /\ Head(q) \in S /\ OnlyOne(Tail(q), G)
         /\ Some(Tail(q), G) <=> Some(q, G) /\ Head(q) \notin G
<1>1. /\ Tail(q) \in Seq(S) /\ Head(q) \in S /\ Len(Tail(q)) = Len(q) - 1 /\ Head(q) = q[1]
      /\ Len(q) \in Nat /\ Len(q) > 0
      /\ \A i \in 1 .. Len(q) - 1 : Tail(q)[i] = q[i + 1]
  BY HeadTailProperties, LenProperties, EmptySeq
<1> DEFINE t == Tail(q)
           n == Len(q)
<1>2. \A i \in 1 .. n - 1 : t[i] = q[i + 1] /\ i + 1 \in 1 .. n
  BY <1>1
<1>3. \A j \in 1 .. n : j # 1 => j - 1 \in 1 .. n - 1 /\ t[j - 1] = q[j]
  BY <1>1
<1>4. Len(t) = n - 1 /\ 1 \in 1 .. n /\ Head(q) = q[1]
  BY <1>1
<1> HIDE DEF t, n
<1>5. OnlyOne(t, G)
  <2> SUFFICES ASSUME NEW i \in 1 .. n - 1, NEW j \in 1 .. n - 1, t[i] \in G, t[j] \in G
               PROVE  i = j
    BY <1>4 DEF OnlyOne
  <2>1. i + 1 = j + 1
    BY <1>2 DEF OnlyOne, n
  <2> QED
    BY <2>1
<1>6. Some(t, G) => Some(q, G)
  BY <1>2, <1>4 DEF Some, n
<1>7. ASSUME Some(t, G) PROVE Head(q) \notin G
  <2>1. PICK i \in 1 .. n - 1 : t[i] \in G
    BY <1>4, <1>7 DEF Some
  <2>2. q[i + 1] \in G /\ i + 1 \in 1 .. n /\ i + 1 # 1
    BY <1>2, <2>1
  <2> QED
    BY <1>4, <2>2 DEF OnlyOne, n
<1>8. ASSUME Some(q, G), Head(q) \notin G PROVE Some(t, G)
  <2>1. PICK j \in 1 .. n : q[j] \in G
    BY <1>8 DEF Some, n
  <2> QED
    BY <1>3, <1>4, <1>8, <2>1 DEF Some
<1> QED
  BY <1>1, <1>5, <1>6, <1>7, <1>8 DEF t

\* A packet comes to the end.
LEMMA SomeInAppend ==
  ASSUME NEW S, NEW q \in Seq(S), NEW p \in S, NEW G, OnlyOne(q, G), ~(Some(q, G) /\ p \in G)
  PROVE  /\ Append(q, p) \in Seq(S) /\ OnlyOne(Append(q, p), G)
         /\ Some(Append(q, p), G) <=> Some(q, G) \/ p \in G
<1> DEFINE t == Append(q, p)
           n == Len(q)
<1>1. /\ t \in Seq(S) /\ n \in Nat /\ Len(t) = n + 1 /\ t[n + 1] = p
      /\ \A i \in 1 .. n : t[i] = q[i]
  BY AppendProperties, LenProperties
<1> HIDE DEF t, n
<1>2. \A i \in 1 .. n + 1 : i = n + 1 \/ i \in 1 .. n
  BY <1>1
<1>3. n + 1 \in 1 .. n + 1 /\ \A i \in 1 .. n : i \in 1 .. n + 1
  BY <1>1
<1>4. Some(t, G) <=> Some(q, G) \/ p \in G
  BY <1>1, <1>2, <1>3 DEF Some, n
<1>5. OnlyOne(t, G)
  <2> SUFFICES ASSUME NEW i \in 1 .. n + 1, NEW j \in 1 .. n + 1, t[i] \in G, t[j] \in G
               PROVE  i = j
    BY <1>1 DEF OnlyOne
  <2>1. i \in 1 .. n /\ j \in 1 .. n => i = j
    BY <1>1 DEF OnlyOne, n
  <2>2. i \in 1 .. n \/ j \in 1 .. n => p \notin G
    BY <1>1 DEF Some, n
  <2> QED
    BY <1>1, <1>2, <2>1, <2>2
<1> QED
  BY <1>1, <1>4, <1>5 DEF t

\* A packet p is merged into an entry: the entry becomes f, which is in G if p or the
\* entry was.
LEMMA SomeInMerge ==
  ASSUME NEW S, NEW q \in Seq(S), NEW k \in 1 .. Len(q), NEW f \in S, NEW G, NEW p,
         f \in G <=> q[k] \in G \/ p \in G, OnlyOne(q, G), ~(Some(q, G) /\ p \in G)
  PROVE  /\ [q EXCEPT ![k] = f] \in Seq(S) /\ OnlyOne([q EXCEPT ![k] = f], G)
         /\ Some([q EXCEPT ![k] = f], G) <=> Some(q, G) \/ p \in G
<1> DEFINE t == [q EXCEPT ![k] = f]
           n == Len(q)
<1>1. /\ t \in Seq(S) /\ Len(t) = n /\ t[k] = f
      /\ \A i \in 1 .. n : i # k => t[i] = q[i]
  BY ExceptSeq
<1> HIDE DEF t, n
<1>2. p \in G => \A i \in 1 .. n : q[i] \notin G
  BY DEF Some, n
<1>3. k \in 1 .. n
  BY DEF n
<1>4. Some(t, G) <=> Some(q, G) \/ p \in G
  BY <1>1, <1>3 DEF Some, n
<1>5. OnlyOne(t, G)
  <2>1. CASE p \in G
    BY <1>1, <1>2, <1>3, <2>1 DEF OnlyOne
  <2>2. CASE p \notin G
    <3>1. \A i \in 1 .. n : t[i] \in G => q[i] \in G
      BY <1>1, <2>2
    <3> QED
      BY <1>1, <3>1 DEF OnlyOne, n
  <2> QED
    BY <2>1, <2>2
<1> QED
  BY <1>1, <1>4, <1>5 DEF t

\* Memory takes an entry out of the middle: the elements before it stay, the later move up.
LEMMA WithoutElements ==
  ASSUME NEW S, NEW q \in Seq(S), NEW k \in Ends(q)
  PROVE  /\ Len(q) \in Nat /\ k \in 1 .. Len(q)
         /\ Without(q, k) \in Seq(S) /\ Len(Without(q, k)) = Len(q) - 1
         /\ \A i \in 1 .. Len(q) - 1 : Without(q, k)[i] = IF i < k THEN q[i] ELSE q[i + 1]
<1> DEFINE t == Without(q, k)
           n == Len(q)
<1>1. n \in Nat /\ k \in 1 .. n
  BY LenProperties DEF Ends
<1>2. \A j \in 1 .. n : q[j] \in S
  BY ElementOfSeq
<1>3. /\ SubSeq(q, 1, k - 1) \in Seq(S) /\ Len(SubSeq(q, 1, k - 1)) = k - 1
      /\ \A i \in 1 .. k - 1 : SubSeq(q, 1, k - 1)[i] = q[i]
  BY <1>1, <1>2
<1>4. /\ SubSeq(q, k + 1, n) \in Seq(S) /\ Len(SubSeq(q, k + 1, n)) = n - k
      /\ \A i \in 1 .. n - k : SubSeq(q, k + 1, n)[i] = q[k + i]
  BY <1>1, <1>2
<1>5. /\ t \in Seq(S) /\ Len(t) = n - 1
      /\ \A i \in 1 .. n - 1 : t[i] = IF i < k THEN q[i] ELSE q[i + 1]
  <2> DEFINE s == SubSeq(q, 1, k - 1)
             u == SubSeq(q, k + 1, n)
  <2>1. t = s \o u
    BY DEF Without
  <2>2. s \in Seq(S) /\ u \in Seq(S) /\ Len(s) = k - 1 /\ Len(u) = n - k
    BY <1>3, <1>4
  <2>3. /\ t \in Seq(S) /\ Len(t) = (k - 1) + (n - k)
        /\ \A i \in 1 .. (k - 1) + (n - k) : t[i] = IF i <= k - 1 THEN s[i] ELSE u[i - (k - 1)]
    <3> HIDE DEF s, u, t, n
    <3> QED
      BY <2>1, <2>2, ConcatProperties
  <2>4. ASSUME NEW i \in 1 .. n - 1
        PROVE  t[i] = IF i < k THEN q[i] ELSE q[i + 1]
    <3>1. CASE i < k
      BY <1>1, <1>3, <2>3, <2>4, <3>1
    <3>2. CASE ~(i < k)
      <4>1. i - (k - 1) \in 1 .. n - k /\ k + (i - (k - 1)) = i + 1
        BY <1>1, <3>2
      <4>2. t[i] = u[i - (k - 1)]
        BY <1>1, <2>3, <3>2
      <4> QED
        BY <1>4, <3>2, <4>1, <4>2
    <3> QED
      BY <3>1, <3>2
  <2> HIDE DEF s, u, t, n
  <2> QED
    BY <1>1, <2>3, <2>4
<1> HIDE DEF t
<1> QED
  BY <1>1, <1>5 DEF t, n

LEMMA SomeInWithout ==
  ASSUME NEW S, NEW q \in Seq(S), NEW k \in Ends(q), NEW G, OnlyOne(q, G)
  PROVE  /\ Without(q, k) \in Seq(S) /\ OnlyOne(Without(q, k), G)
         /\ Some(Without(q, k), G) <=> Some(q, G) /\ q[k] \notin G
<1> DEFINE t == Without(q, k)
           n == Len(q)
<1>1. n \in Nat /\ k \in 1 .. n
  BY WithoutElements
<1>2. \A j \in 1 .. n : q[j] \in S
  BY ElementOfSeq
<1>5. /\ t \in Seq(S) /\ Len(t) = n - 1
      /\ \A i \in 1 .. n - 1 : t[i] = IF i < k THEN q[i] ELSE q[i + 1]
  BY WithoutElements
<1> HIDE DEF t, n
<1>6. \A i \in 1 .. n - 1 : i \in 1 .. n /\ i + 1 \in 1 .. n
  BY <1>1
<1>7. OnlyOne(t, G)
  <2> SUFFICES ASSUME NEW i \in 1 .. n - 1, NEW j \in 1 .. n - 1, t[i] \in G, t[j] \in G
               PROVE  i = j
    BY <1>5 DEF OnlyOne
  <2> DEFINE x == IF i < k THEN i ELSE i + 1
             y == IF j < k THEN j ELSE j + 1
  <2>1. x \in 1 .. n /\ y \in 1 .. n /\ q[x] \in G /\ q[y] \in G
    BY <1>5, <1>6
  <2>2. x = y
    BY <2>1 DEF OnlyOne, n
  <2> QED
    BY <1>1, <2>2
<1>8. ASSUME Some(t, G) PROVE Some(q, G) /\ q[k] \notin G
  <2>1. PICK i \in 1 .. n - 1 : t[i] \in G
    BY <1>5, <1>8 DEF Some
  <2> DEFINE x == IF i < k THEN i ELSE i + 1
  <2>2. x \in 1 .. n /\ q[x] \in G
    BY <1>5, <1>6, <2>1
  <2>3. x # k
    BY <1>1
  <2> QED
    BY <1>1, <2>2, <2>3 DEF Some, OnlyOne, n
<1>9. ASSUME Some(q, G), q[k] \notin G PROVE Some(t, G)
  <2>1. PICK j \in 1 .. n : q[j] \in G /\ j # k
    BY <1>9 DEF Some, n
  <2>2. CASE j < k
    <3>1. j \in 1 .. n - 1 /\ t[j] = q[j]
      BY <1>1, <1>5, <2>2
    <3> QED
      BY <1>5, <2>1, <3>1 DEF Some
  <2>3. CASE ~(j < k)
    <3>1. j - 1 \in 1 .. n - 1 /\ ~(j - 1 < k) /\ (j - 1) + 1 = j
      BY <1>1, <2>1, <2>3
    <3>2. t[j - 1] = q[j]
      BY <1>5, <3>1
    <3> QED
      BY <1>5, <2>1, <3>1, <3>2 DEF Some
  <2> QED
    BY <2>2, <2>3
<1> QED
  BY <1>5, <1>7, <1>8, <1>9 DEF t

\* add_rq and add_pq, when they neither forward nor refuse.
LEMMA SomeAfterRq ==
  ASSUME NEW S \in SUBSET PacketType, NEW q \in Seq(S), NEW d, NEW p \in S, NEW G,
         ~Forwards(d, p), Holds(q, p.addr) \/ Len(q) < RQ_SIZE[d], RQ_SIZE[d] \in Nat,
         \A e \in S : e.addr = p.addr =>
           Joined(e, p) \in S /\ (Joined(e, p) \in G <=> e \in G \/ p \in G),
         OnlyOne(q, G), ~(Some(q, G) /\ p \in G)
  PROVE  /\ RqAfter(d, q, p) \in Seq(S) /\ OnlyOne(RqAfter(d, q, p), G)
         /\ Some(RqAfter(d, q, p), G) <=> Some(q, G) \/ p \in G
<1>1. CASE Holds(q, p.addr)
  <2> DEFINE i == Find(q, p.addr)
             f == Joined(q[i], p)
  <2>1. i \in 1 .. Len(q) /\ q[i].addr = p.addr
    BY <1>1 DEF Holds, Find, Ends
  <2>2. q[i] \in S
    BY <2>1, ElementOfSeq
  <2>3. RqAfter(d, q, p) = [q EXCEPT ![i] = f]
    BY <1>1 DEF RqAfter
  <2>4. f \in S /\ (f \in G <=> q[i] \in G \/ p \in G)
    BY <2>1, <2>2
  <2> HIDE DEF i, f
  <2>5. /\ [q EXCEPT ![i] = f] \in Seq(S) /\ OnlyOne([q EXCEPT ![i] = f], G)
        /\ Some([q EXCEPT ![i] = f], G) <=> Some(q, G) \/ p \in G
    <3>1. f \in S /\ (f \in G <=> q[i] \in G \/ p \in G) /\ i \in 1 .. Len(q)
      BY <2>1, <2>4
    <3> QED
      BY <3>1, SomeInMerge
  <2> QED
    BY <2>3, <2>5
<1>2. CASE ~Holds(q, p.addr)
  <2>1. Len(q) \in Nat
    BY LenProperties
  <2>2. RqAfter(d, q, p) = Append(q, p)
    BY <1>2, <2>1 DEF RqAfter
  <2> QED
    BY <2>2, SomeInAppend
<1> QED
  BY <1>1, <1>2

LEMMA SomeAfterPq ==
  ASSUME NEW S \in SUBSET PacketType, NEW q \in Seq(S), NEW d, NEW p \in S, NEW G,
         ~Forwards(d, p), Len(q) < PQ_SIZE[d], PQ_SIZE[d] \in Nat,
         \A e \in S : e.addr = p.addr =>
           MergedPrefetch(e, p) \in S /\ (MergedPrefetch(e, p) \in G <=> e \in G \/ p \in G),
         OnlyOne(q, G), ~(Some(q, G) /\ p \in G)
  PROVE  /\ PqAfter(d, q, p) \in Seq(S) /\ OnlyOne(PqAfter(d, q, p), G)
         /\ Some(PqAfter(d, q, p), G) <=> Some(q, G) \/ p \in G
<1>1. CASE Holds(q, p.addr)
  <2> DEFINE i == Find(q, p.addr)
             f == MergedPrefetch(q[i], p)
  <2>1. i \in 1 .. Len(q) /\ q[i].addr = p.addr
    BY <1>1 DEF Holds, Find, Ends
  <2>2. q[i] \in S
    BY <2>1, ElementOfSeq
  <2>3. PqAfter(d, q, p) = [q EXCEPT ![i] = f]
    BY <1>1 DEF PqAfter
  <2>4. f \in S /\ (f \in G <=> q[i] \in G \/ p \in G)
    BY <2>1, <2>2
  <2> HIDE DEF i, f
  <2>5. /\ [q EXCEPT ![i] = f] \in Seq(S) /\ OnlyOne([q EXCEPT ![i] = f], G)
        /\ Some([q EXCEPT ![i] = f], G) <=> Some(q, G) \/ p \in G
    <3>1. f \in S /\ (f \in G <=> q[i] \in G \/ p \in G) /\ i \in 1 .. Len(q)
      BY <2>1, <2>4
    <3> QED
      BY <3>1, SomeInMerge
  <2> QED
    BY <2>3, <2>5
<1>2. CASE ~Holds(q, p.addr)
  <2>1. Len(q) \in Nat
    BY LenProperties
  <2>2. PqAfter(d, q, p) = Append(q, p)
    BY <1>2, <2>1 DEF PqAfter
  <2> QED
    BY <2>2, SomeInAppend
<1> QED
  BY <1>1, <1>2

-----------------------------------------------------------------------------
(***************************************************************************)
(* The packets of each queue and MSHR: what they say of who asked, and     *)
(* that they ask for data for exactly the cache that sends them.           *)
(***************************************************************************)

\* The caches that call return_data of no page table.
Asking == {c \in Cache : HasLower(c)}

\* Who sets fill_l1i, and who fill_l1d, in a packet that comes to d.
InstrSource(d) == IF d \in TLB THEN "ITLB" ELSE "L1I"
DataSource(d) == IF d \in TLB THEN "DTLB" ELSE "L1D"

\* fill_l1i or fill_l1d is set exactly in what an L1 or first-level TLB is to be filled
\* with, and says of which kind the block is.
FlagsFit(d, p) ==
  /\ p.level \in {1, 2, 4}
  /\ p.level = 1 <=> p.l1i \/ p.l1d
  /\ p.l1i => /\ InstrSource(d) \in Cache /\ d \notin DataCache
              /\ d \notin TLB => p.addr \in CodeBlock
  /\ p.l1d => /\ DataSource(d) \in Cache /\ d \notin InstrCache
              /\ d \notin TLB => p.addr \in DataBlock

ReadOf(d) ==
  IF d = Memory
  THEN {p \in PacketType : p.level \in {1, 2, 4} /\ ("LLC" \notin Cache => p.level = 1)}
  ELSE {p \in PacketType : FlagsFit(d, p) /\ p.level = 1 /\ p.type \in {"LOAD", "RFO"}}
StoreOf(c) == {p \in ReadOf(c) : p.waiters = {}}
PrefetchOf(d) == {p \in PacketType : FlagsFit(d, p) /\ p.type = "PREFETCH" /\ p.waiters = {}}
MissOf(c) ==
  {p \in PacketType :
     /\ FlagsFit(c, p) /\ FillsHere(c, p) /\ p.type # "WRITEBACK"
     /\ p.type = "PREFETCH" => p.waiters = {} /\ c \notin TLB}

PacketsFit(r, w, p, m) ==
  /\ \A d \in Place : r[d] \in Seq(ReadOf(d)) /\ p[d] \in Seq(PrefetchOf(d))
  /\ "L1D" \in Cache => w["L1D"] \in Seq(StoreOf("L1D"))
  /\ \A c \in Cache : m[c] \subseteq MissOf(c)

\* No block is both fetched and read as data, unless the instance has TLBs alone.
CodeApartFromData == Cache \ TLB # {} => CodeBlock \cap DataBlock = {}

LEMMA PacketSets ==
  \A d : /\ ReadOf(d) \in SUBSET PacketType /\ StoreOf(d) \in SUBSET ReadOf(d)
         /\ PrefetchOf(d) \in SUBSET PacketType /\ MissOf(d) \in SUBSET PacketType
BY DEF ReadOf, StoreOf, PrefetchOf, MissOf

\* The names of the caches, and what is known of each.
LEMMA Names ==
  ASSUME NEW c \in Cache
  PROVE  /\ c \in {"ITLB", "DTLB", "STLB", "L1I", "L1D", "L2C", "LLC"}
         /\ c # Memory
BY CacheAssumption DEF TLB, Memory

LEMMA LowerNames ==
  ASSUME NEW c \in Asking
  PROVE  /\ c \in Cache /\ c # "STLB"
         /\ c \in {"ITLB", "DTLB"} => Below[c] = "STLB" /\ "STLB" \in Cache
         /\ c \in {"L1I", "L1D"} => Below[c] = "L2C" /\ "L2C" \in Cache
         /\ c = "L2C" /\ "LLC" \in Cache => Below[c] = "LLC"
         /\ c = "L2C" /\ "LLC" \notin Cache => Below[c] = Memory
         /\ c = "LLC" => Below[c] = Memory /\ "L2C" \in Cache
         /\ c \in {"ITLB", "DTLB", "L1I", "L1D", "L2C", "LLC"}
BY CacheAssumption DEF Asking, HasLower, Below, TLB, Memory

LEMMA MemoryReturnsTo ==
  \A p : ReturnsTo(Memory, p) = {c \in Asking : Below[c] = Memory /\ p.level <= Level(c)}
<1> SUFFICES ASSUME NEW p
             PROVE  ReturnsTo(Memory, p) = {c \in Asking : Below[c] = Memory /\ p.level <= Level(c)}
  OBVIOUS
<1>1. ReturnsTo(Memory, p) = {c \in Cache : HasLower(c) /\ Below[c] = Memory /\ p.level <= Level(c)}
  BY DEF ReturnsTo, Memory
<1> QED
  BY <1>1 DEF Asking

\* Whoever is returned something from d has d below it.
LEMMA ReturnsUp ==
  ASSUME NEW d \in Place,
         NEW p \in ReadOf(d) \cup PrefetchOf(d) \cup (IF d = Memory THEN {} ELSE MissOf(d))
  PROVE  \A c \in ReturnsTo(d, p) : c \in Asking /\ Below[c] = d
<1>1. CASE d = Memory
  BY <1>1, MemoryReturnsTo DEF Asking
<1>2. CASE d # Memory
  <2>1. d \in Cache /\ FlagsFit(d, p)
    BY <1>2 DEF Place, ReadOf, PrefetchOf, MissOf
  <2>2. CASE d = "LLC"
    BY <1>2, <2>1, <2>2, CacheAssumption DEF ReturnsTo, Asking, Below, HasLower, Memory
  <2>3. CASE d = "L2C"
    BY <1>2, <2>1, <2>3 DEF ReturnsTo, Asking, Below, HasLower, Memory, FlagsFit, TLB,
       UpperI, UpperD, InstrSource, DataSource
  <2>4. CASE d = "STLB"
    BY <1>2, <2>1, <2>4 DEF ReturnsTo, Asking, Below, HasLower, Memory, FlagsFit, TLB,
       UpperI, UpperD, InstrSource, DataSource
  <2>5. CASE d \notin {"LLC", "L2C", "STLB"}
    BY <1>2, <2>5 DEF ReturnsTo
  <2> QED
    BY <2>2, <2>3, <2>4, <2>5
<1> QED
  BY <1>1, <1>2

\* A read asks for data for the cache that sends it down.
LEMMA ReadReturns ==
  ASSUME NEW c \in Asking, NEW p \in ReadOf(c)
  PROVE  ReturnsTo(Below[c], p) = {c}
<1>1. c \in Cache /\ c # Memory /\ FlagsFit(c, p) /\ p.level = 1
  BY Names DEF Asking, ReadOf
<1>2. CASE c \in {"ITLB", "DTLB"}
  BY <1>1, <1>2, LowerNames DEF ReturnsTo, FlagsFit, UpperI, UpperD, InstrCache, DataCache, Memory
<1>3. CASE c \in {"L1I", "L1D"}
  BY <1>1, <1>3, LowerNames DEF ReturnsTo, FlagsFit, UpperI, UpperD, InstrCache, DataCache, Memory
<1>4. CASE c \in {"L2C", "LLC"}
  <2>1. CASE c = "L2C" /\ "LLC" \in Cache
    BY <1>1, <2>1, LowerNames DEF ReturnsTo, Memory
  <2>2. CASE c = "L2C" /\ "LLC" \notin Cache
    <3>1. \A b \in Asking : Below[b] = Memory => b = "L2C"
      BY <2>2, LowerNames DEF Memory
    <3>2. Below[c] = Memory /\ Level(c) = 2
      BY <2>2, LowerNames DEF Level
    <3>3. p.level <= Level(c)
      BY <1>1, <3>2
    <3> QED
      BY <2>2, <3>1, <3>2, <3>3, MemoryReturnsTo
  <2>3. CASE c = "LLC"
    <3>1. \A b \in Asking : Below[b] = Memory => b = "LLC"
      BY <1>1, <2>3, LowerNames DEF Memory
    <3>2. Below[c] = Memory /\ Level(c) = 4
      BY <2>3, LowerNames DEF Level
    <3>3. p.level <= Level(c)
      BY <1>1, <3>2
    <3> QED
      BY <2>3, <3>1, <3>2, <3>3, MemoryReturnsTo
  <2> QED
    BY <1>4, <2>1, <2>2, <2>3
<1> QED
  BY <1>2, <1>3, <1>4, LowerNames

\* A prefetch does if it is to be filled in that cache, and asks for none otherwise.
LEMMA PrefetchReturns ==
  ASSUME NEW c \in Cache \ TLB, NEW p \in PrefetchOf(c)
  PROVE  /\ ReturnsTo(Below[c], p) = IF FillsHere(c, p) THEN {c} ELSE {}
         /\ ~FillsHere(c, p) => ReturnsTo(c, p) = {}
<1>1. c \in Asking /\ c # Memory /\ FlagsFit(c, p) /\ c \in Cache
  BY Names DEF Asking, HasLower, PrefetchOf, TLB
<1>2. CASE c \in {"L1I", "L1D"}
  <2>1. Below[c] = "L2C" /\ (FillsHere(c, p) <=> p.level = 1)
    BY <1>1, <1>2, LowerNames DEF FillsHere, Level, FlagsFit
  <2> QED
    BY <1>1, <1>2, <2>1 DEF ReturnsTo, FlagsFit, UpperI, UpperD, InstrCache, DataCache, Memory
<1>3. CASE c = "L2C"
  <2>1. FillsHere(c, p) <=> p.level \in {1, 2}
    BY <1>1, <1>3 DEF FillsHere, Level, FlagsFit
  <2>2. ~FillsHere(c, p) => ReturnsTo(c, p) = {}
    BY <1>1, <1>3, <2>1 DEF ReturnsTo, FlagsFit, Memory
  <2>3. CASE "LLC" \in Cache
    BY <1>1, <1>3, <2>1, <2>2, <2>3, LowerNames DEF ReturnsTo, Memory, FlagsFit
  <2>4. CASE "LLC" \notin Cache
    <3>1. \A b \in Asking : Below[b] = Memory => b = "L2C"
      BY <2>4, LowerNames DEF Memory
    <3>2. Below[c] = Memory /\ Level(c) = 2
      BY <1>1, <1>3, <2>4, LowerNames DEF Level
    <3> QED
      BY <1>1, <1>3, <2>1, <2>2, <3>1, <3>2, MemoryReturnsTo DEF FillsHere
  <2> QED
    BY <2>3, <2>4
<1>4. CASE c = "LLC"
  <2>1. \A b \in Asking : Below[b] = Memory => b = "LLC"
    BY <1>1, <1>4, LowerNames DEF Memory
  <2>2. Below[c] = Memory /\ Level(c) = 4 /\ FillsHere(c, p)
    BY <1>1, <1>4, LowerNames DEF Level, FillsHere, FlagsFit
  <2> QED
    BY <1>1, <1>4, <2>1, <2>2, MemoryReturnsTo DEF FillsHere
<1> QED
  BY <1>1, <1>2, <1>3, <1>4, LowerNames DEF TLB

\* The core's own caches return nothing to another.
LEMMA CoreReturns ==
  ASSUME NEW c \in CoreCache, NEW p
  PROVE  ReturnsTo(c, p) = {}
<1>1. c \in {"ITLB", "L1I", "DTLB", "L1D"}
  BY DEF CoreCache, InstrCache, DataCache
<1> QED
  BY <1>1 DEF ReturnsTo, Memory

\* What the merges do to a level.
LEMMA LeastLevel ==
  ASSUME NEW m \in {1, 2, 4}, NEW n \in {1, 2, 4}
  PROVE  /\ Least(m, n) \in {1, 2, 4}
         /\ \A k \in {1, 2, 4} : Least(m, n) <= k <=> m <= k \/ n <= k
         /\ \A k \in {2, 4} : Least(m, n) < k <=> m < k \/ n < k
         /\ Least(m, n) = 1 <=> m = 1 \/ n = 1
BY DEF Least

\* A merge of a read asks for whoever asked before, and for whoever asks now.
LEMMA JoinedReturns ==
  ASSUME NEW d \in Place, NEW e \in ReadOf(d), NEW p \in ReadOf(d), e.addr = p.addr
  PROVE  /\ Joined(e, p) \in ReadOf(d) /\ Joined(e, p).addr = e.addr
         /\ Joined(e, p).waiters = e.waiters \cup p.waiters
         /\ ReturnsTo(d, Joined(e, p)) = ReturnsTo(d, e) \cup ReturnsTo(d, p)
<1> DEFINE f == Joined(e, p)
<1>1. /\ e \in PacketType /\ p \in PacketType /\ f \in PacketType
      /\ f.level = e.level /\ f.l1i = (e.l1i \/ p.l1i) /\ f.l1d = (e.l1d \/ p.l1d)
      /\ f.addr = e.addr /\ f.type = e.type /\ f.waiters = e.waiters \cup p.waiters
  <2>1. e \in PacketType /\ p \in PacketType
    BY PacketSets
  <2>2. f \in PacketType
    BY <2>1, Merging
  <2> QED
    BY <2>1, <2>2 DEF Joined, PacketType
<1> HIDE DEF f
<1>2. CASE d = Memory
  <2>1. f \in ReadOf(d)
    BY <1>1, <1>2 DEF ReadOf
  <2>2. CASE "LLC" \in Cache
    <3>1. \A b \in Asking : Below[b] = Memory => b = "LLC"
      BY <2>2, LowerNames DEF Memory
    <3>2. e.level \in {1, 2, 4} /\ p.level \in {1, 2, 4} /\ Level("LLC") = 4
      BY <1>2 DEF ReadOf, Level
    <3>3. ReturnsTo(d, e) = ReturnsTo(d, f) /\ ReturnsTo(d, p) \subseteq ReturnsTo(d, e)
      BY <1>1, <1>2, <3>1, <3>2, MemoryReturnsTo
    <3> QED
      BY <1>1, <2>1, <3>3 DEF f
  <2>3. CASE "LLC" \notin Cache
    <3>1. e.level = 1 /\ p.level = 1
      BY <1>2, <2>3 DEF ReadOf
    <3>2. ReturnsTo(d, e) = ReturnsTo(d, f) /\ ReturnsTo(d, p) = ReturnsTo(d, e)
      BY <1>1, <1>2, <3>1, MemoryReturnsTo
    <3> QED
      BY <1>1, <2>1, <3>2 DEF f
  <2> QED
    BY <2>2, <2>3
<1>3. CASE d # Memory
  <2>1. FlagsFit(d, e) /\ FlagsFit(d, p) /\ e.level = 1 /\ p.level = 1
    BY <1>3 DEF ReadOf
  <2>2. FlagsFit(d, f)
    BY <1>1, <2>1 DEF FlagsFit
  <2>3. f \in ReadOf(d)
    BY <1>1, <1>3, <2>1, <2>2 DEF ReadOf
  <2>4. ReturnsTo(d, f) = ReturnsTo(d, e) \cup ReturnsTo(d, p)
    BY <1>1, <1>3, <2>1 DEF ReturnsTo
  <2> QED
    BY <1>1, <2>3, <2>4 DEF f
<1> QED
  BY <1>2, <1>3

\* So does a merge of a prefetch, and the lower fill level is kept.
LEMMA MergedReturns ==
  ASSUME NEW d \in Place, NEW e \in PacketType, NEW p \in PacketType, NEW f \in PacketType,
         e.addr = p.addr, FlagsFit(d, e), FlagsFit(d, p),
         f.level = Least(e.level, p.level), f.l1i = (e.l1i \/ p.l1i), f.l1d = (e.l1d \/ p.l1d),
         f.addr = e.addr
  PROVE  /\ FlagsFit(d, f) /\ (FillsHere(d, f) <=> FillsHere(d, e) \/ FillsHere(d, p))
         /\ ReturnsTo(d, f) = ReturnsTo(d, e) \cup ReturnsTo(d, p)
<1>1. /\ e.level \in {1, 2, 4} /\ p.level \in {1, 2, 4} /\ f.level \in {1, 2, 4}
      /\ \A k \in {1, 2, 4} : f.level <= k <=> e.level <= k \/ p.level <= k
      /\ \A k \in {2, 4} : f.level < k <=> e.level < k \/ p.level < k
      /\ f.level = 1 <=> e.level = 1 \/ p.level = 1
  BY LeastLevel DEF FlagsFit
<1>2. FlagsFit(d, f)
  BY <1>1 DEF FlagsFit
<1>3. FillsHere(d, f) <=> FillsHere(d, e) \/ FillsHere(d, p)
  <2>1. Level(d) \in {1, 2, 4}
    BY DEF Level
  <2> QED
    BY <1>1, <2>1 DEF FillsHere
<1>4. ReturnsTo(d, f) = ReturnsTo(d, e) \cup ReturnsTo(d, p)
  <2>1. CASE d = Memory
    <3>1. \A c \in Cache : Level(c) \in {1, 2, 4}
      BY DEF Level
    <3>2. \A c \in Cache : f.level <= Level(c) <=> e.level <= Level(c) \/ p.level <= Level(c)
      BY <1>1, <3>1
    <3> QED
      BY <2>1, <3>2, MemoryReturnsTo DEF Asking
  <2>2. CASE d = "LLC"
    BY <1>1, <2>2 DEF ReturnsTo, Memory
  <2>3. CASE d \in {"L2C", "STLB"}
    <3>1. \A q \in {e, p, f} : q.l1i \/ q.l1d => q.level < 2
      BY <1>2 DEF FlagsFit
    <3> QED
      BY <2>3, <3>1 DEF ReturnsTo, Memory
  <2>4. CASE d \notin {Memory, "LLC", "L2C", "STLB"}
    BY <2>4 DEF ReturnsTo
  <2> QED
    BY <2>1, <2>2, <2>3, <2>4
<1> QED
  BY <1>2, <1>3, <1>4

LEMMA PrefetchesMerge ==
  ASSUME NEW d \in Place, NEW e \in PrefetchOf(d), NEW p \in PrefetchOf(d), e.addr = p.addr
  PROVE  /\ MergedPrefetch(e, p) \in PrefetchOf(d)
         /\ MergedPrefetch(e, p).addr = e.addr
         /\ ReturnsTo(d, MergedPrefetch(e, p)) = ReturnsTo(d, e) \cup ReturnsTo(d, p)
<1> DEFINE f == MergedPrefetch(e, p)
<1>1. e \in PacketType /\ p \in PacketType /\ FlagsFit(d, e) /\ FlagsFit(d, p)
  BY DEF PrefetchOf
<1>2. f \in PacketType
  BY <1>1, Merging
<1>3. /\ f.level = Least(e.level, p.level) /\ f.l1i = (e.l1i \/ p.l1i) /\ f.l1d = (e.l1d \/ p.l1d)
      /\ f.addr = e.addr /\ f.type = e.type /\ f.waiters = e.waiters
  BY <1>1 DEF MergedPrefetch, PacketType
<1> HIDE DEF f
<1>4. FlagsFit(d, f) /\ ReturnsTo(d, f) = ReturnsTo(d, e) \cup ReturnsTo(d, p)
  BY <1>1, <1>2, <1>3, MergedReturns
<1>5. f \in PrefetchOf(d)
  BY <1>2, <1>3, <1>4 DEF PrefetchOf
<1> QED
  BY <1>3, <1>4, <1>5 DEF f

LEMMA PrefetchJoinsMiss ==
  ASSUME NEW c \in Cache, NEW e \in MissOf(c), NEW p \in PrefetchOf(c), e.addr = p.addr
  PROVE  /\ MergedPrefetch(e, p) \in MissOf(c)
         /\ MergedPrefetch(e, p).addr = e.addr /\ MergedPrefetch(e, p).returned = e.returned
         /\ MergedPrefetch(e, p).type = e.type /\ MergedPrefetch(e, p).waiters = e.waiters
         /\ ReturnsTo(c, MergedPrefetch(e, p)) = ReturnsTo(c, e) \cup ReturnsTo(c, p)
<1> DEFINE f == MergedPrefetch(e, p)
<1>1. /\ e \in PacketType /\ p \in PacketType /\ FlagsFit(c, e) /\ FlagsFit(c, p) /\ c \in Place
      /\ FillsHere(c, e)
  BY Wiring DEF PrefetchOf, MissOf
<1>2. f \in PacketType
  BY <1>1, Merging
<1>3. /\ f.level = Least(e.level, p.level) /\ f.l1i = (e.l1i \/ p.l1i) /\ f.l1d = (e.l1d \/ p.l1d)
      /\ f.addr = e.addr /\ f.type = e.type /\ f.waiters = e.waiters /\ f.returned = e.returned
  BY <1>1 DEF MergedPrefetch, PacketType
<1> HIDE DEF f
<1>4. FlagsFit(c, f) /\ FillsHere(c, f) /\ ReturnsTo(c, f) = ReturnsTo(c, e) \cup ReturnsTo(c, p)
  BY <1>1, <1>2, <1>3, MergedReturns
<1>5. f \in MissOf(c)
  BY <1>2, <1>3, <1>4 DEF MissOf
<1> QED
  BY <1>3, <1>4, <1>5 DEF f

\* A read merged into a miss.  A prefetch is overwritten, and with it what it says of who
\* asked: the read says as much, because a block is asked for by one L1 only.
LEMMA ReadJoinsMiss ==
  ASSUME CodeApartFromData, NEW c \in Cache, NEW e \in MissOf(c), NEW p \in ReadOf(c),
         e.addr = p.addr
  PROVE  /\ Merged(e, p) \in MissOf(c)
         /\ Merged(e, p).addr = e.addr /\ Merged(e, p).returned = e.returned
         /\ Merged(e, p).type # "PREFETCH"
         /\ Merged(e, p).waiters = e.waiters \cup p.waiters
         /\ ReturnsTo(c, Merged(e, p)) = ReturnsTo(c, e) \cup ReturnsTo(c, p)
<1> DEFINE f == Merged(e, p)
<1>1. /\ e \in PacketType /\ p \in PacketType /\ FlagsFit(c, e) /\ FlagsFit(c, p) /\ c \in Place
      /\ FillsHere(c, e) /\ p.level = 1 /\ p.type \in {"LOAD", "RFO"} /\ e.type # "WRITEBACK"
      /\ e.type = "PREFETCH" => e.waiters = {} /\ c \notin TLB
  BY Wiring, Names DEF ReadOf, MissOf
<1>2. f \in PacketType
  BY <1>1, Merging
<1>3. CASE e.type = "PREFETCH"
  <2>1. f = [p EXCEPT !.returned = e.returned]
    BY <1>3 DEF Merged
  <2>2. /\ f.level = p.level /\ f.l1i = p.l1i /\ f.l1d = p.l1d
        /\ f.addr = p.addr /\ f.type = p.type /\ f.waiters = p.waiters /\ f.returned = e.returned
    BY <1>1, <2>1 DEF PacketType
  <2> HIDE DEF f
  <2>3. FillsHere(c, f) /\ FlagsFit(c, f)
    <3>1. Level(c) \in {1, 2, 4}
      BY DEF Level
    <3> QED
      BY <1>1, <2>2, <3>1 DEF FillsHere, FlagsFit
  <2>4. f \in MissOf(c)
    BY <1>1, <1>2, <2>2, <2>3 DEF MissOf
  <2>5. ReturnsTo(c, f) = ReturnsTo(c, p)
    BY <1>1, <2>2, Names DEF ReturnsTo
  <2>6. ReturnsTo(c, e) \subseteq ReturnsTo(c, p)
    <3>1. CASE c = "LLC"
      BY <1>1, <3>1 DEF ReturnsTo, Memory
    <3>2. CASE c = "L2C"
      <4>1. CodeBlock \cap DataBlock = {} /\ c \notin TLB
        BY <3>2 DEF CodeApartFromData, TLB
      <4>2. (e.l1i => p.l1i) /\ (e.l1d => p.l1d)
        BY <1>1, <4>1 DEF FlagsFit
      <4> QED
        BY <1>1, <3>2, <4>2 DEF ReturnsTo, Memory
    <3>3. CASE c \notin {"LLC", "L2C"}
      BY <1>1, <1>3, <3>3, Names DEF ReturnsTo, TLB
    <3> QED
      BY <3>1, <3>2, <3>3
  <2> QED
    BY <1>1, <1>3, <2>2, <2>4, <2>5, <2>6 DEF f
<1>4. CASE e.type # "PREFETCH"
  <2>1. /\ f.level = Least(e.level, p.level) /\ f.l1i = (e.l1i \/ p.l1i)
        /\ f.l1d = (e.l1d \/ p.l1d) /\ f.addr = e.addr /\ f.type = e.type
        /\ f.waiters = e.waiters \cup p.waiters /\ f.returned = e.returned
    BY <1>1, <1>4 DEF Merged, PacketType
  <2> HIDE DEF f
  <2>2. FlagsFit(c, f) /\ FillsHere(c, f) /\ ReturnsTo(c, f) = ReturnsTo(c, e) \cup ReturnsTo(c, p)
    BY <1>1, <1>2, <2>1, MergedReturns
  <2>3. f \in MissOf(c)
    BY <1>1, <1>2, <1>4, <2>1, <2>2 DEF MissOf
  <2> QED
    BY <1>4, <2>1, <2>2, <2>3 DEF f
<1> QED
  BY <1>3, <1>4

\* The packet of a new miss, and that packet as it is sent down.
LEMMA NewMissFits ==
  ASSUME NEW c \in Cache,
         NEW p \in ReadOf(c) \cup (IF c \in TLB THEN {} ELSE {q \in PrefetchOf(c) : FillsHere(c, q)})
  PROVE  /\ [p EXCEPT !.returned = FALSE] \in MissOf(c)
         /\ [p EXCEPT !.returned = FALSE].addr = p.addr
         /\ [p EXCEPT !.returned = FALSE].waiters = p.waiters
         /\ [p EXCEPT !.returned = FALSE].type = p.type
         /\ ReturnsTo(c, [p EXCEPT !.returned = FALSE]) = ReturnsTo(c, p)
<1> DEFINE f == [p EXCEPT !.returned = FALSE]
<1>1. /\ p \in PacketType /\ FlagsFit(c, p)
      /\ \/ p.level = 1 /\ p.type \in {"LOAD", "RFO"}
         \/ p.type = "PREFETCH" /\ p.waiters = {} /\ c \notin TLB /\ FillsHere(c, p)
  BY Names DEF ReadOf, PrefetchOf
<1>2. f \in PacketType /\ f.addr = p.addr
  BY <1>1, PacketReturned
<1>3. /\ f.level = p.level /\ f.l1i = p.l1i /\ f.l1d = p.l1d /\ f.type = p.type
      /\ f.waiters = p.waiters
  BY <1>1 DEF PacketType
<1> HIDE DEF f
<1>4. Level(c) \in {1, 2, 4}
  BY DEF Level
<1>5. FillsHere(c, f)
  BY <1>1, <1>3, <1>4 DEF FillsHere
<1>6. FlagsFit(c, f)
  BY <1>1, <1>2, <1>3 DEF FlagsFit
<1>7. f \in MissOf(c)
  BY <1>1, <1>2, <1>3, <1>5, <1>6 DEF MissOf
<1>8. ReturnsTo(c, f) = ReturnsTo(c, p)
  BY <1>3, Names DEF ReturnsTo
<1> QED
  BY <1>2, <1>3, <1>7, <1>8 DEF f

LEMMA SentFields ==
  ASSUME NEW p \in PacketType
  PROVE  /\ Sent(p) \in PacketType /\ Sent(p).addr = p.addr /\ Sent(p).level = p.level
         /\ Sent(p).l1i = p.l1i /\ Sent(p).l1d = p.l1d /\ Sent(p).type = p.type
         /\ Sent(p).waiters = {}
         /\ \A d : ReturnsTo(d, Sent(p)) = ReturnsTo(d, p) /\ (d # "L1D" => (Forwards(d, Sent(p)) <=> Forwards(d, p)))
<1>1. /\ Sent(p).addr = p.addr /\ Sent(p).level = p.level
      /\ Sent(p).l1i = p.l1i /\ Sent(p).l1d = p.l1d /\ Sent(p).type = p.type
      /\ Sent(p).waiters = {}
  BY DEF Sent, PacketType
<1>2. ASSUME NEW d
      PROVE  ReturnsTo(d, Sent(p)) = ReturnsTo(d, p) /\ (d # "L1D" => (Forwards(d, Sent(p)) <=> Forwards(d, p)))
  <2>1. ReturnsTo(d, Sent(p)) = ReturnsTo(d, p)
    BY <1>1 DEF ReturnsTo
  <2>2. d # "L1D" => Matches(d, Sent(p)) = Matches(d, p)
    BY <1>1 DEF Matches
  <2> QED
    BY <2>1, <2>2 DEF Forwards
<1> QED
  BY <1>1, <1>2, PacketSent

\* The flags of a packet are those of the family of caches it goes through.
LEMMA FlagsGoDown ==
  ASSUME NEW c \in Asking, NEW p, NEW q, FlagsFit(c, p), q.addr = p.addr, q.level = p.level,
         q.l1i = p.l1i, q.l1d = p.l1d
  PROVE  FlagsFit(Below[c], q)
<1>1. Below[c] \notin InstrCache \cup DataCache /\ (Below[c] \in TLB <=> c \in TLB)
  BY LowerNames DEF InstrCache, DataCache, TLB, Memory
<1> QED
  BY <1>1 DEF FlagsFit, InstrSource, DataSource

LEMMA SentFits ==
  ASSUME NEW c \in Asking, NEW p \in PacketType
  PROVE  /\ p \in ReadOf(c) => Sent(p) \in ReadOf(Below[c])
         /\ p \in PrefetchOf(c) => Sent(p) \in PrefetchOf(Below[c])
         /\ c = "LLC" /\ p \in PrefetchOf(c) => Sent(p) \in ReadOf(Below[c])
<1>1. FlagsFit(c, p) => FlagsFit(Below[c], Sent(p))
  BY SentFields, FlagsGoDown
<1>2. c # Memory
  BY Names DEF Asking
<1>3. ASSUME p \in ReadOf(c) PROVE Sent(p) \in ReadOf(Below[c])
  <2>1. FlagsFit(c, p) /\ p.level = 1 /\ p.type \in {"LOAD", "RFO"}
    BY <1>2, <1>3 DEF ReadOf
  <2> QED
    BY <1>1, <2>1, SentFields DEF ReadOf
<1>4. ASSUME p \in PrefetchOf(c) PROVE Sent(p) \in PrefetchOf(Below[c])
  BY <1>1, <1>4, SentFields DEF PrefetchOf
<1>5. ASSUME p \in PrefetchOf(c), c = "LLC" PROVE Sent(p) \in ReadOf(Below[c])
  <2>1. Below[c] = Memory /\ "LLC" \in Cache
    BY <1>5, LowerNames DEF Asking
  <2> QED
    BY <1>5, <2>1, SentFields DEF ReadOf, PrefetchOf, FlagsFit
<1> QED
  BY <1>3, <1>4, <1>5

\* What the core and the prefetchers put into the queues.
LEMMA CoreReadMade ==
  ASSUME NEW c \in CoreCache, NEW a \in (IF c \in InstrCache THEN CodeBlock ELSE DataBlock),
         NEW w \in Word, NEW t \in {"LOAD", "RFO"}, NEW R \in SUBSET Request
  PROVE  /\ Packet(c, a, w, t, 1, R) \in ReadOf(c)
         /\ Packet(c, a, w, t, 1, R).addr = a /\ Packet(c, a, w, t, 1, R).waiters = R
<1> DEFINE p == Packet(c, a, w, t, 1, R)
<1>1. a \in Block /\ t \in {"LOAD", "RFO", "PREFETCH", "WRITEBACK"}
  BY DEF Block
<1>2. p \in PacketType /\ p.addr = a
  BY <1>1, PacketMade
<1>3. /\ p.level = 1 /\ p.type = t /\ p.waiters = R /\ p.l1i = (c \in InstrCache)
      /\ p.l1d = (c \in DataCache)
  BY DEF Packet
<1> HIDE DEF p
<1>4. /\ c \in Cache /\ c \in InstrCache \cup DataCache /\ c # Memory
      /\ c \in InstrCache => c \notin DataCache /\ InstrSource(c) = c
      /\ c \in DataCache => c \notin InstrCache /\ DataSource(c) = c
  BY DEF CoreCache, InstrCache, DataCache, Memory, InstrSource, DataSource, TLB
<1>5. FlagsFit(c, p)
  BY <1>2, <1>3, <1>4 DEF FlagsFit
<1> QED
  BY <1>2, <1>3, <1>4, <1>5 DEF ReadOf, p

LEMMA PrefetchMade ==
  ASSUME NEW c \in Cache \ TLB, NEW a \in Block, NEW l \in {1, 2, 4},
         c = "L1I" => a \in CodeBlock, c = "L1D" => a \in DataBlock, Level(c) <= l,
         c = "L1I" => l = 1,
         NEW p, p = [Packet(c, a, 0, "PREFETCH", l, {}) EXCEPT !.l1d = (l = 1 /\ c # "L1I")]
  PROVE  p \in PrefetchOf(c) /\ ReturnsTo(c, p) = {}
<1>1. Packet(c, a, 0, "PREFETCH", l, {}) \in PacketType
  BY PacketMade, CacheAssumption
<1>2. p \in PacketType
  BY <1>1 DEF PacketType
<1>3. /\ p.level = l /\ p.type = "PREFETCH" /\ p.waiters = {} /\ p.l1i = (c \in InstrCache)
      /\ p.l1d = (l = 1 /\ c # "L1I") /\ p.addr = a
  BY DEF Packet
<1>4. c \in {"L1I", "L1D", "L2C", "LLC"} /\ Level(c) \in {1, 2, 4}
  BY Names, Wiring DEF TLB
<1>5. l = 1 => c \in {"L1I", "L1D"}
  BY <1>4 DEF Level
<1>6. c \in InstrCache <=> c = "L1I"
  BY <1>4 DEF InstrCache
<1>7. FlagsFit(c, p)
  BY <1>3, <1>4, <1>5, <1>6 DEF FlagsFit, InstrSource, DataSource, TLB, DataCache, InstrCache
<1>8. ReturnsTo(c, p) = {}
  <2>1. CASE c \in {"L1I", "L1D"}
    BY <2>1 DEF ReturnsTo, Memory
  <2>2. CASE c = "L2C"
    BY <1>3, <1>5, <2>2 DEF ReturnsTo, Memory
  <2>3. CASE c = "LLC"
    <3>1. l = 4
      BY <2>3 DEF Level
    <3> QED
      BY <1>3, <2>3, <3>1 DEF ReturnsTo, Memory
  <2> QED
    BY <1>4, <2>1, <2>2, <2>3
<1> QED
  BY <1>2, <1>3, <1>7, <1>8 DEF PrefetchOf

-----------------------------------------------------------------------------
(***************************************************************************)
(* A packet in cache or memory d is served to cache c for block a.  Of the *)
(* cache below c: its RQ (or PQ) q, or an MSHR entry of it, has one.       *)
(***************************************************************************)
Served(d, c, a) == {p \in PacketType : p.addr = a /\ c \in ReturnsTo(d, p)}
SentFor(q, c, a) == Some(q[Below[c]], Served(Below[c], c, a))
SentOnce(q) == \A c \in Asking, a \in Block : OnlyOne(q[Below[c]], Served(Below[c], c, a))
Fetched(m, c, a) == Below[c] \in Cache /\ \E e \in m[Below[c]] : e \in Served(Below[c], c, a)
Waits(m, c, a) == \E e \in m[c] : e.addr = a /\ ~e.returned

Matched(r, p, m, c, a) ==
  /\ ~(SentFor(r, c, a) /\ SentFor(p, c, a))
  /\ ~(SentFor(r, c, a) /\ Fetched(m, c, a))
  /\ ~(SentFor(p, c, a) /\ Fetched(m, c, a))
  /\ SentFor(r, c, a) \/ SentFor(p, c, a) \/ Fetched(m, c, a) <=> Waits(m, c, a)

MatchedAll(r, p, m) ==
  /\ SentOnce(r) /\ SentOnce(p)
  /\ \A c \in Asking, a \in Block : Matched(r, p, m, c, a)

\* From queues q to z, the caches in T lose, or gain, a packet of block b.
Loses(q, z, T, b) ==
  /\ SentOnce(z)
  /\ \A c \in Asking, a \in Block :
       /\ SentFor(z, c, a) <=> SentFor(q, c, a) /\ ~(c \in T /\ a = b)
       /\ c \in T /\ a = b => SentFor(q, c, a)
Gains(q, z, T, b) ==
  /\ SentOnce(z)
  /\ \A c \in Asking, a \in Block : SentFor(z, c, a) <=> SentFor(q, c, a) \/ (c \in T /\ a = b)

\* The packets S of queue d answer caches that have d below them.
Answers(d, S) == S \in SUBSET PacketType /\ \A e \in S : \A c \in ReturnsTo(d, e) : c \in Asking /\ Below[c] = d

LEMMA AllAnswer ==
  \A d \in Place : /\ Answers(d, ReadOf(d)) /\ Answers(d, PrefetchOf(d))
                   /\ d # Memory => Answers(d, MissOf(d))
BY PacketSets, ReturnsUp DEF Answers

LEMMA BelowIsPlace == \A c \in Asking : Below[c] \in Place /\ Below[c] # c /\ c \in Cache
BY Wiring DEF Asking, HasLower

\* Packet p leaves queue d, of which t is left.
LEMMA LosesOne ==
  ASSUME NEW q, DOMAIN q = Place, NEW d \in Place, NEW S, Answers(d, S), NEW p \in S, NEW t,
         \A G : OnlyOne(q[d], G) => /\ OnlyOne(t, G)
                                    /\ Some(t, G) <=> Some(q[d], G) /\ p \notin G
                                    /\ p \in G => Some(q[d], G),
         SentOnce(q)
  PROVE  Loses(q, [q EXCEPT ![d] = t], ReturnsTo(d, p), p.addr)
<1> DEFINE z == [q EXCEPT ![d] = t]
           T == ReturnsTo(d, p)
<1>1. z[d] = t /\ \A e \in Place : e # d => z[e] = q[e]
  OBVIOUS
<1>2. p \in PacketType /\ \A c \in T : c \in Asking /\ Below[c] = d
  BY DEF Answers
<1> SUFFICES ASSUME NEW c \in Asking, NEW a \in Block
             PROVE  /\ OnlyOne(z[Below[c]], Served(Below[c], c, a))
                    /\ SentFor(z, c, a) <=> SentFor(q, c, a) /\ ~(c \in T /\ a = p.addr)
                    /\ c \in T /\ a = p.addr => SentFor(q, c, a)
  BY DEF Loses, SentOnce
<1>3. Below[c] \in Place /\ OnlyOne(q[Below[c]], Served(Below[c], c, a))
  BY BelowIsPlace DEF SentOnce
<1>4. CASE Below[c] # d
  BY <1>1, <1>2, <1>3, <1>4 DEF SentFor
<1>5. CASE Below[c] = d
  <2>1. p \in Served(d, c, a) <=> c \in T /\ a = p.addr
    BY <1>2 DEF Served
  <2> DEFINE G == Served(d, c, a)
  <2>2. /\ OnlyOne(t, G) /\ (Some(t, G) <=> Some(q[d], G) /\ p \notin G)
        /\ p \in G => Some(q[d], G)
    <3> HIDE DEF G
    <3>1. OnlyOne(q[d], G)
      BY <1>3, <1>5 DEF G
    <3> QED
      BY <3>1
  <2> QED
    BY <1>1, <1>5, <2>1, <2>2 DEF SentFor
<1> QED
  BY <1>4, <1>5

\* Packet p comes to queue d, which then is t.
LEMMA GainsOne ==
  ASSUME NEW q, DOMAIN q = Place, NEW d \in Place, NEW S, Answers(d, S), NEW p \in S, NEW t,
         \A c \in Asking, a \in Block :
           LET G == Served(d, c, a)
           IN OnlyOne(q[d], G) /\ ~(Some(q[d], G) /\ p \in G) =>
                OnlyOne(t, G) /\ (Some(t, G) <=> Some(q[d], G) \/ p \in G),
         \A c \in ReturnsTo(d, p) : ~SentFor(q, c, p.addr),
         SentOnce(q)
  PROVE  Gains(q, [q EXCEPT ![d] = t], ReturnsTo(d, p), p.addr)
<1> DEFINE z == [q EXCEPT ![d] = t]
           T == ReturnsTo(d, p)
<1>1. z[d] = t /\ \A e \in Place : e # d => z[e] = q[e]
  OBVIOUS
<1>2. p \in PacketType /\ \A c \in T : c \in Asking /\ Below[c] = d
  BY DEF Answers
<1> SUFFICES ASSUME NEW c \in Asking, NEW a \in Block
             PROVE  /\ OnlyOne(z[Below[c]], Served(Below[c], c, a))
                    /\ SentFor(z, c, a) <=> SentFor(q, c, a) \/ (c \in T /\ a = p.addr)
  BY DEF Gains, SentOnce
<1>3. Below[c] \in Place /\ OnlyOne(q[Below[c]], Served(Below[c], c, a))
  BY BelowIsPlace DEF SentOnce
<1>4. CASE Below[c] # d
  BY <1>1, <1>2, <1>3, <1>4 DEF SentFor
<1>5. CASE Below[c] = d
  <2>1. p \in Served(d, c, a) <=> c \in T /\ a = p.addr
    BY <1>2 DEF Served
  <2>2. ~(Some(q[d], Served(d, c, a)) /\ p \in Served(d, c, a))
    BY <1>5, <2>1 DEF SentFor
  <2>3. /\ OnlyOne(t, Served(d, c, a))
        /\ Some(t, Served(d, c, a)) <=> Some(q[d], Served(d, c, a)) \/ p \in Served(d, c, a)
    BY <1>3, <1>5, <2>2
  <2> QED
    BY <1>1, <1>5, <2>1, <2>3 DEF SentFor
<1> QED
  BY <1>4, <1>5

\* The head of queue d leaves.
LEMMA HeadLeaves ==
  ASSUME NEW q, DOMAIN q = Place, NEW d \in Place, NEW S, Answers(d, S), q[d] \in Seq(S),
         q[d] # << >>, SentOnce(q)
  PROVE  /\ Head(q[d]) \in S /\ Tail(q[d]) \in Seq(S)
         /\ Loses(q, [q EXCEPT ![d] = Tail(q[d])], ReturnsTo(d, Head(q[d])), Head(q[d]).addr)
<1> DEFINE p == Head(q[d])
           t == Tail(q[d])
<1>1. p \in S /\ t \in Seq(S)
  OBVIOUS
<1>2. ASSUME NEW G, OnlyOne(q[d], G)
      PROVE  OnlyOne(t, G) /\ (Some(t, G) <=> Some(q[d], G) /\ p \notin G)
             /\ (p \in G => Some(q[d], G))
  <2>1. OnlyOne(t, G) /\ (Some(t, G) <=> Some(q[d], G) /\ p \notin G)
    BY <1>2, SomeInTail
  <2>2. 1 \in 1 .. Len(q[d]) /\ p = q[d][1]
    BY LenProperties, EmptySeq
  <2> QED
    BY <2>1, <2>2 DEF Some
<1> HIDE DEF p, t
<1>3. Loses(q, [q EXCEPT ![d] = t], ReturnsTo(d, p), p.addr)
  BY <1>1, <1>2, LosesOne
<1> QED
  BY <1>1, <1>3 DEF p, t

\* Memory takes packet i of its queue.
LEMMA PickLeaves ==
  ASSUME NEW q, DOMAIN q = Place, NEW d \in Place, NEW S, Answers(d, S), q[d] \in Seq(S),
         NEW i \in Ends(q[d]), SentOnce(q)
  PROVE  /\ q[d][i] \in S /\ Without(q[d], i) \in Seq(S)
         /\ Loses(q, [q EXCEPT ![d] = Without(q[d], i)], ReturnsTo(d, q[d][i]), q[d][i].addr)
<1> DEFINE p == q[d][i]
           t == Without(q[d], i)
<1>1. p \in S
  BY ElementOfSeq DEF Ends
<1>2. t \in Seq(S)
  <2>1. OnlyOne(q[d], {})
    BY DEF OnlyOne
  <2> QED
    BY <2>1, SomeInWithout
<1>3. ASSUME NEW G, OnlyOne(q[d], G)
      PROVE  OnlyOne(t, G) /\ (Some(t, G) <=> Some(q[d], G) /\ p \notin G)
             /\ (p \in G => Some(q[d], G))
  <2>1. OnlyOne(t, G) /\ (Some(t, G) <=> Some(q[d], G) /\ p \notin G)
    BY <1>3, SomeInWithout
  <2> QED
    BY <2>1 DEF Some, Ends
<1> HIDE DEF p, t
<1>4. Loses(q, [q EXCEPT ![d] = t], ReturnsTo(d, p), p.addr)
  BY <1>1, <1>3, LosesOne
<1> QED
  BY <1>1, <1>2, <1>4 DEF p, t


\* A read comes to queue d by add_rq, and a prefetch by add_pq.
LEMMA ReadComes ==
  ASSUME NEW q, DOMAIN q = Place, NEW d \in Place, q[d] \in Seq(ReadOf(d)), NEW p \in ReadOf(d),
         ~Forwards(d, p), Len(q[d]) < RQ_SIZE[d],
         \A c \in ReturnsTo(d, p) : ~SentFor(q, c, p.addr), SentOnce(q)
  PROVE  /\ RqAfter(d, q[d], p) \in Seq(ReadOf(d))
         /\ Gains(q, [q EXCEPT ![d] = RqAfter(d, q[d], p)], ReturnsTo(d, p), p.addr)
<1> DEFINE t == RqAfter(d, q[d], p)
           S == ReadOf(d)
<1>1. Answers(d, S) /\ S \in SUBSET PacketType /\ RQ_SIZE[d] \in Nat
  BY AllAnswer, PacketSets, Sizes
<1>2. \A e \in S : e.addr = p.addr =>
        Joined(e, p) \in S /\ Joined(e, p).addr = e.addr
        /\ ReturnsTo(d, Joined(e, p)) = ReturnsTo(d, e) \cup ReturnsTo(d, p)
  BY JoinedReturns
<1>3. ASSUME NEW G, OnlyOne(q[d], G), ~(Some(q[d], G) /\ p \in G),
             \A e \in S : e.addr = p.addr =>
               Joined(e, p) \in S /\ (Joined(e, p) \in G <=> e \in G \/ p \in G)
      PROVE  t \in Seq(S) /\ OnlyOne(t, G) /\ (Some(t, G) <=> Some(q[d], G) \/ p \in G)
  <2> HIDE DEF S
  <2>1. Holds(q[d], p.addr) \/ Len(q[d]) < RQ_SIZE[d]
    OBVIOUS
  <2> QED
    BY <1>1, <1>3, <2>1, SomeAfterRq DEF S
<1>4. t \in Seq(S)
  <2>1. OnlyOne(q[d], {}) /\ ~(Some(q[d], {}) /\ p \in {})
    BY DEF OnlyOne
  <2>2. \A e \in S : e.addr = p.addr =>
           Joined(e, p) \in S /\ (Joined(e, p) \in {} <=> e \in {} \/ p \in {})
    BY <1>2
  <2> QED
    BY <1>3, <2>1, <2>2
<1>5. ASSUME NEW c \in Asking, NEW a \in Block
      PROVE  \A e \in S : e.addr = p.addr =>
               /\ Joined(e, p) \in S
               /\ Joined(e, p) \in Served(d, c, a) <=> e \in Served(d, c, a) \/ p \in Served(d, c, a)
  BY <1>1, <1>2 DEF Served
<1> HIDE DEF t, S
<1>6. Gains(q, [q EXCEPT ![d] = t], ReturnsTo(d, p), p.addr)
  <2>1. p \in S
    BY DEF S
  <2>2. \A c \in Asking, a \in Block :
           LET G == Served(d, c, a)
           IN OnlyOne(q[d], G) /\ ~(Some(q[d], G) /\ p \in G) =>
                OnlyOne(t, G) /\ (Some(t, G) <=> Some(q[d], G) \/ p \in G)
    BY <1>3, <1>5
  <2> QED
    BY <1>1, <2>1, <2>2, GainsOne
<1> QED
  BY <1>4, <1>6 DEF t, S

LEMMA PrefetchComes ==
  ASSUME NEW q, DOMAIN q = Place, NEW d \in Place, q[d] \in Seq(PrefetchOf(d)),
         NEW p \in PrefetchOf(d), ~Forwards(d, p), Len(q[d]) < PQ_SIZE[d],
         \A c \in ReturnsTo(d, p) : ~SentFor(q, c, p.addr), SentOnce(q)
  PROVE  /\ PqAfter(d, q[d], p) \in Seq(PrefetchOf(d))
         /\ Gains(q, [q EXCEPT ![d] = PqAfter(d, q[d], p)], ReturnsTo(d, p), p.addr)
<1> DEFINE t == PqAfter(d, q[d], p)
           S == PrefetchOf(d)
<1>1. Answers(d, S) /\ S \in SUBSET PacketType /\ PQ_SIZE[d] \in Nat
  BY AllAnswer, PacketSets, Sizes
<1>2. \A e \in S : e.addr = p.addr =>
        MergedPrefetch(e, p) \in S /\ MergedPrefetch(e, p).addr = e.addr
        /\ ReturnsTo(d, MergedPrefetch(e, p)) = ReturnsTo(d, e) \cup ReturnsTo(d, p)
  BY PrefetchesMerge
<1>3. ASSUME NEW G, OnlyOne(q[d], G), ~(Some(q[d], G) /\ p \in G),
             \A e \in S : e.addr = p.addr =>
               MergedPrefetch(e, p) \in S /\ (MergedPrefetch(e, p) \in G <=> e \in G \/ p \in G)
      PROVE  t \in Seq(S) /\ OnlyOne(t, G) /\ (Some(t, G) <=> Some(q[d], G) \/ p \in G)
  <2> HIDE DEF S
  <2> QED
    BY <1>1, <1>3, SomeAfterPq DEF S
<1>4. t \in Seq(S)
  <2>1. OnlyOne(q[d], {}) /\ ~(Some(q[d], {}) /\ p \in {})
    BY DEF OnlyOne
  <2>2. \A e \in S : e.addr = p.addr =>
           MergedPrefetch(e, p) \in S /\ (MergedPrefetch(e, p) \in {} <=> e \in {} \/ p \in {})
    BY <1>2
  <2> QED
    BY <1>3, <2>1, <2>2
<1>5. ASSUME NEW c \in Asking, NEW a \in Block
      PROVE  \A e \in S : e.addr = p.addr =>
               /\ MergedPrefetch(e, p) \in S
               /\ MergedPrefetch(e, p) \in Served(d, c, a) <=>
                    e \in Served(d, c, a) \/ p \in Served(d, c, a)
  BY <1>1, <1>2 DEF Served
<1> HIDE DEF t, S
<1>6. Gains(q, [q EXCEPT ![d] = t], ReturnsTo(d, p), p.addr)
  <2>1. p \in S
    BY DEF S
  <2>2. \A c \in Asking, a \in Block :
           LET G == Served(d, c, a)
           IN OnlyOne(q[d], G) /\ ~(Some(q[d], G) /\ p \in G) =>
                OnlyOne(t, G) /\ (Some(t, G) <=> Some(q[d], G) \/ p \in G)
    BY <1>3, <1>5
  <2> QED
    BY <1>1, <2>1, <2>2, GainsOne
<1> QED
  BY <1>4, <1>6 DEF t, S

-----------------------------------------------------------------------------
(* The MSHRs *)

Suits(m) == DOMAIN m = Cache /\ \A c \in Cache : m[c] \subseteq MissOf(c)

LEMMA MissReturned ==
  ASSUME NEW c \in Cache, NEW e \in MissOf(c), NEW b \in BOOLEAN
  PROVE  LET f == [e EXCEPT !.returned = b]
         IN /\ f \in MissOf(c) /\ f.addr = e.addr /\ f.returned = b
            /\ f.type = e.type /\ f.waiters = e.waiters
            /\ ReturnsTo(c, f) = ReturnsTo(c, e)
<1> DEFINE f == [e EXCEPT !.returned = b]
<1>1. e \in PacketType /\ f \in PacketType
  BY PacketSets, PacketReturned
<1>2. /\ f.level = e.level /\ f.l1i = e.l1i /\ f.l1d = e.l1d /\ f.type = e.type
      /\ f.waiters = e.waiters /\ f.addr = e.addr /\ f.returned = b
  BY <1>1 DEF PacketType
<1> HIDE DEF f
<1>3. f \in MissOf(c)
  BY <1>1, <1>2 DEF MissOf, FlagsFit, FillsHere
<1>4. ReturnsTo(c, f) = ReturnsTo(c, e)
  BY <1>2 DEF ReturnsTo
<1> QED
  BY <1>2, <1>3, <1>4 DEF f

\* return_data in the caches T for block b.
LEMMA ReturnedEffect ==
  ASSUME NEW m, Suits(m), NEW T, NEW b
  PROVE  LET n == Returned(m, T, b)
         IN /\ Suits(n)
            /\ \A c \in Asking, a \in Block :
                 /\ Fetched(n, c, a) <=> Fetched(m, c, a)
                 /\ Waits(n, c, a) <=> Waits(m, c, a) /\ ~(c \in T /\ a = b)
<1> DEFINE n == Returned(m, T, b)
           g(e) == IF e.addr = b THEN [e EXCEPT !.returned = TRUE] ELSE e
<1>1. DOMAIN n = Cache /\ \A c \in Cache : n[c] = IF c \in T THEN {g(e) : e \in m[c]} ELSE m[c]
  BY DEF Returned
<1>2. ASSUME NEW c \in Cache, NEW e \in m[c]
      PROVE  /\ g(e) \in MissOf(c) /\ g(e).addr = e.addr /\ ReturnsTo(c, g(e)) = ReturnsTo(c, e)
             /\ g(e).returned <=> e.returned \/ e.addr = b
  <2>1. e \in MissOf(c)
    BY DEF Suits
  <2>2. CASE e.addr = b
    BY <2>1, <2>2, MissReturned
  <2>3. CASE e.addr # b
    BY <2>1, <2>3
  <2> QED
    BY <2>2, <2>3
<1> HIDE DEF n, g
<1>3. Suits(n)
  BY <1>1, <1>2 DEF Suits
<1>4. ASSUME NEW c \in Asking, NEW a \in Block
      PROVE  Fetched(n, c, a) <=> Fetched(m, c, a)
  <2> DEFINE d == Below[c]
  <2>1. CASE d \in Cache /\ d \in T
    <3>1. n[d] = {g(e) : e \in m[d]}
      BY <1>1, <2>1
    <3>2. \A e \in m[d] : g(e) \in Served(d, c, a) <=> e \in Served(d, c, a)
      <4>1. \A e \in m[d] : e \in PacketType /\ g(e) \in PacketType
        BY <1>2, <2>1, PacketSets DEF Suits
      <4> QED
        BY <1>2, <2>1, <4>1 DEF Served
    <3> QED
      BY <2>1, <3>1, <3>2 DEF Fetched
  <2>2. CASE d \in Cache /\ d \notin T
    BY <1>1, <2>2 DEF Fetched
  <2>3. CASE d \notin Cache
    BY <2>3 DEF Fetched
  <2> QED
    BY <2>1, <2>2, <2>3
<1>5. ASSUME NEW c \in Asking, NEW a \in Block
      PROVE  Waits(n, c, a) <=> Waits(m, c, a) /\ ~(c \in T /\ a = b)
  <2>1. c \in Cache
    BY BelowIsPlace
  <2>2. CASE c \in T
    <3>1. n[c] = {g(e) : e \in m[c]}
      BY <1>1, <2>1, <2>2
    <3>2. \A e \in m[c] : g(e).addr = e.addr /\ (g(e).returned <=> e.returned \/ e.addr = b)
      BY <1>2, <2>1
    <3> QED
      BY <2>2, <3>1, <3>2 DEF Waits
  <2>3. CASE c \notin T
    BY <1>1, <2>1, <2>3 DEF Waits
  <2> QED
    BY <2>2, <2>3
<1> QED
  BY <1>3, <1>4, <1>5 DEF n

\* A new miss of c for block b asks for data for the caches T above.
LEMMA AddedEffect ==
  ASSUME NEW m, Suits(m), NEW k \in Cache, NEW f \in MissOf(k), f.returned = FALSE
  PROVE  LET n == [m EXCEPT ![k] = @ \cup {f}]
         IN /\ Suits(n)
            /\ \A c \in Asking, a \in Block :
                 /\ Fetched(n, c, a) <=> Fetched(m, c, a) \/ (c \in ReturnsTo(k, f) /\ a = f.addr)
                 /\ Waits(n, c, a) <=> Waits(m, c, a) \/ (c = k /\ a = f.addr)
<1> DEFINE n == [m EXCEPT ![k] = @ \cup {f}]
<1>1. DOMAIN n = Cache /\ n[k] = m[k] \cup {f} /\ \A c \in Cache : c # k => n[c] = m[c]
  BY DEF Suits
<1>2. \A c \in ReturnsTo(k, f) : c \in Asking /\ Below[c] = k
  BY AllAnswer, Wiring DEF Answers
<1> HIDE DEF n
<1>3. Suits(n)
  BY <1>1 DEF Suits
<1>4. f \in PacketType
  BY PacketSets
<1>5. ASSUME NEW c \in Asking, NEW a \in Block
      PROVE  Fetched(n, c, a) <=> Fetched(m, c, a) \/ (c \in ReturnsTo(k, f) /\ a = f.addr)
  <2>1. CASE Below[c] = k
    <3>1. f \in Served(k, c, a) <=> c \in ReturnsTo(k, f) /\ a = f.addr
      BY <1>4 DEF Served
    <3> QED
      BY <1>1, <2>1, <3>1 DEF Fetched
  <2>2. CASE Below[c] # k
    BY <1>1, <1>2, <2>2 DEF Fetched
  <2> QED
    BY <2>1, <2>2
<1>6. ASSUME NEW c \in Asking, NEW a \in Block
      PROVE  Waits(n, c, a) <=> Waits(m, c, a) \/ (c = k /\ a = f.addr)
  <2>1. c \in Cache
    BY BelowIsPlace
  <2> QED
    BY <1>1, <2>1 DEF Waits
<1> QED
  BY <1>3, <1>5, <1>6 DEF n

\* A returned miss leaves.
LEMMA DroppedEffect ==
  ASSUME NEW m, Suits(m), NEW k \in Cache, NEW e \in m[k], e.returned,
         \A f \in m[k] : f.addr = e.addr => f = e
  PROVE  LET n == [m EXCEPT ![k] = @ \ {e}]
         IN /\ Suits(n)
            /\ \A c \in Asking, a \in Block :
                 /\ Fetched(n, c, a) <=> Fetched(m, c, a) /\ ~(c \in ReturnsTo(k, e) /\ a = e.addr)
                 /\ c \in ReturnsTo(k, e) /\ a = e.addr => Fetched(m, c, a)
                 /\ Waits(n, c, a) <=> Waits(m, c, a)
<1> DEFINE n == [m EXCEPT ![k] = @ \ {e}]
<1>1. DOMAIN n = Cache /\ n[k] = m[k] \ {e} /\ \A c \in Cache : c # k => n[c] = m[c]
  BY DEF Suits
<1>2. e \in MissOf(k) /\ e \in PacketType
  BY PacketSets DEF Suits
<1>3. \A c \in ReturnsTo(k, e) : c \in Asking /\ Below[c] = k
  BY <1>2, AllAnswer, Wiring DEF Answers
<1> HIDE DEF n
<1>4. Suits(n)
  BY <1>1 DEF Suits
<1>5. ASSUME NEW c \in Asking, NEW a \in Block
      PROVE  /\ Fetched(n, c, a) <=> Fetched(m, c, a) /\ ~(c \in ReturnsTo(k, e) /\ a = e.addr)
             /\ c \in ReturnsTo(k, e) /\ a = e.addr => Fetched(m, c, a)
  <2>1. CASE Below[c] = k
    <3>1. e \in Served(k, c, a) <=> c \in ReturnsTo(k, e) /\ a = e.addr
      BY <1>2 DEF Served
    <3>2. \A f \in m[k] : f # e /\ a = e.addr => f \notin Served(k, c, a)
      BY DEF Served
    <3> QED
      BY <1>1, <2>1, <3>1, <3>2 DEF Fetched
  <2>2. CASE Below[c] # k
    BY <1>1, <1>3, <2>2 DEF Fetched
  <2> QED
    BY <2>1, <2>2
<1>6. ASSUME NEW c \in Asking, NEW a \in Block
      PROVE  Waits(n, c, a) <=> Waits(m, c, a)
  <2>1. c \in Cache
    BY BelowIsPlace
  <2> QED
    BY <1>1, <2>1 DEF Waits
<1> QED
  BY <1>4, <1>5, <1>6 DEF n

\* Packet p is merged into miss e of its block, which becomes f.
LEMMA ReplacedEffect ==
  ASSUME NEW m, Suits(m), NEW k \in Cache, NEW e \in m[k], NEW f \in MissOf(k), NEW T,
         f.addr = e.addr, f.returned = e.returned, ReturnsTo(k, f) = ReturnsTo(k, e) \cup T
  PROVE  LET n == [m EXCEPT ![k] = (@ \ {e}) \cup {f}]
         IN /\ Suits(n)
            /\ \A c \in Asking, a \in Block :
                 /\ Fetched(n, c, a) <=> Fetched(m, c, a) \/ (c \in T /\ a = e.addr)
                 /\ Waits(n, c, a) <=> Waits(m, c, a)
<1> DEFINE n == [m EXCEPT ![k] = (@ \ {e}) \cup {f}]
<1>1. /\ DOMAIN n = Cache /\ n[k] = (m[k] \ {e}) \cup {f}
      /\ \A c \in Cache : c # k => n[c] = m[c]
  BY DEF Suits
<1>2. e \in MissOf(k) /\ e \in PacketType /\ f \in PacketType
  BY PacketSets DEF Suits
<1>3. \A c \in ReturnsTo(k, f) : c \in Asking /\ Below[c] = k
  BY AllAnswer, Wiring DEF Answers
<1> HIDE DEF n
<1>4. Suits(n)
  BY <1>1 DEF Suits
<1>5. ASSUME NEW c \in Asking, NEW a \in Block
      PROVE  Fetched(n, c, a) <=> Fetched(m, c, a) \/ (c \in T /\ a = e.addr)
  <2>1. CASE Below[c] = k
    <3>1. /\ f \in Served(k, c, a) <=> a = e.addr /\ (c \in ReturnsTo(k, e) \/ c \in T)
          /\ e \in Served(k, c, a) <=> a = e.addr /\ c \in ReturnsTo(k, e)
      BY <1>2 DEF Served
    <3> QED
      BY <1>1, <2>1, <3>1 DEF Fetched
  <2>2. CASE Below[c] # k
    BY <1>1, <1>3, <2>2 DEF Fetched
  <2> QED
    BY <2>1, <2>2
<1>6. ASSUME NEW c \in Asking, NEW a \in Block
      PROVE  Waits(n, c, a) <=> Waits(m, c, a)
  <2>1. c \in Cache
    BY BelowIsPlace
  <2> QED
    BY <1>1, <2>1 DEF Waits
<1> QED
  BY <1>4, <1>5, <1>6 DEF n


-----------------------------------------------------------------------------
(***************************************************************************)
(* A read queue below the LLC's upper caches has an entry for each of      *)
(* their MSHRs, and so takes whatever a new miss sends.                    *)
(***************************************************************************)
ReadQueuesSuffice ==
  \A c \in Asking \ {"LLC"} :
    /\ MSHR_SIZE[c] <= RQ_SIZE[Below[c]]
    /\ \A e \in Asking : e # c /\ Below[e] = Below[c] =>
         MSHR_SIZE[c] + MSHR_SIZE[e] <= RQ_SIZE[Below[c]]

\* A cache has as many misses at least as the queue below has packets for it.
LEMMA NoMoreThanMisses ==
  ASSUME NEW r, NEW p, NEW m, MissesFit(m), MatchedAll(r, p, m), NEW c \in Asking,
         r[Below[c]] \in Seq(PacketType)
  PROVE  LET I == {i \in 1 .. Len(r[Below[c]]) : c \in ReturnsTo(Below[c], r[Below[c]][i])}
         IN IsFiniteSet(I) /\ Cardinality(I) \in Nat /\ Cardinality(I) <= Cardinality(m[c])
<1> DEFINE d == Below[c]
           q == r[d]
           I == {i \in 1 .. Len(q) : c \in ReturnsTo(d, q[i])}
           f == [i \in I |-> CHOOSE e \in m[c] : e.addr = q[i].addr]
<1>1. IsFiniteSet(m[c])
  BY BelowIsPlace DEF MissesFit
<1>2. ASSUME NEW i \in I
      PROVE  /\ q[i] \in PacketType /\ q[i] \in Served(d, c, q[i].addr) /\ q[i].addr \in Block
             /\ f[i] \in m[c] /\ f[i].addr = q[i].addr
  <2>1. q[i] \in PacketType
    BY ElementOfSeq
  <2>2. q[i] \in Served(d, c, q[i].addr) /\ q[i].addr \in Block
    BY <2>1 DEF Served, PacketType
  <2>3. SentFor(r, c, q[i].addr)
    BY <2>2 DEF SentFor, Some
  <2>4. Waits(m, c, q[i].addr)
    BY <2>2, <2>3 DEF MatchedAll, Matched
  <2> QED
    BY <2>1, <2>2, <2>4 DEF Waits
<1>3. ASSUME NEW i \in I, NEW j \in I, f[i] = f[j]
      PROVE  i = j
  <2>1. q[i].addr = q[j].addr
    BY <1>2, <1>3
  <2>2. OnlyOne(q, Served(d, c, q[i].addr))
    BY <1>2 DEF MatchedAll, SentOnce
  <2> QED
    BY <1>2, <2>1, <2>2 DEF OnlyOne
<1>4. f \in Injection(I, m[c])
  <2>1. f \in [I -> m[c]]
    BY <1>2
  <2> HIDE DEF f, I
  <2> QED
    BY <1>3, <2>1 DEF Injection, IsInjective
<1> HIDE DEF f, I
<1>5. IsFiniteSet(I) /\ Cardinality(I) <= Cardinality(m[c])
  BY <1>1, <1>4, FS_Injection
<1> QED
  BY <1>5, FS_CardinalityType DEF I

\* Whom a packet in the read queue of such a place can be for.
LEMMA ReadIsForSome ==
  ASSUME NEW c \in Asking \ {"LLC"}, NEW p \in ReadOf(Below[c])
  PROVE  ReturnsTo(Below[c], p) # {}
<1>1. CASE c \in {"ITLB", "DTLB"}
  <2>1. Below[c] = "STLB"
    BY <1>1, LowerNames
  <2>2. p.level = 1 /\ (p.l1i \/ p.l1d)
    BY <2>1 DEF ReadOf, FlagsFit, Memory
  <2> QED
    BY <2>1, <2>2 DEF ReturnsTo, Memory
<1>2. CASE c \in {"L1I", "L1D"}
  <2>1. Below[c] = "L2C"
    BY <1>2, LowerNames
  <2>2. p.level = 1 /\ (p.l1i \/ p.l1d)
    BY <2>1 DEF ReadOf, FlagsFit, Memory
  <2> QED
    BY <2>1, <2>2 DEF ReturnsTo, Memory
<1>3. CASE c = "L2C"
  <2>1. CASE "LLC" \in Cache
    <3>1. Below[c] = "LLC"
      BY <1>3, <2>1, LowerNames
    <3>2. p.level = 1
      BY <3>1 DEF ReadOf, Memory
    <3> QED
      BY <3>1, <3>2 DEF ReturnsTo, Memory
  <2>2. CASE "LLC" \notin Cache
    <3>1. Below[c] = Memory
      BY <1>3, <2>2, LowerNames
    <3>2. p.level = 1 /\ Level(c) = 2
      BY <1>3, <2>2, <3>1 DEF ReadOf, Level
    <3>3. p.level <= Level(c)
      BY <3>2
    <3> QED
      BY <3>1, <3>3, MemoryReturnsTo
  <2> QED
    BY <2>1, <2>2
<1> QED
  BY <1>1, <1>2, <1>3, LowerNames

\* A queue has at most two caches above.
LEMMA TwoAbove ==
  ASSUME NEW c \in Asking, NEW e \in Asking, NEW f \in Asking,
         Below[e] = Below[c], Below[f] = Below[c], e # c
  PROVE  f \in {c, e}
BY LowerNames, CacheAssumption DEF Memory

LEMMA RoomForMiss ==
  ASSUME ReadQueuesSuffice, NEW r, NEW p, NEW m, MissesFit(m), MatchedAll(r, p, m),
         NEW c \in Asking \ {"LLC"}, r[Below[c]] \in Seq(ReadOf(Below[c])),
         Cardinality(m[c]) < MSHR_SIZE[c]
  PROVE  Len(r[Below[c]]) < RQ_SIZE[Below[c]]
<1> DEFINE d == Below[c]
           q == r[d]
           n == Len(q)
           I(e) == {i \in 1 .. n : e \in ReturnsTo(d, q[i])}
<1>1. q \in Seq(PacketType) /\ n \in Nat /\ d \in Place
  BY PacketSets, BelowIsPlace
<1>2. \A i \in 1 .. n : q[i] \in ReadOf(d)
  BY ElementOfSeq
<1>3. \A i \in 1 .. n : \E e \in Asking : Below[e] = d /\ i \in I(e)
  <2> SUFFICES ASSUME NEW i \in 1 .. n
               PROVE  \E e \in Asking : Below[e] = d /\ i \in I(e)
    OBVIOUS
  <2>1. q[i] \in ReadOf(d)
    BY <1>2
  <2>2. ReturnsTo(d, q[i]) # {}
    BY <2>1, ReadIsForSome
  <2>3. \A e \in ReturnsTo(d, q[i]) : e \in Asking /\ Below[e] = d
    BY <1>1, <2>1, AllAnswer DEF Answers
  <2> QED
    BY <2>2, <2>3
<1>4. ASSUME NEW e \in Asking, Below[e] = d
      PROVE  /\ IsFiniteSet(I(e)) /\ Cardinality(I(e)) \in Nat
             /\ Cardinality(I(e)) <= Cardinality(m[e])
             /\ Cardinality(m[e]) \in Nat /\ Cardinality(m[e]) <= MSHR_SIZE[e]
             /\ MSHR_SIZE[e] \in Nat
  <2>1. r[Below[e]] \in Seq(PacketType)
    BY <1>1, <1>4
  <2>2. /\ IsFiniteSet(I(e)) /\ Cardinality(I(e)) \in Nat
        /\ Cardinality(I(e)) <= Cardinality(m[e])
    BY <1>4, <2>1, NoMoreThanMisses
  <2>3. e \in Cache /\ IsFiniteSet(m[e]) /\ Cardinality(m[e]) <= MSHR_SIZE[e]
    BY BelowIsPlace DEF MissesFit
  <2> HIDE DEF I
  <2> QED
    BY <2>2, <2>3, FS_CardinalityType, Sizes
<1>5. Cardinality(1 .. n) = n
  <2>1. Cardinality(1 .. n) = IF 1 > n THEN 0 ELSE n - 1 + 1
    BY <1>1, FS_Interval
  <2> QED
    BY <1>1, <2>1
<1>6. RQ_SIZE[d] \in Nat /\ MSHR_SIZE[c] <= RQ_SIZE[d]
  BY <1>1, Sizes DEF ReadQueuesSuffice
<1>7. CASE \A e \in Asking : Below[e] = d => e = c
  <2>1. I(c) = 1 .. n
    BY <1>3, <1>7
  <2>2. Cardinality(I(c)) <= Cardinality(m[c]) /\ Cardinality(m[c]) \in Nat /\ MSHR_SIZE[c] \in Nat
    BY <1>4
  <2>3. n <= Cardinality(m[c])
    BY <1>5, <2>1, <2>2
  <2> HIDE DEF I
  <2> QED
    BY <1>1, <1>6, <2>2, <2>3
<1>8. ASSUME NEW e \in Asking, Below[e] = d, e # c
      PROVE  n < RQ_SIZE[d]
  <2>1. 1 .. n = I(c) \cup I(e)
    <3>1. \A f \in Asking : Below[f] = d => f = c \/ f = e
      BY <1>8, TwoAbove
    <3> QED
      BY <1>3, <3>1
  <2>2. MSHR_SIZE[c] + MSHR_SIZE[e] <= RQ_SIZE[d]
    BY <1>8 DEF ReadQueuesSuffice
  <2>3. /\ IsFiniteSet(I(c)) /\ Cardinality(I(c)) \in Nat /\ Cardinality(I(c)) <= Cardinality(m[c])
        /\ IsFiniteSet(I(e)) /\ Cardinality(I(e)) \in Nat /\ Cardinality(I(e)) <= Cardinality(m[e])
        /\ Cardinality(m[e]) <= MSHR_SIZE[e] /\ MSHR_SIZE[e] \in Nat /\ MSHR_SIZE[c] \in Nat
        /\ Cardinality(m[e]) \in Nat /\ Cardinality(m[c]) \in Nat
    BY <1>4, <1>8
  <2>4. Cardinality(1 .. n) <= Cardinality(I(c)) + Cardinality(I(e))
    <3> DEFINE A == I(c)
               B == I(e)
    <3>1. IsFiniteSet(A) /\ IsFiniteSet(B) /\ Cardinality(A) \in Nat /\ Cardinality(B) \in Nat
      BY <2>3
    <3>2. 1 .. n = A \cup B
      BY <2>1
    <3> HIDE DEF A, B
    <3>3. Cardinality(A \cup B) = Cardinality(A) + Cardinality(B) - Cardinality(A \cap B)
      BY <3>1, FS_Union
    <3>4. IsFiniteSet(A \cap B)
      BY <3>1, FS_Intersection
    <3>5. Cardinality(A \cap B) \in Nat
      BY <3>4, FS_CardinalityType
    <3>6. Cardinality(A \cup B) <= Cardinality(A) + Cardinality(B)
      BY <3>1, <3>3, <3>5
    <3>7. Cardinality(1 .. n) = Cardinality(A \cup B)
      BY <3>2
    <3> QED
      BY <3>6, <3>7 DEF A, B
  <2> HIDE DEF I
  <2> QED
    BY <1>1, <1>5, <1>6, <2>2, <2>3, <2>4
<1> QED
  BY <1>7, <1>8


-----------------------------------------------------------------------------
(* What the steps do to the match of misses and packets. *)

\* The queues and the MSHRs may be exchanged as a whole.
LEMMA MatchedEitherWay ==
  ASSUME NEW r, NEW p, NEW m
  PROVE  MatchedAll(r, p, m) <=> MatchedAll(p, r, m)
BY DEF MatchedAll, Matched

\* A packet leaves and its block is returned to the caches T that it is for.
LEMMA HitMatches ==
  ASSUME NEW r, NEW z, NEW p, NEW m, NEW n, NEW T, NEW b, MatchedAll(r, p, m), Loses(r, z, T, b),
         \A c \in Asking, a \in Block :
           /\ Fetched(n, c, a) <=> Fetched(m, c, a)
           /\ Waits(n, c, a) <=> Waits(m, c, a) /\ ~(c \in T /\ a = b)
  PROVE  MatchedAll(z, p, n)
<1>1. SentOnce(z) /\ SentOnce(p)
  BY DEF MatchedAll, Loses
<1>2. ASSUME NEW c \in Asking, NEW a \in Block
      PROVE  Matched(z, p, n, c, a)
  <2>1. /\ SentFor(z, c, a) <=> SentFor(r, c, a) /\ ~(c \in T /\ a = b)
        /\ c \in T /\ a = b => SentFor(r, c, a)
    BY DEF Loses
  <2>2. Matched(r, p, m, c, a)
    BY DEF MatchedAll
  <2> QED
    BY <2>1, <2>2 DEF Matched
<1> QED
  BY <1>1, <1>2 DEF MatchedAll

\* A packet leaves and a miss of this cache takes its place: merged, or new and forwarded.
Merges(m, n, T, b) ==
  \A c \in Asking, a \in Block :
    /\ Fetched(n, c, a) <=> Fetched(m, c, a) \/ (c \in T /\ a = b)
    /\ Waits(n, c, a) <=> Waits(m, c, a)

LEMMA MergeMatches ==
  ASSUME NEW r, NEW z, NEW p, NEW m, NEW n, NEW T, NEW b, MatchedAll(r, p, m), Loses(r, z, T, b),
         Merges(m, n, T, b)
  PROVE  MatchedAll(z, p, n)
<1>1. SentOnce(z) /\ SentOnce(p)
  BY DEF MatchedAll, Loses
<1>2. ASSUME NEW c \in Asking, NEW a \in Block
      PROVE  Matched(z, p, n, c, a)
  <2>1. /\ SentFor(z, c, a) <=> SentFor(r, c, a) /\ ~(c \in T /\ a = b)
        /\ c \in T /\ a = b => SentFor(r, c, a)
    BY DEF Loses
  <2>2. Matched(r, p, m, c, a)
    BY DEF MatchedAll
  <2> QED
    BY <2>1, <2>2 DEF Matched, Merges
<1> QED
  BY <1>1, <1>2 DEF MatchedAll

\* A miss leaves and its block is returned to the caches T that it is for.
Answered(m, n, T, b) ==
  \A c \in Asking, a \in Block :
    /\ Fetched(n, c, a) <=> Fetched(m, c, a) /\ ~(c \in T /\ a = b)
    /\ c \in T /\ a = b => Fetched(m, c, a)
    /\ Waits(n, c, a) <=> Waits(m, c, a) /\ ~(c \in T /\ a = b)

LEMMA FillMatches ==
  ASSUME NEW r, NEW p, NEW m, NEW n, NEW T, NEW b, MatchedAll(r, p, m), Answered(m, n, T, b)
  PROVE  MatchedAll(r, p, n)
<1>1. ASSUME NEW c \in Asking, NEW a \in Block
      PROVE  Matched(r, p, n, c, a)
  <2>1. Matched(r, p, m, c, a)
    BY DEF MatchedAll
  <2> QED
    BY <2>1 DEF Matched, Answered
<1> QED
  BY <1>1 DEF MatchedAll

\* A packet leaves, a new miss of cache k takes its place, and asks below for its block.
Misses(m, n, T, b, k) ==
  \A c \in Asking, a \in Block :
    /\ Fetched(n, c, a) <=> Fetched(m, c, a) \/ (c \in T /\ a = b)
    /\ Waits(n, c, a) <=> Waits(m, c, a) \/ (c = k /\ a = b)

LEMMA MissMatches ==
  ASSUME NEW r, NEW z, NEW y, NEW p, NEW m, NEW n, NEW T, NEW b, NEW k,
         MatchedAll(r, p, m), Loses(r, z, T, b), Gains(z, y, {k}, b), k \notin T,
         ~Waits(m, k, b), Misses(m, n, T, b, k)
  PROVE  MatchedAll(y, p, n)
<1>1. SentOnce(y) /\ SentOnce(p)
  BY DEF MatchedAll, Gains
<1>2. ASSUME NEW c \in Asking, NEW a \in Block
      PROVE  Matched(y, p, n, c, a)
  <2>1. /\ SentFor(z, c, a) <=> SentFor(r, c, a) /\ ~(c \in T /\ a = b)
        /\ c \in T /\ a = b => SentFor(r, c, a)
    BY DEF Loses
  <2>2. SentFor(y, c, a) <=> SentFor(z, c, a) \/ (c = k /\ a = b)
    BY DEF Gains
  <2>3. Matched(r, p, m, c, a)
    BY DEF MatchedAll
  <2>4. c = k /\ a = b => ~Waits(m, c, a) /\ c \notin T
    OBVIOUS
  <2> QED
    BY <2>1, <2>2, <2>3, <2>4 DEF Matched, Misses
<1> QED
  BY <1>1, <1>2 DEF MatchedAll

\* The same when it asks through the other queue.
LEMMA MissMatchesAcross ==
  ASSUME NEW r, NEW z, NEW p, NEW y, NEW m, NEW n, NEW T, NEW b, NEW k,
         MatchedAll(r, p, m), Loses(r, z, T, b), Gains(p, y, {k}, b), k \notin T,
         ~Waits(m, k, b), Misses(m, n, T, b, k)
  PROVE  MatchedAll(z, y, n)
<1>1. SentOnce(y) /\ SentOnce(z)
  BY DEF Loses, Gains
<1>2. ASSUME NEW c \in Asking, NEW a \in Block
      PROVE  Matched(z, y, n, c, a)
  <2>1. /\ SentFor(z, c, a) <=> SentFor(r, c, a) /\ ~(c \in T /\ a = b)
        /\ c \in T /\ a = b => SentFor(r, c, a)
    BY DEF Loses
  <2>2. SentFor(y, c, a) <=> SentFor(p, c, a) \/ (c = k /\ a = b)
    BY DEF Gains
  <2>3. Matched(r, p, m, c, a)
    BY DEF MatchedAll
  <2>4. c = k /\ a = b => ~Waits(m, c, a) /\ c \notin T
    OBVIOUS
  <2> QED
    BY <2>1, <2>2, <2>3, <2>4 DEF Matched, Misses
<1> QED
  BY <1>1, <1>2 DEF MatchedAll

\* A packet that is for no cache comes or leaves.
LEMMA SameMatches ==
  ASSUME NEW r, NEW z, NEW p, NEW m, MatchedAll(r, p, m), NEW b,
         Loses(r, z, {}, b) \/ Gains(r, z, {}, b)
  PROVE  MatchedAll(z, p, m)
<1>1. SentOnce(z) /\ SentOnce(p)
  BY DEF MatchedAll, Loses, Gains
<1>2. \A c \in Asking, a \in Block : SentFor(z, c, a) <=> SentFor(r, c, a)
  BY DEF Loses, Gains
<1> QED
  BY <1>1, <1>2 DEF MatchedAll, Matched

\* return_data finds the block in the MSHR of a cache that waits.
LEMMA NoOrphan ==
  ASSUME NEW m, NEW T, NEW b, \A c \in T : c \in Asking /\ Waits(m, c, b)
  PROVE  Orphan(m, T, b) = FALSE
BY BelowIsPlace DEF Orphan, Waits

-----------------------------------------------------------------------------
(* The invariant, in each state and step by step. *)

MissInv == PacketsFit(rq, wq, pq, mshr) /\ ~asserted /\ MatchedAll(rq, pq, mshr)

LEMMA MissParts ==
  ASSUME CacheInv, MissInv
  PROVE  /\ DOMAIN rq = Place /\ DOMAIN wq = Place /\ DOMAIN pq = Place
         /\ \A d \in Place : rq[d] \in Seq(ReadOf(d)) /\ pq[d] \in Seq(PrefetchOf(d))
         /\ \A d \in Place : Len(rq[d]) \in Nat /\ Len(rq[d]) <= RQ_SIZE[d]
         /\ "L1D" \in Cache => wq["L1D"] \in Seq(StoreOf("L1D"))
         /\ Suits(mshr) /\ MissesFit(mshr) /\ asserted = FALSE
         /\ MatchedAll(rq, pq, mshr) /\ SentOnce(rq) /\ SentOnce(pq)
         /\ PacketsFit(rq, wq, pq, mshr)
<1>1. DOMAIN rq = Place /\ DOMAIN wq = Place /\ DOMAIN pq = Place /\ MissesFit(mshr)
      /\ \A d \in Place : Len(rq[d]) \in Nat /\ Len(rq[d]) <= RQ_SIZE[d]
  BY Parts DEF Bounded
<1>2. Suits(mshr)
  BY <1>1 DEF MissInv, PacketsFit, Suits, MissesFit
<1>3. /\ MatchedAll(rq, pq, mshr) /\ PacketsFit(rq, wq, pq, mshr) /\ asserted = FALSE
  BY Parts DEF MissInv, CoreFits
<1> QED
  BY <1>1, <1>2, <1>3 DEF PacketsFit, MatchedAll

LEMMA MissInvNext ==
  ASSUME PacketsFit(rq', wq', pq', mshr'), asserted' = FALSE, MatchedAll(rq', pq', mshr')
  PROVE  MissInv'
BY DEF MissInv, PacketsFit, MatchedAll, Matched, SentOnce, SentFor, Fetched, Waits, Some, OnlyOne

\* Only the queues of reads and prefetches, or only the MSHRs, are not as they were.
LEMMA StillPackets ==
  ASSUME CacheInv, MissInv, NEW r, NEW p, NEW m,
         \A d \in Place : r[d] \in Seq(ReadOf(d)) /\ p[d] \in Seq(PrefetchOf(d)),
         Suits(m)
  PROVE  PacketsFit(r, wq, p, m)
BY MissParts DEF PacketsFit, Suits


LEMMA ReadHitMatches ==
  ASSUME CacheInv, MissInv, NEW c \in Cache, ReadHit(c)
  PROVE  MissInv'
<1> DEFINE p == Head(rq[c])
           T == ReturnsTo(c, p)
           z == [rq EXCEPT ![c] = Tail(rq[c])]
<1>1. /\ rq[c] # << >> /\ rq' = z /\ mshr' = Returned(mshr, T, p.addr)
      /\ asserted' = (asserted \/ Orphan(mshr, T, p.addr)) /\ UNCHANGED <<wq, pq>>
  BY DEF ReadHit, PopRead
<1>2. c \in Place /\ Answers(c, ReadOf(c))
  BY AllAnswer, Wiring
<1>3. p \in ReadOf(c) /\ Tail(rq[c]) \in Seq(ReadOf(c)) /\ Loses(rq, z, T, p.addr)
  BY <1>1, <1>2, MissParts, HeadLeaves
<1> HIDE DEF p, T, z
<1>4. /\ Suits(mshr')
      /\ \A k \in Asking, a \in Block :
           /\ Fetched(mshr', k, a) <=> Fetched(mshr, k, a)
           /\ Waits(mshr', k, a) <=> Waits(mshr, k, a) /\ ~(k \in T /\ a = p.addr)
  BY <1>1, MissParts, ReturnedEffect
<1>5. MatchedAll(z, pq, mshr')
  BY <1>3, <1>4, MissParts, HitMatches
<1>6. p.addr \in Block
  BY <1>3, PacketSets DEF PacketType
<1>7. \A k \in T : k \in Asking /\ Waits(mshr, k, p.addr)
  <2>1. \A k \in T : k \in Asking
    BY <1>2, <1>3 DEF Answers, T
  <2>2. \A k \in T : SentFor(rq, k, p.addr)
    BY <1>3, <1>6, <2>1 DEF Loses
  <2> QED
    BY <1>6, <2>1, <2>2, MissParts DEF MatchedAll, Matched
<1>8. asserted' = FALSE
  BY <1>1, <1>7, NoOrphan, MissParts
<1>9. PacketsFit(rq', wq', pq', mshr')
  <2>1. \A d \in Place : z[d] \in Seq(ReadOf(d)) /\ pq[d] \in Seq(PrefetchOf(d))
    BY <1>3, MissParts DEF z
  <2> QED
    BY <1>1, <1>4, <2>1, StillPackets
<1> QED
  BY <1>1, <1>5, <1>8, <1>9, MissInvNext

LEMMA PrefetchHitMatches ==
  ASSUME CacheInv, MissInv, NEW c \in Cache, PrefetchHit(c)
  PROVE  MissInv'
<1> DEFINE p == Head(pq[c])
           T == ReturnsTo(c, p)
           z == [pq EXCEPT ![c] = Tail(pq[c])]
<1>1. /\ pq[c] # << >> /\ pq' = z /\ mshr' = Returned(mshr, T, p.addr)
      /\ asserted' = (asserted \/ Orphan(mshr, T, p.addr)) /\ UNCHANGED <<wq, rq>>
  BY DEF PrefetchHit
<1>2. c \in Place /\ Answers(c, PrefetchOf(c))
  BY AllAnswer, Wiring
<1>3. p \in PrefetchOf(c) /\ Tail(pq[c]) \in Seq(PrefetchOf(c)) /\ Loses(pq, z, T, p.addr)
  BY <1>1, <1>2, MissParts, HeadLeaves
<1> HIDE DEF p, T, z
<1>4. /\ Suits(mshr')
      /\ \A k \in Asking, a \in Block :
           /\ Fetched(mshr', k, a) <=> Fetched(mshr, k, a)
           /\ Waits(mshr', k, a) <=> Waits(mshr, k, a) /\ ~(k \in T /\ a = p.addr)
  BY <1>1, MissParts, ReturnedEffect
<1>5. MatchedAll(rq, z, mshr')
  <2>1. MatchedAll(pq, rq, mshr)
    BY MissParts, MatchedEitherWay
  <2>2. MatchedAll(z, rq, mshr')
    BY <1>3, <1>4, <2>1, HitMatches
  <2> QED
    BY <2>2, MatchedEitherWay
<1>6. p.addr \in Block
  BY <1>3, PacketSets DEF PacketType
<1>7. \A k \in T : k \in Asking /\ Waits(mshr, k, p.addr)
  <2>1. \A k \in T : k \in Asking
    BY <1>2, <1>3 DEF Answers, T
  <2>2. \A k \in T : SentFor(pq, k, p.addr)
    BY <1>3, <1>6, <2>1 DEF Loses
  <2> QED
    BY <1>6, <2>1, <2>2, MissParts DEF MatchedAll, Matched
<1>8. asserted' = FALSE
  BY <1>1, <1>7, NoOrphan, MissParts
<1>9. PacketsFit(rq', wq', pq', mshr')
  <2>1. \A d \in Place : rq[d] \in Seq(ReadOf(d)) /\ z[d] \in Seq(PrefetchOf(d))
    BY <1>3, MissParts DEF z
  <2> QED
    BY <1>1, <1>4, <2>1, StillPackets
<1> QED
  BY <1>1, <1>5, <1>8, <1>9, MissInvNext

LEMMA MemoryReturnsMatches ==
  ASSUME CacheInv, MissInv, MemoryReturns
  PROVE  MissInv'
<1>1. Memory \in Place /\ Answers(Memory, ReadOf(Memory)) /\ Answers(Memory, PrefetchOf(Memory))
  BY AllAnswer, Wiring
<1>2. ASSUME NEW i \in Ends(rq[Memory]),
             mshr' = Returned(mshr, ReturnsTo(Memory, rq[Memory][i]), rq[Memory][i].addr),
             asserted' = (asserted \/ Orphan(mshr, ReturnsTo(Memory, rq[Memory][i]), rq[Memory][i].addr)),
             rq' = [rq EXCEPT ![Memory] = Without(rq[Memory], i)], UNCHANGED <<pq, wq>>
      PROVE  MissInv'
  <2> DEFINE p == rq[Memory][i]
             T == ReturnsTo(Memory, p)
             z == [rq EXCEPT ![Memory] = Without(rq[Memory], i)]
  <2>1. p \in ReadOf(Memory) /\ Without(rq[Memory], i) \in Seq(ReadOf(Memory))
        /\ Loses(rq, z, T, p.addr)
    BY <1>1, MissParts, PickLeaves
  <2>2. mshr' = Returned(mshr, T, p.addr) /\ asserted' = (asserted \/ Orphan(mshr, T, p.addr))
        /\ rq' = z
    BY <1>2
  <2> HIDE DEF p, T, z
  <2>3. /\ Suits(mshr')
        /\ \A k \in Asking, a \in Block :
             /\ Fetched(mshr', k, a) <=> Fetched(mshr, k, a)
             /\ Waits(mshr', k, a) <=> Waits(mshr, k, a) /\ ~(k \in T /\ a = p.addr)
    BY <2>2, MissParts, ReturnedEffect
  <2>4. MatchedAll(z, pq, mshr')
    BY <2>1, <2>3, MissParts, HitMatches
  <2>5. p.addr \in Block
    BY <2>1, PacketSets DEF PacketType
  <2>6. \A k \in T : k \in Asking /\ Waits(mshr, k, p.addr)
    <3>1. \A k \in T : k \in Asking
      BY <1>1, <2>1 DEF Answers, T
    <3>2. \A k \in T : SentFor(rq, k, p.addr)
      BY <2>1, <2>5, <3>1 DEF Loses
    <3> QED
      BY <2>5, <3>1, <3>2, MissParts DEF MatchedAll, Matched
  <2>7. asserted' = FALSE
    BY <2>2, <2>6, NoOrphan, MissParts
  <2>8. PacketsFit(rq', wq', pq', mshr')
    <3>1. \A d \in Place : z[d] \in Seq(ReadOf(d)) /\ pq[d] \in Seq(PrefetchOf(d))
      BY <2>1, MissParts DEF z
    <3> QED
      BY <1>2, <2>2, <2>3, <3>1, StillPackets
  <2> QED
    BY <1>2, <2>2, <2>4, <2>7, <2>8, MissInvNext
<1>3. ASSUME NEW i \in Ends(pq[Memory]),
             mshr' = Returned(mshr, ReturnsTo(Memory, pq[Memory][i]), pq[Memory][i].addr),
             asserted' = (asserted \/ Orphan(mshr, ReturnsTo(Memory, pq[Memory][i]), pq[Memory][i].addr)),
             pq' = [pq EXCEPT ![Memory] = Without(pq[Memory], i)], UNCHANGED <<rq, wq>>
      PROVE  MissInv'
  <2> DEFINE p == pq[Memory][i]
             T == ReturnsTo(Memory, p)
             z == [pq EXCEPT ![Memory] = Without(pq[Memory], i)]
  <2>1. p \in PrefetchOf(Memory) /\ Without(pq[Memory], i) \in Seq(PrefetchOf(Memory))
        /\ Loses(pq, z, T, p.addr)
    BY <1>1, MissParts, PickLeaves
  <2>2. mshr' = Returned(mshr, T, p.addr) /\ asserted' = (asserted \/ Orphan(mshr, T, p.addr))
        /\ pq' = z
    BY <1>3
  <2> HIDE DEF p, T, z
  <2>3. /\ Suits(mshr')
        /\ \A k \in Asking, a \in Block :
             /\ Fetched(mshr', k, a) <=> Fetched(mshr, k, a)
             /\ Waits(mshr', k, a) <=> Waits(mshr, k, a) /\ ~(k \in T /\ a = p.addr)
    BY <2>2, MissParts, ReturnedEffect
  <2>4. MatchedAll(rq, z, mshr')
    <3>1. MatchedAll(pq, rq, mshr)
      BY MissParts, MatchedEitherWay
    <3>2. MatchedAll(z, rq, mshr')
      BY <2>1, <2>3, <3>1, HitMatches
    <3> QED
      BY <3>2, MatchedEitherWay
  <2>5. p.addr \in Block
    BY <2>1, PacketSets DEF PacketType
  <2>6. \A k \in T : k \in Asking /\ Waits(mshr, k, p.addr)
    <3>1. \A k \in T : k \in Asking
      BY <1>1, <2>1 DEF Answers, T
    <3>2. \A k \in T : SentFor(pq, k, p.addr)
      BY <2>1, <2>5, <3>1 DEF Loses
    <3> QED
      BY <2>5, <3>1, <3>2, MissParts DEF MatchedAll, Matched
  <2>7. asserted' = FALSE
    BY <2>2, <2>6, NoOrphan, MissParts
  <2>8. PacketsFit(rq', wq', pq', mshr')
    <3>1. \A d \in Place : rq[d] \in Seq(ReadOf(d)) /\ z[d] \in Seq(PrefetchOf(d))
      BY <2>1, MissParts DEF z
    <3> QED
      BY <1>3, <2>2, <2>3, <3>1, StillPackets
  <2> QED
    BY <1>3, <2>2, <2>4, <2>7, <2>8, MissInvNext
<1>4. PICK q \in {"RQ", "PQ"} : \E i \in Ends(IF q = "RQ" THEN rq[Memory] ELSE pq[Memory]) :
        LET p == (IF q = "RQ" THEN rq[Memory] ELSE pq[Memory])[i]
            up == ReturnsTo(Memory, p)
        IN /\ mshr' = Returned(mshr, up, p.addr)
           /\ asserted' = (asserted \/ Orphan(mshr, up, p.addr))
           /\ IF q = "RQ" THEN rq' = [rq EXCEPT ![Memory] = Without(@, i)] /\ UNCHANGED pq
                          ELSE pq' = [pq EXCEPT ![Memory] = Without(@, i)] /\ UNCHANGED rq
           /\ UNCHANGED <<wq, line, processed, pending, prefetches, swaps, modified>>
  BY DEF MemoryReturns
<1>5. CASE q = "RQ"
  BY <1>2, <1>4, <1>5
<1>6. CASE q = "PQ"
  BY <1>3, <1>4, <1>6
<1> QED
  BY <1>4, <1>5, <1>6

\* The MSHRs when the entry e of cache c is filled.
LEMMA EntryFilled ==
  ASSUME CacheInv, MissInv, NEW c \in Cache, NEW e \in mshr[c], e.returned
  PROVE  LET T == ReturnsTo(c, e)
             n == Returned([mshr EXCEPT ![c] = @ \ {e}], T, e.addr)
         IN /\ Suits(n) /\ MatchedAll(rq, pq, n) /\ Orphan(mshr, T, e.addr) = FALSE
<1> DEFINE T == ReturnsTo(c, e)
           m == [mshr EXCEPT ![c] = @ \ {e}]
           n == Returned(m, T, e.addr)
<1>1. /\ Suits(mshr) /\ MatchedAll(rq, pq, mshr)
      /\ \A f \in mshr[c] : f.addr = e.addr => f = e
  BY MissParts DEF MissesFit
<1>2. /\ Suits(m)
      /\ \A k \in Asking, a \in Block :
           /\ Fetched(m, k, a) <=> Fetched(mshr, k, a) /\ ~(k \in T /\ a = e.addr)
           /\ k \in T /\ a = e.addr => Fetched(mshr, k, a)
           /\ Waits(m, k, a) <=> Waits(mshr, k, a)
  BY <1>1, DroppedEffect
<1> HIDE DEF m
<1>3. /\ Suits(n)
      /\ \A k \in Asking, a \in Block :
           /\ Fetched(n, k, a) <=> Fetched(m, k, a)
           /\ Waits(n, k, a) <=> Waits(m, k, a) /\ ~(k \in T /\ a = e.addr)
  BY <1>2, ReturnedEffect
<1>4. e \in MissOf(c) /\ e.addr \in Block
  BY <1>1, PacketSets DEF Suits, PacketType
<1>5. \A k \in T : k \in Asking
  BY <1>4, AllAnswer, Wiring DEF Answers
<1> HIDE DEF n, T
<1>6. MatchedAll(rq, pq, n)
  <2>1. Answered(mshr, n, T, e.addr)
    BY <1>2, <1>3 DEF Answered
  <2> QED
    BY <1>1, <2>1, FillMatches
<1>7. \A k \in T : k \in Asking /\ Waits(mshr, k, e.addr)
  BY <1>1, <1>2, <1>4, <1>5 DEF MatchedAll, Matched
<1>8. Orphan(mshr, T, e.addr) = FALSE
  BY <1>7, NoOrphan
<1> QED
  BY <1>3, <1>6, <1>8 DEF n, T, m

LEMMA WritebackElsewhere ==
  ASSUME CacheInv, NEW c \in Cache, NEW w, "L1D" \in Cache
  PROVE  AfterWriteback(c, w)["L1D"] = wq["L1D"]
<1>1. HasLower(c) => Below[c] # "L1D"
  BY LowerNames DEF Asking, Memory
<1>2. DOMAIN wq = Place /\ "L1D" \in Place
  BY Parts, Wiring DEF Bounded
<1> QED
  BY <1>1, <1>2 DEF AfterWriteback, WritesBack

LEMMA HandleFillMatches ==
  ASSUME CacheInv, MissInv, NEW c \in Cache, HandleFill(c)
  PROVE  MissInv'
<1>1. PICK e \in mshr[c], w \in Victims(c) :
        /\ e.returned /\ wq' = AfterWriteback(c, w) /\ UNCHANGED <<rq, pq>>
        /\ mshr' = Returned([mshr EXCEPT ![c] = @ \ {e}], ReturnsTo(c, e), e.addr)
        /\ asserted' = (asserted \/ Orphan(mshr, ReturnsTo(c, e), e.addr))
  BY DEF HandleFill
<1>2. Suits(mshr') /\ MatchedAll(rq, pq, mshr') /\ Orphan(mshr, ReturnsTo(c, e), e.addr) = FALSE
  BY <1>1, EntryFilled
<1>3. "L1D" \in Cache => wq'["L1D"] \in Seq(StoreOf("L1D"))
  BY <1>1, WritebackElsewhere, MissParts
<1>4. PacketsFit(rq', wq', pq', mshr')
  BY <1>1, <1>2, <1>3, MissParts DEF PacketsFit, Suits
<1> QED
  BY <1>1, <1>2, <1>4, MissInvNext, MissParts

LEMMA BypassMatches ==
  ASSUME CacheInv, MissInv, "LLC" \in Cache, BypassFill
  PROVE  MissInv'
<1>1. PICK e \in mshr["LLC"] :
        /\ e.returned /\ UNCHANGED <<rq, wq, pq>>
        /\ mshr' = Returned([mshr EXCEPT !["LLC"] = @ \ {e}], ReturnsTo("LLC", e), e.addr)
        /\ asserted' = (asserted \/ Orphan(mshr, ReturnsTo("LLC", e), e.addr))
  BY DEF BypassFill, queues
<1>2. Suits(mshr') /\ MatchedAll(rq, pq, mshr') /\ Orphan(mshr, ReturnsTo("LLC", e), e.addr) = FALSE
  BY <1>1, EntryFilled
<1>3. PacketsFit(rq', wq', pq', mshr')
  BY <1>1, <1>2, MissParts DEF PacketsFit, Suits
<1> QED
  BY <1>1, <1>2, <1>3, MissInvNext, MissParts


LEMMA LosesNone ==
  ASSUME NEW q, NEW b, SentOnce(q)
  PROVE  Loses(q, q, {}, b)
BY DEF Loses

LEMMA ReadMergeMatches ==
  ASSUME CodeApartFromData, CacheInv, MissInv, NEW c \in Cache, ReadMerge(c)
  PROVE  MissInv'
<1> DEFINE p == Head(rq[c])
           T == ReturnsTo(c, p)
           z == [rq EXCEPT ![c] = Tail(rq[c])]
           e == Entry(c, p.addr)
           f == Merged(e, p)
<1>1. /\ rq[c] # << >> /\ rq' = z /\ InMshr(c, p.addr)
      /\ mshr' = [mshr EXCEPT ![c] = (@ \ {e}) \cup {f}] /\ UNCHANGED <<wq, pq, asserted>>
  BY DEF ReadMerge, PopRead, Replace
<1>2. c \in Place /\ Answers(c, ReadOf(c))
  BY AllAnswer, Wiring
<1>3. p \in ReadOf(c) /\ Tail(rq[c]) \in Seq(ReadOf(c)) /\ Loses(rq, z, T, p.addr)
  BY <1>1, <1>2, MissParts, HeadLeaves
<1>4. e \in mshr[c] /\ e.addr = p.addr
  BY <1>1, EntryFound
<1>5. e \in MissOf(c)
  BY <1>4, MissParts DEF Suits
<1> HIDE DEF p, e
<1>6. /\ f \in MissOf(c) /\ f.addr = e.addr /\ f.returned = e.returned
      /\ ReturnsTo(c, f) = ReturnsTo(c, e) \cup T
  BY <1>3, <1>4, <1>5, ReadJoinsMiss
<1> HIDE DEF f, T, z
<1>7. Suits(mshr') /\ Merges(mshr, mshr', T, p.addr)
  <2>1. /\ Suits(mshr')
        /\ \A k \in Asking, a \in Block :
             /\ Fetched(mshr', k, a) <=> Fetched(mshr, k, a) \/ (k \in T /\ a = e.addr)
             /\ Waits(mshr', k, a) <=> Waits(mshr, k, a)
    <3>1. Suits(mshr) /\ mshr' = [mshr EXCEPT ![c] = (@ \ {e}) \cup {f}]
      BY <1>1, MissParts
    <3> QED
      BY <1>4, <1>6, <3>1, ReplacedEffect
  <2> QED
    BY <1>4, <2>1 DEF Merges
<1>8. MatchedAll(z, pq, mshr')
  BY <1>3, <1>7, MissParts, MergeMatches
<1>9. PacketsFit(rq', wq', pq', mshr')
  <2>1. \A d \in Place : z[d] \in Seq(ReadOf(d)) /\ pq[d] \in Seq(PrefetchOf(d))
    BY <1>3, MissParts DEF z
  <2> QED
    BY <1>1, <1>7, <2>1, StillPackets
<1> QED
  BY <1>1, <1>8, <1>9, MissInvNext, MissParts

LEMMA PrefetchMergeMatches ==
  ASSUME CacheInv, MissInv, NEW c \in Cache, PrefetchMerge(c)
  PROVE  MissInv'
<1> DEFINE p == Head(pq[c])
           T == ReturnsTo(c, p)
           z == [pq EXCEPT ![c] = Tail(pq[c])]
           e == Entry(c, p.addr)
           f == MergedPrefetch(e, p)
<1>1. /\ pq[c] # << >> /\ pq' = z /\ InMshr(c, p.addr)
      /\ mshr' = [mshr EXCEPT ![c] = (@ \ {e}) \cup {f}] /\ UNCHANGED <<wq, rq, asserted>>
  BY DEF PrefetchMerge, Replace
<1>2. c \in Place /\ Answers(c, PrefetchOf(c))
  BY AllAnswer, Wiring
<1>3. p \in PrefetchOf(c) /\ Tail(pq[c]) \in Seq(PrefetchOf(c)) /\ Loses(pq, z, T, p.addr)
  BY <1>1, <1>2, MissParts, HeadLeaves
<1>4. e \in mshr[c] /\ e.addr = p.addr
  BY <1>1, EntryFound
<1>5. e \in MissOf(c)
  BY <1>4, MissParts DEF Suits
<1> HIDE DEF p, e
<1>6. /\ f \in MissOf(c) /\ f.addr = e.addr /\ f.returned = e.returned
      /\ ReturnsTo(c, f) = ReturnsTo(c, e) \cup T
  BY <1>3, <1>4, <1>5, PrefetchJoinsMiss
<1> HIDE DEF f, T, z
<1>7. Suits(mshr') /\ Merges(mshr, mshr', T, p.addr)
  <2>1. /\ Suits(mshr')
        /\ \A k \in Asking, a \in Block :
             /\ Fetched(mshr', k, a) <=> Fetched(mshr, k, a) \/ (k \in T /\ a = e.addr)
             /\ Waits(mshr', k, a) <=> Waits(mshr, k, a)
    <3>1. Suits(mshr) /\ mshr' = [mshr EXCEPT ![c] = (@ \ {e}) \cup {f}]
      BY <1>1, MissParts
    <3> QED
      BY <1>4, <1>6, <3>1, ReplacedEffect
  <2> QED
    BY <1>4, <2>1 DEF Merges
<1>8. MatchedAll(rq, z, mshr')
  <2>1. MatchedAll(pq, rq, mshr)
    BY MissParts, MatchedEitherWay
  <2>2. MatchedAll(z, rq, mshr')
    BY <1>3, <1>7, <2>1, MergeMatches
  <2> QED
    BY <2>2, MatchedEitherWay
<1>9. PacketsFit(rq', wq', pq', mshr')
  <2>1. \A d \in Place : rq[d] \in Seq(ReadOf(d)) /\ z[d] \in Seq(PrefetchOf(d))
    BY <1>3, MissParts DEF z
  <2> QED
    BY <1>1, <1>7, <2>1, StillPackets
<1> QED
  BY <1>1, <1>8, <1>9, MissInvNext, MissParts

\* What remains of the stores that wait, once the first is taken.
LEMMA StoresLeft ==
  ASSUME CacheInv, MissInv, "L1D" \in Cache, wq["L1D"] # << >>
  PROVE  /\ Head(wq["L1D"]) \in ReadOf("L1D") /\ Head(wq["L1D"]) \in StoreOf("L1D")
         /\ Head(wq["L1D"]).addr \in Block
         /\ [wq EXCEPT !["L1D"] = Tail(@)]["L1D"] \in Seq(StoreOf("L1D"))
<1>1. wq["L1D"] \in Seq(StoreOf("L1D")) /\ DOMAIN wq = Place /\ "L1D" \in Place
  BY MissParts, Wiring
<1>2. Head(wq["L1D"]) \in StoreOf("L1D") /\ Tail(wq["L1D"]) \in Seq(StoreOf("L1D"))
  BY <1>1
<1>3. Head(wq["L1D"]) \in ReadOf("L1D") /\ Head(wq["L1D"]) \in PacketType
  BY <1>2, PacketSets
<1> QED
  BY <1>1, <1>2, <1>3 DEF PacketType

LEMMA StoreMergeMatches ==
  ASSUME CodeApartFromData, CacheInv, MissInv, "L1D" \in Cache, StoreMerge
  PROVE  MissInv'
<1> DEFINE p == Head(wq["L1D"])
           e == Entry("L1D", p.addr)
           f == Merged(e, p)
<1>1. /\ wq["L1D"] # << >> /\ InMshr("L1D", p.addr) /\ wq' = [wq EXCEPT !["L1D"] = Tail(@)]
      /\ mshr' = [mshr EXCEPT !["L1D"] = (@ \ {e}) \cup {f}] /\ UNCHANGED <<rq, pq, asserted>>
  BY DEF StoreMerge, Replace
<1>2. p \in ReadOf("L1D") /\ wq'["L1D"] \in Seq(StoreOf("L1D"))
  BY <1>1, StoresLeft
<1>3. e \in mshr["L1D"] /\ e.addr = p.addr
  BY <1>1, EntryFound
<1>4. e \in MissOf("L1D")
  BY <1>3, MissParts DEF Suits
<1>5. "L1D" \in CoreCache
  BY Wiring
<1> HIDE DEF p, e
<1>6. /\ f \in MissOf("L1D") /\ f.addr = e.addr /\ f.returned = e.returned
      /\ ReturnsTo("L1D", f) = ReturnsTo("L1D", e) \cup {}
  BY <1>2, <1>3, <1>4, <1>5, ReadJoinsMiss, CoreReturns
<1> HIDE DEF f
<1>7. Suits(mshr') /\ Merges(mshr, mshr', {}, p.addr)
  <2>1. /\ Suits(mshr')
        /\ \A k \in Asking, a \in Block :
             /\ Fetched(mshr', k, a) <=> Fetched(mshr, k, a) \/ (k \in {} /\ a = e.addr)
             /\ Waits(mshr', k, a) <=> Waits(mshr, k, a)
    <3>1. Suits(mshr) /\ mshr' = [mshr EXCEPT !["L1D"] = (@ \ {e}) \cup {f}]
      BY <1>1, MissParts
    <3> QED
      BY <1>3, <1>6, <3>1, ReplacedEffect
  <2> QED
    BY <1>3, <2>1 DEF Merges
<1>8. Loses(rq, rq, {}, p.addr)
  BY MissParts, LosesNone
<1>9. MatchedAll(rq, pq, mshr')
  BY <1>7, <1>8, MissParts, MergeMatches
<1>10. PacketsFit(rq', wq', pq', mshr')
  BY <1>1, <1>2, <1>7, MissParts DEF PacketsFit, Suits
<1> QED
  BY <1>1, <1>9, <1>10, MissInvNext, MissParts

\* A new miss of cache c: answered at once, by a write that waits below; or sent below.
LEMMA NewMissEffect ==
  ASSUME CacheInv, MissInv, NEW c \in Cache,
         NEW p \in ReadOf(c) \cup (IF c \in TLB THEN {} ELSE {q \in PrefetchOf(c) : FillsHere(c, q)}),
         ~InMshr(c, p.addr)
  PROVE  LET m == AddMshr(c, p)
             T == ReturnsTo(c, p)
             b == p.addr
         IN /\ Suits(Returned(m, {c}, b)) /\ Suits(Returned(m, {}, b))
            /\ Orphan(m, {c}, b) = FALSE /\ Orphan(m, {}, b) = FALSE
            /\ b \in Block /\ c \notin T /\ ~Waits(mshr, c, b)
            /\ Merges(mshr, Returned(m, {c}, b), T, b)
            /\ Misses(mshr, Returned(m, {}, b), T, b, c)
<1> DEFINE m == AddMshr(c, p)
           T == ReturnsTo(c, p)
           b == p.addr
           f == [p EXCEPT !.returned = FALSE]
<1>1. m = [mshr EXCEPT ![c] = @ \cup {f}]
  BY DEF AddMshr
<1>2. f \in MissOf(c) /\ f.addr = b /\ ReturnsTo(c, f) = T
  BY NewMissFits
<1>3. p \in PacketType
  BY PacketSets
<1>4. f.returned = FALSE /\ b \in Block
  BY <1>3 DEF PacketType
<1> HIDE DEF f, m
<1>5. /\ Suits(m)
      /\ \A k \in Asking, a \in Block :
           /\ Fetched(m, k, a) <=> Fetched(mshr, k, a) \/ (k \in T /\ a = b)
           /\ Waits(m, k, a) <=> Waits(mshr, k, a) \/ (k = c /\ a = b)
  <2>1. Suits(mshr)
    BY MissParts
  <2>2. /\ Suits(m)
        /\ \A k \in Asking, a \in Block :
             /\ Fetched(m, k, a) <=> Fetched(mshr, k, a) \/ (k \in ReturnsTo(c, f) /\ a = f.addr)
             /\ Waits(m, k, a) <=> Waits(mshr, k, a) \/ (k = c /\ a = f.addr)
    BY <1>1, <1>2, <1>4, <2>1, AddedEffect
  <2> QED
    BY <1>2, <2>2
<1>6. f \in m[c]
  BY <1>1, MissParts DEF Suits
<1>7. Orphan(m, {c}, b) = FALSE /\ Orphan(m, {}, b) = FALSE
  BY <1>2, <1>6 DEF Orphan
<1>8. c \notin T
  <2>1. \A k \in T : k \in Asking /\ Below[k] = c
    BY <1>2, AllAnswer, Wiring DEF Answers
  <2> QED
    BY <2>1, BelowIsPlace
<1>9. ~Waits(mshr, c, b)
  BY DEF Waits, InMshr
<1> HIDE DEF T, b
<1>10. ASSUME NEW U
       PROVE  /\ Suits(Returned(m, U, b))
              /\ \A k \in Asking, a \in Block :
                   /\ Fetched(Returned(m, U, b), k, a) <=> Fetched(m, k, a)
                   /\ Waits(Returned(m, U, b), k, a) <=> Waits(m, k, a) /\ ~(k \in U /\ a = b)
  BY <1>5, ReturnedEffect
<1>11. Suits(Returned(m, {c}, b)) /\ Suits(Returned(m, {}, b))
  BY <1>10
<1>12. ASSUME NEW k \in Asking, NEW a \in Block
       PROVE  /\ Fetched(Returned(m, {c}, b), k, a) <=> Fetched(mshr, k, a) \/ (k \in T /\ a = b)
              /\ Waits(Returned(m, {c}, b), k, a) <=> Waits(mshr, k, a)
  BY <1>5, <1>9, <1>10
<1>13. ASSUME NEW k \in Asking, NEW a \in Block
       PROVE  /\ Fetched(Returned(m, {}, b), k, a) <=> Fetched(mshr, k, a) \/ (k \in T /\ a = b)
              /\ Waits(Returned(m, {}, b), k, a) <=> Waits(mshr, k, a) \/ (k = c /\ a = b)
  BY <1>5, <1>10
<1> QED
  BY <1>4, <1>7, <1>8, <1>9, <1>11, <1>12, <1>13 DEF m, T, b, Merges, Misses

\* A read sent below, where it neither is forwarded nor refused.
LEMMA MissIsRead ==
  ASSUME CacheInv, MissInv, NEW c \in Asking, NEW q, DOMAIN q = Place, SentOnce(q),
         q[Below[c]] = rq[Below[c]],
         NEW p \in PacketType, Sent(p) \in ReadOf(Below[c]), ReturnsTo(Below[c], p) = {c},
         ~Forwards(Below[c], p), ~SentFor(q, c, p.addr),
         Len(rq[Below[c]]) < RQ_SIZE[Below[c]]
  PROVE  LET d == Below[c]
             y == [q EXCEPT ![d] = RqAfter(d, q[d], Sent(p))]
         IN RqAfter(d, q[d], Sent(p)) \in Seq(ReadOf(d)) /\ Gains(q, y, {c}, p.addr)
<1> DEFINE d == Below[c]
           s == Sent(p)
<1>1. d \in Place /\ d # "L1D" /\ q[d] \in Seq(ReadOf(d)) /\ Len(q[d]) < RQ_SIZE[d]
  BY BelowIsPlace, MissParts, LowerNames DEF Memory
<1>2. s.addr = p.addr /\ ReturnsTo(d, s) = {c} /\ ~Forwards(d, s)
  BY <1>1, SentFields
<1>3. \A k \in ReturnsTo(d, s) : ~SentFor(q, k, s.addr)
  BY <1>2
<1>4. s \in ReadOf(d)
  OBVIOUS
<1> HIDE DEF d, s
<1>5. /\ RqAfter(d, q[d], s) \in Seq(ReadOf(d))
      /\ Gains(q, [q EXCEPT ![d] = RqAfter(d, q[d], s)], ReturnsTo(d, s), s.addr)
  BY <1>1, <1>2, <1>3, <1>4, ReadComes
<1> QED
  BY <1>2, <1>5 DEF d, s


\* A queue replaced by itself.
LEMMA SameQueue ==
  ASSUME NEW q \in [Place -> Seq(PacketType)], NEW d
  PROVE  [q EXCEPT ![d] = q[d]] = q
OBVIOUS

\* The queues are functions; so they are once a head has left.
LEMMA QueuesAreFunctions ==
  ASSUME CacheInv, MissInv
  PROVE  /\ rq \in [Place -> Seq(PacketType)] /\ pq \in [Place -> Seq(PacketType)]
         /\ \A c \in Place :
              /\ rq[c] # << >> => [rq EXCEPT ![c] = Tail(rq[c])] \in [Place -> Seq(PacketType)]
              /\ pq[c] # << >> => [pq EXCEPT ![c] = Tail(pq[c])] \in [Place -> Seq(PacketType)]
<1>1. rq \in [Place -> Seq(PacketType)] /\ pq \in [Place -> Seq(PacketType)]
  BY Parts DEF Bounded
<1>2. ASSUME NEW q \in [Place -> Seq(PacketType)], NEW c \in Place, q[c] # << >>
      PROVE  [q EXCEPT ![c] = Tail(q[c])] \in [Place -> Seq(PacketType)]
  <2>1. Tail(q[c]) \in Seq(PacketType)
    BY <1>2
  <2> QED
    BY <2>1
<1> QED
  BY <1>1, <1>2

LEMMA RoomBelow ==
  ASSUME ReadQueuesSuffice, CacheInv, MissInv, NEW c \in Asking,
         Cardinality(mshr[c]) < MSHR_SIZE[c],
         c = "LLC" => Len(rq[Below[c]]) # RQ_SIZE[Below[c]]
  PROVE  Len(rq[Below[c]]) < RQ_SIZE[Below[c]]
<1>1. /\ Below[c] \in Place /\ Len(rq[Below[c]]) \in Nat /\ Len(rq[Below[c]]) <= RQ_SIZE[Below[c]]
      /\ RQ_SIZE[Below[c]] \in Nat
  BY BelowIsPlace, MissParts, Sizes
<1>2. CASE c = "LLC"
  BY <1>1, <1>2
<1>3. CASE c # "LLC"
  <2>1. rq[Below[c]] \in Seq(ReadOf(Below[c])) /\ MissesFit(mshr) /\ MatchedAll(rq, pq, mshr)
    BY <1>1, MissParts
  <2> QED
    BY <1>3, <2>1, RoomForMiss
<1> QED
  BY <1>2, <1>3

LEMMA ReadNewMissMatches ==
  ASSUME ReadQueuesSuffice, CacheInv, MissInv, NEW c \in Cache, ReadNewMiss(c)
  PROVE  MissInv'
<1> DEFINE p == Head(rq[c])
           T == ReturnsTo(c, p)
           z == [rq EXCEPT ![c] = Tail(rq[c])]
           d == Below[c]
           m == AddMshr(c, p)
           b == p.addr
           up == IF HasLower(c) THEN IF Forwards(d, p) THEN ReturnsTo(d, p) ELSE {} ELSE {c}
<1>1. /\ rq[c] # << >> /\ ~InMshr(c, b) /\ Cardinality(mshr[c]) < MSHR_SIZE[c]
      /\ c = "LLC" => Len(rq[d]) # RQ_SIZE[d]
      /\ mshr' = Returned(m, up, b) /\ asserted' = (asserted \/ Orphan(m, up, b))
      /\ UNCHANGED <<wq, pq>>
      /\ IF HasLower(c) THEN PopReadAndSend(c, p) ELSE rq' = z
  BY DEF ReadNewMiss, PopRead
<1>2. c \in Place /\ Answers(c, ReadOf(c))
  BY AllAnswer, Wiring
<1>3. p \in ReadOf(c) /\ Tail(rq[c]) \in Seq(ReadOf(c)) /\ Loses(rq, z, T, b) /\ p \in PacketType
  BY <1>1, <1>2, MissParts, HeadLeaves, PacketSets
<1>4. DOMAIN z = Place /\ z[c] \in Seq(ReadOf(c)) /\ \A e \in Place : e # c => z[e] = rq[e]
  BY <1>3, MissParts
<1>5. \A e \in Place : z[e] \in Seq(ReadOf(e)) /\ pq[e] \in Seq(PrefetchOf(e))
  BY <1>4, MissParts
<1> HIDE DEF p, z, m
<1>6. /\ Suits(Returned(m, {c}, b)) /\ Suits(Returned(m, {}, b))
      /\ Orphan(m, {c}, b) = FALSE /\ Orphan(m, {}, b) = FALSE
      /\ b \in Block /\ c \notin T /\ ~Waits(mshr, c, b)
      /\ Merges(mshr, Returned(m, {c}, b), T, b)
      /\ Misses(mshr, Returned(m, {}, b), T, b, c)
  BY <1>1, <1>3, NewMissEffect DEF m
<1> HIDE DEF T, b
<1>7. MatchedAll(z, pq, Returned(m, {c}, b))
  BY <1>3, <1>6, MissParts, MergeMatches
<1>8. ASSUME up = {c}, rq' = z
      PROVE  MissInv'
  <2>1. mshr' = Returned(m, {c}, b) /\ asserted' = FALSE
    BY <1>1, <1>6, <1>8, MissParts
  <2>2. PacketsFit(rq', wq', pq', mshr')
    BY <1>1, <1>5, <1>6, <1>8, <2>1, StillPackets
  <2> QED
    BY <1>1, <1>7, <1>8, <2>1, <2>2, MissInvNext
<1>9. CASE ~HasLower(c)
  BY <1>1, <1>8, <1>9
<1>10. CASE HasLower(c)
  <2>1. c \in Asking /\ ReturnsTo(d, p) = {c} /\ Sent(p) \in ReadOf(d)
    <3>1. c \in Asking
      BY <1>10 DEF Asking
    <3> QED
      BY <1>3, <3>1, ReadReturns, SentFits
  <2>2. d \in Place /\ d # c /\ z[d] = rq[d] /\ d # "L1D"
    BY <1>4, <2>1, BelowIsPlace, LowerNames DEF Memory
  <2>3. rq' = [z EXCEPT ![d] = RqAfter(d, z[d], Sent(p))]
    <3>1. rq' = [rq EXCEPT ![c] = Tail(@), ![d] = RqAfter(d, @, Sent(p))]
      BY <1>1, <1>10 DEF PopReadAndSend
    <3> QED
      BY <1>2, <2>2, <3>1, MissParts DEF z
  <2>4. CASE Forwards(d, p)
    <3>1. Forwards(d, Sent(p))
      BY <1>3, <2>2, <2>4, SentFields
    <3>2. RqAfter(d, z[d], Sent(p)) = z[d]
      BY <3>1 DEF RqAfter
    <3>3. rq' = z
      BY <1>1, <1>2, <2>3, <3>2, QueuesAreFunctions, SameQueue DEF z
    <3> QED
      BY <1>8, <1>10, <2>1, <2>4, <3>3
  <2>5. CASE ~Forwards(d, p)
    <3> DEFINE y == [z EXCEPT ![d] = RqAfter(d, z[d], Sent(p))]
    <3>1. SentOnce(z) /\ ~SentFor(z, c, b)
      <4>1. Matched(rq, pq, mshr, c, b)
        BY <1>6, <2>1, MissParts DEF MatchedAll
      <4>2. ~SentFor(rq, c, b)
        BY <1>6, <4>1 DEF Matched
      <4> QED
        BY <1>3, <1>6, <2>1, <4>2 DEF Loses
    <3>2. Len(rq[d]) < RQ_SIZE[d]
      BY <1>1, <2>1, RoomBelow
    <3>3. RqAfter(d, z[d], Sent(p)) \in Seq(ReadOf(d)) /\ Gains(z, y, {c}, b)
      <4>1. ~SentFor(z, c, p.addr)
        BY <3>1 DEF b
      <4> QED
        BY <1>3, <1>4, <2>1, <2>2, <2>5, <3>1, <3>2, <4>1, MissIsRead DEF b
    <3> HIDE DEF y
    <3>4. MatchedAll(y, pq, Returned(m, {}, b))
      BY <1>3, <1>6, <3>3, MissParts, MissMatches
    <3>5. rq' = y /\ mshr' = Returned(m, {}, b) /\ asserted' = FALSE
      BY <1>1, <1>6, <1>10, <2>3, <2>5, MissParts DEF y
    <3>6. \A e \in Place : y[e] \in Seq(ReadOf(e)) /\ pq[e] \in Seq(PrefetchOf(e))
      BY <1>4, <1>5, <3>3 DEF y
    <3>7. PacketsFit(rq', wq', pq', mshr')
      BY <1>1, <1>6, <3>5, <3>6, StillPackets
    <3> QED
      BY <1>1, <3>4, <3>5, <3>7, MissInvNext
  <2> QED
    BY <2>4, <2>5
<1> QED
  BY <1>9, <1>10

LEMMA StoreNewMissMatches ==
  ASSUME ReadQueuesSuffice, CacheInv, MissInv, "L1D" \in Cache, StoreNewMiss
  PROVE  MissInv'
<1> DEFINE p == Head(wq["L1D"])
           m == AddMshr("L1D", p)
           b == p.addr
           up == IF Forwards("L2C", p) THEN ReturnsTo("L2C", p) ELSE {}
           y == [rq EXCEPT !["L2C"] = RqAfter("L2C", rq["L2C"], Sent(p))]
<1>1. /\ wq["L1D"] # << >> /\ ~InMshr("L1D", b) /\ Cardinality(mshr["L1D"]) < MSHR_SIZE["L1D"]
      /\ mshr' = Returned(m, up, b) /\ asserted' = (asserted \/ Orphan(m, up, b))
      /\ rq' = y /\ wq' = [wq EXCEPT !["L1D"] = Tail(@)] /\ UNCHANGED pq
  BY DEF StoreNewMiss
<1>2. p \in ReadOf("L1D") /\ wq'["L1D"] \in Seq(StoreOf("L1D"))
  BY <1>1, StoresLeft
<1>3. p \in PacketType
  BY <1>2, PacketSets
<1>4. "L1D" \in Asking /\ Below["L1D"] = "L2C" /\ "L2C" \in Place
  BY LowerNames, BelowIsPlace DEF Asking, HasLower
<1>5. "L1D" \in CoreCache
  BY Wiring
<1>6. ReturnsTo("L2C", p) = {"L1D"} /\ Sent(p) \in ReadOf("L2C")
  BY <1>2, <1>3, <1>4, ReadReturns, SentFits
<1> HIDE DEF p, m, y
<1>7. /\ Suits(Returned(m, {"L1D"}, b)) /\ Suits(Returned(m, {}, b))
      /\ Orphan(m, {"L1D"}, b) = FALSE /\ Orphan(m, {}, b) = FALSE
      /\ b \in Block /\ ~Waits(mshr, "L1D", b)
      /\ Merges(mshr, Returned(m, {"L1D"}, b), {}, b)
      /\ Misses(mshr, Returned(m, {}, b), {}, b, "L1D")
  <2>1. ReturnsTo("L1D", p) = {}
    BY <1>5, CoreReturns
  <2> QED
    BY <1>1, <1>2, <2>1, NewMissEffect DEF m
<1> HIDE DEF b
<1>8. Loses(rq, rq, {}, b)
  BY MissParts, LosesNone
<1>9. CASE Forwards("L2C", p)
  <2>1. Forwards("L2C", Sent(p))
    BY <1>3, <1>9, SentFields
  <2>2. rq' = rq
    BY <1>1, <2>1, QueuesAreFunctions, SameQueue DEF RqAfter, y
  <2>3. mshr' = Returned(m, {"L1D"}, b) /\ asserted' = FALSE
    BY <1>1, <1>6, <1>7, <1>9, MissParts
  <2>4. MatchedAll(rq, pq, mshr')
    BY <1>7, <1>8, <2>3, MissParts, MergeMatches
  <2>5. PacketsFit(rq', wq', pq', mshr')
    BY <1>1, <1>2, <1>7, <2>2, <2>3, MissParts DEF PacketsFit, Suits
  <2> QED
    BY <1>1, <2>2, <2>3, <2>4, <2>5, MissInvNext
<1>10. CASE ~Forwards("L2C", p)
  <2>1. ~SentFor(rq, "L1D", b)
    <3>1. Matched(rq, pq, mshr, "L1D", b)
      BY <1>4, <1>7, MissParts DEF MatchedAll
    <3> QED
      BY <1>7, <3>1 DEF Matched
  <2>2. Len(rq["L2C"]) < RQ_SIZE["L2C"]
    BY <1>1, <1>4, RoomBelow
  <2>3. RqAfter("L2C", rq["L2C"], Sent(p)) \in Seq(ReadOf("L2C")) /\ Gains(rq, y, {"L1D"}, b)
    <3>1. ~SentFor(rq, "L1D", p.addr)
      BY <2>1 DEF b
    <3> QED
      BY <1>3, <1>4, <1>6, <1>10, <2>2, <3>1, MissParts, MissIsRead DEF b, y
  <2>4. MatchedAll(y, pq, Returned(m, {}, b))
    BY <1>7, <1>8, <2>3, MissParts, MissMatches
  <2>5. mshr' = Returned(m, {}, b) /\ asserted' = FALSE
    BY <1>1, <1>7, <1>10, MissParts
  <2>6. \A e \in Place : y[e] \in Seq(ReadOf(e))
    BY <2>3, MissParts DEF y
  <2>7. PacketsFit(rq', wq', pq', mshr')
    BY <1>1, <1>2, <1>7, <2>5, <2>6, MissParts DEF PacketsFit, Suits
  <2> QED
    BY <1>1, <2>4, <2>5, <2>7, MissInvNext
<1> QED
  BY <1>9, <1>10

\* A prefetch that is not for the cache it leaves, nor for any other known.
LEMMA PrefetchPassesMatches ==
  ASSUME CacheInv, MissInv, NEW c \in Cache, PrefetchNewMiss(c), ~FillsHere(c, Head(pq[c]))
  PROVE  MissInv'
<1> DEFINE p == Head(pq[c])
           d == Below[c]
           z == [pq EXCEPT ![c] = Tail(pq[c])]
           up == IF Forwards(d, p) THEN ReturnsTo(d, p) ELSE {}
           y == [z EXCEPT ![d] = PqAfter(d, z[d], Sent(p))]
<1>1. c \in Place /\ Answers(c, PrefetchOf(c)) /\ pq[c] # << >> /\ UNCHANGED wq
  BY AllAnswer, Wiring DEF PrefetchNewMiss
<1>2. c \in Cache \ TLB /\ c \in Asking
  BY <1>1, HeadOfPrefetch DEF Asking, HasLower, TLB
<1>3. p \in PrefetchOf(c) /\ Tail(pq[c]) \in Seq(PrefetchOf(c)) /\ p \in PacketType
      /\ Loses(pq, z, ReturnsTo(c, p), p.addr)
  BY <1>1, MissParts, HeadLeaves, PacketSets
<1>4. ReturnsTo(c, p) = {} /\ ReturnsTo(d, p) = {} /\ c # "LLC"
  <2>1. c # "LLC"
    BY <1>3 DEF PrefetchOf, FlagsFit, FillsHere, Level
  <2> QED
    BY <1>2, <1>3, <2>1, PrefetchReturns
<1>5. /\ mshr' = Returned(mshr, {}, p.addr) /\ asserted' = (asserted \/ Orphan(mshr, {}, p.addr))
      /\ Len(pq[d]) # PQ_SIZE[d] /\ UNCHANGED rq
      /\ pq' = [pq EXCEPT ![c] = Tail(@), ![d] = PqAfter(d, @, Sent(p))]
  BY <1>4 DEF PrefetchNewMiss
<1>6. d \in Place /\ d # c /\ z[d] = pq[d] /\ d # "L1D" /\ DOMAIN z = Place
  BY <1>1, <1>2, BelowIsPlace, LowerNames, MissParts DEF Memory
<1>7. pq' = y
  BY <1>1, <1>5, <1>6, MissParts
<1>8. Suits(mshr') /\ \A k \in Asking, a \in Block :
                        /\ Fetched(mshr', k, a) <=> Fetched(mshr, k, a)
                        /\ Waits(mshr', k, a) <=> Waits(mshr, k, a)
  BY <1>5, MissParts, ReturnedEffect
<1>9. asserted' = FALSE
  BY <1>5, MissParts DEF Orphan
<1>10. Sent(p) \in PrefetchOf(d) /\ Sent(p).addr = p.addr /\ ReturnsTo(d, Sent(p)) = {}
       /\ (Forwards(d, Sent(p)) <=> Forwards(d, p))
  BY <1>2, <1>3, <1>4, <1>6, SentFits, SentFields
<1>11. \A e \in Place : z[e] \in Seq(PrefetchOf(e))
  BY <1>1, <1>3, MissParts
<1> HIDE DEF p, z
<1>12. MatchedAll(z, rq, mshr)
  BY <1>3, <1>4, MissParts, MatchedEitherWay, SameMatches
<1>13. MatchedAll(y, rq, mshr) /\ y[d] \in Seq(PrefetchOf(d))
  <2>1. CASE Forwards(d, p)
    <3>1. PqAfter(d, z[d], Sent(p)) = z[d]
      BY <1>10, <2>1 DEF PqAfter
    <3>2. y = z
      BY <1>1, <3>1, QueuesAreFunctions, SameQueue DEF z
    <3> QED
      BY <1>6, <1>11, <1>12, <3>2
  <2>2. CASE ~Forwards(d, p)
    <3>1. Len(z[d]) < PQ_SIZE[d]
      BY <1>5, <1>6, Parts, Sizes, LenProperties DEF Bounded
    <3>2. SentOnce(z) /\ z[d] \in Seq(PrefetchOf(d)) /\ ~Forwards(d, Sent(p))
      BY <1>6, <1>10, <1>11, <1>12, <2>2 DEF MatchedAll
    <3>3. \A k \in ReturnsTo(d, Sent(p)) : ~SentFor(z, k, Sent(p).addr)
      BY <1>10
    <3>4. /\ PqAfter(d, z[d], Sent(p)) \in Seq(PrefetchOf(d))
          /\ Gains(z, y, ReturnsTo(d, Sent(p)), Sent(p).addr)
      BY <1>6, <1>10, <3>1, <3>2, <3>3, PrefetchComes
    <3>5. Gains(z, y, {}, Sent(p).addr)
      BY <1>10, <3>4
    <3>6. y[d] \in Seq(PrefetchOf(d))
      BY <1>6, <3>4
    <3> HIDE DEF y
    <3> QED
      BY <1>12, <3>5, <3>6, SameMatches
  <2> QED
    BY <2>1, <2>2
<1>14. \A e \in Place : rq[e] \in Seq(ReadOf(e)) /\ y[e] \in Seq(PrefetchOf(e))
  BY <1>6, <1>11, <1>13, MissParts
<1> HIDE DEF y
<1>15. MatchedAll(rq, y, mshr')
  <2>1. MatchedAll(rq, y, mshr)
    BY <1>13, MatchedEitherWay
  <2> QED
    BY <1>8, <2>1 DEF MatchedAll, Matched
<1>16. PacketsFit(rq', wq', pq', mshr')
  BY <1>1, <1>5, <1>7, <1>8, <1>14, StillPackets
<1> QED
  BY <1>5, <1>7, <1>9, <1>15, <1>16, MissInvNext


\* A prefetch that is for the cache it leaves becomes a miss of it.
LEMMA PrefetchMissMatches ==
  ASSUME CacheInv, MissInv, NEW c \in Cache, PrefetchNewMiss(c), FillsHere(c, Head(pq[c]))
  PROVE  MissInv'
<1> DEFINE p == Head(pq[c])
           T == ReturnsTo(c, p)
           d == Below[c]
           z == [pq EXCEPT ![c] = Tail(pq[c])]
           m == AddMshr(c, p)
           b == p.addr
           up == IF Forwards(d, p) THEN ReturnsTo(d, p) ELSE {}
           s == Sent(p)
<1>1. /\ c \in Place /\ Answers(c, PrefetchOf(c)) /\ pq[c] # << >> /\ UNCHANGED wq
      /\ ~InMshr(c, b) /\ mshr' = Returned(m, up, b) /\ asserted' = (asserted \/ Orphan(m, up, b))
  BY AllAnswer, Wiring DEF PrefetchNewMiss
<1>2. c \in Cache \ TLB /\ c \in Asking
  BY <1>1, HeadOfPrefetch DEF Asking, HasLower, TLB
<1>3. p \in PrefetchOf(c) /\ Tail(pq[c]) \in Seq(PrefetchOf(c)) /\ p \in PacketType
      /\ Loses(pq, z, T, b)
  BY <1>1, MissParts, HeadLeaves, PacketSets
<1>4. ReturnsTo(d, p) = {c}
  BY <1>2, <1>3, PrefetchReturns
<1>5. d \in Place /\ d # c /\ z[d] = pq[d] /\ d # "L1D" /\ DOMAIN z = Place
  BY <1>1, <1>2, BelowIsPlace, LowerNames, MissParts DEF Memory
<1>6. /\ s \in PacketType /\ s \in PrefetchOf(d) /\ (c = "LLC" => s \in ReadOf(d))
      /\ s.addr = b /\ ReturnsTo(d, s) = {c} /\ (Forwards(d, s) <=> Forwards(d, p))
  BY <1>2, <1>3, <1>4, <1>5, SentFits, SentFields
<1>7. \A e \in Place : z[e] \in Seq(PrefetchOf(e)) /\ rq[e] \in Seq(ReadOf(e))
  BY <1>1, <1>3, MissParts
<1>8. IF c = "LLC"
      THEN /\ Len(rq[d]) # RQ_SIZE[d] /\ rq' = [rq EXCEPT ![d] = RqAfter(d, rq[d], s)] /\ pq' = z
      ELSE /\ Len(pq[d]) # PQ_SIZE[d] /\ rq' = rq /\ pq' = [z EXCEPT ![d] = PqAfter(d, z[d], s)]
  <2>1. IF c = "LLC"
        THEN /\ Len(rq[d]) # RQ_SIZE[d] /\ rq' = [rq EXCEPT ![d] = RqAfter(d, @, s)]
             /\ pq' = [pq EXCEPT ![c] = Tail(@)]
        ELSE /\ Len(pq[d]) # PQ_SIZE[d] /\ rq' = rq
             /\ pq' = [pq EXCEPT ![c] = Tail(@), ![d] = PqAfter(d, @, s)]
    BY DEF PrefetchNewMiss
  <2> HIDE DEF s
  <2>2. c # "LLC" => pq' = [z EXCEPT ![d] = PqAfter(d, z[d], s)]
    BY <1>1, <1>5, <2>1, MissParts
  <2> QED
    BY <2>1, <2>2
<1>9. z \in [Place -> Seq(PacketType)] /\ rq \in [Place -> Seq(PacketType)]
  BY <1>1, QueuesAreFunctions
<1> HIDE DEF z, m, T
<1>10. /\ Suits(Returned(m, {c}, b)) /\ Suits(Returned(m, {}, b))
       /\ Orphan(m, {c}, b) = FALSE /\ Orphan(m, {}, b) = FALSE
       /\ b \in Block /\ c \notin T /\ ~Waits(mshr, c, b)
       /\ Merges(mshr, Returned(m, {c}, b), T, b) /\ Misses(mshr, Returned(m, {}, b), T, b, c)
  BY <1>1, <1>2, <1>3, NewMissEffect DEF m, T
<1> HIDE DEF b, p, s
<1>11. MatchedAll(pq, rq, mshr) /\ SentOnce(z) /\ SentOnce(rq)
       /\ ~SentFor(pq, c, b) /\ ~SentFor(rq, c, b) /\ ~SentFor(z, c, b)
  <2>1. Matched(rq, pq, mshr, c, b)
    BY <1>2, <1>10, MissParts DEF MatchedAll
  <2>2. ~SentFor(rq, c, b) /\ ~SentFor(pq, c, b)
    BY <1>10, <2>1 DEF Matched
  <2>3. ~SentFor(z, c, b)
    BY <1>2, <1>3, <1>10, <2>2 DEF Loses
  <2> QED
    BY <1>3, <2>2, <2>3, MissParts, MatchedEitherWay DEF Loses
<1>12. CASE Forwards(d, p)
  <2>1. RqAfter(d, rq[d], s) = rq[d] /\ PqAfter(d, z[d], s) = z[d]
    BY <1>6, <1>12 DEF RqAfter, PqAfter
  <2>2. rq' = rq /\ pq' = z
    BY <1>8, <1>9, <2>1, SameQueue
  <2>3. mshr' = Returned(m, {c}, b) /\ asserted' = FALSE
    BY <1>1, <1>4, <1>10, <1>12, MissParts
  <2>4. MatchedAll(rq', pq', mshr')
    <3>1. MatchedAll(z, rq, Returned(m, {c}, b))
      BY <1>3, <1>10, <1>11, MergeMatches
    <3> QED
      BY <2>2, <2>3, <3>1, MatchedEitherWay
  <2>5. PacketsFit(rq', wq', pq', mshr')
    BY <1>1, <1>7, <1>10, <2>2, <2>3, StillPackets
  <2> QED
    BY <2>3, <2>4, <2>5, MissInvNext
<1>13. CASE ~Forwards(d, p)
  <2>1. mshr' = Returned(m, {}, b) /\ asserted' = FALSE
    BY <1>1, <1>10, <1>13, MissParts
  <2>2. ~Forwards(d, s) /\ \A k \in ReturnsTo(d, s) : k = c
    BY <1>6, <1>13
  <2>3. CASE c = "LLC"
    <3> DEFINE y == [rq EXCEPT ![d] = RqAfter(d, rq[d], s)]
    <3>1. Len(rq[d]) < RQ_SIZE[d]
      BY <1>5, <1>8, <2>3, Parts, Sizes, LenProperties DEF Bounded
    <3>2. /\ RqAfter(d, rq[d], s) \in Seq(ReadOf(d))
          /\ Gains(rq, y, ReturnsTo(d, s), s.addr)
      <4>1. DOMAIN rq = Place /\ rq[d] \in Seq(ReadOf(d)) /\ s \in ReadOf(d)
        BY <1>5, <1>6, <1>7, <2>3, MissParts
      <4>2. \A k \in ReturnsTo(d, s) : ~SentFor(rq, k, s.addr)
        BY <1>6, <1>11
      <4> QED
        BY <1>5, <1>11, <2>2, <3>1, <4>1, <4>2, ReadComes
    <3>3. Gains(rq, y, {c}, b)
      BY <1>6, <3>2
    <3>4. \A e \in Place : y[e] \in Seq(ReadOf(e)) /\ z[e] \in Seq(PrefetchOf(e))
      BY <1>7, <1>9, <3>2
    <3>5. rq' = y /\ pq' = z
      BY <1>8, <2>3
    <3> HIDE DEF y
    <3>6. MatchedAll(z, y, Returned(m, {}, b))
      BY <1>3, <1>10, <1>11, <3>3, MissMatchesAcross
    <3>7. MatchedAll(rq', pq', mshr')
      BY <2>1, <3>5, <3>6, MatchedEitherWay
    <3>8. PacketsFit(rq', wq', pq', mshr')
      BY <1>1, <1>10, <2>1, <3>4, <3>5, StillPackets
    <3> QED
      BY <2>1, <3>7, <3>8, MissInvNext
  <2>4. CASE c # "LLC"
    <3> DEFINE y == [z EXCEPT ![d] = PqAfter(d, z[d], s)]
    <3>1. Len(z[d]) < PQ_SIZE[d]
      BY <1>5, <1>8, <2>4, Parts, Sizes, LenProperties DEF Bounded
    <3>2. /\ PqAfter(d, z[d], s) \in Seq(PrefetchOf(d))
          /\ Gains(z, y, ReturnsTo(d, s), s.addr)
      <4>1. DOMAIN z = Place /\ z[d] \in Seq(PrefetchOf(d)) /\ s \in PrefetchOf(d)
        BY <1>5, <1>6, <1>7
      <4>2. \A k \in ReturnsTo(d, s) : ~SentFor(z, k, s.addr)
        BY <1>6, <1>11
      <4> QED
        BY <1>5, <1>11, <2>2, <3>1, <4>1, <4>2, PrefetchComes
    <3>3. Gains(z, y, {c}, b)
      BY <1>6, <3>2
    <3>4. \A e \in Place : rq[e] \in Seq(ReadOf(e)) /\ y[e] \in Seq(PrefetchOf(e))
      BY <1>7, <1>9, <3>2
    <3>5. rq' = rq /\ pq' = y
      BY <1>8, <2>4
    <3> HIDE DEF y
    <3>6. MatchedAll(y, rq, Returned(m, {}, b))
      BY <1>3, <1>10, <1>11, <3>3, MissMatches
    <3>7. MatchedAll(rq', pq', mshr')
      BY <2>1, <3>5, <3>6, MatchedEitherWay
    <3>8. PacketsFit(rq', wq', pq', mshr')
      BY <1>1, <1>10, <2>1, <3>4, <3>5, StillPackets
    <3> QED
      BY <2>1, <3>7, <3>8, MissInvNext
  <2> QED
    BY <2>3, <2>4
<1> QED
  BY <1>12, <1>13

\* The core asks.  No cache above waits for what the core's caches read.
LEMMA CoreReadMatches ==
  ASSUME CacheInv, MissInv, NEW c, NEW r, NEW a \in Block, NEW w \in Word,
         NEW t \in {"LOAD", "RFO"}, CoreRead(c, r, a, w, t), r \in Request
  PROVE  MissInv'
<1> DEFINE p == Packet(c, a, w, t, 1, IF c \in InstrCache THEN {} ELSE {r})
<1>1. /\ c \in CoreCache /\ a \in (IF c \in InstrCache THEN CodeBlock ELSE DataBlock)
      /\ Forwards(c, p) \/ Holds(rq[c], a) \/ Len(rq[c]) < RQ_SIZE[c]
      /\ rq' = [rq EXCEPT ![c] = RqAfter(c, @, p)] /\ UNCHANGED <<wq, pq, mshr, asserted>>
  BY DEF CoreRead
<1>2. p \in ReadOf(c) /\ p.addr = a
  BY <1>1, CoreReadMade
<1>3. c \in Place /\ c \in Cache
  BY <1>1, Wiring
<1>4. \A k \in Asking : Below[k] # c
  BY <1>1, Wiring DEF Asking, HasLower
<1> HIDE DEF p
<1>5. RqAfter(c, rq[c], p) \in Seq(ReadOf(c))
  <2>1. CASE Forwards(c, p)
    BY <1>3, <2>1, MissParts DEF RqAfter
  <2>2. CASE ~Forwards(c, p)
    <3>1. \A e \in ReadOf(c) : e.addr = p.addr =>
            Joined(e, p) \in ReadOf(c) /\ (Joined(e, p) \in {} <=> e \in {} \/ p \in {})
      BY <1>2, <1>3, JoinedReturns
    <3>2. OnlyOne(rq[c], {}) /\ ~(Some(rq[c], {}) /\ p \in {})
      BY DEF OnlyOne
    <3>3. ReadOf(c) \in SUBSET PacketType /\ rq[c] \in Seq(ReadOf(c)) /\ RQ_SIZE[c] \in Nat
      BY <1>3, PacketSets, MissParts, Sizes
    <3>4. Holds(rq[c], p.addr) \/ Len(rq[c]) < RQ_SIZE[c]
      BY <1>1, <1>2, <2>2
    <3> QED
      BY <1>2, <2>2, <3>1, <3>2, <3>3, <3>4, SomeAfterRq
  <2> QED
    BY <2>1, <2>2
<1>6. \A d \in Place : rq'[d] \in Seq(ReadOf(d)) /\ (d # c => rq'[d] = rq[d])
  BY <1>1, <1>5, MissParts
<1>7. MatchedAll(rq', pq', mshr')
  <2>1. \A k \in Asking : rq'[Below[k]] = rq[Below[k]]
    BY <1>4, <1>6, BelowIsPlace
  <2>2. MatchedAll(rq, pq, mshr)
    BY MissParts
  <2> QED
    BY <1>1, <2>1, <2>2 DEF MatchedAll, SentOnce, Matched, SentFor
<1>8. PacketsFit(rq', wq', pq', mshr')
  BY <1>1, <1>6, MissParts, StillPackets
<1> QED
  BY <1>1, <1>7, <1>8, MissInvNext, MissParts

LEMMA CoreWriteMatches ==
  ASSUME CacheInv, MissInv, NEW a \in Block, NEW w \in Word, CoreWrite(a, w)
  PROVE  MissInv'
<1> DEFINE p == Packet("L1D", a, w, "RFO", 1, {})
<1>1. /\ "L1D" \in Cache /\ a \in DataBlock /\ wq' = [wq EXCEPT !["L1D"] = WqAfter("L1D", p)]
      /\ UNCHANGED <<rq, pq, mshr, asserted>>
  BY DEF CoreWrite
<1>2. "L1D" \in CoreCache /\ "L1D" \notin InstrCache /\ "L1D" \in Place
  BY <1>1, Wiring DEF InstrCache
<1>3. p \in ReadOf("L1D") /\ p.waiters = {}
  <2>1. a \in (IF "L1D" \in InstrCache THEN CodeBlock ELSE DataBlock)
    BY <1>1, <1>2
  <2> QED
    BY <1>2, <2>1, CoreReadMade
<1>4. p \in StoreOf("L1D")
  BY <1>3 DEF StoreOf
<1> HIDE DEF p
<1>5. wq["L1D"] \in Seq(StoreOf("L1D"))
  BY <1>1, MissParts
<1>6. WqAfter("L1D", p) \in Seq(StoreOf("L1D"))
  BY <1>4, <1>5 DEF WqAfter
<1>7. wq'["L1D"] \in Seq(StoreOf("L1D"))
  BY <1>1, <1>2, <1>6, MissParts
<1>8. PacketsFit(rq', wq', pq', mshr')
  BY <1>1, <1>7, MissParts DEF PacketsFit
<1> QED
  BY <1>1, <1>8, MissInvNext, MissParts

LEMMA PrefetchLineMatches ==
  ASSUME CacheInv, MissInv, NEW c \in Cache, NEW a \in Block, NEW l \in {1, 2, 4},
         PrefetchLine(c, a, l)
  PROVE  MissInv'
<1> DEFINE p == [Packet(c, a, 0, "PREFETCH", l, {}) EXCEPT !.l1d = (l = 1 /\ c # "L1I")]
<1>1. /\ c \in Cache \ TLB /\ (c = "L1I" => a \in CodeBlock) /\ (c = "L1D" => a \in DataBlock)
      /\ Level(c) <= l /\ (c = "L1I" => l = Level(c))
      /\ Len(pq[c]) < PQ_SIZE[c] /\ pq' = [pq EXCEPT ![c] = PqAfter(c, pq[c], p)]
      /\ UNCHANGED <<wq, rq, mshr, asserted>>
  BY DEF PrefetchLine
<1>2. c = "L1I" => l = 1
  BY <1>1 DEF Level
<1>3. p \in PrefetchOf(c) /\ ReturnsTo(c, p) = {}
  BY <1>1, <1>2, PrefetchMade
<1>4. c \in Place /\ DOMAIN pq = Place /\ pq[c] \in Seq(PrefetchOf(c)) /\ SentOnce(pq)
      /\ pq \in [Place -> Seq(PacketType)]
  BY Wiring, MissParts, QueuesAreFunctions
<1> DEFINE y == [pq EXCEPT ![c] = PqAfter(c, pq[c], p)]
<1> HIDE DEF p
<1>5. MatchedAll(pq, rq, mshr)
  BY MissParts, MatchedEitherWay
<1>6. PqAfter(c, pq[c], p) \in Seq(PrefetchOf(c)) /\ MatchedAll(y, rq, mshr)
  <2>1. CASE Forwards(c, p)
    <3>1. PqAfter(c, pq[c], p) = pq[c]
      BY <2>1 DEF PqAfter
    <3> QED
      BY <1>4, <1>5, <3>1, SameQueue
  <2>2. CASE ~Forwards(c, p)
    <3>1. \A k \in ReturnsTo(c, p) : ~SentFor(pq, k, p.addr)
      BY <1>3
    <3>2. /\ PqAfter(c, pq[c], p) \in Seq(PrefetchOf(c))
          /\ Gains(pq, y, ReturnsTo(c, p), p.addr)
      BY <1>1, <1>3, <1>4, <2>2, <3>1, PrefetchComes
    <3>3. Gains(pq, y, {}, p.addr)
      BY <1>3, <3>2
    <3> HIDE DEF y
    <3> QED
      BY <1>5, <3>2, <3>3, SameMatches
  <2> QED
    BY <2>1, <2>2
<1>7. \A e \in Place : rq[e] \in Seq(ReadOf(e)) /\ y[e] \in Seq(PrefetchOf(e))
  BY <1>6, MissParts
<1>8. pq' = y
  BY <1>1
<1> HIDE DEF y
<1>9. MatchedAll(rq', pq', mshr')
  BY <1>1, <1>6, <1>8, MatchedEitherWay
<1>10. PacketsFit(rq', wq', pq', mshr')
  BY <1>1, <1>7, <1>8, StillPackets, MissParts
<1> QED
  BY <1>1, <1>9, <1>10, MissInvNext, MissParts

\* The steps that leave reads, prefetches and misses alone.
LEMMA OthersMatch ==
  ASSUME CacheInv, MissInv, UNCHANGED <<rq, pq, mshr, asserted>>,
         "L1D" \in Cache => wq'["L1D"] \in Seq(StoreOf("L1D"))
  PROVE  MissInv'
<1>1. PacketsFit(rq', wq', pq', mshr')
  BY MissParts DEF PacketsFit
<1> QED
  BY <1>1, MissInvNext, MissParts

LEMMA HandleWritebackMatches ==
  ASSUME CodeApartFromData, ReadQueuesSuffice, CacheInv, MissInv, NEW c \in Cache,
         HandleWriteback(c)
  PROVE  MissInv'
<1>1. DOMAIN wq = Place /\ ("L1D" \in Cache => wq["L1D"] \in Seq(StoreOf("L1D")))
      /\ ("L1D" \in Cache => "L1D" \in Place)
  BY MissParts, Wiring
<1>2. CASE WriteHit(c)
  <2>1. wq' = [wq EXCEPT ![c] = Tail(@)] /\ wq[c] # << >> /\ UNCHANGED <<rq, pq, mshr, asserted>>
    BY <1>2 DEF WriteHit
  <2>2. "L1D" \in Cache => wq'["L1D"] \in Seq(StoreOf("L1D"))
    <3>1. CASE c = "L1D"
      BY <2>1, <3>1, StoresLeft
    <3>2. CASE c # "L1D"
      BY <1>1, <2>1, <3>2
    <3> QED
      BY <3>1, <3>2
  <2> QED
    BY <2>1, <2>2, OthersMatch
<1>3. CASE c = "L1D" /\ StoreNewMiss
  BY <1>3, StoreNewMissMatches
<1>4. CASE c = "L1D" /\ StoreMerge
  BY <1>4, StoreMergeMatches
<1>5. CASE c # "L1D" /\ WriteAllocate(c)
  <2>1. PICK w \in Victims(c) :
          /\ wq' = [AfterWriteback(c, w) EXCEPT ![c] = Tail(@)]
          /\ UNCHANGED <<rq, pq, mshr, asserted>>
    BY <1>5 DEF WriteAllocate
  <2>2. "L1D" \in Cache => wq'["L1D"] = AfterWriteback(c, w)["L1D"]
    BY <1>1, <1>5, <2>1 DEF AfterWriteback
  <2>3. "L1D" \in Cache => wq'["L1D"] \in Seq(StoreOf("L1D"))
    BY <1>1, <2>2, WritebackElsewhere
  <2> QED
    BY <2>1, <2>3, OthersMatch
<1> QED
  BY <1>2, <1>3, <1>4, <1>5 DEF HandleWriteback

LEMMA StepKeepsMatch ==
  ASSUME CodeApartFromData, ReadQueuesSuffice
  PROVE  CacheInv /\ MissInv /\ [Next]_vars => MissInv'
<1> SUFFICES ASSUME CacheInv, MissInv, [Next]_vars PROVE MissInv'
  OBVIOUS
<1>1. CASE Core
  <2>1. ASSUME NEW c \in CoreCache, NEW r \in Request, NEW a \in Block, NEW w \in Word,
               NEW t \in {"LOAD", "RFO"}, CoreRead(c, r, a, w, t)
        PROVE  MissInv'
    BY <2>1, CoreReadMatches
  <2>2. ASSUME NEW a \in Block, NEW w \in Word, CoreWrite(a, w) PROVE MissInv'
    BY <2>2, CoreWriteMatches
  <2>3. ASSUME NEW c \in CoreCache, TakeProcessed(c) PROVE MissInv'
    BY <2>3, OthersMatch, MissParts DEF TakeProcessed, queues
  <2> QED
    BY <1>1, <2>1, <2>2, <2>3 DEF Core
<1>2. ASSUME NEW c \in Cache, operate(c) PROVE MissInv'
  <2>1. CASE HandleFill(c)
    BY <2>1, HandleFillMatches
  <2>2. CASE HandleWriteback(c)
    BY <2>2, HandleWritebackMatches
  <2>3. CASE HandleRead(c)
    BY <2>3, ReadHitMatches, ReadNewMissMatches, ReadMergeMatches DEF HandleRead
  <2>4. CASE HandlePrefetch(c)
    BY <2>4, PrefetchHitMatches, PrefetchPassesMatches, PrefetchMissMatches,
       PrefetchMergeMatches DEF HandlePrefetch
  <2> QED
    BY <1>2, <2>1, <2>2, <2>3, <2>4 DEF operate
<1>3. CASE \E c \in Cache, a \in Block, l \in {1, 2, 4} : PrefetchLine(c, a, l)
  BY <1>3, PrefetchLineMatches
<1>4. CASE "LLC" \in Cache /\ BypassFill
  BY <1>4, BypassMatches
<1>5. CASE MemoryReturns
  BY <1>5, MemoryReturnsMatches
<1>6. CASE MemoryWrites
  <2>1. PICK i \in Ends(wq[Memory]) :
          /\ wq' = [wq EXCEPT ![Memory] = Without(@, i)] /\ UNCHANGED <<rq, pq, mshr, asserted>>
    BY <1>6 DEF MemoryWrites
  <2>2. "L1D" \in Cache => wq'["L1D"] \in Seq(StoreOf("L1D"))
    BY <2>1, MissParts, Wiring DEF Memory
  <2> QED
    BY <2>1, <2>2, OthersMatch
<1>7. CASE \E a \in Block : SwapOut(a)
  BY <1>7, OthersMatch, MissParts DEF SwapOut, queues
<1>8. CASE UNCHANGED vars
  BY <1>8, OthersMatch, MissParts DEF vars, queues
<1> QED
  BY <1>1, <1>2, <1>3, <1>4, <1>5, <1>6, <1>7, <1>8 DEF Next

LEMMA InitMatches == Init => MissInv
<1> SUFFICES ASSUME Init PROVE MissInv
  OBVIOUS
<1>1. \A d \in Place : rq[d] = << >> /\ pq[d] = << >> /\ wq[d] = << >>
  BY DEF Init, Place
<1>2. \A c \in Cache : mshr[c] = {}
  BY DEF Init
<1>3. PacketsFit(rq, wq, pq, mshr)
  <2>1. \A S : << >> \in Seq(S)
    BY EmptySeq
  <2>2. "L1D" \in Cache => "L1D" \in Place
    BY Wiring
  <2> QED
    BY <1>1, <1>2, <2>1, <2>2 DEF PacketsFit
<1>4. MatchedAll(rq, pq, mshr)
  <2>1. SentOnce(rq) /\ SentOnce(pq)
    BY <1>1, BelowIsPlace, NoneInEmpty DEF SentOnce
  <2>2. \A c \in Asking, a \in Block : ~SentFor(rq, c, a) /\ ~SentFor(pq, c, a)
    BY <1>1, BelowIsPlace, NoneInEmpty DEF SentFor
  <2>3. \A c \in Asking, a \in Block : ~Fetched(mshr, c, a) /\ ~Waits(mshr, c, a)
    BY <1>2, BelowIsPlace DEF Fetched, Waits
  <2> QED
    BY <2>1, <2>2, <2>3 DEF MatchedAll, Matched
<1> QED
  BY <1>3, <1>4 DEF Init, MissInv


\* What waits below for a block: as many packets as misses of it, one or none.
LEMMA SourcesCounted ==
  ASSUME CacheInv, MissInv, NEW c \in Cache, HasLower(c), NEW a \in Block
  PROVE  Cardinality(Sources(c, a, Below[c])) =
           IF \E e \in mshr[c] : e.addr = a /\ ~e.returned THEN 1 ELSE 0
<1> DEFINE d == Below[c]
           G == Served(d, c, a)
           S == Sources(c, a, d)
           R == {<<"RQ", i>> : i \in {j \in 1 .. Len(rq[d]) : rq[d][j] \in G}}
           P == {<<"PQ", i>> : i \in {j \in 1 .. Len(pq[d]) : pq[d][j] \in G}}
           M == {<<"MSHR", 0>> : e \in {f \in IF d = Memory THEN {} ELSE mshr[d] : f \in G}}
<1>1. c \in Asking /\ d \in Place
  BY BelowIsPlace DEF Asking
<1>2. /\ \A i \in 1 .. Len(rq[d]) : rq[d][i] \in PacketType
      /\ \A i \in 1 .. Len(pq[d]) : pq[d][i] \in PacketType
      /\ d # Memory => d \in Cache /\ mshr[d] \subseteq PacketType
  <2>1. rq[d] \in Seq(PacketType) /\ pq[d] \in Seq(PacketType)
    BY <1>1, Parts DEF Bounded
  <2>2. d # Memory => d \in Cache /\ mshr[d] \subseteq PacketType
    BY <1>1, Parts DEF MissesFit, Place
  <2> QED
    BY <2>1, <2>2, ElementOfSeq
<1>3. S = R \cup P \cup M
  BY <1>2 DEF Sources, Served, Ends
<1>4. /\ OnlyOne(rq[d], G) /\ OnlyOne(pq[d], G)
      /\ Some(rq[d], G) <=> SentFor(rq, c, a)
      /\ Some(pq[d], G) <=> SentFor(pq, c, a)
      /\ M # {} <=> Fetched(mshr, c, a)
      /\ Matched(rq, pq, mshr, c, a)
  <2>1. MatchedAll(rq, pq, mshr)
    BY MissParts
  <2>2. M # {} <=> Fetched(mshr, c, a)
    BY <1>2, Names, Wiring DEF Fetched
  <2> QED
    BY <1>1, <2>1, <2>2 DEF MatchedAll, SentOnce, SentFor
<1>5. /\ R # {} <=> Some(rq[d], G)
      /\ P # {} <=> Some(pq[d], G)
      /\ \A x, y \in M : x = y
  BY DEF Some
<1>6. /\ \A x, y \in R : x = y
      /\ \A x, y \in P : x = y
  BY <1>4 DEF OnlyOne
<1>7. Waits(mshr, c, a) <=> \E e \in mshr[c] : e.addr = a /\ ~e.returned
  BY DEF Waits
<1> HIDE DEF R, P, M, G, S
<1>8. CASE Waits(mshr, c, a)
  <2>1. PICK x : x \in S
    BY <1>3, <1>4, <1>5, <1>8 DEF Matched
  <2>2. \A y \in S : y = x
    BY <1>3, <1>4, <1>5, <1>6, <2>1 DEF Matched
  <2>3. S = {x}
    BY <2>1, <2>2
  <2> QED
    BY <1>7, <1>8, <2>3, FS_Singleton DEF S
<1>9. CASE ~Waits(mshr, c, a)
  <2>1. S = {}
    BY <1>3, <1>4, <1>5, <1>9 DEF Matched
  <2> QED
    BY <1>7, <1>9, <2>1, FS_EmptySet DEF S
<1> QED
  BY <1>8, <1>9

\* MissesMatchRequests: return_data never asserts, and of the packets below a cache exactly
\* one will be returned to each of its misses that waits, and none to any other block.  An
\* L1 block is either code or data, and the read queues have room for the misses above.
THEOREM MissesAlwaysMatch ==
  ASSUME CodeApartFromData, ReadQueuesSuffice
  PROVE  Spec => []MissesMatchRequests
<1>1. Init => CacheInv /\ MissInv
  BY InitInv, InitMatches
<1>2. CacheInv /\ MissInv /\ [Next]_vars => (CacheInv /\ MissInv)'
  BY StepKeepsInv, StepKeepsMatch
<1>3. CacheInv /\ MissInv => MissesMatchRequests
  BY SourcesCounted, MissParts DEF MissesMatchRequests, MissesFit
<1> QED
  BY <1>1, <1>2, <1>3, PTL DEF Spec


-----------------------------------------------------------------------------
(***************************************************************************)
(* The reads of the core.  Of a cache the core reads: its RQ s, its MSHR   *)
(* entries M, its PROCESSED t, and whether it is where request r is.       *)
(***************************************************************************)

Demand == {p \in PacketType : p.type \in {"LOAD", "RFO"}}
Store == {p \in Demand : p.waiters = {}}
Speculative == {p \in PacketType : p.type = "PREFETCH" /\ p.waiters = {}}
InFlight == {p \in PacketType : p.type = "PREFETCH" => p.waiters = {}}

Carrying(r) == {p \in PacketType : r \in p.waiters}
Carries(M, r) == \E e \in M : e \in Carrying(r)
CarriesOnce(M, r) == \A e, f \in M : e \in Carrying(r) /\ f \in Carrying(r) => e = f

HeldOnce(s, M, t, r, here) ==
  /\ OnlyOne(s, Carrying(r)) /\ OnlyOne(t, Carrying(r)) /\ CarriesOnce(M, r)
  /\ ~(Some(s, Carrying(r)) /\ Carries(M, r))
  /\ ~(Some(s, Carrying(r)) /\ Some(t, Carrying(r)))
  /\ ~(Carries(M, r) /\ Some(t, Carrying(r)))
  /\ Some(s, Carrying(r)) \/ Carries(M, r) \/ Some(t, Carrying(r)) <=> here

HasBlock(s, M, t, a) == Holds(s, a) \/ (\E e \in M : e.addr = a) \/ Holds(t, a)

\* Every load or translation is in one place, the block of every fetch in some place.
Keeps(s, M, t, w, c) ==
  IF c \in InstrCache
  THEN \A r \in Request : w[r].cache = c => HasBlock(s, M, t, w[r].addr)
  ELSE \A r \in Request : HeldOnce(s, M, t, r, w[r].cache = c)

Local(s, M, t, w, c) ==
  s \in Seq(Demand) /\ M \subseteq InFlight /\ t \in Seq(PacketType) /\ Keeps(s, M, t, w, c)

LEMMA KindsOfPackets ==
  /\ Demand \subseteq PacketType /\ Store \subseteq Demand /\ Speculative \subseteq PacketType
  /\ InFlight \subseteq PacketType /\ Demand \subseteq InFlight /\ Speculative \subseteq InFlight
BY DEF Demand, Store, Speculative, InFlight

LEMMA HoldsTail ==
  ASSUME NEW S, NEW s \in Seq(S), s # << >>, NEW a
  PROVE  Holds(s, a) <=> Head(s).addr = a \/ Holds(Tail(s), a)
<1> DEFINE n == Len(s)
           t == Tail(s)
<1>1. /\ n \in Nat /\ n > 0 /\ Len(t) = n - 1 /\ Head(s) = s[1]
      /\ \A i \in 1 .. n - 1 : t[i] = s[i + 1]
  BY HeadTailProperties, LenProperties, EmptySeq
<1> HIDE DEF n, t
<1>2. /\ 1 \in 1 .. n /\ \A i \in 1 .. n - 1 : i + 1 \in 1 .. n
      /\ \A j \in 1 .. n : j # 1 => j - 1 \in 1 .. n - 1 /\ (j - 1) + 1 = j
  BY <1>1
<1>3. ASSUME Holds(s, a) PROVE Head(s).addr = a \/ Holds(t, a)
  <2>1. PICK j \in 1 .. n : s[j].addr = a
    BY <1>3 DEF Holds, Ends, n
  <2>2. j # 1 => t[j - 1] = s[j] /\ j - 1 \in 1 .. n - 1
    BY <1>1, <1>2
  <2> QED
    BY <1>1, <2>1, <2>2 DEF Holds, Ends
<1>4. ASSUME Head(s).addr = a \/ Holds(t, a) PROVE Holds(s, a)
  BY <1>1, <1>2, <1>4 DEF Holds, Ends, n
<1> QED
  BY <1>3, <1>4 DEF t

LEMMA HoldsAppend ==
  ASSUME NEW S, NEW s \in Seq(S), NEW p \in S, NEW a
  PROVE  Holds(Append(s, p), a) <=> Holds(s, a) \/ p.addr = a
<1> DEFINE n == Len(s)
           t == Append(s, p)
<1>1. n \in Nat /\ Len(t) = n + 1 /\ t[n + 1] = p /\ \A i \in 1 .. n : t[i] = s[i]
  BY AppendProperties, LenProperties
<1> HIDE DEF n, t
<1>2. n + 1 \in 1 .. n + 1 /\ \A i \in 1 .. n + 1 : i = n + 1 \/ i \in 1 .. n
  BY <1>1
<1>3. \A i \in 1 .. n : i \in 1 .. n + 1
  BY <1>1
<1>4. Holds(t, a) <=> Holds(s, a) \/ p.addr = a
  BY <1>1, <1>2, <1>3 DEF Holds, Ends, n
<1> QED
  BY <1>4 DEF t

\* What MSHR entries carry when they are marked, added, taken away or replaced.
LEMMA CarriedWhenAdded ==
  ASSUME NEW M, NEW f \in PacketType, NEW r
  PROVE  /\ Carries(M \cup {f}, r) <=> Carries(M, r) \/ r \in f.waiters
         /\ CarriesOnce(M, r) /\ ~(Carries(M, r) /\ r \in f.waiters) => CarriesOnce(M \cup {f}, r)
BY DEF Carries, CarriesOnce, Carrying

LEMMA CarriedWhenDropped ==
  ASSUME NEW M, NEW e \in M, e \in PacketType, NEW r, CarriesOnce(M, r)
  PROVE  /\ Carries(M \ {e}, r) <=> Carries(M, r) /\ r \notin e.waiters
         /\ r \in e.waiters => Carries(M, r)
         /\ CarriesOnce(M \ {e}, r)
BY DEF Carries, CarriesOnce, Carrying

LEMMA CarriedWhenReplaced ==
  ASSUME NEW M, NEW e \in M, e \in PacketType, NEW f \in PacketType, NEW R, NEW r,
         f.waiters = e.waiters \cup R, CarriesOnce(M, r), ~(Carries(M, r) /\ r \in R)
  PROVE  /\ Carries((M \ {e}) \cup {f}, r) <=> Carries(M, r) \/ r \in R
         /\ CarriesOnce((M \ {e}) \cup {f}, r)
BY DEF Carries, CarriesOnce, Carrying

\* return_data marks entries: M becomes N.
Marked(M, N, a) == N = {IF e.addr = a THEN [e EXCEPT !.returned = TRUE] ELSE e : e \in M}

LEMMA LocalMarked ==
  ASSUME NEW s, NEW M, NEW t, NEW w, NEW c, Local(s, M, t, w, c), NEW N, NEW a,
         N = M \/ Marked(M, N, a)
  PROVE  Local(s, N, t, w, c)
<1> DEFINE g(e) == IF e.addr = a THEN [e EXCEPT !.returned = TRUE] ELSE e
<1>1. CASE N = M
  BY <1>1
<1>2. CASE N = {g(e) : e \in M}
  <2>1. \A e \in M : /\ e \in PacketType /\ g(e) \in PacketType /\ g(e) \in InFlight
                     /\ g(e).waiters = e.waiters /\ g(e).addr = e.addr
    <3> SUFFICES ASSUME NEW e \in M
                 PROVE  /\ e \in PacketType /\ g(e) \in PacketType /\ g(e) \in InFlight
                        /\ g(e).waiters = e.waiters /\ g(e).addr = e.addr
      OBVIOUS
    <3>1. e \in InFlight /\ e \in PacketType
      BY KindsOfPackets DEF Local
    <3>2. g(e) \in PacketType /\ g(e).waiters = e.waiters /\ g(e).type = e.type /\ g(e).addr = e.addr
      BY <3>1 DEF PacketType
    <3> QED
      BY <3>1, <3>2 DEF InFlight
  <2> HIDE DEF g
  <2>2. \A r : /\ Carries(N, r) <=> Carries(M, r)
               /\ CarriesOnce(M, r) => CarriesOnce(N, r)
    BY <1>2, <2>1 DEF Carries, CarriesOnce, Carrying
  <2>3. \A b : (\E e \in N : e.addr = b) <=> (\E e \in M : e.addr = b)
    BY <1>2, <2>1
  <2>4. N \subseteq InFlight
    BY <1>2, <2>1
  <2>5. CASE c \in InstrCache
    BY <2>3, <2>4, <2>5 DEF Local, Keeps, HasBlock
  <2>6. CASE c \notin InstrCache
    BY <2>2, <2>4, <2>6 DEF Local, Keeps, HeldOnce
  <2> QED
    BY <2>5, <2>6
<1> QED
  BY <1>1, <1>2 DEF Marked

\* handle_read: a hit goes to the core; a miss becomes an entry; or is merged into one.
LEMMA LocalHit ==
  ASSUME NEW s, NEW M, NEW t, NEW w, NEW c, Local(s, M, t, w, c), s # << >>
  PROVE  Local(Tail(s), M, Append(t, Head(s)), w, c)
<1> DEFINE p == Head(s)
           u == Tail(s)
           v == Append(t, p)
<1>1. s \in Seq(Demand) /\ t \in Seq(PacketType) /\ p \in Demand /\ u \in Seq(Demand)
  BY DEF Local
<1>2. p \in PacketType /\ v \in Seq(PacketType)
  BY <1>1, KindsOfPackets, AppendProperties
<1> HIDE DEF p, u, v
<1>3. CASE c \in InstrCache
  <2>1. \A a : /\ Holds(s, a) <=> p.addr = a \/ Holds(u, a)
               /\ Holds(v, a) <=> Holds(t, a) \/ p.addr = a
    BY <1>1, <1>2, HoldsTail, HoldsAppend DEF p, u, v
  <2> QED
    BY <1>1, <1>2, <1>3, <2>1 DEF Local, Keeps, HasBlock, p, u, v
<1>4. CASE c \notin InstrCache
  <2>1. ASSUME NEW r \in Request PROVE HeldOnce(u, M, v, r, w[r].cache = c)
    <3> DEFINE G == Carrying(r)
    <3>1. HeldOnce(s, M, t, r, w[r].cache = c)
      BY <1>4 DEF Local, Keeps
    <3> HIDE DEF G
    <3>2. OnlyOne(s, G) /\ OnlyOne(t, G)
      BY <3>1 DEF HeldOnce, G
    <3>3. OnlyOne(u, G) /\ (Some(u, G) <=> Some(s, G) /\ p \notin G)
      BY <1>1, <3>2, SomeInTail DEF p, u
    <3>4. p \in G => Some(s, G)
      <4>1. 1 \in 1 .. Len(s) /\ p = s[1]
        BY <1>1, LenProperties, EmptySeq DEF p
      <4> QED
        BY <4>1 DEF Some
    <3>5. ~(Some(t, G) /\ p \in G)
      BY <3>1, <3>4 DEF HeldOnce, G
    <3>6. OnlyOne(v, G) /\ (Some(v, G) <=> Some(t, G) \/ p \in G)
      BY <1>1, <1>2, <3>2, <3>5, SomeInAppend DEF v
    <3> QED
      BY <3>1, <3>3, <3>4, <3>6 DEF HeldOnce, G
  <2> QED
    BY <1>1, <1>2, <1>4, <2>1 DEF Local, Keeps, p, u, v
<1> QED
  BY <1>3, <1>4

\* Entry f takes over what the head of the RQ carries: as a new entry, or in place of e.
LEMMA LocalMiss ==
  ASSUME NEW s, NEW M, NEW t, NEW w, NEW c, Local(s, M, t, w, c), s # << >>, NEW f \in InFlight,
         f.addr = Head(s).addr, NEW N,
         \/ N = M \cup {f} /\ f.waiters = Head(s).waiters
         \/ \E e \in M : /\ N = (M \ {e}) \cup {f} /\ f.waiters = e.waiters \cup Head(s).waiters
                         /\ f.addr = e.addr
  PROVE  Local(Tail(s), N, t, w, c)
<1> DEFINE p == Head(s)
           u == Tail(s)
<1>1. s \in Seq(Demand) /\ p \in Demand /\ u \in Seq(Demand) /\ M \subseteq InFlight
      /\ t \in Seq(PacketType)
  BY DEF Local
<1>2. p \in PacketType /\ f \in PacketType /\ N \subseteq InFlight /\ M \subseteq PacketType
  BY <1>1, KindsOfPackets
<1>3. f.addr = p.addr
  OBVIOUS
<1>4. CASE c \in InstrCache
  <2>1. \A a : Holds(s, a) <=> p.addr = a \/ Holds(u, a)
    BY <1>1, HoldsTail
  <2>2. \A a : (\E e \in N : e.addr = a) <=> (\E e \in M : e.addr = a) \/ p.addr = a
    BY <1>3
  <2> HIDE DEF p, u
  <2> QED
    BY <1>1, <1>2, <1>4, <2>1, <2>2 DEF Local, Keeps, HasBlock, u
<1>5. CASE c \notin InstrCache
  <2>1. ASSUME NEW r \in Request PROVE HeldOnce(u, N, t, r, w[r].cache = c)
    <3> DEFINE G == Carrying(r)
    <3>1. HeldOnce(s, M, t, r, w[r].cache = c)
      BY <1>5 DEF Local, Keeps
    <3>2. p \in G <=> r \in p.waiters
      BY <1>2 DEF Carrying
    <3>3. OnlyOne(u, G) /\ (Some(u, G) <=> Some(s, G) /\ p \notin G)
      <4>1. OnlyOne(s, G)
        BY <3>1 DEF HeldOnce
      <4> HIDE DEF G
      <4> QED
        BY <1>1, <4>1, SomeInTail
    <3>4. p \in G => Some(s, G)
      <4>1. 1 \in 1 .. Len(s) /\ p = s[1]
        BY <1>1, LenProperties, EmptySeq
      <4> QED
        BY <4>1 DEF Some
    <3>5. CarriesOnce(M, r) /\ ~(Carries(M, r) /\ r \in p.waiters)
      BY <3>1, <3>2, <3>4 DEF HeldOnce
    <3> HIDE DEF p
    <3>6. CarriesOnce(N, r) /\ (Carries(N, r) <=> Carries(M, r) \/ r \in p.waiters)
      <4>1. CASE N = M \cup {f} /\ f.waiters = p.waiters
        BY <1>2, <3>5, <4>1, CarriedWhenAdded
      <4>2. ASSUME NEW e \in M, N = (M \ {e}) \cup {f}, f.waiters = e.waiters \cup p.waiters
            PROVE  CarriesOnce(N, r) /\ (Carries(N, r) <=> Carries(M, r) \/ r \in p.waiters)
        <5>1. e \in PacketType
          BY <1>2, <4>2
        <5>2. /\ Carries((M \ {e}) \cup {f}, r) <=> Carries(M, r) \/ r \in p.waiters
              /\ CarriesOnce((M \ {e}) \cup {f}, r)
          <6> DEFINE R == p.waiters
          <6>1. f.waiters = e.waiters \cup R /\ CarriesOnce(M, r) /\ ~(Carries(M, r) /\ r \in R)
            BY <3>5, <4>2
          <6> HIDE DEF R
          <6>2. /\ Carries((M \ {e}) \cup {f}, r) <=> Carries(M, r) \/ r \in R
                /\ CarriesOnce((M \ {e}) \cup {f}, r)
            BY <1>2, <5>1, <6>1, CarriedWhenReplaced
          <6> QED
            BY <6>2 DEF R
        <5> QED
          BY <4>2, <5>2
      <4> QED
        BY <4>1, <4>2 DEF p
    <3> HIDE DEF u, G
    <3> QED
      BY <3>1, <3>2, <3>3, <3>4, <3>6 DEF HeldOnce, G
  <2> QED
    BY <1>1, <1>2, <1>5, <2>1 DEF Local, Keeps
<1> QED
  BY <1>4, <1>5

\* A store or a prefetch becomes an entry, or is merged into one: it carries nothing.
LEMMA LocalSilent ==
  ASSUME NEW s, NEW M, NEW t, NEW w, NEW c, Local(s, M, t, w, c), NEW f \in InFlight, NEW N,
         \/ N = M \cup {f} /\ f.waiters = {}
         \/ \E e \in M : N = (M \ {e}) \cup {f} /\ f.waiters = e.waiters /\ f.addr = e.addr
  PROVE  Local(s, N, t, w, c)
<1>1. f \in PacketType /\ N \subseteq InFlight /\ M \subseteq PacketType /\ s \in Seq(Demand)
      /\ t \in Seq(PacketType)
  BY KindsOfPackets DEF Local
<1>2. CASE c \in InstrCache
  <2>1. \A a : (\E e \in M : e.addr = a) => (\E e \in N : e.addr = a)
    OBVIOUS
  <2> QED
    BY <1>1, <1>2, <2>1 DEF Local, Keeps, HasBlock
<1>3. CASE c \notin InstrCache
  <2>1. ASSUME NEW r \in Request PROVE HeldOnce(s, N, t, r, w[r].cache = c)
    <3>1. HeldOnce(s, M, t, r, w[r].cache = c)
      BY <1>3 DEF Local, Keeps
    <3>2. CarriesOnce(M, r)
      BY <3>1 DEF HeldOnce
    <3>3. CarriesOnce(N, r) /\ (Carries(N, r) <=> Carries(M, r))
      <4>1. CASE N = M \cup {f} /\ f.waiters = {}
        BY <1>1, <3>2, <4>1, CarriedWhenAdded
      <4>2. ASSUME NEW e \in M, N = (M \ {e}) \cup {f}, f.waiters = e.waiters
            PROVE  CarriesOnce(N, r) /\ (Carries(N, r) <=> Carries(M, r))
        <5> DEFINE R == {q \in Request : FALSE}
        <5>1. f.waiters = e.waiters \cup R /\ CarriesOnce(M, r) /\ ~(Carries(M, r) /\ r \in R)
          BY <3>2, <4>2
        <5>2. e \in PacketType /\ r \notin R
          BY <1>1, <4>2
        <5> HIDE DEF R
        <5>3. /\ Carries((M \ {e}) \cup {f}, r) <=> Carries(M, r) \/ r \in R
              /\ CarriesOnce((M \ {e}) \cup {f}, r)
          BY <1>1, <4>2, <5>1, <5>2, CarriedWhenReplaced
        <5> QED
          BY <4>2, <5>2, <5>3
      <4> QED
        BY <4>1, <4>2
    <3> QED
      BY <3>1, <3>3 DEF HeldOnce
  <2> QED
    BY <1>1, <1>3, <2>1 DEF Local, Keeps
<1> QED
  BY <1>2, <1>3


\* handle_fill: the filled entry goes to the core, or is a prefetch that goes nowhere.
LEMMA LocalFill ==
  ASSUME NEW s, NEW M, NEW t, NEW w, NEW c, Local(s, M, t, w, c), NEW e \in M
  PROVE  Local(s, M \ {e}, Append(t, e), w, c)
<1> DEFINE N == M \ {e}
           v == Append(t, e)
<1>1. /\ s \in Seq(Demand) /\ t \in Seq(PacketType) /\ e \in PacketType /\ N \subseteq InFlight
      /\ v \in Seq(PacketType)
  BY KindsOfPackets, AppendProperties DEF Local
<1> HIDE DEF v
<1>2. CASE c \in InstrCache
  <2>1. \A a : /\ Holds(v, a) <=> Holds(t, a) \/ e.addr = a
               /\ (\E f \in M : f.addr = a) => (\E f \in N : f.addr = a) \/ e.addr = a
    BY <1>1, HoldsAppend DEF v
  <2> HIDE DEF N
  <2> QED
    BY <1>1, <1>2, <2>1 DEF Local, Keeps, HasBlock, N, v
<1>3. CASE c \notin InstrCache
  <2>1. ASSUME NEW r \in Request PROVE HeldOnce(s, N, v, r, w[r].cache = c)
    <3> DEFINE G == Carrying(r)
    <3>1. HeldOnce(s, M, t, r, w[r].cache = c)
      BY <1>3 DEF Local, Keeps
    <3>2. e \in G <=> r \in e.waiters
      BY <1>1 DEF Carrying
    <3> HIDE DEF G, N
    <3>3. OnlyOne(t, G) /\ CarriesOnce(M, r)
      BY <3>1 DEF HeldOnce, G
    <3>4. /\ Carries(N, r) <=> Carries(M, r) /\ r \notin e.waiters
          /\ r \in e.waiters => Carries(M, r)
          /\ CarriesOnce(N, r)
      BY <1>1, <3>3, CarriedWhenDropped DEF N
    <3>5. ~(Some(t, G) /\ e \in G)
      BY <3>1, <3>2, <3>4 DEF HeldOnce, G
    <3>6. OnlyOne(v, G) /\ (Some(v, G) <=> Some(t, G) \/ e \in G)
      BY <1>1, <3>3, <3>5, SomeInAppend DEF v
    <3> QED
      BY <3>1, <3>2, <3>4, <3>6 DEF HeldOnce, G
  <2> QED
    BY <1>1, <1>3, <2>1 DEF Local, Keeps, v
<1> QED
  BY <1>2, <1>3

LEMMA LocalDrop ==
  ASSUME NEW s, NEW M, NEW t, NEW w, NEW c, Local(s, M, t, w, c), NEW e \in M, e.waiters = {},
         c \notin InstrCache
  PROVE  Local(s, M \ {e}, t, w, c)
<1>1. /\ s \in Seq(Demand) /\ t \in Seq(PacketType) /\ e \in PacketType /\ M \ {e} \subseteq InFlight
  BY KindsOfPackets DEF Local
<1>2. ASSUME NEW r \in Request PROVE HeldOnce(s, M \ {e}, t, r, w[r].cache = c)
  <2>1. HeldOnce(s, M, t, r, w[r].cache = c)
    BY DEF Local, Keeps
  <2>2. CarriesOnce(M, r) /\ r \notin e.waiters
    BY <2>1 DEF HeldOnce
  <2>3. CarriesOnce(M \ {e}, r) /\ (Carries(M \ {e}, r) <=> Carries(M, r))
    BY <1>1, <2>2, CarriedWhenDropped
  <2> QED
    BY <2>1, <2>3 DEF HeldOnce
<1> QED
  BY <1>1, <1>2 DEF Local, Keeps

\* The blocks of a queue when an entry is changed, and after add_rq.
LEMMA HoldsReplaced ==
  ASSUME NEW q \in Seq(PacketType), NEW k \in 1 .. Len(q), NEW f \in PacketType, f.addr = q[k].addr
  PROVE  \A a : Holds([q EXCEPT ![k] = f], a) <=> Holds(q, a)
<1> DEFINE z == [q EXCEPT ![k] = f]
<1>1. DOMAIN q = 1 .. Len(q) /\ Len(q) \in Nat
  BY LenProperties
<1>2. z \in Seq(PacketType)
  BY ExceptSeq
<1>3. DOMAIN z = 1 .. Len(q) /\ \A i \in 1 .. Len(q) : z[i] = IF i = k THEN f ELSE q[i]
  BY <1>1
<1> HIDE DEF z
<1>4. Len(z) = Len(q) /\ \A i \in 1 .. Len(q) : z[i].addr = q[i].addr
  <2>1. Len(z) = Len(q)
    BY <1>1, <1>2, <1>3, LenProperties
  <2> QED
    BY <1>3, <2>1
<1>5. \A a : Holds(z, a) <=> Holds(q, a)
  BY <1>4 DEF Holds, Ends
<1> QED
  BY <1>5 DEF z

LEMMA HoldsAfterRq ==
  ASSUME NEW q \in Seq(PacketType), NEW d, NEW p \in PacketType, RQ_SIZE[d] \in Nat
  PROVE  /\ \/ \A a : Holds(RqAfter(d, q, p), a) <=> Holds(q, a)
            \/ /\ ~Forwards(d, p) /\ ~Holds(q, p.addr)
               /\ \A a : Holds(RqAfter(d, q, p), a) <=> Holds(q, a) \/ a = p.addr
         /\ ~Forwards(d, p) /\ (Holds(q, p.addr) \/ Len(q) < RQ_SIZE[d]) =>
              \A a : Holds(q, a) \/ a = p.addr => Holds(RqAfter(d, q, p), a)
<1> DEFINE z == RqAfter(d, q, p)
<1>1. CASE Forwards(d, p)
  BY <1>1 DEF RqAfter
<1>2. CASE ~Forwards(d, p) /\ Holds(q, p.addr)
  <2> DEFINE k == Find(q, p.addr)
  <2>1. k \in 1 .. Len(q) /\ q[k] \in PacketType
    BY <1>2, Found
  <2>2. z = [q EXCEPT ![k] = Joined(q[k], p)]
    BY <1>2 DEF RqAfter
  <2>3. Joined(q[k], p) \in PacketType /\ Joined(q[k], p).addr = q[k].addr
    <3> HIDE DEF k
    <3>1. Joined(q[k], p) \in PacketType
      BY <2>1, Merging
    <3> QED
      BY <2>1, <3>1 DEF Joined, PacketType
  <2> HIDE DEF z, k
  <2>4. \A a : Holds(z, a) <=> Holds(q, a)
    BY <2>1, <2>2, <2>3, HoldsReplaced
  <2> QED
    BY <1>2, <2>4 DEF z
<1>3. CASE ~Forwards(d, p) /\ ~Holds(q, p.addr)
  <2>1. Len(q) \in Nat
    BY LenProperties
  <2>2. CASE Len(q) >= RQ_SIZE[d]
    <3>1. z = q /\ ~(Len(q) < RQ_SIZE[d])
      BY <1>3, <2>1, <2>2 DEF RqAfter
    <3> QED
      BY <1>3, <3>1
  <2>3. CASE ~(Len(q) >= RQ_SIZE[d])
    <3>1. z = Append(q, p)
      BY <1>3, <2>3 DEF RqAfter
    <3> HIDE DEF z
    <3>2. \A a : Holds(z, a) <=> Holds(q, a) \/ a = p.addr
      BY <3>1, HoldsAppend
    <3> QED
      BY <1>3, <3>2 DEF z
  <2> QED
    BY <2>2, <2>3
<1> QED
  BY <1>1, <1>2, <1>3

LEMMA JoinedWaiters ==
  ASSUME NEW e \in Demand, NEW p \in Demand
  PROVE  /\ Joined(e, p) \in Demand /\ Joined(e, p).waiters = e.waiters \cup p.waiters
         /\ \A r : Joined(e, p) \in Carrying(r) <=> e \in Carrying(r) \/ p \in Carrying(r)
<1>1. e \in PacketType /\ p \in PacketType
  BY KindsOfPackets
<1>2. Joined(e, p) \in PacketType
  BY <1>1, Merging
<1>3. Joined(e, p).waiters = e.waiters \cup p.waiters /\ Joined(e, p).type = e.type
  BY <1>1 DEF Joined, PacketType
<1> QED
  BY <1>1, <1>2, <1>3 DEF Demand, Carrying

\* Request r, of which cache c knows nothing yet, is told to it.
LEMMA LocalAsked ==
  ASSUME NEW s, NEW M, NEW t, NEW w, NEW c, Local(s, M, t, w, c), NEW r \in Request,
         w \in [Request -> [cache : CoreCache, addr : Block] \cup {Idle}],
         c \in CoreCache, w[r] = Idle, NEW p \in Demand, NEW v,
         v = [w EXCEPT ![r] = [cache |-> c, addr |-> p.addr]],
         p.waiters = IF c \in InstrCache THEN {} ELSE {r}, ~Forwards(c, p),
         Holds(s, p.addr) \/ Len(s) < RQ_SIZE[c], RQ_SIZE[c] \in Nat
  PROVE  Local(RqAfter(c, s, p), M, t, v, c)
<1> DEFINE z == RqAfter(c, s, p)
<1>1. s \in Seq(Demand) /\ t \in Seq(PacketType) /\ M \subseteq InFlight /\ p \in PacketType
  BY KindsOfPackets DEF Local
<1>2. ASSUME NEW G, OnlyOne(s, G), ~(Some(s, G) /\ p \in G),
             \A e \in Demand : Joined(e, p) \in G <=> e \in G \/ p \in G
      PROVE  z \in Seq(Demand) /\ OnlyOne(z, G) /\ (Some(z, G) <=> Some(s, G) \/ p \in G)
  <2>1. \A e \in Demand : e.addr = p.addr =>
          Joined(e, p) \in Demand /\ (Joined(e, p) \in G <=> e \in G \/ p \in G)
    BY <1>2, JoinedWaiters
  <2> DEFINE S == Demand
  <2>2. S \in SUBSET PacketType /\ s \in Seq(S) /\ p \in S
    BY <1>1, KindsOfPackets
  <2>3. \A e \in S : e.addr = p.addr =>
          Joined(e, p) \in S /\ (Joined(e, p) \in G <=> e \in G \/ p \in G)
    BY <2>1
  <2> HIDE DEF S
  <2>4. /\ RqAfter(c, s, p) \in Seq(S) /\ OnlyOne(RqAfter(c, s, p), G)
        /\ Some(RqAfter(c, s, p), G) <=> Some(s, G) \/ p \in G
    BY <1>2, <2>2, <2>3, SomeAfterRq
  <2> QED
    BY <2>4 DEF S
<1>3. z \in Seq(Demand)
  <2>1. OnlyOne(s, {}) /\ ~(Some(s, {}) /\ p \in {})
    BY DEF OnlyOne, Some
  <2> QED
    BY <1>2, <2>1
<1>4. /\ \A x \in Request : x # r => v[x] = w[x]
      /\ v[r].cache = c /\ v[r].addr = p.addr /\ w[r].cache # c
  BY CacheAssumption DEF Idle, CoreCache, InstrCache, DataCache, TLB
<1> HIDE DEF z
<1>5. CASE c \in InstrCache
  <2>1. \A a : Holds(s, a) \/ a = p.addr => Holds(z, a)
    <3>1. s \in Seq(PacketType)
      BY <1>1, KindsOfPackets
    <3> QED
      BY <1>1, <3>1, HoldsAfterRq DEF z
  <2>2. ASSUME NEW x \in Request, v[x].cache = c PROVE HasBlock(z, M, t, v[x].addr)
    <3>1. CASE x = r
      BY <1>4, <2>1, <3>1 DEF HasBlock
    <3>2. CASE x # r
      <4>1. w[x].cache = c /\ v[x].addr = w[x].addr
        BY <1>4, <2>2, <3>2
      <4>2. HasBlock(s, M, t, w[x].addr)
        BY <1>5, <4>1 DEF Local, Keeps
      <4> QED
        BY <2>1, <4>1, <4>2 DEF HasBlock
    <3> QED
      BY <3>1, <3>2
  <2> QED
    BY <1>1, <1>3, <1>5, <2>2 DEF Local, Keeps, z
<1>6. CASE c \notin InstrCache
  <2>1. ASSUME NEW x \in Request PROVE HeldOnce(z, M, t, x, v[x].cache = c)
    <3> DEFINE G == Carrying(x)
    <3>1. HeldOnce(s, M, t, x, w[x].cache = c)
      BY <1>6 DEF Local, Keeps
    <3>2. p \in G <=> x = r
      BY <1>1, <1>6 DEF Carrying
    <3>3. OnlyOne(s, G) /\ ~(Some(s, G) /\ p \in G)
      BY <1>4, <3>1, <3>2 DEF HeldOnce
    <3>4. OnlyOne(z, G) /\ (Some(z, G) <=> Some(s, G) \/ x = r)
      <4>1. \A e \in Demand : Joined(e, p) \in G <=> e \in G \/ p \in G
        BY JoinedWaiters
      <4> HIDE DEF G
      <4> QED
        BY <1>2, <3>2, <3>3, <4>1
    <3> HIDE DEF G
    <3>5. CASE x = r
      BY <1>4, <3>1, <3>4, <3>5 DEF HeldOnce, G
    <3>6. CASE x # r
      <4>1. v[x].cache = w[x].cache
        BY <1>4, <3>6
      <4> QED
        BY <3>1, <3>4, <3>6, <4>1 DEF HeldOnce, G
    <3> QED
      BY <3>5, <3>6
  <2> QED
    BY <1>1, <1>3, <1>6, <2>1 DEF Local, Keeps, z
<1> QED
  BY <1>5, <1>6

\* A load that a store in the WQ answers goes to the core at once.
LEMMA LocalForwarded ==
  ASSUME NEW s, NEW M, NEW t, NEW w, NEW c, Local(s, M, t, w, c), NEW r \in Request,
         w \in [Request -> [cache : CoreCache, addr : Block] \cup {Idle}],
         c \in CoreCache \ InstrCache, w[r] = Idle, NEW p \in Demand, NEW v,
         v = [w EXCEPT ![r] = [cache |-> c, addr |-> p.addr]], p.waiters = {r}
  PROVE  Local(s, M, Append(t, p), v, c)
<1> DEFINE z == Append(t, p)
<1>1. /\ s \in Seq(Demand) /\ t \in Seq(PacketType) /\ M \subseteq InFlight /\ p \in PacketType
      /\ z \in Seq(PacketType)
  BY KindsOfPackets, AppendProperties DEF Local
<1>2. /\ \A x \in Request : x # r => v[x] = w[x]
      /\ v[r].cache = c /\ w[r].cache # c
  BY CacheAssumption DEF Idle, CoreCache, InstrCache, DataCache, TLB
<1> HIDE DEF z
<1>3. ASSUME NEW x \in Request PROVE HeldOnce(s, M, z, x, v[x].cache = c)
  <2> DEFINE G == Carrying(x)
  <2>1. HeldOnce(s, M, t, x, w[x].cache = c)
    BY DEF Local, Keeps
  <2>2. p \in G <=> x = r
    BY <1>1 DEF Carrying
  <2> HIDE DEF G
  <2>3. OnlyOne(t, G) /\ ~(Some(t, G) /\ p \in G)
    BY <1>2, <2>1, <2>2 DEF HeldOnce, G
  <2>4. OnlyOne(z, G) /\ (Some(z, G) <=> Some(t, G) \/ x = r)
    BY <1>1, <2>2, <2>3, SomeInAppend DEF z
  <2>5. CASE x = r
    BY <1>2, <2>1, <2>4, <2>5 DEF HeldOnce, G
  <2>6. CASE x # r
    <3>1. v[x].cache = w[x].cache
      BY <1>2, <2>6
    <3> QED
      BY <2>1, <2>4, <2>6, <3>1 DEF HeldOnce, G
  <2> QED
    BY <2>5, <2>6
<1> QED
  BY <1>1, <1>3 DEF Local, Keeps, z

\* What another cache is asked, or answers, does not concern this one.
LEMMA LocalElsewhere ==
  ASSUME NEW s, NEW M, NEW t, NEW w, NEW c, Local(s, M, t, w, c), NEW v,
         \A x \in Request : /\ v[x].cache = c <=> w[x].cache = c
                            /\ v[x].cache = c => v[x].addr = w[x].addr
  PROVE  Local(s, M, t, v, c)
<1>1. CASE c \in InstrCache
  BY <1>1 DEF Local, Keeps
<1>2. CASE c \notin InstrCache
  <2>1. ASSUME NEW x \in Request PROVE HeldOnce(s, M, t, x, v[x].cache = c)
    BY <1>2 DEF Local, Keeps, HeldOnce
  <2> QED
    BY <1>2, <2>1 DEF Local, Keeps
<1> QED
  BY <1>1, <1>2

\* The requests that packet p, of cache c, answers.
AnsweredBy(w, c, p) ==
  {r \in Request : IF c \in InstrCache THEN w[r] = [cache |-> c, addr |-> p.addr]
                                       ELSE r \in p.waiters}

\* update_rob: the head of PROCESSED is answered.
LEMMA LocalTaken ==
  ASSUME NEW s, NEW M, NEW t, NEW w, NEW c \in CoreCache, Local(s, M, t, w, c), t # << >>, NEW v,
         w \in [Request -> [cache : CoreCache, addr : Block] \cup {Idle}],
         v = [r \in Request |-> IF r \in AnsweredBy(w, c, Head(t)) THEN Idle ELSE w[r]]
  PROVE  Local(s, M, Tail(t), v, c)
<1> DEFINE p == Head(t)
           u == Tail(t)
           R == AnsweredBy(w, c, p)
<1>1. /\ s \in Seq(Demand) /\ t \in Seq(PacketType) /\ M \subseteq InFlight /\ p \in PacketType
      /\ u \in Seq(PacketType)
  BY HeadTailProperties DEF Local
<1>2. \A x \in Request : v[x].cache = IF x \in R THEN "none" ELSE w[x].cache
  BY DEF Idle
<1>3. c # "none" /\ \A x \in Request : x \notin R => v[x] = w[x]
  BY DEF CoreCache, InstrCache, DataCache
<1>4. R = {r \in Request : IF c \in InstrCache THEN w[r] = [cache |-> c, addr |-> p.addr]
                                               ELSE r \in p.waiters}
  BY DEF AnsweredBy
<1> HIDE DEF p, u, R
<1>5. CASE c \in InstrCache
  <2>1. \A a : Holds(t, a) <=> p.addr = a \/ Holds(u, a)
    BY <1>1, HoldsTail DEF p, u
  <2>2. ASSUME NEW x \in Request, v[x].cache = c PROVE HasBlock(s, M, u, v[x].addr)
    <3>1. x \notin R /\ v[x] = w[x]
      BY <1>2, <1>3, <2>2
    <3>2. w[x].cache = c /\ w[x].addr # p.addr
      <4>1. w[x].cache = c
        BY <2>2, <3>1
      <4>2. w[x] \in [cache : CoreCache, addr : Block]
        BY <1>3, <4>1 DEF Idle
      <4>3. w[x] = [cache |-> w[x].cache, addr |-> w[x].addr]
        BY <4>2
      <4> QED
        BY <1>4, <1>5, <3>1, <4>1, <4>3
    <3>3. HasBlock(s, M, t, w[x].addr)
      BY <1>5, <3>2 DEF Local, Keeps
    <3> QED
      BY <2>1, <3>1, <3>2, <3>3 DEF HasBlock
  <2> QED
    BY <1>1, <1>5, <2>2 DEF Local, Keeps, u
<1>6. CASE c \notin InstrCache
  <2>1. ASSUME NEW x \in Request PROVE HeldOnce(s, M, u, x, v[x].cache = c)
    <3> DEFINE G == Carrying(x)
    <3>1. HeldOnce(s, M, t, x, w[x].cache = c)
      BY <1>6 DEF Local, Keeps
    <3>2. p \in G <=> x \in R
      BY <1>1, <1>4, <1>6 DEF Carrying
    <3> HIDE DEF G
    <3>3. OnlyOne(t, G)
      BY <3>1 DEF HeldOnce, G
    <3>4. OnlyOne(u, G) /\ (Some(u, G) <=> Some(t, G) /\ x \notin R)
      BY <1>1, <3>2, <3>3, SomeInTail DEF p, u
    <3>5. x \in R => Some(t, G)
      <4>1. 1 \in 1 .. Len(t) /\ p = t[1]
        BY <1>1, LenProperties, EmptySeq DEF p
      <4> QED
        BY <3>2, <4>1 DEF Some
    <3>6. v[x].cache = c <=> w[x].cache = c /\ x \notin R
      BY <1>2, <1>3
    <3> QED
      BY <3>1, <3>4, <3>5, <3>6 DEF HeldOnce, G
  <2> QED
    BY <1>1, <1>6, <2>1 DEF Local, Keeps, u
<1> QED
  BY <1>5, <1>6


-----------------------------------------------------------------------------
(* No step loses a request of the core. *)

LocalInv ==
  /\ \A c \in CoreCache : /\ Local(rq[c], mshr[c], processed[c], pending, c)
                          /\ pq[c] \in Seq(Speculative)
  /\ "L1D" \in Cache => wq["L1D"] \in Seq(Store)

LEMMA LocalParts ==
  ASSUME CacheInv, LocalInv
  PROVE  /\ DOMAIN rq = Place /\ DOMAIN wq = Place /\ DOMAIN pq = Place /\ DOMAIN mshr = Cache
         /\ DOMAIN processed = CoreCache /\ processed \in [CoreCache -> Seq(PacketType)]
         /\ pending \in [Request -> [cache : CoreCache, addr : Block] \cup {Idle}]
         /\ \A c \in CoreCache : /\ rq[c] \in Seq(Demand) /\ mshr[c] \subseteq InFlight
                                 /\ Local(rq[c], mshr[c], processed[c], pending, c)
                                 /\ pq[c] \in Seq(Speculative) /\ c \in Place /\ c \in Cache
         /\ "L1D" \in Cache => wq["L1D"] \in Seq(Store)
         /\ \A c \in Cache : c \in Place /\ mshr[c] \subseteq PacketType
<1>1. /\ QueuesFit(rq, wq, pq) /\ MissesFit(mshr) /\ CoreFits(processed, asserted, pending, modified)
  BY DEF CacheInv
<1>2. /\ DOMAIN rq = Place /\ DOMAIN wq = Place /\ DOMAIN pq = Place /\ DOMAIN mshr = Cache
      /\ DOMAIN processed = CoreCache /\ processed \in [CoreCache -> Seq(PacketType)]
      /\ pending \in [Request -> [cache : CoreCache, addr : Block] \cup {Idle}]
      /\ \A c \in Cache : mshr[c] \subseteq PacketType
  BY <1>1 DEF QueuesFit, Bounded, MissesFit, CoreFits
<1> QED
  BY <1>2, Wiring DEF LocalInv, Local

\* A step at cache c, after which return_data is called in the caches T.
LEMMA LocalStep ==
  ASSUME LocalInv, NEW c, UNCHANGED pending,
         \A d \in CoreCache \ {c} : rq'[d] = rq[d] /\ processed'[d] = processed[d] /\ pq'[d] = pq[d],
         NEW m, \A d \in CoreCache \ {c} : m[d] = mshr[d],
         NEW T, NEW a, mshr' = m \/ mshr' = Returned(m, T, a),
         c \in CoreCache => /\ Local(rq'[c], m[c], processed'[c], pending, c)
                            /\ pq'[c] \in Seq(Speculative),
         "L1D" \in Cache => wq'["L1D"] \in Seq(Store)
  PROVE  LocalInv'
<1>1. ASSUME NEW d \in CoreCache
      PROVE  Local(rq'[d], mshr'[d], processed'[d], pending', d) /\ pq'[d] \in Seq(Speculative)
  <2>1. Local(rq'[d], m[d], processed'[d], pending', d) /\ pq'[d] \in Seq(Speculative)
    BY DEF LocalInv
  <2>2. mshr'[d] = m[d] \/ Marked(m[d], mshr'[d], a)
    BY Wiring DEF Returned, Marked
  <2> DEFINE s == rq'[d]
             M == m[d]
             N == mshr'[d]
             t == processed'[d]
  <2>3. /\ Local(s, M, t, pending', d)
        /\ N = M \/ Marked(M, N, a)
    BY <2>1, <2>2
  <2> HIDE DEF s, M, N, t
  <2>4. Local(s, N, t, pending', d)
    BY <2>3, LocalMarked
  <2> QED
    BY <2>1, <2>4 DEF s, N, t
<1> QED
  BY <1>1 DEF LocalInv

\* A step that no cache of the core takes part in, but by return_data.
LEMMA LocalIdle ==
  ASSUME LocalInv, UNCHANGED pending,
         \A d \in CoreCache : rq'[d] = rq[d] /\ processed'[d] = processed[d] /\ pq'[d] = pq[d],
         NEW m, \A d \in CoreCache : m[d] = mshr[d],
         NEW T, NEW a, mshr' = m \/ mshr' = Returned(m, T, a),
         "L1D" \in Cache => wq'["L1D"] \in Seq(Store)
  PROVE  LocalInv'
<1> DEFINE c == Memory
<1>1. c \notin CoreCache
  BY Wiring
<1> HIDE DEF c
<1> QED
  BY <1>1, LocalStep

\* The head of a queue leaves; p comes to it.
LEMMA KindLeft ==
  ASSUME NEW S, NEW q \in Seq(S), q # << >>
  PROVE  Head(q) \in S /\ Tail(q) \in Seq(S)
BY HeadTailProperties

LEMMA PrefetchQueued ==
  ASSUME NEW q \in Seq(Speculative), NEW d, NEW p \in Speculative, Len(q) < PQ_SIZE[d],
         PQ_SIZE[d] \in Nat
  PROVE  PqAfter(d, q, p) \in Seq(Speculative)
<1>1. CASE Forwards(d, p)
  BY <1>1 DEF PqAfter
<1>2. CASE ~Forwards(d, p)
  <2> DEFINE S == Speculative
             G == {x \in S : FALSE}
  <2>1. S \in SUBSET PacketType /\ q \in Seq(S) /\ p \in S
    BY KindsOfPackets
  <2>2. \A e \in S : MergedPrefetch(e, p) \in S
    <3>1. \A e \in S : e \in PacketType /\ p \in PacketType
      BY KindsOfPackets
    <3>2. \A e \in PacketType : MergedPrefetch(e, p).type = e.type /\ MergedPrefetch(e, p).waiters = e.waiters
      BY DEF MergedPrefetch, PacketType
    <3> QED
      BY <3>1, <3>2, Merging DEF Speculative
  <2>3. OnlyOne(q, G) /\ p \notin G /\ \A e : e \notin G
    BY DEF OnlyOne
  <2> HIDE DEF S, G
  <2>4. PqAfter(d, q, p) \in Seq(S)
    BY <1>2, <2>1, <2>2, <2>3, SomeAfterPq
  <2> QED
    BY <2>4 DEF S
<1> QED
  BY <1>1, <1>2

\* Packets as they are made: the core's reads and writes, the prefetches, new misses.
LEMMA MadeByCore ==
  ASSUME NEW c, NEW a \in Block, NEW w \in Word, NEW t \in {"LOAD", "RFO"}, NEW R \in SUBSET Request
  PROVE  /\ Packet(c, a, w, t, 1, R) \in Demand
         /\ Packet(c, a, w, t, 1, R).addr = a /\ Packet(c, a, w, t, 1, R).waiters = R
<1>1. Packet(c, a, w, t, 1, R) \in PacketType
  BY PacketMade
<1> QED
  BY <1>1 DEF Demand, Packet

LEMMA NewMissKind ==
  ASSUME NEW p \in InFlight
  PROVE  /\ [p EXCEPT !.returned = FALSE] \in InFlight
         /\ [p EXCEPT !.returned = FALSE].addr = p.addr
         /\ [p EXCEPT !.returned = FALSE].waiters = p.waiters
BY DEF InFlight, PacketType

LEMMA MergedKind ==
  ASSUME NEW e \in InFlight, NEW p \in Demand, e.addr = p.addr
  PROVE  /\ Merged(e, p) \in InFlight /\ Merged(e, p).addr = e.addr
         /\ Merged(e, p).waiters = e.waiters \cup p.waiters
<1>1. e \in PacketType /\ p \in PacketType
  BY KindsOfPackets
<1>2. Merged(e, p) \in PacketType /\ Merged(e, p).addr = e.addr
  BY <1>1, Merging
<1>3. CASE e.type = "PREFETCH"
  <2>1. Merged(e, p) = [p EXCEPT !.returned = e.returned] /\ e.waiters = {}
    BY <1>3 DEF Merged, InFlight
  <2>2. Merged(e, p).type = p.type /\ Merged(e, p).waiters = p.waiters
    BY <1>1, <2>1 DEF PacketType
  <2> QED
    BY <1>2, <2>1, <2>2 DEF InFlight, Demand
<1>4. CASE e.type # "PREFETCH"
  <2>1. Merged(e, p).type = e.type /\ Merged(e, p).waiters = e.waiters \cup p.waiters
    BY <1>1, <1>4 DEF Merged, PacketType
  <2> QED
    BY <1>2, <1>4, <2>1 DEF InFlight
<1> QED
  BY <1>3, <1>4

\* The core's own steps.
LEMMA CoreReadLocal ==
  ASSUME CacheInv, LocalInv, NEW c \in CoreCache, NEW r \in Request, NEW a \in Block, NEW w \in Word,
         NEW t \in {"LOAD", "RFO"}, CoreRead(c, r, a, w, t)
  PROVE  LocalInv'
<1> DEFINE R == IF c \in InstrCache THEN {} ELSE {r}
           p == Packet(c, a, w, t, 1, R)
<1>1. p \in Demand /\ p.addr = a /\ p.waiters = R
  <2>1. R \in SUBSET Request
    OBVIOUS
  <2> HIDE DEF R
  <2> QED
    BY <2>1, MadeByCore DEF p
<1> HIDE DEF p, R
<1>2. /\ pending[r] = Idle
      /\ Forwards(c, p) \/ Holds(rq[c], a) \/ Len(rq[c]) < RQ_SIZE[c]
      /\ pending' = [pending EXCEPT ![r] = [cache |-> c, addr |-> a]]
      /\ rq' = [rq EXCEPT ![c] = RqAfter(c, @, p)]
      /\ Forwards(c, p) => CoreKeepsUp(c)
      /\ processed' = IF c = "L1D" /\ Forwards(c, p)
                      THEN [processed EXCEPT ![c] = Processed(c, p)] ELSE processed
      /\ UNCHANGED <<wq, pq, mshr>>
  BY DEF CoreRead, p, R
<1>3. Forwards(c, p) => c = "L1D"
  <2>1. c # "L1D" => wq[c] = << >>
    BY DEF CacheInv, QueuesFit, Quiet
  <2> QED
    BY <2>1, EmptySeq DEF Forwards, Matches, Ends
<1>4. RQ_SIZE[c] \in Nat /\ c \in Place
  BY Sizes, Wiring
<1>5. ASSUME NEW d \in CoreCache, d # c PROVE Local(rq'[d], mshr'[d], processed'[d], pending', d)
  <2>1. rq'[d] = rq[d] /\ mshr'[d] = mshr[d] /\ processed'[d] = processed[d]
    BY <1>2, <1>5, LocalParts
  <2>2. Local(rq[d], mshr[d], processed[d], pending, d)
    BY LocalParts
  <2>3. \A x \in Request : /\ pending'[x].cache = d <=> pending[x].cache = d
                           /\ pending'[x].cache = d => pending'[x].addr = pending[x].addr
    <3>1. d # "none" /\ d # c
      BY <1>5 DEF CoreCache, InstrCache, DataCache
    <3>2. pending \in [Request -> [cache : CoreCache, addr : Block] \cup {Idle}]
      BY LocalParts
    <3>3. /\ \A x \in Request : x # r => pending'[x] = pending[x]
          /\ pending'[r].cache = c /\ pending[r].cache = "none"
      BY <1>2, <3>2 DEF Idle
    <3> QED
      BY <3>1, <3>3
  <2> QED
    BY <2>1, <2>2, <2>3, LocalElsewhere
<1>6. Local(rq'[c], mshr'[c], processed'[c], pending', c)
  <2>1. /\ Local(rq[c], mshr[c], processed[c], pending, c)
        /\ pending \in [Request -> [cache : CoreCache, addr : Block] \cup {Idle}]
        /\ DOMAIN rq = Place /\ DOMAIN processed = CoreCache
    BY LocalParts
  <2>2. /\ rq'[c] = RqAfter(c, rq[c], p) /\ mshr'[c] = mshr[c]
        /\ pending' = [pending EXCEPT ![r] = [cache |-> c, addr |-> p.addr]]
    BY <1>1, <1>2, <1>4, <2>1
  <2>3. CASE Forwards(c, p)
    <3>1. rq'[c] = rq[c] /\ c = "L1D" /\ c \notin InstrCache
      BY <1>3, <2>2, <2>3 DEF RqAfter, InstrCache
    <3>2. processed'[c] = Append(processed[c], p)
      BY <1>2, <2>1, <2>3, <3>1 DEF CoreKeepsUp, Processed
    <3>3. p.waiters = {r}
      BY <1>1, <3>1 DEF R
    <3>4. c \in CoreCache \ InstrCache
      BY <3>1
    <3>5. Local(rq[c], mshr[c], Append(processed[c], p), pending', c)
      BY <1>1, <1>2, <2>1, <2>2, <3>3, <3>4, LocalForwarded
    <3> QED
      BY <2>2, <3>1, <3>2, <3>5
  <2>4. CASE ~Forwards(c, p)
    <3>1. processed'[c] = processed[c]
      BY <1>2, <2>4
    <3>2. p.waiters = IF c \in InstrCache THEN {} ELSE {r}
      BY <1>1 DEF R
    <3>3. Holds(rq[c], p.addr) \/ Len(rq[c]) < RQ_SIZE[c]
      BY <1>1, <1>2, <2>4
    <3>4. Local(RqAfter(c, rq[c], p), mshr[c], processed[c], pending', c)
      BY <1>1, <1>2, <1>4, <2>1, <2>2, <2>4, <3>2, <3>3, LocalAsked
    <3> QED
      BY <2>2, <3>1, <3>4
  <2> QED
    BY <2>3, <2>4
<1>7. \A d \in CoreCache : pq'[d] \in Seq(Speculative)
  BY <1>2, LocalParts
<1>8. "L1D" \in Cache => wq'["L1D"] \in Seq(Store)
  BY <1>2, LocalParts
<1> QED
  BY <1>5, <1>6, <1>7, <1>8 DEF LocalInv

LEMMA CoreWriteLocal ==
  ASSUME CacheInv, LocalInv, NEW a \in Block, NEW w \in Word, CoreWrite(a, w)
  PROVE  LocalInv'
<1> DEFINE p == Packet("L1D", a, w, "RFO", 1, {})
<1>1. p \in Store
  <2>1. p \in Demand /\ p.waiters = {}
    BY MadeByCore
  <2> QED
    BY <2>1 DEF Store
<1> HIDE DEF p
<1>2. /\ "L1D" \in Cache /\ wq' = [wq EXCEPT !["L1D"] = WqAfter("L1D", p)]
      /\ UNCHANGED <<rq, pq, mshr, processed, pending>>
  BY DEF CoreWrite, p
<1>3. wq["L1D"] \in Seq(Store) /\ DOMAIN wq = Place /\ "L1D" \in Place
  BY <1>2, LocalParts
<1>4. wq'["L1D"] = WqAfter("L1D", p)
  BY <1>2, <1>3
<1>5. wq'["L1D"] \in Seq(Store)
  BY <1>1, <1>3, <1>4, AppendProperties DEF WqAfter
<1>6. mshr' = mshr
  BY <1>2
<1> QED
  BY <1>2, <1>5, <1>6, LocalIdle

LEMMA TakeProcessedLocal ==
  ASSUME CacheInv, LocalInv, NEW c \in CoreCache, TakeProcessed(c)
  PROVE  LocalInv'
<1> DEFINE R == AnsweredBy(pending, c, Head(processed[c]))
<1>1. /\ processed[c] # << >>
      /\ pending' = [r \in Request |-> IF r \in R THEN Idle ELSE pending[r]]
      /\ processed' = [processed EXCEPT ![c] = Tail(@)]
      /\ UNCHANGED <<rq, wq, pq, mshr>>
  BY DEF TakeProcessed, AnsweredBy, queues
<1>2. /\ \A d \in CoreCache : Local(rq[d], mshr[d], processed[d], pending, d)
      /\ pending \in [Request -> [cache : CoreCache, addr : Block] \cup {Idle}]
      /\ DOMAIN processed = CoreCache
      /\ \A d \in CoreCache : pq[d] \in Seq(Speculative)
      /\ "L1D" \in Cache => wq["L1D"] \in Seq(Store)
  BY LocalParts
<1>3. R = {r \in Request : IF c \in InstrCache
                           THEN pending[r] = [cache |-> c, addr |-> Head(processed[c]).addr]
                           ELSE r \in Head(processed[c]).waiters}
  BY DEF AnsweredBy
<1> HIDE DEF R
<1>4. Local(rq'[c], mshr'[c], processed'[c], pending', c)
  <2>1. Local(rq[c], mshr[c], Tail(processed[c]), pending', c)
    <3>1. pending' = [r \in Request |-> IF r \in AnsweredBy(pending, c, Head(processed[c]))
                                        THEN Idle ELSE pending[r]]
      BY <1>1 DEF R
    <3> QED
      BY <1>1, <1>2, <3>1, LocalTaken
  <2>2. rq'[c] = rq[c] /\ mshr'[c] = mshr[c] /\ processed'[c] = Tail(processed[c])
    BY <1>1, <1>2
  <2> QED
    BY <2>1, <2>2
<1>5. ASSUME NEW d \in CoreCache, d # c PROVE Local(rq'[d], mshr'[d], processed'[d], pending', d)
  <2>1. rq'[d] = rq[d] /\ mshr'[d] = mshr[d] /\ processed'[d] = processed[d]
    BY <1>1, <1>2, <1>5
  <2>2. \A x \in R : pending[x].cache = c
    <3>1. CASE c \in InstrCache
      BY <1>3, <3>1
    <3>2. CASE c \notin InstrCache
      <4> SUFFICES ASSUME NEW x \in R PROVE pending[x].cache = c
        OBVIOUS
      <4>1. x \in Request /\ x \in Head(processed[c]).waiters
        BY <1>3, <3>2
      <4>2. HeldOnce(rq[c], mshr[c], processed[c], x, pending[x].cache = c)
        BY <1>2, <3>2, <4>1 DEF Local, Keeps
      <4>3. processed[c] \in Seq(PacketType)
        BY <1>2 DEF Local
      <4>4. Head(processed[c]) \in Carrying(x)
        BY <1>1, <4>1, <4>3, KindLeft DEF Carrying
      <4>5. 1 \in 1 .. Len(processed[c]) /\ Head(processed[c]) = processed[c][1]
        BY <1>1, <4>3, LenProperties, EmptySeq
      <4>6. Some(processed[c], Carrying(x))
        BY <4>4, <4>5 DEF Some
      <4> QED
        BY <4>2, <4>6 DEF HeldOnce
    <3> QED
      BY <3>1, <3>2
  <2>3. \A x \in Request : /\ pending'[x].cache = d <=> pending[x].cache = d
                           /\ pending'[x].cache = d => pending'[x].addr = pending[x].addr
    <3>1. d # "none" /\ Idle.cache = "none"
      BY DEF CoreCache, InstrCache, DataCache, Idle
    <3>2. \A x \in Request : pending'[x] = IF x \in R THEN Idle ELSE pending[x]
      BY <1>1
    <3> QED
      BY <1>5, <2>2, <3>1, <3>2
  <2>4. Local(rq[d], mshr[d], processed[d], pending', d)
    BY <1>2, <2>3, LocalElsewhere
  <2> QED
    BY <2>1, <2>4
<1> QED
  BY <1>1, <1>2, <1>4, <1>5 DEF LocalInv

LEMMA PrefetchLineLocal ==
  ASSUME CacheInv, LocalInv, NEW c \in Cache, NEW a \in Block, NEW l \in {1, 2, 4},
         PrefetchLine(c, a, l)
  PROVE  LocalInv'
<1> DEFINE p == [Packet(c, a, 0, "PREFETCH", l, {}) EXCEPT !.l1d = (l = 1 /\ c # "L1I")]
<1>1. p \in Speculative
  <2> DEFINE q == Packet(c, a, 0, "PREFETCH", l, {})
             b == (l = 1 /\ c # "L1I")
  <2>1. q \in PacketType
    BY CacheAssumption, PacketMade
  <2>2. q.type = "PREFETCH" /\ q.waiters = {}
    BY DEF Packet
  <2>3. b \in BOOLEAN /\ p = [q EXCEPT !.l1d = b]
    OBVIOUS
  <2> HIDE DEF q, b, p
  <2>4. p \in PacketType /\ p.type = q.type /\ p.waiters = q.waiters
    BY <2>1, <2>3 DEF PacketType
  <2> QED
    BY <2>2, <2>4 DEF Speculative
<1> HIDE DEF p
<1>2. /\ Len(pq[c]) < PQ_SIZE[c] /\ pq' = [pq EXCEPT ![c] = PqAfter(c, pq[c], p)]
      /\ UNCHANGED <<rq, wq, mshr, processed, pending>>
  BY DEF PrefetchLine, p
<1>3. /\ DOMAIN pq = Place /\ c \in Place /\ PQ_SIZE[c] \in Nat
      /\ c \in CoreCache => /\ pq[c] \in Seq(Speculative)
                            /\ Local(rq[c], mshr[c], processed[c], pending, c)
      /\ "L1D" \in Cache => wq["L1D"] \in Seq(Store)
  BY LocalParts, Sizes
<1>4. c \in CoreCache => pq'[c] \in Seq(Speculative)
  BY <1>1, <1>2, <1>3, PrefetchQueued
<1>5. \A d \in CoreCache \ {c} : rq'[d] = rq[d] /\ processed'[d] = processed[d] /\ pq'[d] = pq[d]
  BY <1>2
<1>6. c \in CoreCache => Local(rq'[c], mshr[c], processed'[c], pending, c)
  BY <1>2, <1>3
<1> QED
  BY <1>2, <1>3, <1>4, <1>5, <1>6, LocalStep


\* handle_fill
LEMMA HandleFillLocal ==
  ASSUME CacheInv, LocalInv, NEW c \in Cache, HandleFill(c)
  PROVE  LocalInv'
<1>1. PICK e \in mshr[c], w \in Victims(c) :
        /\ c \in CoreCache => CoreKeepsUp(c)
        /\ wq' = AfterWriteback(c, w)
        /\ mshr' = Returned([mshr EXCEPT ![c] = @ \ {e}], ReturnsTo(c, e), e.addr)
        /\ processed' = IF c \in CoreCache /\ (c = "L1D" => e.type # "PREFETCH")
                        THEN [processed EXCEPT ![c] = Processed(c, e)] ELSE processed
        /\ UNCHANGED <<rq, pq, pending>>
  BY DEF HandleFill
<1> DEFINE m == [mshr EXCEPT ![c] = @ \ {e}]
<1>2. /\ DOMAIN processed = CoreCache
      /\ \A d \in CoreCache : /\ Local(rq[d], mshr[d], processed[d], pending, d)
                              /\ pq[d] \in Seq(Speculative) /\ mshr[d] \subseteq InFlight
      /\ "L1D" \in Cache => wq["L1D"] \in Seq(Store)
      /\ m[c] = mshr[c] \ {e} /\ \A d \in Cache : d # c => m[d] = mshr[d]
  BY LocalParts
<1> HIDE DEF m
<1>3. \A d \in CoreCache \ {c} : /\ rq'[d] = rq[d] /\ processed'[d] = processed[d]
                                 /\ pq'[d] = pq[d] /\ m[d] = mshr[d]
  BY <1>1, <1>2, Wiring
<1>4. "L1D" \in Cache => wq'["L1D"] \in Seq(Store)
  BY <1>1, <1>2, WritebackElsewhere
<1>5. ASSUME c \in CoreCache PROVE Local(rq'[c], m[c], processed'[c], pending, c)
  <2>1. Local(rq[c], mshr[c], processed[c], pending, c) /\ e \in mshr[c] /\ rq'[c] = rq[c]
    BY <1>1, <1>2, <1>5
  <2>2. CASE c = "L1D" => e.type # "PREFETCH"
    <3>1. processed'[c] = Append(processed[c], e)
      BY <1>1, <1>2, <1>5, <2>2 DEF CoreKeepsUp, Processed
    <3>2. Local(rq[c], mshr[c] \ {e}, Append(processed[c], e), pending, c)
      BY <2>1, LocalFill
    <3> QED
      BY <1>2, <2>1, <3>1, <3>2
  <2>3. CASE ~(c = "L1D" => e.type # "PREFETCH")
    <3>1. processed'[c] = processed[c] /\ c \notin InstrCache
      BY <1>1, <2>3 DEF InstrCache
    <3>2. e.waiters = {}
      BY <1>2, <1>5, <2>1, <2>3 DEF InFlight
    <3>3. Local(rq[c], mshr[c] \ {e}, processed[c], pending, c)
      BY <2>1, <3>1, <3>2, LocalDrop
    <3> QED
      BY <1>2, <2>1, <3>1, <3>3
  <2> QED
    BY <2>2, <2>3
<1>6. mshr' = Returned(m, ReturnsTo(c, e), e.addr) /\ UNCHANGED pending
  BY <1>1 DEF m
<1>7. c \in CoreCache => pq'[c] \in Seq(Speculative)
  BY <1>1, <1>2
<1> QED
  BY <1>3, <1>4, <1>5, <1>6, <1>7, LocalStep

LEMMA BypassLocal ==
  ASSUME CacheInv, LocalInv, "LLC" \in Cache, BypassFill
  PROVE  LocalInv'
<1>1. PICK e \in mshr["LLC"] :
        /\ mshr' = Returned([mshr EXCEPT !["LLC"] = @ \ {e}], ReturnsTo("LLC", e), e.addr)
        /\ UNCHANGED <<rq, wq, pq, processed, pending>>
  BY DEF BypassFill, queues
<1> DEFINE m == [mshr EXCEPT !["LLC"] = @ \ {e}]
<1>2. \A d \in CoreCache : m[d] = mshr[d]
  BY LocalParts DEF CoreCache, InstrCache, DataCache
<1>3. mshr' = Returned(m, ReturnsTo("LLC", e), e.addr)
  BY <1>1
<1> HIDE DEF m
<1>4. "L1D" \in Cache => wq'["L1D"] \in Seq(Store)
  BY <1>1, LocalParts
<1> QED
  BY <1>1, <1>2, <1>3, <1>4, LocalIdle

\* handle_read
LEMMA ReadHitLocal ==
  ASSUME CacheInv, LocalInv, NEW c \in Cache, ReadHit(c)
  PROVE  LocalInv'
<1> DEFINE p == Head(rq[c])
<1>1. /\ rq[c] # << >>
      /\ c \in CoreCache => CoreKeepsUp(c)
      /\ mshr' = Returned(mshr, ReturnsTo(c, p), p.addr)
      /\ processed' = IF c \in CoreCache THEN [processed EXCEPT ![c] = Processed(c, p)]
                                         ELSE processed
      /\ rq' = [rq EXCEPT ![c] = Tail(@)]
      /\ UNCHANGED <<wq, pq, pending>>
  BY DEF ReadHit, PopRead
<1>2. /\ DOMAIN processed = CoreCache /\ DOMAIN rq = Place /\ c \in Place
      /\ \A d \in CoreCache : /\ Local(rq[d], mshr[d], processed[d], pending, d)
                              /\ pq[d] \in Seq(Speculative)
      /\ "L1D" \in Cache => wq["L1D"] \in Seq(Store)
  BY LocalParts
<1>3. \A d \in CoreCache \ {c} : rq'[d] = rq[d] /\ processed'[d] = processed[d] /\ pq'[d] = pq[d]
  BY <1>1, <1>2
<1>4. ASSUME c \in CoreCache PROVE Local(rq'[c], mshr[c], processed'[c], pending, c)
  <2>1. rq'[c] = Tail(rq[c]) /\ processed'[c] = Append(processed[c], p)
    BY <1>1, <1>2, <1>4 DEF CoreKeepsUp, Processed
  <2>2. Local(Tail(rq[c]), mshr[c], Append(processed[c], Head(rq[c])), pending, c)
    BY <1>1, <1>2, <1>4, LocalHit
  <2> QED
    BY <2>1, <2>2
<1> HIDE DEF p
<1> QED
  BY <1>1, <1>2, <1>3, <1>4, LocalStep

LEMMA ReadNewMissLocal ==
  ASSUME CacheInv, LocalInv, NEW c \in Cache, ReadNewMiss(c)
  PROVE  LocalInv'
<1> DEFINE p == Head(rq[c])
           m == AddMshr(c, p)
<1>1. /\ rq[c] # << >>
      /\ \E T : mshr' = Returned(m, T, p.addr)
      /\ IF HasLower(c) THEN PopReadAndSend(c, p) ELSE PopRead(c)
      /\ UNCHANGED <<wq, pq, processed, pending>>
  BY DEF ReadNewMiss
<1>2. /\ DOMAIN rq = Place /\ DOMAIN mshr = Cache /\ c \in Place
      /\ \A d \in CoreCache : /\ Local(rq[d], mshr[d], processed[d], pending, d)
                              /\ pq[d] \in Seq(Speculative) /\ rq[d] \in Seq(Demand)
                              /\ d \in Cache /\ d \in Place
      /\ "L1D" \in Cache => wq["L1D"] \in Seq(Store)
  BY LocalParts
<1>3. /\ \A d \in CoreCache \ {c} : rq'[d] = rq[d]
      /\ c \in CoreCache => rq'[c] = Tail(rq[c])
  <2>1. CASE HasLower(c)
    <3>1. rq' = [rq EXCEPT ![c] = Tail(@), ![Below[c]] = RqAfter(Below[c], @, Sent(p))]
      BY <1>1, <2>1 DEF PopReadAndSend
    <3>2. Below[c] \notin CoreCache /\ Below[c] # c
      BY <2>1, Wiring DEF HasLower
    <3> HIDE DEF p
    <3> QED
      BY <1>2, <3>1, <3>2
  <2>2. CASE ~HasLower(c)
    BY <1>1, <1>2, <2>2 DEF PopRead
  <2> QED
    BY <2>1, <2>2
<1> DEFINE f == [p EXCEPT !.returned = FALSE]
<1>4. m[c] = mshr[c] \cup {f} /\ \A d \in CoreCache \ {c} : m[d] = mshr[d]
  BY <1>2 DEF AddMshr
<1>5. ASSUME c \in CoreCache PROVE Local(rq'[c], m[c], processed'[c], pending, c)
  <2>1. p \in Demand /\ p \in InFlight
    BY <1>1, <1>2, <1>5, KindLeft, KindsOfPackets
  <2>2. f \in InFlight /\ f.addr = p.addr /\ f.waiters = p.waiters
    <3> HIDE DEF p
    <3> QED
      BY <2>1, NewMissKind DEF f
  <2> HIDE DEF f
  <2>3. Local(Tail(rq[c]), mshr[c] \cup {f}, processed[c], pending, c)
    BY <1>1, <1>2, <1>5, <2>2, LocalMiss
  <2> QED
    BY <1>1, <1>3, <1>4, <1>5, <2>3
<1> HIDE DEF p, f, m
<1>6. PICK T : mshr' = Returned(m, T, p.addr)
  BY <1>1
<1>7. \A d \in CoreCache \ {c} : /\ rq'[d] = rq[d] /\ processed'[d] = processed[d]
                                 /\ pq'[d] = pq[d] /\ m[d] = mshr[d]
  BY <1>1, <1>3, <1>4
<1> QED
  BY <1>1, <1>2, <1>5, <1>6, <1>7, LocalStep

LEMMA ReadMergeLocal ==
  ASSUME CacheInv, LocalInv, NEW c \in Cache, ReadMerge(c)
  PROVE  LocalInv'
<1> DEFINE p == Head(rq[c])
           e == Entry(c, p.addr)
           f == Merged(e, p)
<1>1. /\ rq[c] # << >> /\ InMshr(c, p.addr)
      /\ mshr' = Replace(c, e, f) /\ rq' = [rq EXCEPT ![c] = Tail(@)]
      /\ UNCHANGED <<wq, pq, processed, pending>>
  BY DEF ReadMerge, PopRead
<1>2. /\ DOMAIN rq = Place /\ DOMAIN mshr = Cache /\ c \in Place
      /\ \A d \in CoreCache : /\ Local(rq[d], mshr[d], processed[d], pending, d)
                              /\ pq[d] \in Seq(Speculative) /\ rq[d] \in Seq(Demand)
                              /\ d \in Cache /\ mshr[d] \subseteq InFlight /\ d \in Place
      /\ "L1D" \in Cache => wq["L1D"] \in Seq(Store)
  BY LocalParts
<1>3. e \in mshr[c] /\ e.addr = p.addr
  BY <1>1, EntryFound
<1>4. /\ mshr'[c] = (mshr[c] \ {e}) \cup {f} /\ rq'[c] = Tail(rq[c])
      /\ \A d \in CoreCache \ {c} : mshr'[d] = mshr[d] /\ rq'[d] = rq[d]
  <2> HIDE DEF e, f, p
  <2> QED
    BY <1>1, <1>2 DEF Replace
<1>5. ASSUME c \in CoreCache PROVE Local(rq'[c], mshr'[c], processed'[c], pending, c)
  <2>1. p \in Demand /\ e \in InFlight
    BY <1>1, <1>2, <1>3, <1>5, KindLeft
  <2>2. f \in InFlight /\ f.addr = e.addr /\ f.waiters = e.waiters \cup p.waiters
    <3> HIDE DEF p, e
    <3> QED
      BY <1>3, <2>1, MergedKind DEF f
  <2> HIDE DEF f, e
  <2> DEFINE N == (mshr[c] \ {e}) \cup {f}
  <2>3. Local(Tail(rq[c]), N, processed[c], pending, c)
    <3>1. /\ f.addr = Head(rq[c]).addr
          /\ \E g \in mshr[c] : /\ N = (mshr[c] \ {g}) \cup {f}
                                /\ f.waiters = g.waiters \cup Head(rq[c]).waiters
                                /\ f.addr = g.addr
      BY <1>3, <2>2
    <3> HIDE DEF N
    <3> QED
      BY <1>1, <1>2, <1>5, <2>2, <3>1, LocalMiss
  <2> QED
    BY <1>1, <1>4, <2>3
<1> HIDE DEF p, e, f
<1>6. \A d \in CoreCache \ {c} : /\ rq'[d] = rq[d] /\ processed'[d] = processed[d]
                                 /\ pq'[d] = pq[d] /\ mshr'[d] = mshr[d]
  BY <1>1, <1>4
<1>7. c \in CoreCache => pq'[c] \in Seq(Speculative)
  BY <1>1, <1>2
<1>8. "L1D" \in Cache => wq'["L1D"] \in Seq(Store)
  BY <1>1, <1>2
<1> DEFINE m == mshr'
<1>9. mshr' = m /\ \A d \in CoreCache \ {c} : m[d] = mshr[d]
  BY <1>6
<1>10. c \in CoreCache => Local(rq'[c], m[c], processed'[c], pending, c)
  BY <1>5
<1> HIDE DEF m
<1> QED
  BY <1>1, <1>6, <1>7, <1>8, <1>9, <1>10, LocalStep

\* handle_writeback
LEMMA WriteHitLocal ==
  ASSUME CacheInv, LocalInv, NEW c \in Cache, WriteHit(c)
  PROVE  LocalInv'
<1>1. /\ wq[c] # << >> /\ wq' = [wq EXCEPT ![c] = Tail(@)]
      /\ UNCHANGED <<rq, pq, mshr, processed, pending>>
  BY DEF WriteHit
<1>2. "L1D" \in Cache => wq'["L1D"] \in Seq(Store)
  BY <1>1, LocalParts, KindLeft
<1> QED
  BY <1>1, <1>2, LocalIdle

LEMMA AllocateLocal ==
  ASSUME CacheInv, LocalInv, NEW c \in Cache, c # "L1D", WriteAllocate(c)
  PROVE  LocalInv'
<1>1. PICK w \in Victims(c) : /\ wq' = [AfterWriteback(c, w) EXCEPT ![c] = Tail(@)]
                              /\ UNCHANGED <<rq, pq, mshr, processed, pending>>
  BY DEF WriteAllocate
<1>2. "L1D" \in Cache => wq'["L1D"] \in Seq(Store)
  <2>1. wq'["L1D"] = AfterWriteback(c, w)["L1D"]
    BY <1>1
  <2> QED
    BY <2>1, WritebackElsewhere, LocalParts
<1> QED
  BY <1>1, <1>2, LocalIdle

LEMMA StoreNewMissLocal ==
  ASSUME CacheInv, LocalInv, "L1D" \in Cache, StoreNewMiss
  PROVE  LocalInv'
<1> DEFINE c == "L1D"
           p == Head(wq[c])
           m == AddMshr(c, p)
           f == [p EXCEPT !.returned = FALSE]
<1>1. /\ wq[c] # << >> /\ \E T : mshr' = Returned(m, T, p.addr)
      /\ rq' = [rq EXCEPT !["L2C"] = RqAfter("L2C", @, Sent(p))]
      /\ wq' = [wq EXCEPT ![c] = Tail(@)] /\ UNCHANGED <<pq, processed, pending>>
  BY DEF StoreNewMiss
<1>2. /\ c \in CoreCache /\ "L2C" \notin CoreCache
      /\ DOMAIN wq = Place /\ DOMAIN mshr = Cache /\ wq[c] \in Seq(Store)
      /\ \A d \in CoreCache : /\ Local(rq[d], mshr[d], processed[d], pending, d)
                              /\ pq[d] \in Seq(Speculative) /\ d \in Cache /\ d \in Place
  BY LocalParts, Wiring DEF CoreCache, InstrCache, DataCache
<1>3. \A d \in CoreCache : rq'[d] = rq[d] /\ processed'[d] = processed[d] /\ pq'[d] = pq[d]
  <2> HIDE DEF p, c
  <2> QED
    BY <1>1, <1>2
<1>4. m[c] = mshr[c] \cup {f} /\ \A d \in CoreCache \ {c} : m[d] = mshr[d]
  BY <1>2 DEF AddMshr
<1>5. p \in Store /\ wq'[c] \in Seq(Store)
  BY <1>1, <1>2, KindLeft
<1>6. f \in InFlight /\ f.waiters = {}
  <2>1. p \in InFlight /\ p.waiters = {}
    BY <1>5, KindsOfPackets DEF Store
  <2> HIDE DEF p
  <2> QED
    BY <2>1, NewMissKind DEF f
<1> HIDE DEF c, p, m, f
<1>7. Local(rq'[c], m[c], processed'[c], pending, c)
  <2>1. Local(rq[c], mshr[c] \cup {f}, processed[c], pending, c)
    BY <1>2, <1>6, LocalSilent
  <2> QED
    BY <1>2, <1>3, <1>4, <2>1
<1>8. PICK T : mshr' = Returned(m, T, p.addr)
  BY <1>1
<1>9. "L1D" \in Cache => wq'["L1D"] \in Seq(Store)
  BY <1>5 DEF c
<1> QED
  BY <1>1, <1>2, <1>3, <1>4, <1>7, <1>8, <1>9, LocalStep

\* Entry e becomes f, which carries the same: a store or a prefetch has been merged into it.
LEMMA SilentMerge ==
  ASSUME CacheInv, LocalInv, NEW c \in Cache, NEW e \in mshr[c], NEW f,
         c \in CoreCache => f \in InFlight /\ f.waiters = e.waiters /\ f.addr = e.addr,
         mshr' = Replace(c, e, f), UNCHANGED <<rq, processed, pending>>,
         \A d \in CoreCache \ {c} : pq'[d] = pq[d], c \in CoreCache => pq'[c] \in Seq(Speculative),
         "L1D" \in Cache => wq'["L1D"] \in Seq(Store)
  PROVE  LocalInv'
<1>1. /\ DOMAIN mshr = Cache
      /\ \A d \in CoreCache : Local(rq[d], mshr[d], processed[d], pending, d) /\ d \in Cache
  BY LocalParts
<1> DEFINE m == Replace(c, e, f)
<1>2. m[c] = (mshr[c] \ {e}) \cup {f} /\ \A d \in CoreCache \ {c} : m[d] = mshr[d]
  BY <1>1 DEF Replace
<1>3. ASSUME c \in CoreCache PROVE Local(rq'[c], m[c], processed'[c], pending, c)
  <2>1. Local(rq[c], (mshr[c] \ {e}) \cup {f}, processed[c], pending, c)
    BY <1>1, <1>3, LocalSilent
  <2> QED
    BY <1>2, <2>1
<1>4. mshr' = m
  OBVIOUS
<1> HIDE DEF m
<1>5. \A d \in CoreCache \ {c} : rq'[d] = rq[d] /\ processed'[d] = processed[d] /\ pq'[d] = pq[d]
  OBVIOUS
<1> QED
  BY <1>2, <1>3, <1>4, <1>5, LocalStep

LEMMA StoreMergeLocal ==
  ASSUME CacheInv, LocalInv, "L1D" \in Cache, StoreMerge
  PROVE  LocalInv'
<1> DEFINE c == "L1D"
           p == Head(wq[c])
           e == Entry(c, p.addr)
           f == Merged(e, p)
<1>1. /\ wq[c] # << >> /\ InMshr(c, p.addr) /\ mshr' = Replace(c, e, f)
      /\ wq' = [wq EXCEPT ![c] = Tail(@)] /\ UNCHANGED <<rq, pq, processed, pending>>
  BY DEF StoreMerge
<1>2. /\ c \in CoreCache /\ c \in Cache /\ c \in Place /\ DOMAIN wq = Place
      /\ wq[c] \in Seq(Store) /\ mshr[c] \subseteq InFlight
      /\ \A d \in CoreCache : pq[d] \in Seq(Speculative)
  BY LocalParts, Wiring
<1>3. e \in mshr[c] /\ e.addr = p.addr
  BY <1>1, EntryFound
<1>4. p \in Store /\ wq'[c] \in Seq(Store)
  BY <1>1, <1>2, KindLeft
<1>5. f \in InFlight /\ f.addr = e.addr /\ f.waiters = e.waiters
  <2>1. p \in Demand /\ p.waiters = {} /\ e \in InFlight
    BY <1>2, <1>3, <1>4 DEF Store
  <2> HIDE DEF p, e, c
  <2>2. f \in InFlight /\ f.addr = e.addr /\ f.waiters = e.waiters \cup p.waiters
    BY <1>3, <2>1, MergedKind DEF f
  <2> QED
    BY <2>1, <2>2
<1>6. "L1D" \in Cache => wq'["L1D"] \in Seq(Store)
  BY <1>4
<1> HIDE DEF c, p, e, f
<1>7. \A d \in CoreCache : pq'[d] = pq[d] /\ pq'[d] \in Seq(Speculative)
  BY <1>1, <1>2
<1> QED
  BY <1>1, <1>2, <1>3, <1>5, <1>6, <1>7, SilentMerge

\* handle_prefetch
LEMMA PrefetchHitLocal ==
  ASSUME CacheInv, LocalInv, NEW c \in Cache, PrefetchHit(c)
  PROVE  LocalInv'
<1> DEFINE p == Head(pq[c])
<1>1. /\ pq[c] # << >> /\ mshr' = Returned(mshr, ReturnsTo(c, p), p.addr)
      /\ pq' = [pq EXCEPT ![c] = Tail(@)] /\ UNCHANGED <<rq, wq, processed, pending>>
  BY DEF PrefetchHit
<1> HIDE DEF p
<1>2. /\ DOMAIN pq = Place /\ c \in Place
      /\ \A d \in CoreCache : /\ Local(rq[d], mshr[d], processed[d], pending, d)
                              /\ pq[d] \in Seq(Speculative) /\ d \in Place
      /\ "L1D" \in Cache => wq["L1D"] \in Seq(Store)
  BY LocalParts
<1>3. c \in CoreCache => pq'[c] \in Seq(Speculative)
  BY <1>1, <1>2, KindLeft
<1>4. \A d \in CoreCache \ {c} : rq'[d] = rq[d] /\ processed'[d] = processed[d] /\ pq'[d] = pq[d]
  BY <1>1, <1>2
<1>5. c \in CoreCache => Local(rq'[c], mshr[c], processed'[c], pending, c)
  BY <1>1, <1>2
<1> QED
  BY <1>1, <1>2, <1>3, <1>4, <1>5, LocalStep

LEMMA PrefetchNewMissLocal ==
  ASSUME CacheInv, LocalInv, NEW c \in Cache, PrefetchNewMiss(c)
  PROVE  LocalInv'
<1> DEFINE p == Head(pq[c])
           d == Below[c]
           m == IF FillsHere(c, p) THEN AddMshr(c, p) ELSE mshr
           f == [p EXCEPT !.returned = FALSE]
<1>1. /\ pq[c] # << >> /\ \E T : mshr' = Returned(m, T, p.addr)
      /\ IF c = "LLC"
         THEN /\ rq' = [rq EXCEPT ![d] = RqAfter(d, @, Sent(p))]
              /\ pq' = [pq EXCEPT ![c] = Tail(@)]
         ELSE /\ pq' = [pq EXCEPT ![c] = Tail(@), ![d] = PqAfter(d, @, Sent(p))]
              /\ UNCHANGED rq
      /\ UNCHANGED <<wq, processed, pending>>
  BY DEF PrefetchNewMiss
<1>2. /\ DOMAIN rq = Place /\ DOMAIN pq = Place /\ DOMAIN mshr = Cache /\ c \in Place
      /\ \A k \in CoreCache : /\ Local(rq[k], mshr[k], processed[k], pending, k)
                              /\ pq[k] \in Seq(Speculative) /\ k \in Place /\ k \in Cache
      /\ "L1D" \in Cache => wq["L1D"] \in Seq(Store)
  BY LocalParts
<1>3. d \notin CoreCache /\ d # c
  <2>1. c # "STLB"
    BY <1>1, HeadOfPrefetch DEF TLB
  <2> QED
    BY <2>1, Wiring
<1>4. m[c] \in {mshr[c], mshr[c] \cup {f}} /\ \A k \in CoreCache \ {c} : m[k] = mshr[k]
  BY <1>2 DEF AddMshr
<1>5. c \in CoreCache => f \in InFlight /\ f.waiters = {} /\ Tail(pq[c]) \in Seq(Speculative)
  <2> SUFFICES ASSUME c \in CoreCache
               PROVE  f \in InFlight /\ f.waiters = {} /\ Tail(pq[c]) \in Seq(Speculative)
    OBVIOUS
  <2>1. p \in Speculative /\ Tail(pq[c]) \in Seq(Speculative)
    BY <1>1, <1>2, KindLeft
  <2>2. p \in InFlight /\ p.waiters = {}
    BY <2>1, KindsOfPackets DEF Speculative
  <2> HIDE DEF p
  <2>3. f \in InFlight /\ f.waiters = {}
    BY <2>2, NewMissKind DEF f
  <2> QED
    BY <2>1, <2>3
<1> HIDE DEF p, d, m, f
<1>6. /\ \A k \in CoreCache : rq'[k] = rq[k]
      /\ \A k \in CoreCache \ {c} : pq'[k] = pq[k]
      /\ pq'[c] = Tail(pq[c])
  BY <1>1, <1>2, <1>3
<1>7. ASSUME c \in CoreCache PROVE Local(rq'[c], m[c], processed'[c], pending, c)
  <2>1. Local(rq[c], mshr[c] \cup {f}, processed[c], pending, c)
    BY <1>2, <1>5, <1>7, LocalSilent
  <2> QED
    BY <1>1, <1>2, <1>4, <1>6, <1>7, <2>1
<1>8. PICK T : mshr' = Returned(m, T, p.addr)
  BY <1>1
<1>9. c \in CoreCache => pq'[c] \in Seq(Speculative)
  BY <1>5, <1>6
<1>10. \A k \in CoreCache \ {c} : /\ rq'[k] = rq[k] /\ processed'[k] = processed[k]
                                  /\ pq'[k] = pq[k] /\ m[k] = mshr[k]
  BY <1>1, <1>4, <1>6
<1> QED
  BY <1>1, <1>2, <1>7, <1>8, <1>9, <1>10, LocalStep

LEMMA PrefetchMergeLocal ==
  ASSUME CacheInv, LocalInv, NEW c \in Cache, PrefetchMerge(c)
  PROVE  LocalInv'
<1> DEFINE p == Head(pq[c])
           e == Entry(c, p.addr)
           f == MergedPrefetch(e, p)
<1>1. /\ pq[c] # << >> /\ InMshr(c, p.addr) /\ mshr' = Replace(c, e, f)
      /\ pq' = [pq EXCEPT ![c] = Tail(@)] /\ UNCHANGED <<rq, wq, processed, pending>>
  BY DEF PrefetchMerge
<1>2. /\ DOMAIN pq = Place /\ c \in Place
      /\ \A d \in CoreCache : /\ pq[d] \in Seq(Speculative) /\ d \in Place
                              /\ mshr[d] \subseteq InFlight
      /\ "L1D" \in Cache => wq["L1D"] \in Seq(Store)
  BY LocalParts
<1>3. e \in mshr[c] /\ e.addr = p.addr
  BY <1>1, EntryFound
<1>4. c \in CoreCache => f \in InFlight /\ f.waiters = e.waiters /\ f.addr = e.addr
  <2> SUFFICES ASSUME c \in CoreCache
               PROVE  f \in InFlight /\ f.waiters = e.waiters /\ f.addr = e.addr
    OBVIOUS
  <2>1. e \in InFlight /\ e \in PacketType /\ p \in PacketType
    BY <1>1, <1>2, <1>3, KindLeft, KindsOfPackets
  <2> HIDE DEF e, p
  <2>2. f \in PacketType /\ f.addr = e.addr
    BY <2>1, Merging DEF f
  <2>3. f.type = e.type /\ f.waiters = e.waiters
    BY <2>1 DEF f, MergedPrefetch, PacketType
  <2> HIDE DEF f
  <2> QED
    BY <2>1, <2>2, <2>3 DEF InFlight
<1> HIDE DEF p, e, f
<1>5. c \in CoreCache => pq'[c] \in Seq(Speculative)
  BY <1>1, <1>2, KindLeft
<1>6. \A d \in CoreCache \ {c} : pq'[d] = pq[d]
  BY <1>1, <1>2
<1>7. "L1D" \in Cache => wq'["L1D"] \in Seq(Store)
  BY <1>1, <1>2
<1> QED
  BY <1>1, <1>3, <1>4, <1>5, <1>6, <1>7, SilentMerge

LEMMA MemoryReturnsLocal ==
  ASSUME CacheInv, LocalInv, MemoryReturns
  PROVE  LocalInv'
<1>1. /\ \E T, a : mshr' = Returned(mshr, T, a)
      /\ \E i : \/ rq' = [rq EXCEPT ![Memory] = Without(@, i)] /\ UNCHANGED pq
                \/ pq' = [pq EXCEPT ![Memory] = Without(@, i)] /\ UNCHANGED rq
      /\ UNCHANGED <<wq, processed, pending>>
  BY DEF MemoryReturns
<1>2. \A d \in CoreCache : rq'[d] = rq[d] /\ processed'[d] = processed[d] /\ pq'[d] = pq[d]
  BY <1>1, LocalParts, Wiring
<1>3. PICK T, a : mshr' = Returned(mshr, T, a)
  BY <1>1
<1>4. "L1D" \in Cache => wq'["L1D"] \in Seq(Store)
  BY <1>1, LocalParts
<1> QED
  BY <1>1, <1>2, <1>3, <1>4, LocalIdle


LEMMA StepKeepsLocal == CacheInv /\ LocalInv /\ [Next]_vars => LocalInv'
<1> SUFFICES ASSUME CacheInv, LocalInv, [Next]_vars PROVE LocalInv'
  OBVIOUS
<1>1. CASE Core
  <2>1. ASSUME NEW c \in CoreCache, NEW r \in Request, NEW a \in Block, NEW w \in Word,
               NEW t \in {"LOAD", "RFO"}, CoreRead(c, r, a, w, t)
        PROVE  LocalInv'
    BY <2>1, CoreReadLocal
  <2>2. ASSUME NEW a \in Block, NEW w \in Word, CoreWrite(a, w) PROVE LocalInv'
    BY <2>2, CoreWriteLocal
  <2>3. ASSUME NEW c \in CoreCache, TakeProcessed(c) PROVE LocalInv'
    BY <2>3, TakeProcessedLocal
  <2> QED
    BY <1>1, <2>1, <2>2, <2>3 DEF Core
<1>2. ASSUME NEW c \in Cache, operate(c) PROVE LocalInv'
  <2>1. CASE HandleFill(c)
    BY <2>1, HandleFillLocal
  <2>2. CASE HandleWriteback(c)
    BY <2>2, WriteHitLocal, StoreNewMissLocal, StoreMergeLocal, AllocateLocal DEF HandleWriteback
  <2>3. CASE HandleRead(c)
    BY <2>3, ReadHitLocal, ReadNewMissLocal, ReadMergeLocal DEF HandleRead
  <2>4. CASE HandlePrefetch(c)
    BY <2>4, PrefetchHitLocal, PrefetchNewMissLocal, PrefetchMergeLocal DEF HandlePrefetch
  <2> QED
    BY <1>2, <2>1, <2>2, <2>3, <2>4 DEF operate
<1>3. CASE \E c \in Cache, a \in Block, l \in {1, 2, 4} : PrefetchLine(c, a, l)
  BY <1>3, PrefetchLineLocal
<1>4. CASE "LLC" \in Cache /\ BypassFill
  BY <1>4, BypassLocal
<1>5. CASE MemoryReturns
  BY <1>5, MemoryReturnsLocal
<1>6. CASE UNCHANGED <<rq, pq, mshr, processed, pending>> /\ wq'["L1D"] = wq["L1D"]
  BY <1>6, LocalParts, LocalIdle
<1>7. CASE MemoryWrites
  BY <1>6, <1>7, Wiring DEF MemoryWrites, Memory
<1>8. CASE \E a \in Block : SwapOut(a)
  BY <1>6, <1>8 DEF SwapOut, queues
<1>9. CASE UNCHANGED vars
  BY <1>6, <1>9 DEF vars, queues
<1> QED
  BY <1>1, <1>2, <1>3, <1>4, <1>5, <1>7, <1>8, <1>9 DEF Next

LEMMA InitLocal == Init => LocalInv
<1> SUFFICES ASSUME Init PROVE LocalInv
  OBVIOUS
<1>1. ASSUME NEW c \in CoreCache
      PROVE  Local(rq[c], mshr[c], processed[c], pending, c) /\ pq[c] \in Seq(Speculative)
  <2>1. /\ c \in Cache /\ c \in Cache \cup {Memory} /\ rq[c] = << >> /\ pq[c] = << >> /\ mshr[c] = {}
        /\ processed[c] = << >> /\ \A r \in Request : pending[r].cache = "none"
    BY Wiring DEF Init, Idle
  <2>2. c # "none"
    BY DEF CoreCache, InstrCache, DataCache
  <2>3. \A G : ~Some(<< >>, G) /\ OnlyOne(<< >>, G)
    BY NoneInEmpty
  <2>4. << >> \in Seq(Demand) /\ << >> \in Seq(PacketType) /\ << >> \in Seq(Speculative)
    BY EmptySeq
  <2>5. CASE c \in InstrCache
    BY <2>1, <2>2, <2>4, <2>5 DEF Local, Keeps
  <2>6. CASE c \notin InstrCache
    <3>1. ASSUME NEW r \in Request
          PROVE  HeldOnce(rq[c], mshr[c], processed[c], r, pending[r].cache = c)
      BY <2>1, <2>2, <2>3 DEF HeldOnce, Carries, CarriesOnce
    <3> QED
      BY <2>1, <2>4, <2>6, <3>1 DEF Local, Keeps
  <2> QED
    BY <2>5, <2>6
<1>2. "L1D" \in Cache => wq["L1D"] \in Seq(Store)
  BY EmptySeq DEF Init
<1> QED
  BY <1>1, <1>2 DEF LocalInv

\* As many places hold a request as the request waits for: one, or none.
LEMMA CarriersCounted ==
  ASSUME CacheInv, LocalInv, NEW c \in CoreCache \ InstrCache, NEW r \in Request
  PROVE  Cardinality(Carriers(c, r)) = IF pending[r].cache = c THEN 1 ELSE 0
<1> DEFINE G == Carrying(r)
           s == rq[c]
           M == mshr[c]
           t == processed[c]
           R == {<<"RQ", i>> : i \in {j \in 1 .. Len(s) : s[j] \in G}}
           P == {<<"PROCESSED", i>> : i \in {j \in 1 .. Len(t) : t[j] \in G}}
           N == {<<"MSHR", e.addr>> : e \in {f \in M : f \in G}}
           S == Carriers(c, r)
<1>1. /\ HeldOnce(s, M, t, r, pending[r].cache = c) /\ M \subseteq InFlight
      /\ s \in Seq(Demand) /\ t \in Seq(PacketType)
  BY LocalParts DEF Local, Keeps
<1>2. /\ \A i \in 1 .. Len(s) : s[i] \in G <=> r \in s[i].waiters
      /\ \A i \in 1 .. Len(t) : t[i] \in G <=> r \in t[i].waiters
      /\ \A e \in M : e \in G <=> r \in e.waiters /\ e.type # "PREFETCH"
  <2>1. /\ \A i \in 1 .. Len(s) : s[i] \in PacketType
        /\ \A i \in 1 .. Len(t) : t[i] \in PacketType
        /\ \A e \in M : e \in PacketType /\ e \in InFlight
    BY <1>1, ElementOfSeq, KindsOfPackets
  <2> HIDE DEF s, M, t
  <2> QED
    BY <2>1 DEF Carrying, InFlight
<1> HIDE DEF s, M, t
<1>3. S = R \cup N \cup P
  BY <1>2 DEF Carriers, Ends, s, M, t
<1>4. /\ R # {} <=> Some(s, G)
      /\ P # {} <=> Some(t, G)
      /\ N # {} <=> Carries(M, r)
  BY DEF Some, Carries
<1>5. /\ \A x, y \in R : x = y
      /\ \A x, y \in P : x = y
      /\ \A x, y \in N : x = y
  BY <1>1 DEF HeldOnce, OnlyOne, CarriesOnce
<1>6. HeldOnce(s, M, t, r, pending[r].cache = c)
  BY <1>1
<1> HIDE DEF R, P, N, G, S
<1>7. CASE pending[r].cache = c
  <2>1. PICK x : x \in S
    BY <1>3, <1>4, <1>6, <1>7 DEF HeldOnce, G
  <2>2. \A y \in S : y = x
    BY <1>3, <1>4, <1>5, <1>6, <2>1 DEF HeldOnce, G
  <2>3. S = {x}
    BY <2>1, <2>2
  <2> QED
    BY <1>7, <2>3, FS_Singleton DEF S
<1>8. CASE pending[r].cache # c
  <2>1. S = {}
    BY <1>3, <1>4, <1>6, <1>8 DEF HeldOnce, G
  <2> QED
    BY <1>8, <2>1, FS_EmptySet DEF S
<1> QED
  BY <1>7, <1>8

\* RequestsAccountedFor: whatever is merged, forwarded, overwritten (a prefetch in flight) or
\* filled, each outstanding load or translation is in one place of the cache that it asked,
\* and no other; and the block of each instruction fetch is in some place.
THEOREM NoRequestIsLost == Spec => []RequestsAccountedFor
<1>1. Init => CacheInv /\ LocalInv
  BY InitInv, InitLocal
<1>2. CacheInv /\ LocalInv /\ [Next]_vars => (CacheInv /\ LocalInv)'
  BY StepKeepsInv, StepKeepsLocal
<1>3. CacheInv /\ LocalInv => RequestsAccountedFor
  <2> SUFFICES ASSUME CacheInv, LocalInv PROVE RequestsAccountedFor
    OBVIOUS
  <2>1. ASSUME NEW c \in CoreCache \cap InstrCache, NEW r \in Request, pending[r].cache = c
        PROVE  LET a == pending[r].addr IN Holds(rq[c], a) \/ InMshr(c, a) \/ Holds(processed[c], a)
    BY <2>1, LocalParts DEF Local, Keeps, HasBlock, InMshr
  <2> QED
    BY <2>1, CarriersCounted DEF RequestsAccountedFor
<1> QED
  BY <1>1, <1>2, <1>3, PTL DEF Spec

-----------------------------------------------------------------------------
(* What the last cache asks of memory. *)

\* What MemoryIsAskedOnce says of a step.
AskedOnce ==
  \A a \in Block : "LLC" \in Cache /\ ~InMshr("LLC", a) /\ InMshr("LLC", a)' =>
    /\ ~Holds(rq[Memory], a)
    /\ IF Holds(wq[Memory], a) THEN \A e \in mshr'["LLC"] : e.addr = a => e.returned
                              ELSE Holds(rq'[Memory], a)

LEMMA LlcTakesNone ==
  ASSUME "LLC" \in Cache => Waiting(mshr', "LLC") \subseteq Waiting(mshr, "LLC")
  PROVE  AskedOnce
BY DEF AskedOnce, InMshr, Waiting

LEMMA SameMisses ==
  ASSUME \A d \in Cache : Waiting(mshr', d) \subseteq Waiting(mshr, d)
  PROVE  AskedOnce
BY LlcTakesNone

\* A cache whose read is in memory's queue has a miss of the block.
LEMMA ReadsAreMissed ==
  ASSUME CacheInv, MissInv, "LLC" \in Cache, NEW a \in Block, ~InMshr("LLC", a)
  PROVE  ~Holds(rq[Memory], a)
<1> SUFFICES ASSUME Holds(rq[Memory], a) PROVE FALSE
  OBVIOUS
<1>1. "LLC" \in Asking /\ Below["LLC"] = Memory /\ Memory \in Place /\ Level("LLC") = 4
  BY Wiring, LowerNames DEF Asking, HasLower, Level
<1>2. PICK i \in 1 .. Len(rq[Memory]) : rq[Memory][i].addr = a
  BY DEF Holds, Ends
<1>3. rq[Memory][i] \in ReadOf(Memory)
  BY <1>1, MissParts, ElementOfSeq
<1>4. rq[Memory][i] \in PacketType /\ rq[Memory][i].level \in {1, 2, 4}
  BY <1>3 DEF ReadOf
<1>5. rq[Memory][i].level <= Level("LLC")
  BY <1>1, <1>4
<1>6. "LLC" \in ReturnsTo(Memory, rq[Memory][i])
  BY <1>1, <1>5, MemoryReturnsTo
<1>7. SentFor(rq, "LLC", a)
  BY <1>1, <1>2, <1>4, <1>6 DEF SentFor, Some, Served
<1>8. Waits(mshr, "LLC", a)
  BY <1>1, <1>7, MissParts DEF MatchedAll, Matched
<1> QED
  BY <1>8 DEF Waits, InMshr

\* The LLC takes an MSHR entry for p and sends it down.
LEMMA LlcAsks ==
  ASSUME CacheInv, MissInv, "LLC" \in Cache, NEW p \in PacketType, p.level \in {1, 2, 4},
         ~InMshr("LLC", p.addr), Cardinality(mshr["LLC"]) < MSHR_SIZE["LLC"],
         Len(rq[Memory]) # RQ_SIZE[Memory],
         mshr' = Returned(AddMshr("LLC", p),
                          IF Forwards(Memory, p) THEN ReturnsTo(Memory, p) ELSE {}, p.addr),
         rq'[Memory] = RqAfter(Memory, rq[Memory], Sent(p))
  PROVE  AskedOnce
<1>1. "LLC" \in Asking /\ Below["LLC"] = Memory /\ Memory \in Place /\ Level("LLC") = 4
  BY Wiring, LowerNames DEF Asking, HasLower, Level
<1>2. p.addr \in Block /\ ~Holds(rq[Memory], p.addr)
  BY ReadsAreMissed DEF PacketType
<1>3. /\ Sent(p) \in PacketType /\ Sent(p).addr = p.addr
      /\ Forwards(Memory, Sent(p)) <=> Forwards(Memory, p)
  BY SentFields DEF Memory
<1>4. Forwards(Memory, p) <=> Holds(wq[Memory], p.addr)
  BY DEF Forwards, Matches, Holds, Memory
<1>5. ASSUME Forwards(Memory, p)
      PROVE  \A e \in mshr'["LLC"] : e.addr = p.addr => e.returned
  <2>1. p.level <= Level("LLC")
    BY <1>1
  <2>2. "LLC" \in ReturnsTo(Memory, p)
    BY <1>1, <2>1, MemoryReturnsTo
  <2> DEFINE M == AddMshr("LLC", p)["LLC"]
  <2>3. mshr'["LLC"] = {IF e.addr = p.addr THEN [e EXCEPT !.returned = TRUE] ELSE e : e \in M}
    BY <1>5, <2>2 DEF Returned
  <2>4. M \subseteq PacketType
    BY Parts, AddedFits DEF MissesFit
  <2> HIDE DEF M
  <2> QED
    BY <2>3, <2>4 DEF PacketType
<1>6. ASSUME ~Forwards(Memory, p)
      PROVE  Holds(rq'[Memory], p.addr)
  <2>1. /\ rq[Memory] \in Seq(PacketType) /\ RQ_SIZE[Memory] \in Nat
        /\ Len(rq[Memory]) \in Nat /\ Len(rq[Memory]) <= RQ_SIZE[Memory]
    BY <1>1, Parts, Sizes, MissParts DEF Bounded
  <2>2. Len(rq[Memory]) < RQ_SIZE[Memory]
    BY <2>1
  <2>3. Holds(RqAfter(Memory, rq[Memory], Sent(p)), p.addr)
    BY <1>3, <1>6, <2>1, <2>2, HoldsAfterRq
  <2> QED
    BY <2>3
<1>7. /\ ~Holds(rq[Memory], p.addr)
      /\ IF Holds(wq[Memory], p.addr) THEN \A e \in mshr'["LLC"] : e.addr = p.addr => e.returned
                                     ELSE Holds(rq'[Memory], p.addr)
  BY <1>2, <1>4, <1>5, <1>6
<1>8. \A a : ~InMshr("LLC", a) /\ InMshr("LLC", a)' => a = p.addr
  <2>1. AlsoWaits(mshr', mshr, "LLC", p.addr)
    BY Parts, MissSent
  <2> QED
    BY <2>1 DEF AlsoWaits, Waiting, InMshr
<1> QED
  BY <1>7, <1>8 DEF AskedOnce

LEMMA FillAsks ==
  ASSUME CacheInv, NEW c \in Cache, NEW e \in mshr[c], NEW T,
         mshr' = Returned([mshr EXCEPT ![c] = @ \ {e}], T, e.addr)
  PROVE  AskedOnce
<1> DEFINE m == [mshr EXCEPT ![c] = @ \ {e}]
<1>1. MissesFit(m) /\ \A d \in Cache : Waiting(m, d) \subseteq Waiting(mshr, d)
  <2>1. /\ MissesFit(m)
        /\ \A d \in Cache : Waiting(m, d) =
                              IF d = c THEN Waiting(mshr, c) \ {e.addr} ELSE Waiting(mshr, d)
    BY Parts, DroppedFits
  <2> HIDE DEF m
  <2> QED
    BY <2>1
<1> HIDE DEF m
<1>2. \A d \in Cache : Waiting(Returned(m, T, e.addr), d) = Waiting(m, d)
  BY <1>1, ReturnedFits
<1> QED
  BY <1>1, <1>2, SameMisses DEF m

LEMMA MergeAsks ==
  ASSUME CacheInv, NEW c \in Cache, NEW p \in PacketType, InMshr(c, p.addr),
         NEW f, f \in {Merged(Entry(c, p.addr), p), MergedPrefetch(Entry(c, p.addr), p)},
         mshr' = Replace(c, Entry(c, p.addr), f)
  PROVE  AskedOnce
<1> DEFINE e == Entry(c, p.addr)
<1>1. e \in mshr[c] /\ e.addr = p.addr /\ e \in PacketType
  BY EntryFound, Parts DEF MissesFit
<1> HIDE DEF e
<1>2. f \in PacketType /\ f.addr = e.addr
  BY <1>1, Merging DEF e
<1>3. \A d \in Cache : Waiting(mshr', d) = Waiting(mshr, d)
  BY <1>1, <1>2, Parts, ReplacedFits DEF e
<1> QED
  BY <1>3, SameMisses

\* Of the misses of another cache the LLC's do not change.
LEMMA OtherMissAsks ==
  ASSUME CacheInv, NEW c \in Cache \ {"LLC"}, NEW p \in PacketType, NEW T,
         ~InMshr(c, p.addr), Cardinality(mshr[c]) < MSHR_SIZE[c],
         mshr' = Returned(AddMshr(c, p), T, p.addr)
  PROVE  AskedOnce
<1>1. AlsoWaits(mshr', mshr, c, p.addr)
  BY Parts, MissSent
<1> QED
  BY <1>1, LlcTakesNone DEF AlsoWaits

LEMMA ReturnAsks ==
  ASSUME CacheInv, NEW T, NEW a, mshr' = Returned(mshr, T, a)
  PROVE  AskedOnce
<1>1. \A d \in Cache : Waiting(mshr', d) = Waiting(mshr, d)
  BY Parts, ReturnedFits
<1> QED
  BY <1>1, SameMisses

LEMMA ReadAsks ==
  ASSUME CacheInv, MissInv, NEW c \in Cache, ReadNewMiss(c)
  PROVE  AskedOnce
<1> DEFINE p == Head(rq[c])
           d == Below[c]
<1>1. rq[c] # << >> /\ ~InMshr(c, p.addr) /\ Cardinality(mshr[c]) < MSHR_SIZE[c]
  BY DEF ReadNewMiss
<1>2. p \in PacketType
  BY <1>1, HeadOfRead
<1>3. CASE c # "LLC"
  <2>1. PICK T : mshr' = Returned(AddMshr(c, p), T, p.addr)
    BY DEF ReadNewMiss
  <2> HIDE DEF p
  <2> QED
    BY <1>1, <1>2, <1>3, <2>1, OtherMissAsks
<1>4. CASE c = "LLC"
  <2>1. HasLower(c) /\ d = Memory /\ c \in Place /\ c # Memory /\ DOMAIN rq = Place /\ Memory \in Place
    BY <1>4, Wiring, LowerNames, MissParts DEF HasLower, Asking
  <2>2. p.level \in {1, 2, 4}
    <3>1. rq[c] \in Seq(ReadOf(c))
      BY <2>1, MissParts
    <3>2. p \in ReadOf(c)
      BY <1>1, <3>1, HeadTailProperties
    <3> QED
      BY <2>1, <3>2 DEF ReadOf, FlagsFit
  <2>3. /\ Len(rq[Memory]) # RQ_SIZE[Memory]
        /\ mshr' = Returned(AddMshr(c, p), IF Forwards(Memory, p) THEN ReturnsTo(Memory, p) ELSE {},
                            p.addr)
        /\ rq' = [rq EXCEPT ![c] = Tail(@), ![Memory] = RqAfter(Memory, @, Sent(p))]
    BY <1>4, <2>1 DEF ReadNewMiss, PopReadAndSend
  <2> HIDE DEF p, d
  <2>4. rq'[Memory] = RqAfter(Memory, rq[Memory], Sent(p))
    BY <2>1, <2>3
  <2> QED
    BY <1>1, <1>2, <1>4, <2>2, <2>3, <2>4, LlcAsks
<1> QED
  BY <1>3, <1>4

LEMMA PrefetchAsks ==
  ASSUME CacheInv, MissInv, NEW c \in Cache, PrefetchNewMiss(c)
  PROVE  AskedOnce
<1> DEFINE p == Head(pq[c])
           d == Below[c]
           up == IF Forwards(d, p) THEN ReturnsTo(d, p) ELSE {}
<1>1. /\ pq[c] # << >> /\ ~InMshr(c, p.addr) /\ Cardinality(mshr[c]) < MSHR_SIZE[c]
      /\ mshr' = Returned(IF FillsHere(c, p) THEN AddMshr(c, p) ELSE mshr, up, p.addr)
  BY DEF PrefetchNewMiss
<1>2. p \in PacketType
  BY <1>1, HeadOfPrefetch
<1>3. CASE ~FillsHere(c, p)
  <2>1. mshr' = Returned(mshr, up, p.addr)
    BY <1>1, <1>3
  <2> QED
    BY <2>1, ReturnAsks
<1>4. CASE FillsHere(c, p) /\ c # "LLC"
  <2>1. mshr' = Returned(AddMshr(c, p), up, p.addr)
    BY <1>1, <1>4
  <2> HIDE DEF p, up
  <2> QED
    BY <1>1, <1>2, <1>4, <2>1, OtherMissAsks
<1>5. CASE FillsHere(c, p) /\ c = "LLC"
  <2>1. d = Memory /\ c \in Place /\ DOMAIN rq = Place /\ Memory \in Place
    BY <1>5, Wiring, LowerNames, MissParts DEF HasLower, Asking
  <2>2. p.level \in {1, 2, 4}
    <3>1. pq[c] \in Seq(PrefetchOf(c))
      BY <2>1, MissParts
    <3>2. p \in PrefetchOf(c)
      BY <1>1, <3>1, HeadTailProperties
    <3> QED
      BY <3>2 DEF PrefetchOf, FlagsFit
  <2>3. /\ Len(rq[Memory]) # RQ_SIZE[Memory]
        /\ mshr' = Returned(AddMshr(c, p), IF Forwards(Memory, p) THEN ReturnsTo(Memory, p) ELSE {},
                            p.addr)
        /\ rq' = [rq EXCEPT ![Memory] = RqAfter(Memory, @, Sent(p))]
    BY <1>1, <1>5, <2>1 DEF PrefetchNewMiss
  <2> HIDE DEF p, d, up
  <2>4. rq'[Memory] = RqAfter(Memory, rq[Memory], Sent(p))
    BY <2>1, <2>3
  <2> QED
    BY <1>1, <1>2, <1>5, <2>2, <2>3, <2>4, LlcAsks
<1> QED
  BY <1>3, <1>4, <1>5

LEMMA OperateAsks ==
  ASSUME CacheInv, MissInv, NEW c \in Cache, operate(c)
  PROVE  AskedOnce
<1>1. CASE HandleFill(c)
  <2>1. PICK e \in mshr[c] :
          mshr' = Returned([mshr EXCEPT ![c] = @ \ {e}], ReturnsTo(c, e), e.addr)
    BY <1>1 DEF HandleFill
  <2> QED
    BY <2>1, FillAsks
<1>2. CASE WriteHit(c) \/ WriteAllocate(c)
  <2>1. mshr' = mshr
    BY <1>2 DEF WriteHit, WriteAllocate
  <2> QED
    BY <2>1, SameMisses
<1>3. CASE c = "L1D" /\ StoreNewMiss
  <2> DEFINE p == Head(wq[c])
  <2>1. /\ wq[c] # << >> /\ ~InMshr(c, p.addr) /\ Cardinality(mshr[c]) < MSHR_SIZE[c]
        /\ mshr' = Returned(AddMshr(c, p),
                            IF Forwards("L2C", p) THEN ReturnsTo("L2C", p) ELSE {}, p.addr)
    BY <1>3 DEF StoreNewMiss
  <2>2. p \in PacketType
    BY <2>1, HeadOfWrite
  <2> HIDE DEF p
  <2> QED
    BY <1>3, <2>1, <2>2, OtherMissAsks
<1>4. CASE c = "L1D" /\ StoreMerge
  <2> DEFINE p == Head(wq[c])
  <2>1. /\ wq[c] # << >> /\ InMshr(c, p.addr)
        /\ mshr' = Replace(c, Entry(c, p.addr), Merged(Entry(c, p.addr), p))
    BY <1>4 DEF StoreMerge
  <2>2. p \in PacketType
    BY <2>1, HeadOfWrite
  <2> HIDE DEF p
  <2> QED
    BY <2>1, <2>2, MergeAsks
<1>5. CASE ReadHit(c) \/ PrefetchHit(c)
  <2>1. PICK T, a : mshr' = Returned(mshr, T, a)
    BY <1>5 DEF ReadHit, PrefetchHit
  <2> QED
    BY <2>1, ReturnAsks
<1>6. CASE ReadMerge(c)
  <2> DEFINE p == Head(rq[c])
  <2>1. /\ rq[c] # << >> /\ InMshr(c, p.addr)
        /\ mshr' = Replace(c, Entry(c, p.addr), Merged(Entry(c, p.addr), p))
    BY <1>6 DEF ReadMerge
  <2>2. p \in PacketType
    BY <2>1, HeadOfRead
  <2> HIDE DEF p
  <2> QED
    BY <2>1, <2>2, MergeAsks
<1>7. CASE PrefetchMerge(c)
  <2> DEFINE p == Head(pq[c])
  <2>1. /\ pq[c] # << >> /\ InMshr(c, p.addr)
        /\ mshr' = Replace(c, Entry(c, p.addr), MergedPrefetch(Entry(c, p.addr), p))
    BY <1>7 DEF PrefetchMerge
  <2>2. p \in PacketType
    BY <2>1, HeadOfPrefetch
  <2> HIDE DEF p
  <2> QED
    BY <2>1, <2>2, MergeAsks
<1> QED
  BY <1>1, <1>2, <1>3, <1>4, <1>5, <1>6, <1>7, ReadAsks, PrefetchAsks
     DEF operate, HandleWriteback, HandleRead, HandlePrefetch

LEMMA StepAsks == CacheInv /\ MissInv /\ [Next]_vars => AskedOnce
<1> SUFFICES ASSUME CacheInv, MissInv, [Next]_vars PROVE AskedOnce
  OBVIOUS
<1>1. ASSUME mshr' = mshr PROVE AskedOnce
  BY <1>1, SameMisses
<1>2. CASE Core
  <2>1. ASSUME NEW c, NEW r, NEW a, NEW w, NEW t, CoreRead(c, r, a, w, t) PROVE mshr' = mshr
    BY <2>1 DEF CoreRead
  <2>2. ASSUME NEW a, NEW w, CoreWrite(a, w) PROVE mshr' = mshr
    BY <2>2 DEF CoreWrite
  <2>3. ASSUME NEW c, TakeProcessed(c) PROVE mshr' = mshr
    BY <2>3 DEF TakeProcessed
  <2> QED
    BY <1>1, <1>2, <2>1, <2>2, <2>3 DEF Core
<1>3. CASE \E c \in Cache, a \in Block, l \in {1, 2, 4} : PrefetchLine(c, a, l)
  BY <1>1, <1>3 DEF PrefetchLine
<1>4. CASE "LLC" \in Cache /\ BypassFill
  <2>1. PICK e \in mshr["LLC"] :
          mshr' = Returned([mshr EXCEPT !["LLC"] = @ \ {e}], ReturnsTo("LLC", e), e.addr)
    BY <1>4 DEF BypassFill
  <2> QED
    BY <1>4, <2>1, FillAsks
<1>5. CASE MemoryReturns
  <2>1. PICK T, a : mshr' = Returned(mshr, T, a)
    BY <1>5 DEF MemoryReturns
  <2> QED
    BY <2>1, ReturnAsks
<1>6. CASE MemoryWrites \/ (\E a \in Block : SwapOut(a)) \/ UNCHANGED vars
  BY <1>1, <1>6 DEF MemoryWrites, SwapOut, vars
<1> QED
  BY <1>2, <1>3, <1>4, <1>5, <1>6, OperateAsks DEF Next

\* MemoryIsAskedOnce: whatever prefetches and merges have gone before, the LLC never asks
\* memory for a block it is being sent, and each miss of it is answered from a queued write at
\* once or enters the read queue.  The assumptions are those of MissesAlwaysMatch.
THEOREM LlcAsksMemoryOnce ==
  ASSUME CodeApartFromData, ReadQueuesSuffice
  PROVE  Spec => MemoryIsAskedOnce
<1>1. Init => CacheInv /\ MissInv
  BY InitInv, InitMatches
<1>2. CacheInv /\ MissInv /\ [Next]_vars => (CacheInv /\ MissInv)'
  BY StepKeepsInv, StepKeepsMatch
<1>3. CacheInv /\ MissInv /\ [Next]_vars => AskedOnce
  BY StepAsks
<1> QED
  BY <1>1, <1>2, <1>3, PTL DEF Spec, MemoryIsAskedOnce, AskedOnce

=============================================================================
