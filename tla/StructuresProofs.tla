-------------------------- MODULE StructuresProofs --------------------------
(***************************************************************************)
(* Proofs about the parts that keep a data structure of their own and call *)
(* no other part: the recencies of a set of ways, the page table, the ring *)
(* of a packet queue and the code informer.  Each section is about one of  *)
(* the modules below and none uses another's.                              *)
(***************************************************************************)
EXTENDS Lru, PageTable, PacketQueue, CodeInformer, NatFacts, FiniteSetTheorems, SequenceTheorems

-----------------------------------------------------------------------------
(***************************************************************************)
(* Lru, for every number of ways.                                          *)
(***************************************************************************)

\* The recencies are a permutation of the ways.
IInv == TypeOK /\ RecenciesDistinct

\* Aging the ways used after w, and only those, keeps the recencies distinct and in range.
LEMMA UpdateKeepsPermutation ==
  ASSUME lru \in [Way -> Way], RecenciesDistinct, NEW w \in Way, lru_update(w)
  PROVE  lru' \in [Way -> Way] /\ RecenciesDistinct'
<1>1. \A v \in Way : lru'[v] = IF v = w THEN 0
                               ELSE IF lru[v] < lru[w] THEN lru[v] + 1 ELSE lru[v]
  BY DEF lru_update
<1>2. lru' \in [Way -> Way]
  <2>1. ASSUME NEW v \in Way  PROVE lru'[v] \in Way
    <3>1. lru[v] \in Way /\ lru[w] \in Way /\ NUM_WAY \in Int /\ 0 \in Way
      BY WaysAssumption DEF Way
    <3>2. ASSUME NEW i \in Way, NEW j \in Way, i < j  PROVE i + 1 \in Way
      BY <3>1, <3>2 DEF Way
    <3>3. \/ lru'[v] \in {0, lru[v]}
          \/ lru[v] < lru[w] /\ lru'[v] = lru[v] + 1
      BY <1>1
    <3> QED
      BY <3>1, <3>2, <3>3
  <2> QED
    BY <2>1 DEF lru_update
<1>3. ASSUME NEW u \in Way, NEW v \in Way, lru'[u] = lru'[v]
      PROVE  u = v
  <2>1. lru[u] \in Int /\ lru[v] \in Int /\ lru[w] \in Int /\ lru[u] >= 0 /\ lru[v] >= 0
    BY DEF Way
  <2>2. (lru[u] = lru[v] => u = v) /\ (lru[u] = lru[w] => u = w) /\ (lru[v] = lru[w] => v = w)
    BY DEF RecenciesDistinct
  <2> QED
    BY <1>1, <1>3, <2>1, <2>2
<1> QED
  BY <1>2, <1>3 DEF RecenciesDistinct

\* A permutation has every recency, the last one included.
LEMMA LastRecencyHeld ==
  ASSUME IInv
  PROVE  \E w \in Way : lru[w] = NUM_WAY - 1
<1>1. IsFiniteSet(Way) /\ Cardinality(Way) = NUM_WAY
  BY WaysAssumption, IndexSet DEF Way
<1>2. lru \in Injection(Way, Way)
  BY DEF IInv, TypeOK, RecenciesDistinct, Injection, IsInjective
<1>3. lru \in Surjection(Way, Way)
  BY <1>1, <1>2, FS_Injection
<1>4. NUM_WAY - 1 \in Way
  BY WaysAssumption DEF Way
<1> QED
  BY <1>3, <1>4 DEF Surjection

-----------------------------------------------------------------------------
(***************************************************************************)
(* The invariant.                                                          *)
(***************************************************************************)

LEMMA InvariantStarts == Init => IInv
  BY DEF Init, IInv, TypeOK, RecenciesDistinct

LEMMA InvariantIsKept == IInv /\ [Next]_vars => IInv'
<1> SUFFICES ASSUME IInv, [Next]_vars
             PROVE  IInv'
  OBVIOUS
<1> USE DEF IInv
<1>1. ASSUME NEW w \in Way, NEW type \in Type, Hit(w, type)
      PROVE  IInv'
  <2>1. CASE type = "WRITEBACK"
    BY <1>1, <2>1 DEF Hit, TypeOK, RecenciesDistinct
  <2>2. CASE type # "WRITEBACK"
    BY <1>1, <2>2, UpdateKeepsPermutation DEF Hit, TypeOK
  <2> QED
    BY <2>1, <2>2
<1>2. ASSUME NEW w \in Way, Fill(w)
      PROVE  IInv'
  BY <1>2, UpdateKeepsPermutation DEF Fill, TypeOK
<1>3. ASSUME NEW w \in Way, invalidate_entry(w)
      PROVE  IInv'
  BY <1>3 DEF invalidate_entry, TypeOK, RecenciesDistinct
<1>4. CASE UNCHANGED vars
  BY <1>4 DEF vars, TypeOK, RecenciesDistinct
<1> QED
  BY <1>1, <1>2, <1>3, <1>4 DEF Next

\* The recencies of a set stay a permutation of its ways through every hit, fill and
\* invalidation: lru_update never lets two ways share one.
THEOREM RecenciesArePermutation == Spec => [](TypeOK /\ RecenciesDistinct)
<1>1. Spec => []IInv
  BY InvariantStarts, InvariantIsKept, PTL DEF Spec
<1> QED
  BY <1>1, PTL DEF IInv

\* The first invalid way exists and is one, or the last recency is held by one way.
LEMMA InvariantGivesVictim == IInv => OneVictim
<1> SUFFICES ASSUME IInv
             PROVE  OneVictim
  OBVIOUS
<1>1. CASE \E v \in Way : ~valid[v]
  <2> DEFINE invalid == {v \in Way : ~valid[v]}
  <2>1. invalid \in SUBSET Nat /\ invalid # {}
    BY <1>1, WaysAssumption DEF Way
  <2>2. PICK w \in invalid : \A v \in invalid : w <= v
    <3> HIDE DEF invalid
    <3> QED
      BY <2>1, LeastNatural
  <2>3. w \in Way /\ ~valid[w] /\ \A v \in Way : ~valid[v] => w <= v
    BY <2>2
  <2>4. \A v \in 0 .. w - 1 : v \in Way /\ v < w
    BY <2>3, WaysAssumption DEF Way
  <2>5. FirstInvalid(w)
    BY <2>3, <2>4, WaysAssumption DEF FirstInvalid, Way
  <2>6. ASSUME NEW u \in Way, NEW v \in Way, FirstInvalid(u), FirstInvalid(v)
        PROVE  u = v
    BY <2>6, WaysAssumption DEF FirstInvalid, Way
  <2> QED
    BY <1>1, <2>3, <2>5, <2>6 DEF OneVictim, IsVictim
<1>2. CASE ~\E v \in Way : ~valid[v]
  BY <1>2, LastRecencyHeld DEF OneVictim, IsVictim, IInv, RecenciesDistinct
<1> QED
  BY <1>1, <1>2

\* The assert of lru_victim ("no victim!") never fails, and the victim is unique.
THEOREM VictimFound == Spec => []OneVictim
<1>1. Spec => []IInv
  BY InvariantStarts, InvariantIsKept, PTL DEF Spec
<1> QED
  BY <1>1, InvariantGivesVictim, PTL

-----------------------------------------------------------------------------
(***************************************************************************)
(* The refinement.                                                         *)
(***************************************************************************)

\* The order of last use as the recencies give it.
Newer == {p \in Way \X Way : lru[p[1]] < lru[p[2]]}
Valid == {w \in Way : valid[w]}

LEMMA NewerMembers ==
  \A v, w \in Way : <<v, w>> \in Newer <=> lru[v] < lru[w]
  BY DEF Newer

\* lru_update makes w the newest way and leaves the order of the others alone.
LEMMA UpdateTouches ==
  ASSUME IInv, NEW w \in Way, lru_update(w)
  PROVE  Newer' = {p \in Newer : p[1] # w /\ p[2] # w}
                    \cup {p \in Way \X Way : p[1] = w /\ p[2] # w}
<1> DEFINE touched == {p \in Newer : p[1] # w /\ p[2] # w}
                        \cup {p \in Way \X Way : p[1] = w /\ p[2] # w}
<1>1. \A v \in Way : lru'[v] = IF v = w THEN 0
                               ELSE IF lru[v] < lru[w] THEN lru[v] + 1 ELSE lru[v]
  BY DEF lru_update
<1>2. \A v \in Way : lru[v] \in Int /\ lru[v] >= 0
  BY WaysAssumption DEF IInv, TypeOK, Way
<1>3. ASSUME NEW u \in Way, NEW v \in Way
      PROVE  <<u, v>> \in Newer' <=> <<u, v>> \in touched
  <2>1. <<u, v>> \in Newer' <=> lru'[u] < lru'[v]
    BY DEF Newer
  <2>2. <<u, v>> \in touched <=> \/ lru[u] < lru[v] /\ u # w /\ v # w
                                 \/ u = w /\ v # w
    BY DEF Newer
  <2>3. (lru[u] = lru[v] => u = v) /\ (lru[u] = lru[w] => u = w) /\ (lru[v] = lru[w] => v = w)
    BY DEF IInv, RecenciesDistinct
  <2>4. lru'[u] < lru'[v] <=> \/ lru[u] < lru[v] /\ u # w /\ v # w
                              \/ u = w /\ v # w
    <3> HIDE DEF touched
    <3> QED
      BY <1>1, <1>2, <2>3
  <2> QED
    BY <2>1, <2>2, <2>4
<1>4. Newer' \subseteq Way \X Way /\ touched \subseteq Way \X Way
  BY DEF Newer
<1> QED
  <2> HIDE DEF touched
  <2>1. \A p \in Way \X Way : p \in Newer' <=> p \in touched
    BY <1>3
  <2>2. Newer' = touched
    BY <1>4, <2>1
  <2> QED
    BY <2>2 DEF touched

LEMMA InitRefines == Init => Order!Init
<1> SUFFICES ASSUME Init
             PROVE  Order!Init
  OBVIOUS
<1>1. \A v, w \in Way : <<v, w>> \in Newer <=> v < w
  BY DEF Init, Newer
<1>2. Newer \subseteq Way \X Way
  BY DEF Newer
<1>3. \A v \in Way : v \in Int
  BY WaysAssumption DEF Way
<1>4. Order!StrictOrder(Newer)
  BY <1>1, <1>2, <1>3 DEF Order!StrictOrder, Order!Way, Way
<1>5. Valid = {}
  BY DEF Init, Valid
<1> QED
  BY <1>4, <1>5 DEF Order!Init, Newer, Valid

LEMMA StepRefines ==
  IInv /\ [Next]_vars => [Order!Next]_<<Newer, Valid>>
<1> SUFFICES ASSUME IInv, [Next]_vars
             PROVE  [Order!Next]_<<Newer, Valid>>
  OBVIOUS
<1>w. Order!Way = Way
  BY DEF Order!Way, Way
<1>t. ASSUME NEW w \in Way, lru_update(w)
      PROVE  Order!Touch(w)
  BY <1>w, <1>t, UpdateTouches DEF Order!Touch, Newer
<1>1. ASSUME NEW w \in Way, NEW type \in Type, Hit(w, type)
      PROVE  [Order!Next]_<<Newer, Valid>>
  <2>1. CASE type = "WRITEBACK"
    BY <1>1, <2>1 DEF Hit, Newer, Valid
  <2>2. CASE type # "WRITEBACK"
    <3>1. Order!Touch(w)
      BY <1>1, <1>t, <2>2 DEF Hit
    <3>2. w \in Valid /\ Valid' = Valid
      BY <1>1 DEF Hit, Valid
    <3>3. Order!Hit(w)
      BY <3>1, <3>2 DEF Order!Hit, Valid
    <3> QED
      BY <1>w, <3>3 DEF Order!Next
  <2> QED
    BY <2>1, <2>2
<1>2. ASSUME NEW w \in Way, Fill(w)
      PROVE  [Order!Next]_<<Newer, Valid>>
  <2>1. Order!Touch(w)
    BY <1>2, <1>t DEF Fill
  <2>2. Valid' = Valid \cup {w}
    BY <1>2 DEF Fill, Valid, IInv, TypeOK
  <2>3. IF Valid = Way THEN \A v \in Way : v # w => <<v, w>> \in Newer
                       ELSE w \notin Valid /\ \A v \in Way : v < w => v \in Valid
    <3>1. CASE \E v \in Way : ~valid[v]
      <4>1. FirstInvalid(w) /\ Valid # Way
        BY <1>2, <3>1 DEF Fill, IsVictim, Valid
      <4>2. \A v \in Way : v < w => v \in 0 .. w - 1
        BY WaysAssumption DEF Way
      <4> QED
        BY <4>1, <4>2 DEF FirstInvalid, Valid
    <3>2. CASE ~\E v \in Way : ~valid[v]
      <4>1. lru[w] = NUM_WAY - 1 /\ Valid = Way
        BY <1>2, <3>2 DEF Fill, IsVictim, Valid
      <4>2. ASSUME NEW v \in Way, v # w
            PROVE  lru[v] < lru[w]
        <5>1. lru[v] # lru[w] /\ lru[v] \in Way
          BY <4>2 DEF IInv, TypeOK, RecenciesDistinct
        <5> QED
          BY <4>1, <5>1, WaysAssumption DEF Way
      <4> QED
        BY <4>1, <4>2, NewerMembers
    <3> QED
      BY <3>1, <3>2
  <2>4. Order!Fill(w)
    BY <1>w, <2>1, <2>2, <2>3 DEF Order!Fill, Order!Oldest, Newer, Valid
  <2> QED
    BY <1>w, <2>4 DEF Order!Next
<1>3. ASSUME NEW w \in Way, invalidate_entry(w)
      PROVE  [Order!Next]_<<Newer, Valid>>
  <2>1. Valid' = Valid \ {w} /\ Newer' = Newer
    BY <1>3 DEF invalidate_entry, Valid, Newer, IInv, TypeOK
  <2>2. Order!Invalidate(w)
    BY <2>1 DEF Order!Invalidate, Newer, Valid
  <2> QED
    BY <1>w, <2>2 DEF Order!Next
<1>4. CASE UNCHANGED vars
  BY <1>4 DEF vars, Newer, Valid
<1> QED
  BY <1>1, <1>2, <1>3, <1>4 DEF Next

\* A full set always evicts the block used longest ago: the recencies implement the
\* order of last use.
THEOREM Refinement == Spec => ImplementsRecencyOrder
<1>1. Spec => []IInv
  BY InvariantStarts, InvariantIsKept, PTL DEF Spec
<1>2. Init => Order!Init
  BY InitRefines
<1>3. IInv /\ [Next]_vars => [Order!Next]_<<Newer, Valid>>
  BY StepRefines
<1> QED
  BY <1>1, <1>2, <1>3, PTL DEF Spec, ImplementsRecencyOrder, Order!Spec, Newer, Valid

-----------------------------------------------------------------------------
(***************************************************************************)
(* PageTable: what the swap and the allocation of va_to_pa keep, for any   *)
(* number of cores, pages and frames.  The two tables are inverse, the     *)
(* counters are those of the tables, and a translation is stale only if    *)
(* its page was swapped out past invalidate_entry.                         *)
(***************************************************************************)

(***************************************************************************)
(* A free frame is one that is in no entry of inverse_table.               *)
(***************************************************************************)
LEMMA CandidatesAreFree == \A f \in Candidates : f \notin DOMAIN inverse_table
BY DEF Candidates, Fragmented

(***************************************************************************)
(* What the three ways of va_to_pa do to the tables, in one place: nothing,*)
(* a new page and a free frame, or a new page in the frame of another.     *)
(***************************************************************************)
LEMMA Translations ==
  ASSUME NEW c, NEW p, va_to_pa(c, p)
  PROVE  \/ p \in DOMAIN page_table /\ UNCHANGED <<tables, tlb, outlived>>
         \/ Allocate(p)
         \/ Swap(c, p)
BY DEF va_to_pa

LEMMA AllocateKeepsInverse ==
  ASSUME TablesAreInverse, NEW p, Allocate(p)
  PROVE  TablesAreInverse'
<1>1. PICK f \in Candidates :
        /\ page_table' = Insert(page_table, p, f)
        /\ inverse_table' = Insert(inverse_table, f, p)
  BY DEF Allocate
<1>2. f \notin DOMAIN inverse_table /\ p \notin DOMAIN page_table
  BY CandidatesAreFree DEF Allocate
<1>3. /\ DOMAIN page_table' = DOMAIN page_table \cup {p}
      /\ page_table'[p] = f
      /\ \A q \in DOMAIN page_table : page_table'[q] = page_table[q]
  BY <1>1, <1>2 DEF Insert
<1>4. /\ DOMAIN inverse_table' = DOMAIN inverse_table \cup {f}
      /\ inverse_table'[f] = p
      /\ \A g \in DOMAIN inverse_table : inverse_table'[g] = inverse_table[g]
  BY <1>1, <1>2 DEF Insert
<1> QED
  BY <1>2, <1>3, <1>4 DEF TablesAreInverse

LEMMA SwapKeepsInverse ==
  ASSUME TablesAreInverse, NEW c, NEW p, Swap(c, p)
  PROVE  TablesAreInverse'
<1>1. PICK victim \in DOMAIN page_table :
        /\ page_table' = Insert(Erase(page_table, victim), p, page_table[victim])
        /\ inverse_table' = [inverse_table EXCEPT ![page_table[victim]] = p]
  BY DEF Swap
<1>2. p \notin DOMAIN page_table
  BY DEF Swap
<1>3. /\ DOMAIN page_table' = (DOMAIN page_table \ {victim}) \cup {p}
      /\ page_table'[p] = page_table[victim]
      /\ \A q \in DOMAIN page_table \ {victim} : page_table'[q] = page_table[q]
  BY <1>1, <1>2 DEF Insert, Erase
<1>4. /\ DOMAIN inverse_table' = DOMAIN inverse_table
      /\ inverse_table'[page_table[victim]] = p
      /\ \A g \in DOMAIN inverse_table :
           g # page_table[victim] => inverse_table'[g] = inverse_table[g]
  BY <1>1 DEF TablesAreInverse
<1> QED
  BY <1>2, <1>3, <1>4 DEF TablesAreInverse

LEMMA TranslationKeepsInverse ==
  ASSUME TablesAreInverse, NEW c, NEW p, va_to_pa(c, p)
  PROVE  TablesAreInverse'
<1>1. CASE UNCHANGED <<tables, tlb, outlived>>
  BY <1>1 DEF TablesAreInverse, tables
<1>2. CASE Allocate(p)
  BY <1>2, AllocateKeepsInverse
<1>3. CASE Swap(c, p)
  BY <1>3, SwapKeepsInverse
<1> QED
  BY <1>1, <1>2, <1>3, Translations

(***************************************************************************)
(* An action of the specification translates a page or leaves the tables.  *)
(***************************************************************************)
LEMMA Actions ==
  ASSUME [TranslationNext]_translationVars
  PROVE  \/ \E c \in Cpu : \E v \in Vpages[c] : va_to_pa(c, <<c, v>>)
         \/ UNCHANGED tables
BY DEF TranslationNext, translationVars, TranslateCode, TranslateData, HitBelow, FillTlb,
       EvictTlb

(***************************************************************************)
(* No frame is given to two pages and the swap always finds its victim's   *)
(* frame in inverse_table (va_to_pa): the property is its own invariant.   *)
(***************************************************************************)
THEOREM TablesStayInverse == TranslationSpec => []TablesAreInverse
<1>1. TranslationInit => TablesAreInverse
  BY DEF TranslationInit, TablesAreInverse
<1>2. TablesAreInverse /\ [TranslationNext]_translationVars => TablesAreInverse'
  <2> SUFFICES ASSUME TablesAreInverse, [TranslationNext]_translationVars
               PROVE  TablesAreInverse'
    OBVIOUS
  <2>1. CASE UNCHANGED tables
    BY <2>1 DEF tables, TablesAreInverse
  <2>2. ASSUME NEW c \in Cpu, NEW v \in Vpages[c], va_to_pa(c, <<c, v>>)
        PROVE  TablesAreInverse'
    BY <2>2, TranslationKeepsInverse
  <2> QED
    BY <2>1, <2>2, Actions
<1> QED
  BY <1>1, <1>2, PTL DEF TranslationSpec

-----------------------------------------------------------------------------
(* The counters *)

(***************************************************************************)
(* What AllocationCounted needs to be inductive: the counters are numbers  *)
(* and the table is finite, so that a key more is one more.                *)
(***************************************************************************)
Counters ==
  /\ IsFiniteSet(DOMAIN page_table)
  /\ num_adjacent_page \in Nat
  /\ AllocationCounted

LEMMA AllocateKeepsCounters ==
  ASSUME Counters, NEW p, Allocate(p)
  PROVE  Counters'
<1> USE PageTableAssumption
<1>1. PICK f : page_table' = Insert(page_table, p, f)
  BY DEF Allocate
<1>2. DOMAIN page_table' = DOMAIN page_table \cup {p} /\ p \notin DOMAIN page_table
  BY <1>1 DEF Insert, Allocate
<1>3. IsFiniteSet(DOMAIN page_table') /\ Cardinality(DOMAIN page_table') = Cardinality(DOMAIN page_table) + 1
  BY <1>2, FS_AddElement DEF Counters
<1>4. Cardinality(DOMAIN page_table) \in Nat
  BY FS_CardinalityType DEF Counters
<1>5. allocated_pages' = Cardinality(DOMAIN page_table') /\ allocated_pages' <= DRAM_PAGES
  BY <1>3, <1>4 DEF Counters, AllocationCounted, Allocate
<1>6. CASE Fragmented
  <2>1. num_adjacent_page' \in RunLength /\ RunLength \subseteq 1 .. Word - 1
    BY <1>6 DEF Allocate
  <2> QED
    BY <2>1, <1>3, <1>5 DEF Counters, AllocationCounted
<1>7. CASE ~Fragmented
  <2>1. num_adjacent_page # 0 /\ num_adjacent_page' = (num_adjacent_page - 1) % Word
    BY <1>7 DEF Allocate, Fragmented
  <2>2. PICK n \in RunLength : num_adjacent_page <= n
    BY <2>1 DEF Counters, AllocationCounted
  <2>3. num_adjacent_page \in 1 .. Word - 1 /\ Word \in Nat /\ n \in 1 .. Word - 1
    BY <2>1, <2>2 DEF Counters
  <2>4. (num_adjacent_page - 1) % Word = num_adjacent_page - 1
    BY <2>3
  <2>5. num_adjacent_page' \in Nat /\ num_adjacent_page' <= n
    BY <2>1, <2>2, <2>3, <2>4
  <2> QED
    BY <2>5, <2>2, <1>3, <1>5 DEF Counters, AllocationCounted
<1> QED
  BY <1>6, <1>7

LEMMA SwapKeepsCounters ==
  ASSUME Counters, NEW c, NEW p, Swap(c, p)
  PROVE  Counters'
<1>1. PICK victim \in DOMAIN page_table :
        page_table' = Insert(Erase(page_table, victim), p, page_table[victim])
  BY DEF Swap
<1> DEFINE Others == DOMAIN page_table \ {victim}
<1>2. DOMAIN page_table' = Others \cup {p} /\ p \notin Others
  BY <1>1 DEF Insert, Erase, Swap
<1>3. IsFiniteSet(Others) /\ Cardinality(Others) = Cardinality(DOMAIN page_table) - 1
  BY FS_RemoveElement DEF Counters
<1>4. IsFiniteSet(Others \cup {p}) /\ Cardinality(Others \cup {p}) = Cardinality(Others) + 1
  BY <1>2, <1>3, FS_AddElement
<1>5. Cardinality(DOMAIN page_table) \in Nat
  BY FS_CardinalityType DEF Counters
<1> HIDE DEF Others
<1>6. IsFiniteSet(DOMAIN page_table') /\ Cardinality(DOMAIN page_table') = Cardinality(DOMAIN page_table)
  BY <1>2, <1>3, <1>4, <1>5
<1>7. UNCHANGED <<num_adjacent_page, allocated_pages>>
  BY DEF Swap
<1> QED
  BY <1>6, <1>7 DEF Counters, AllocationCounted

(***************************************************************************)
(* As many pages are allocated as are mapped and at most DRAM_PAGES, and   *)
(* the unsigned num_adjacent_page never wraps although it is decremented   *)
(* without a look at zero (va_to_pa).                                      *)
(***************************************************************************)
THEOREM AllocationStaysCounted == TranslationSpec => []AllocationCounted
<1>1. TranslationInit => Counters
  <2> SUFFICES ASSUME TranslationInit PROVE Counters
    OBVIOUS
  <2>1. DOMAIN page_table = {} /\ IsFiniteSet({}) /\ Cardinality({}) = 0
    BY FS_EmptySet DEF TranslationInit
  <2>2. DRAM_PAGES \in Nat
    BY PageTableAssumption
  <2> QED
    BY <2>1, <2>2 DEF TranslationInit, Counters, AllocationCounted
<1>2. Counters /\ [TranslationNext]_translationVars => Counters'
  <2> SUFFICES ASSUME Counters, [TranslationNext]_translationVars PROVE Counters'
    OBVIOUS
  <2>1. CASE UNCHANGED tables
    BY <2>1 DEF tables, Counters, AllocationCounted
  <2>2. ASSUME NEW c \in Cpu, NEW v \in Vpages[c], va_to_pa(c, <<c, v>>)
        PROVE  Counters'
    <3>1. CASE UNCHANGED <<tables, tlb, outlived>>
      BY <3>1, <2>1
    <3> QED
      BY <3>1, <2>2, Translations, AllocateKeepsCounters, SwapKeepsCounters
  <2> QED
    BY <2>1, <2>2, Actions
<1>3. Counters => AllocationCounted
  BY DEF Counters
<1> QED
  BY <1>1, <1>2, <1>3, PTL DEF TranslationSpec

-----------------------------------------------------------------------------
(* The translations the cores hold *)

(***************************************************************************)
(* What StaleOnlyIfOutlived needs to be inductive: a translation is a pair *)
(* of a page and a frame, held per core.                                   *)
(***************************************************************************)
Holdings ==
  /\ tlb \in [Cpu -> SUBSET (Nat \X Nat)]
  /\ inflight \in [Cpu -> SUBSET (Nat \X Nat)]
  /\ previous_ppage \in Nat /\ \A q \in DOMAIN page_table : page_table[q] \in Nat
  /\ StaleOnlyIfOutlived

\* What a translation of page v of core c leaves true of what is held until it is filled.
HeldAfter(c, v) ==
  /\ tlb' \in [Cpu -> SUBSET (Nat \X Nat)]
  /\ previous_ppage' \in Nat /\ \A q \in DOMAIN page_table' : page_table'[q] \in Nat
  /\ <<c, v>> \in DOMAIN page_table'
  /\ \A d \in Cpu : \A t \in tlb'[d] \cup inflight[d] : Current(d, t)' \/ <<d, t>> \in outlived'

LEMMA AllocateKeepsHeld ==
  ASSUME Holdings, NEW c \in Cpu, NEW v \in Vpages[c], Allocate(<<c, v>>)
  PROVE  HeldAfter(c, v)
<1>1. PICK f \in Candidates :
        page_table' = Insert(page_table, <<c, v>>, f) /\ previous_ppage' = f
  BY DEF Allocate
<1>2. f \in Nat
  BY PageTableAssumption DEF Candidates, Holdings
<1>3. <<c, v>> \notin DOMAIN page_table /\ UNCHANGED <<tlb, outlived>>
  BY DEF Allocate
<1>4. /\ DOMAIN page_table' = DOMAIN page_table \cup {<<c, v>>}
      /\ page_table'[<<c, v>>] = f
      /\ \A q \in DOMAIN page_table : page_table'[q] = page_table[q]
  BY <1>1, <1>3 DEF Insert
<1>5. ASSUME NEW d \in Cpu, NEW t \in tlb'[d] \cup inflight[d]
      PROVE  Current(d, t)' \/ <<d, t>> \in outlived'
  <2>1. Current(d, t) \/ <<d, t>> \in outlived
    BY <1>3 DEF Holdings, StaleOnlyIfOutlived
  <2>2. Current(d, t) => Current(d, t)'
    BY <1>4 DEF Current
  <2> QED
    BY <2>1, <2>2, <1>3
<1> QED
  BY <1>1, <1>2, <1>3, <1>4, <1>5 DEF HeldAfter, Holdings

(***************************************************************************)
(* The heart of it: what the swap takes from page_table it takes from the  *)
(* TLBs too, or it is in outlived.                                         *)
(***************************************************************************)
LEMMA SwapKeepsHeld ==
  ASSUME Holdings, NEW c \in Cpu, NEW v \in Vpages[c], Swap(c, <<c, v>>)
  PROVE  HeldAfter(c, v)
<1> DEFINE p == <<c, v>>
<1>1. PICK victim \in DOMAIN page_table :
        /\ page_table' = Insert(Erase(page_table, victim), p, page_table[victim])
        /\ tlb' = Invalidated(c, victim)
        /\ outlived' = (outlived \cup Outliving(c, victim)) \ {<<c, <<v, page_table[victim]>>>>}
  BY DEF Swap
<1>2. p \notin DOMAIN page_table /\ UNCHANGED previous_ppage
  BY DEF Swap
<1>3. /\ DOMAIN page_table' = (DOMAIN page_table \ {victim}) \cup {p}
      /\ page_table'[p] = page_table[victim]
      /\ \A q \in DOMAIN page_table \ {victim} : page_table'[q] = page_table[q]
  BY <1>1, <1>2 DEF Insert, Erase
<1>4. /\ tlb' \in [Cpu -> SUBSET (Nat \X Nat)]
      /\ \A d \in Cpu : tlb'[d] \subseteq tlb[d]
      /\ \A t \in tlb'[c] : ~(victim[1] = 0 /\ t[1] = victim[2])
  BY <1>1 DEF Invalidated, Holdings
<1>5. ASSUME NEW d \in Cpu, NEW t \in tlb'[d] \cup inflight[d]
      PROVE  Current(d, t)' \/ <<d, t>> \in outlived'
  <2>1. t \in Nat \X Nat /\ t = <<t[1], t[2]>> /\ t \in tlb[d] \cup inflight[d]
    BY <1>4 DEF Holdings
  <2>2. CASE <<d, t>> = <<c, <<v, page_table[victim]>>>>
    BY <2>2, <1>3 DEF Current
  <2>3. CASE <<d, t>> \in outlived
    BY <2>2, <2>3, <1>1
  <2>4. CASE Current(d, t) /\ <<d, t[1]>> # victim
    BY <2>4, <1>3 DEF Current
  <2>5. CASE /\ Current(d, t) /\ <<d, t[1]>> = victim
             /\ <<d, t>> # <<c, <<v, page_table[victim]>>>>
    <3>1. victim[1] = d /\ victim[2] = t[1] /\ page_table[victim] = t[2]
      BY <2>5 DEF Current
    <3>2. t = <<victim[2], page_table[victim]>>
      BY <3>1, <2>1
    <3>3. victim[1] \notin {c} \cap {0} \/ t \in inflight[d]
      BY <1>4, <3>1
    <3>4. <<d, t>> \in Outliving(c, victim)
      BY <2>1, <3>1, <3>2, <3>3 DEF Outliving, Held
    <3> QED
      BY <3>4, <2>5, <1>1
  <2> QED
    BY <2>1, <2>2, <2>3, <2>4, <2>5 DEF Holdings, StaleOnlyIfOutlived
<1>6. \A q \in DOMAIN page_table' : page_table'[q] \in Nat
  BY <1>2, <1>3 DEF Holdings
<1> QED
  BY <1>2, <1>3, <1>4, <1>5, <1>6 DEF HeldAfter, Holdings

LEMMA TranslationKeepsHeld ==
  ASSUME Holdings, NEW c \in Cpu, NEW v \in Vpages[c], va_to_pa(c, <<c, v>>)
  PROVE  HeldAfter(c, v)
<1>1. CASE <<c, v>> \in DOMAIN page_table /\ UNCHANGED <<tables, tlb, outlived>>
  BY <1>1 DEF tables, HeldAfter, Holdings, StaleOnlyIfOutlived, Current
<1> QED
  BY <1>1, Translations, AllocateKeepsHeld, SwapKeepsHeld

LEMMA TranslationStepKeepsHoldings ==
  ASSUME Holdings, NEW c \in Cpu, NEW v \in Vpages[c], TranslateCode(c, v) \/ TranslateData(c, v)
  PROVE  Holdings'
<1>1. HeldAfter(c, v)
  BY TranslationKeepsHeld DEF TranslateCode, TranslateData
<1> DEFINE new == <<v, page_table'[<<c, v>>]>>
<1>2. \/ UNCHANGED inflight
      \/ inflight' = [inflight EXCEPT ![c] = @ \cup {new}]
  BY DEF TranslateCode, TranslateData
<1>3. new \in Nat \X Nat /\ <<c, new[1]>> \in DOMAIN page_table' /\ page_table'[<<c, new[1]>>] = new[2]
  <2>1. v \in Nat
    BY PageTableAssumption DEF Cpu
  <2>2. <<c, v>> \in DOMAIN page_table' /\ page_table'[<<c, v>>] \in Nat
    BY <1>1 DEF HeldAfter
  <2>3. new[1] = v /\ new[2] = page_table'[<<c, v>>] /\ new \in Nat \X Nat
    BY <2>1, <2>2
  <2> QED
    BY <2>2, <2>3
<1> HIDE DEF new
<1>4. inflight' \in [Cpu -> SUBSET (Nat \X Nat)]
  BY <1>2, <1>3 DEF Holdings
<1>5. \A d \in Cpu : \A t \in inflight'[d] : t \in inflight[d] \/ (d = c /\ t = new)
  BY <1>2 DEF Holdings
<1>6. ASSUME NEW d \in Cpu, NEW t \in tlb'[d] \cup inflight'[d]
      PROVE  Current(d, t)' \/ <<d, t>> \in outlived'
  <2>1. CASE d = c /\ t = new
    BY <2>1, <1>3 DEF Current
  <2>2. CASE t \in tlb'[d] \cup inflight[d]
    BY <2>2, <1>1 DEF HeldAfter
  <2> QED
    BY <2>1, <2>2, <1>5
<1>7. StaleOnlyIfOutlived'
  BY <1>6 DEF StaleOnlyIfOutlived
<1> QED
  BY <1>1, <1>4, <1>7 DEF HeldAfter, Holdings

(***************************************************************************)
(* The copies that move between the TLBs are copies: none is new.          *)
(***************************************************************************)
LEMMA MovingKeepsHoldings ==
  ASSUME Holdings, NEW c \in Cpu, NEW t,
         HitBelow(c, t) \/ EvictTlb(c, t) \/ FillTlb(c, t)
  PROVE  Holdings'
<1>1. UNCHANGED tables
  BY DEF HitBelow, EvictTlb, FillTlb
<1>2. \A d, u : Current(d, u)' <=> Current(d, u)
  BY <1>1 DEF tables, Current
<1>3. /\ tlb' \in [Cpu -> SUBSET (Nat \X Nat)] /\ inflight' \in [Cpu -> SUBSET (Nat \X Nat)]
      /\ \A d \in Cpu : tlb'[d] \cup inflight'[d] \subseteq tlb[d] \cup inflight[d]
  BY DEF HitBelow, EvictTlb, FillTlb, Holdings
<1>4. CASE UNCHANGED outlived
  BY <1>1, <1>2, <1>3, <1>4 DEF Holdings, StaleOnlyIfOutlived, tables
<1>5. CASE EvictTlb(c, t) /\ t \notin inflight[c]
  <2>1. outlived' = outlived \ {<<c, t>>}
    BY <1>5 DEF EvictTlb
  <2>2. t \notin tlb'[c] \cup inflight'[c]
    BY <1>5 DEF EvictTlb, Holdings
  <2>3. StaleOnlyIfOutlived'
    BY <1>2, <1>3, <2>1, <2>2 DEF Holdings, StaleOnlyIfOutlived
  <2> QED
    BY <1>1, <1>3, <2>3 DEF Holdings, tables
<1> QED
  BY <1>4, <1>5 DEF HitBelow, EvictTlb, FillTlb

(***************************************************************************)
(* The swap's invalidate_entry leaves behind only the translations that    *)
(* are on their way, held by another core, or of a core other than 0: the  *)
(* rest of the TLBs agrees with page_table (va_to_pa, CACHE::handle_fill). *)
(***************************************************************************)
THEOREM StaleStaysOutlived == TranslationSpec => []StaleOnlyIfOutlived
<1>1. TranslationInit => Holdings
  BY DEF TranslationInit, Holdings, StaleOnlyIfOutlived
<1>2. Holdings /\ [TranslationNext]_translationVars => Holdings'
  <2> SUFFICES ASSUME Holdings, [TranslationNext]_translationVars PROVE Holdings'
    OBVIOUS
  <2>1. CASE UNCHANGED translationVars
    BY <2>1 DEF translationVars, tables, Holdings, StaleOnlyIfOutlived, Current
  <2>2. ASSUME NEW c \in Cpu, NEW v \in Vpages[c], TranslateCode(c, v) \/ TranslateData(c, v)
        PROVE  Holdings'
    BY <2>2, TranslationStepKeepsHoldings
  <2>3. ASSUME NEW c \in Cpu, NEW t, HitBelow(c, t) \/ EvictTlb(c, t) \/ FillTlb(c, t)
        PROVE  Holdings'
    BY <2>3, MovingKeepsHoldings
  <2> QED
    BY <2>1, <2>2, <2>3 DEF TranslationNext
<1>3. Holdings => StaleOnlyIfOutlived
  BY DEF Holdings
<1> QED
  BY <1>1, <1>2, <1>3, PTL DEF TranslationSpec

-----------------------------------------------------------------------------
(***************************************************************************)
(* PACKET_QUEUE implements Fifo, for rings of any size: the slots from the *)
(* head on, counted round the end, are the places of a queue, and the two  *)
(* ranges check_queue goes through are those that hold packets, in their   *)
(* order.                                                                  *)
(***************************************************************************)

(***************************************************************************)
(* tail is where occupancy places after the head end: equal to head when   *)
(* the ring is empty and when it is full.                                  *)
(***************************************************************************)
Ring ==
  /\ entry \in [Slot -> Address \cup {NoAddress}]
  /\ head \in Slot /\ occupancy \in 0 .. SIZE
  /\ tail = IF head + occupancy >= SIZE THEN head + occupancy - SIZE ELSE head + occupancy
  /\ index \in Slot \cup {-1}

-----------------------------------------------------------------------------
(* Slots and places *)

LEMMA SlotsArePlaces ==
  ASSUME Ring, NEW i \in Slot
  PROVE  PlaceOf(i) \in 1 .. SIZE /\ SlotOf(PlaceOf(i)) = i
BY QueueAssumption DEF Ring, Slot, PlaceOf, SlotOf

LEMMA PlacesAreSlots ==
  ASSUME Ring, NEW k \in 1 .. SIZE
  PROVE  SlotOf(k) \in Slot /\ PlaceOf(SlotOf(k)) = k
BY QueueAssumption DEF Ring, Slot, PlaceOf, SlotOf

(***************************************************************************)
(* The two loops of check_queue go through the slots that hold packets,    *)
(* also when the ring is full.                                             *)
(***************************************************************************)
LEMMA SearchedIsOccupied ==
  ASSUME Ring
  PROVE  Searched \subseteq Slot /\ \A i \in Slot : i \in Searched <=> PlaceOf(i) <= occupancy
<1>1. SIZE \in Nat \ {0}
  BY QueueAssumption
<1>2. CASE occupancy = 0
  <2>1. head = tail
    BY <1>1, <1>2 DEF Ring, Slot
  <2> QED
    BY <1>1, <1>2, <2>1 DEF Ring, Searched, Slot, PlaceOf
<1>3. CASE occupancy # 0 /\ head + occupancy >= SIZE
  <2>1. tail = head + occupancy - SIZE /\ ~(head < tail)
    BY <1>1, <1>3 DEF Ring, Slot
  <2>2. Searched = (head .. SIZE - 1) \cup (0 .. tail - 1)
    BY <1>3, <2>1 DEF Searched
  <2> QED
    BY <1>1, <1>3, <2>1, <2>2 DEF Ring, Slot, PlaceOf
<1>4. CASE occupancy # 0 /\ head + occupancy < SIZE
  <2>1. tail = head + occupancy /\ head < tail
    BY <1>1, <1>4 DEF Ring, Slot
  <2>2. Searched = head .. tail - 1
    BY <1>4, <2>1 DEF Searched, Ring, Slot
  <2> QED
    BY <1>1, <1>4, <2>1, <2>2 DEF Ring, Slot, PlaceOf
<1> QED
  BY <1>1, <1>2, <1>3, <1>4 DEF Ring, Slot

(***************************************************************************)
(* check_queue meets them in the order they came.                          *)
(***************************************************************************)
LEMMA EarlierIsBefore ==
  ASSUME Ring, NEW i \in Searched, NEW j \in Searched
  PROVE  Earlier(i, j) <=> PlaceOf(i) < PlaceOf(j)
<1>1. SIZE \in Nat \ {0} /\ head \in 0 .. SIZE - 1 /\ i \in 0 .. SIZE - 1 /\ j \in 0 .. SIZE - 1
  BY QueueAssumption, SearchedIsOccupied DEF Ring, Slot
<1>2. CASE head < tail
  <2>1. i >= head /\ j >= head
    BY <1>2 DEF Searched
  <2> QED
    BY <1>1, <1>2, <2>1 DEF Earlier, PlaceOf
<1>3. CASE ~(head < tail)
  BY <1>1, <1>3 DEF Earlier, PlaceOf
<1> QED
  BY <1>2, <1>3

LEMMA ContentsIsSequence ==
  ASSUME Ring
  PROVE  Contents \in Seq(Address \cup {NoAddress}) /\ Len(Contents) = occupancy
<1>1. \A k \in 1 .. occupancy : entry[SlotOf(k)] \in Address \cup {NoAddress}
  BY PlacesAreSlots, QueueAssumption DEF Ring
<1> QED
  BY <1>1 DEF Contents, Ring

LEMMA AppendAtTheEnd ==
  ASSUME NEW S, NEW s \in Seq(S), NEW e \in S
  PROVE  Append(s, e) = [k \in 1 .. Len(s) + 1 |-> IF k <= Len(s) THEN s[k] ELSE e]
<1> DEFINE t == [k \in 1 .. Len(s) + 1 |-> IF k <= Len(s) THEN s[k] ELSE e]
<1>1. Len(s) \in Nat /\ \A k \in 1 .. Len(s) + 1 : k <= Len(s) \/ k = Len(s) + 1
  OBVIOUS
<1>2. t \in Seq(S) /\ Len(t) = Len(s) + 1
  BY <1>1
<1>3. \A k \in 1 .. Len(t) : Append(s, e)[k] = t[k]
  BY <1>1, <1>2, AppendProperties
<1> HIDE DEF t
<1>4. Append(s, e) = t
  BY <1>2, <1>3, AppendProperties, SeqEqual
<1> QED
  BY <1>4 DEF t

LEMMA TailShifts ==
  ASSUME NEW S, NEW s \in Seq(S), Len(s) > 0
  PROVE  s # <<>> /\ Tail(s) = [k \in 1 .. Len(s) - 1 |-> s[k + 1]]
<1> DEFINE t == [k \in 1 .. Len(s) - 1 |-> s[k + 1]]
<1>1. Len(s) \in Nat \ {0} /\ s # <<>> /\ \A k \in 1 .. Len(s) - 1 : s[k + 1] \in S
  OBVIOUS
<1>2. t \in Seq(S) /\ Len(t) = Len(s) - 1
  BY <1>1
<1>3. \A k \in 1 .. Len(t) : Tail(s)[k] = t[k]
  BY <1>1, <1>2, HeadTailProperties
<1> HIDE DEF t
<1>4. Tail(s) = t
  BY <1>1, <1>2, <1>3, HeadTailProperties, SeqEqual
<1> QED
  BY <1>1, <1>4 DEF t

-----------------------------------------------------------------------------
(* The operations *)

LEMMA RingInit == QueueInit => Ring
BY QueueAssumption DEF QueueInit, Ring, Slot

LEMMA RingStep == Ring /\ [QueueNext]_queueVars => Ring'
<1> SUFFICES ASSUME Ring, [QueueNext]_queueVars PROVE Ring'
  OBVIOUS
<1>0. SIZE \in Nat \ {0}
  BY QueueAssumption
<1>1. CASE UNCHANGED queueVars
  BY <1>1 DEF queueVars, Ring
<1>2. ASSUME NEW a \in Address, add_queue(a) PROVE Ring'
  <2>1. tail \in Slot
    BY <1>0 DEF Ring, Slot
  <2>2. entry' \in [Slot -> Address \cup {NoAddress}]
    BY <1>2, <2>1 DEF Ring, add_queue
  <2> QED
    BY <1>0, <1>2, <2>2 DEF Ring, add_queue, Slot, NextSlot
<1>3. ASSUME NEW a \in Address, check_queue(a) PROVE Ring'
  BY <1>3, SearchedIsOccupied DEF Ring, check_queue
<1>4. CASE remove_queue
  <2>1. entry' \in [Slot -> Address \cup {NoAddress}]
    BY <1>4 DEF Ring, remove_queue
  <2> QED
    BY <1>0, <1>4, <2>1 DEF Ring, remove_queue, Slot, NextSlot
<1> QED
  BY <1>1, <1>2, <1>3, <1>4 DEF QueueNext

LEMMA AddAppends ==
  ASSUME Ring, NEW a \in Address, add_queue(a)
  PROVE  Queue!Add(a)
<1>0. SIZE \in Nat \ {0}
  BY QueueAssumption
<1>1. occupancy < SIZE /\ occupancy' = occupancy + 1 /\ UNCHANGED <<head, index>>
  BY DEF add_queue
<1>2. tail \in Slot /\ SlotOf(occupancy + 1) = tail
  BY <1>0, <1>1 DEF Ring, Slot, SlotOf
<1>3. \A k \in 1 .. occupancy : SlotOf(k) # tail
  <2> TAKE k \in 1 .. occupancy
  <2>1. k \in 1 .. SIZE /\ occupancy + 1 \in 1 .. SIZE /\ k # occupancy + 1
    BY <1>0, <1>1 DEF Ring
  <2> QED
    BY <2>1, <1>2, PlacesAreSlots
<1>4. \A k \in 1 .. occupancy : entry'[SlotOf(k)] = entry[SlotOf(k)]
  <2> TAKE k \in 1 .. occupancy
  <2>1. SlotOf(k) \in Slot
    BY <1>0, PlacesAreSlots DEF Ring
  <2> QED
    BY <2>1, <1>3 DEF add_queue, Ring
<1>5. entry'[SlotOf(occupancy + 1)] = a
  BY <1>2 DEF add_queue, Ring
<1>6. Contents' = [k \in 1 .. occupancy + 1 |-> entry'[SlotOf(k)]]
  BY <1>1 DEF Contents, SlotOf
<1>7. Contents' = [k \in 1 .. occupancy + 1 |-> IF k <= occupancy THEN Contents[k] ELSE a]
  <2>1. \A k \in 1 .. occupancy + 1 : entry'[SlotOf(k)] = IF k <= occupancy THEN Contents[k] ELSE a
    BY <1>4, <1>5 DEF Contents, Ring
  <2> QED
    BY <1>6, <2>1
<1>8. Contents' = Append(Contents, a)
  BY <1>7, ContentsIsSequence, AppendAtTheEnd
<1>9. Found' = Found
  BY <1>1 DEF Found, PlaceOf
<1> QED
  BY <1>1, <1>8, <1>9, ContentsIsSequence DEF Queue!Add

LEMMA RemoveTakesTheHead ==
  ASSUME Ring, remove_queue
  PROVE  Queue!Remove
<1>0. SIZE \in Nat \ {0}
  BY QueueAssumption
<1>1. occupancy > 0 /\ occupancy' = occupancy - 1 /\ index' = -1 /\ head' = NextSlot(head)
  BY DEF remove_queue
<1>2. \A k \in 1 .. occupancy - 1 : SlotOf(k)' = SlotOf(k + 1)
  BY <1>0, <1>1 DEF Ring, Slot, SlotOf, NextSlot
<1>3. \A k \in 1 .. occupancy - 1 : SlotOf(k + 1) \in Slot /\ SlotOf(k + 1) # head
  BY <1>0, <1>1 DEF Ring, Slot, SlotOf
<1>4. \A k \in 1 .. occupancy - 1 : entry'[SlotOf(k)'] = entry[SlotOf(k + 1)]
  BY <1>2, <1>3 DEF remove_queue, Ring
<1>5. Contents' = [k \in 1 .. occupancy - 1 |-> entry[SlotOf(k + 1)]]
  BY <1>1, <1>4 DEF Contents
<1>6. Contents' = [k \in 1 .. occupancy - 1 |-> Contents[k + 1]]
  <2>1. \A k \in 1 .. occupancy - 1 : Contents[k + 1] = entry[SlotOf(k + 1)]
    BY <1>0 DEF Contents, Ring
  <2> QED
    BY <1>5, <2>1
<1>7. Contents # <<>> /\ Contents' = Tail(Contents)
  BY <1>1, <1>6, ContentsIsSequence, TailShifts
<1>8. Found' = 0
  BY <1>1 DEF Found
<1> QED
  BY <1>7, <1>8 DEF Queue!Remove

LEMMA CheckFindsTheOldest ==
  ASSUME Ring, NEW a \in Address, check_queue(a)
  PROVE  Queue!Search(a)
<1>0. SIZE \in Nat \ {0}
  BY QueueAssumption
<1>1. UNCHANGED <<entry, head, tail, occupancy>> /\ Contents' = Contents
  BY DEF check_queue, Contents, SlotOf
<1>2. \A k \in 1 .. occupancy : SlotOf(k) \in Searched /\ PlaceOf(SlotOf(k)) = k
  <2> TAKE k \in 1 .. occupancy
  <2>1. k \in 1 .. SIZE
    BY <1>0 DEF Ring
  <2> QED
    BY <2>1, PlacesAreSlots, SearchedIsOccupied
<1>3. CASE index' = -1 /\ \A i \in Searched : entry[i] # a
  <2>1. Found' = 0
    BY <1>3 DEF Found
  <2>2. \A k \in 1 .. Len(Contents) : Contents[k] # a
    BY <1>2, <1>3, ContentsIsSequence DEF Contents
  <2> QED
    BY <1>1, <2>1, <2>2 DEF Queue!Search
<1>4. CASE /\ index' \in Searched /\ entry[index'] = a
           /\ \A i \in Searched : Earlier(i, index') => entry[i] # a
  <2>1. index' \in Slot /\ index' # -1 /\ PlaceOf(index') <= occupancy
    BY <1>0, <1>4, SearchedIsOccupied DEF Slot
  <2>2. Found' = PlaceOf(index')
    BY <2>1, <1>1 DEF Found, PlaceOf
  <2>3. PlaceOf(index') \in 1 .. occupancy /\ SlotOf(PlaceOf(index')) = index'
    BY <1>0, <2>1, SlotsArePlaces DEF Ring
  <2>4. Contents[PlaceOf(index')] = a
    BY <2>3, <1>4 DEF Contents
  <2>5. \A k \in 1 .. PlaceOf(index') - 1 : Contents[k] # a
    <3> TAKE k \in 1 .. PlaceOf(index') - 1
    <3>1. k \in 1 .. occupancy /\ k < PlaceOf(index')
      BY <1>0, <2>3 DEF Ring
    <3>2. Earlier(SlotOf(k), index')
      BY <3>1, <1>2, <1>4, EarlierIsBefore
    <3> QED
      BY <3>1, <3>2, <1>2, <1>4 DEF Contents
  <2> QED
    BY <1>1, <2>2, <2>3, <2>4, <2>5, ContentsIsSequence DEF Queue!Search, Queue!IsOldest
<1> QED
  BY <1>3, <1>4 DEF check_queue

(***************************************************************************)
(* The packet queues of the caches are queues: nothing is overwritten or   *)
(* lost, packets leave in their order and check_queue finds the oldest of  *)
(* an address (PACKET_QUEUE).                                              *)
(***************************************************************************)
THEOREM RingImplementsFifo == QueueSpec => ImplementsFifo
<1>1. QueueInit => Queue!Init
  BY QueueAssumption DEF QueueInit, Queue!Init, Contents, Found
<1>2. Ring /\ [QueueNext]_queueVars => [Queue!Next]_<<Contents, Found>>
  <2> SUFFICES ASSUME Ring, [QueueNext]_queueVars PROVE [Queue!Next]_<<Contents, Found>>
    OBVIOUS
  <2>1. CASE UNCHANGED queueVars
    BY <2>1 DEF queueVars, Contents, Found, SlotOf, PlaceOf
  <2>2. ASSUME NEW a \in Address, add_queue(a) PROVE Queue!Next
    BY <2>2, AddAppends DEF Queue!Next
  <2>3. ASSUME NEW a \in Address, check_queue(a) PROVE Queue!Next
    BY <2>3, CheckFindsTheOldest DEF Queue!Next
  <2>4. CASE remove_queue
    BY <2>4, RemoveTakesTheHead DEF Queue!Next
  <2> QED
    BY <2>1, <2>2, <2>3, <2>4 DEF QueueNext
<1> QED
  BY <1>1, <1>2, RingInit, RingStep, PTL DEF QueueSpec, ImplementsFifo, Queue!Spec

-----------------------------------------------------------------------------
(***************************************************************************)
(* The code informer, for any functions and bounds, of a program without   *)
(* tail calls and hidden calls.                                            *)
(***************************************************************************)
OrdinaryCalls == Does \subseteq {"plain", "call", "ret"}

AnyFunction == Function \cup {Library}
Stack == Seq(AnyFunction) \ {<< >>}

\* c[n] are the user calls of the first n functions of stack s.
CallsOf(s, c) ==
  c = [n \in 1 .. Len(s) |->
         IF n = 1 THEN <<>>
         ELSE IF Library \in {s[n - 1], s[n]} \/ s[n - 1] = s[n] THEN c[n - 1]
         ELSE Append(c[n - 1], s[n])]

LEMMA CallsUnfold ==
  ASSUME NEW s \in Stack, NEW c, CallsOf(s, c), NEW n \in 1 .. Len(s)
  PROVE  c[n] = IF n = 1 THEN <<>>
                ELSE IF Library \in {s[n - 1], s[n]} \/ s[n - 1] = s[n] THEN c[n - 1]
                ELSE Append(c[n - 1], s[n])
<1> DEFINE w(m) == IF m = 1 THEN <<>>
                   ELSE IF Library \in {s[m - 1], s[m]} \/ s[m - 1] = s[m] THEN c[m - 1]
                   ELSE Append(c[m - 1], s[m])
           d == [m \in 1 .. Len(s) |-> w(m)]
<1>1. c = d
  BY DEF CallsOf
<1>2. d[n] = w(n)
  OBVIOUS
<1> HIDE DEF d
<1> QED
  BY <1>1, <1>2

LEMMA LengthOfStack ==
  ASSUME NEW s \in Stack
  PROVE  /\ s \in Seq(AnyFunction) /\ Len(s) \in Nat /\ Len(s) >= 1
         /\ \A n \in 1 .. Len(s) : s[n] \in AnyFunction
         /\ Top(s) = s[Len(s)]
BY EmptySeq, LenProperties DEF Stack, Top

\* The function that the recursion of UserCalls defines.
LEMMA CallsExist ==
  ASSUME NEW s \in Stack
  PROVE  \E c : CallsOf(s, c)
<1> DEFINE N == Len(s)
           V == Seq(Function)
           w(i, v) == IF i = 1 THEN <<>>
                      ELSE IF Library \in {s[i - 1], s[i]} \/ s[i - 1] = s[i] THEN v
                      ELSE Append(v, s[i])
           step == [y \in (1 .. N) \X V |-> w(y[1], y[2])]
<1>1. N \in Nat /\ N >= 1 /\ \A i \in 1 .. N : s[i] \in AnyFunction
  BY LengthOfStack
<1>2. <<>> \in V
  OBVIOUS
<1>3. ASSUME NEW i \in 1 .. N, NEW v \in V PROVE w(i, v) \in V
  <2>1. Library \in {s[i - 1], s[i]} \/ s[i] \in Function
    BY <1>1 DEF AnyFunction
  <2> QED
    BY <1>2, <2>1
<1>4. \A i \in 1 .. N : \A v \in V : step[<<i, v>>] = w(i, v)
  OBVIOUS
<1>5. step \in [(1 .. N) \X V -> V]
  <2> HIDE DEF w, V, N
  <2> QED
    BY <1>3
<1> HIDE DEF N, V, step
<1>6. PICK f \in [0 .. N -> V] : Results(f, N, <<>>, step)
  BY <1>1, <1>2, <1>5, LoopResults
<1> DEFINE c == [n \in 1 .. N |-> f[n]]
<1>7. ASSUME NEW n \in 1 .. N PROVE c[n] = w(n, c[n - 1])
  <2>1. f[n - 1] \in V /\ f[n] = step[<<n, f[n - 1]>>]
    <3>1. n - 1 \in 0 .. N
      BY <1>1
    <3> QED
      BY <1>6, <3>1 DEF Results
  <2>2. f[n] = w(n, f[n - 1]) /\ c[n] = f[n]
    BY <1>4, <2>1
  <2>3. n # 1 => c[n - 1] = f[n - 1]
    BY <1>1
  <2> QED
    BY <2>2, <2>3
<1>8. c = [n \in 1 .. N |-> w(n, c[n - 1])]
  <2> DEFINE d == [n \in 1 .. N |-> w(n, c[n - 1])]
  <2>1. \A n \in 1 .. N : c[n] = d[n]
    BY <1>7
  <2>2. c = [n \in 1 .. N |-> c[n]] /\ d = [n \in 1 .. N |-> d[n]]
    OBVIOUS
  <2> HIDE DEF c, d
  <2>3. c = d
    BY <2>1, <2>2
  <2> QED
    BY <2>3 DEF d
<1> HIDE DEF c
<1>9. CallsOf(s, c)
  BY <1>8 DEF CallsOf, N
<1> QED
  BY <1>9

LEMMA UserCallsAre ==
  ASSUME NEW s \in Stack
  PROVE  \E c : CallsOf(s, c) /\ UserCalls(s) = c[Len(s)]
<1> DEFINE c == CHOOSE d : CallsOf(s, d)
<1>1. CallsOf(s, c)
  BY CallsExist
<1>2. UserCalls(s) = c[Len(s)]
  BY DEF UserCalls, CallsOf
<1> HIDE DEF c
<1> QED
  BY <1>1, <1>2

\* A longer stack has the calls of what it begins with.
LEMMA CallsAgree ==
  ASSUME NEW s \in Stack, NEW t \in Stack, NEW c, NEW d, CallsOf(s, c), CallsOf(t, d),
         Len(s) <= Len(t), \A n \in 1 .. Len(s) : s[n] = t[n]
  PROVE  c[Len(s)] = d[Len(s)]
<1> DEFINE N == Len(s)
           S == {n \in 0 .. N : n # 0 => c[n] = d[n]}
<1>1. N \in Nat /\ N >= 1 /\ Len(t) \in Nat
  BY LengthOfStack
<1>2. 0 \in S
  BY <1>1
<1>3. ASSUME NEW n \in 1 .. N, n - 1 \in S PROVE n \in S
  <2>1. n \in 1 .. Len(t) /\ s[n] = t[n] /\ (n # 1 => s[n - 1] = t[n - 1] /\ c[n - 1] = d[n - 1])
    BY <1>1, <1>3
  <2>2. c[n] = IF n = 1 THEN <<>>
               ELSE IF Library \in {s[n - 1], s[n]} \/ s[n - 1] = s[n] THEN c[n - 1]
               ELSE Append(c[n - 1], s[n])
    BY CallsUnfold
  <2>3. d[n] = IF n = 1 THEN <<>>
               ELSE IF Library \in {t[n - 1], t[n]} \/ t[n - 1] = t[n] THEN d[n - 1]
               ELSE Append(d[n - 1], t[n])
    BY <2>1, CallsUnfold
  <2> QED
    BY <2>1, <2>2, <2>3
<1> HIDE DEF S
<1>4. \A n \in 0 .. N : n \in S
  BY <1>1, <1>2, <1>3, UpTo
<1>5. N \in S /\ N # 0
  BY <1>1, <1>4
<1> QED
  BY <1>5 DEF S

LEMMA CallsOfOne ==
  ASSUME NEW f \in AnyFunction
  PROVE  <<f>> \in Stack /\ UserCalls(<<f>>) = <<>>
<1>1. <<f>> \in Stack /\ Len(<<f>>) = 1
  BY DEF Stack
<1>2. PICK c : CallsOf(<<f>>, c) /\ UserCalls(<<f>>) = c[1]
  BY <1>1, UserCallsAre
<1> QED
  BY <1>1, <1>2, CallsUnfold

\* A call, between different user functions or not.
Called(v, f, g) == IF Library \in {f, g} \/ f = g THEN v ELSE Append(v, g)

LEMMA CallsOfAppend ==
  ASSUME NEW s \in Stack, NEW g \in AnyFunction
  PROVE  /\ Append(s, g) \in Stack
         /\ UserCalls(Append(s, g)) = Called(UserCalls(s), Top(s), g)
<1> DEFINE t == Append(s, g)
           N == Len(s)
<1>1. N \in Nat /\ N >= 1 /\ s \in Seq(AnyFunction) /\ Top(s) = s[N]
  BY LengthOfStack
<1>2. /\ t \in Seq(AnyFunction) /\ Len(t) = N + 1 /\ t[N + 1] = g
      /\ \A n \in 1 .. N : t[n] = s[n]
  BY <1>1
<1>3. t \in Stack
  BY <1>1, <1>2, EmptySeq DEF Stack
<1> HIDE DEF t
<1>4. PICK c : CallsOf(s, c) /\ UserCalls(s) = c[N]
  BY UserCallsAre
<1>5. PICK d : CallsOf(t, d) /\ UserCalls(t) = d[N + 1]
  BY <1>2, <1>3, UserCallsAre
<1>6. c[N] = d[N]
  BY <1>1, <1>2, <1>3, <1>4, <1>5, CallsAgree
<1>7. /\ N + 1 \in 1 .. Len(t) /\ N + 1 # 1 /\ (N + 1) - 1 = N
      /\ N \in 1 .. N
  BY <1>1, <1>2
<1>8. d[N + 1] = IF N + 1 = 1 THEN <<>>
                 ELSE IF Library \in {t[(N + 1) - 1], t[N + 1]} \/ t[(N + 1) - 1] = t[N + 1]
                      THEN d[(N + 1) - 1]
                 ELSE Append(d[(N + 1) - 1], t[N + 1])
  BY <1>3, <1>5, <1>7, CallsUnfold
<1>9. d[N + 1] = Called(d[N], s[N], g)
  BY <1>2, <1>7, <1>8 DEF Called
<1> QED
  BY <1>1, <1>3, <1>4, <1>5, <1>6, <1>9 DEF t

LEMMA PoppedStack ==
  ASSUME NEW s \in Stack, Len(s) > 1
  PROVE  Popped(s) \in Stack /\ s = Append(Popped(s), Top(s)) /\ Top(s) \in AnyFunction
<1> DEFINE N == Len(s)
           t == Popped(s)
<1>1. N \in Nat /\ s \in Seq(AnyFunction) /\ Top(s) = s[N] /\ s[N] \in AnyFunction
  BY LengthOfStack
<1>2. t \in Seq(AnyFunction) /\ Len(t) = N - 1 /\ \A n \in 1 .. N - 1 : t[n] = s[n]
  BY <1>1 DEF Popped
<1> HIDE DEF t
<1>3. t \in Stack
  BY <1>1, <1>2, EmptySeq DEF Stack
<1>4. s = Append(t, s[N])
  <2>1. /\ Append(t, s[N]) \in Seq(AnyFunction) /\ Len(Append(t, s[N])) = N
        /\ \A n \in 1 .. N : Append(t, s[N])[n] = s[n]
    BY <1>1, <1>2
  <2> QED
    BY <1>1, <2>1, SeqEqual
<1> QED
  BY <1>1, <1>3, <1>4 DEF t

LEMMA CallsType ==
  ASSUME NEW s \in Stack
  PROVE  UserCalls(s) \in Seq(Function)
<1>1. PICK c : CallsOf(s, c) /\ UserCalls(s) = c[Len(s)]
  BY UserCallsAre
<1> DEFINE N == Len(s)
           S == {n \in 0 .. N : n # 0 => c[n] \in Seq(Function)}
<1>2. N \in Nat /\ N >= 1 /\ \A n \in 1 .. N : s[n] \in AnyFunction
  BY LengthOfStack
<1>3. 0 \in S
  BY <1>2
<1>4. ASSUME NEW n \in 1 .. N, n - 1 \in S PROVE n \in S
  <2>1. c[n] = IF n = 1 THEN <<>>
               ELSE IF Library \in {s[n - 1], s[n]} \/ s[n - 1] = s[n] THEN c[n - 1]
               ELSE Append(c[n - 1], s[n])
    BY <1>1, CallsUnfold
  <2>2. s[n] \in Function \/ s[n] = Library
    BY <1>2 DEF AnyFunction
  <2>3. n # 1 => c[n - 1] \in Seq(Function)
    BY <1>2, <1>4
  <2>4. c[n] \in Seq(Function)
    <3>1. CASE n = 1 \/ Library \in {s[n - 1], s[n]} \/ s[n - 1] = s[n]
      BY <2>1, <2>3, <3>1
    <3>2. CASE ~(n = 1 \/ Library \in {s[n - 1], s[n]} \/ s[n - 1] = s[n])
      <4>1. c[n] = Append(c[n - 1], s[n]) /\ s[n] \in Function /\ c[n - 1] \in Seq(Function)
        BY <2>1, <2>2, <2>3, <3>2
      <4> QED
        BY <4>1
    <3> QED
      BY <3>1, <3>2
  <2> QED
    BY <1>2, <2>4
<1> HIDE DEF S
<1>5. \A n \in 0 .. N : n \in S
  BY <1>2, <1>3, <1>4, UpTo
<1>6. N \in S /\ N # 0
  BY <1>2, <1>5
<1> QED
  BY <1>1, <1>6 DEF S

-----------------------------------------------------------------------------
\* The stacks of functions after instruction i executes with stack s.
StacksAfter(s, i) ==
  CASE i.does = "plain" -> {s}
    [] i.does \in {"call", "hidden call"} -> {Append(s, i.to)}
    [] i.does = "tail call" -> {Append(Popped(s), i.to)}
    [] i.does = "ret" -> IF Len(s) > 1 THEN {Popped(s)}
                         ELSE {<<f>> : f \in Function \cup {Library}}

\* Instruction i executes with stack s and calls v, and the stack becomes t: the calls are
\* what the informer makes of them when the next instruction, of the function on top of t,
\* retires.
CallsAfter(v, i, g) ==
  IF ~(i.func # Library /\ g # Library /\ i.func # g) THEN v
  ELSE IF Calls(i) THEN Append(v, g)
  ELSE IF Returns(i) /\ v # <<>> THEN Popped(v)
  ELSE v

LEMMA StepOfTheStack ==
  ASSUME OrdinaryCalls, NEW s \in Stack, NEW i \in Instruction, i.func = Top(s),
         i.does \in {"plain", "ret"} => i.to = i.func, NEW t \in StacksAfter(s, i)
  PROVE  t \in Stack /\ UserCalls(t) = CallsAfter(UserCalls(s), i, Top(t))
<1>1. /\ i.does \in {"plain", "call", "ret"} /\ i.to \in AnyFunction /\ i.func \in AnyFunction
      /\ Library \notin Function
  BY InformerAssumption DEF OrdinaryCalls, Instruction, AnyFunction
<1>2. CASE i.does = "plain"
  <2>1. t = s
    BY <1>2 DEF StacksAfter
  <2> QED
    BY <2>1 DEF CallsAfter
<1>3. CASE i.does = "call"
  <2>1. t = Append(s, i.to)
    BY <1>3 DEF StacksAfter
  <2>2. t \in Stack /\ UserCalls(t) = Called(UserCalls(s), Top(s), i.to)
    BY <1>1, <2>1, CallsOfAppend
  <2>3. Top(t) = i.to
    <3>1. s \in Seq(AnyFunction) /\ Len(s) \in Nat
      BY LengthOfStack
    <3>2. Len(t) = Len(s) + 1 /\ t[Len(s) + 1] = i.to
      BY <1>1, <2>1, <3>1
    <3> QED
      BY <3>2 DEF Top
  <2> QED
    BY <1>1, <1>3, <2>2, <2>3 DEF CallsAfter, Called, Calls
<1>4. CASE i.does = "ret" /\ Len(s) > 1
  <2>1. t = Popped(s)
    BY <1>4 DEF StacksAfter
  <2>2. t \in Stack /\ s = Append(t, Top(s)) /\ Top(s) \in AnyFunction
    BY <1>4, <2>1, PoppedStack
  <2>3. UserCalls(s) = Called(UserCalls(t), Top(t), Top(s))
    BY <2>2, CallsOfAppend
  <2> DEFINE v == UserCalls(t)
  <2>4. v \in Seq(Function)
    BY <2>2, CallsType
  <2> HIDE DEF v
  <2>5. CASE Library \in {Top(t), Top(s)} \/ Top(t) = Top(s)
    <3>1. UserCalls(s) = v
      BY <2>3, <2>5 DEF Called, v
    <3> QED
      BY <2>2, <2>5, <3>1 DEF CallsAfter, v
  <2>6. CASE ~(Library \in {Top(t), Top(s)} \/ Top(t) = Top(s))
    <3>1. UserCalls(s) = Append(v, Top(s)) /\ Top(s) \in Function
      BY <2>2, <2>3, <2>6 DEF Called, v, AnyFunction
    <3>2. Append(v, Top(s)) # <<>> /\ Popped(Append(v, Top(s))) = v
      <4> DEFINE f == Top(s)
                 u == Append(v, f)
                 w == Popped(u)
      <4>1. u \in Seq(Function) /\ Len(v) \in Nat /\ Len(u) = Len(v) + 1
            /\ \A n \in 1 .. Len(v) : u[n] = v[n]
        BY <2>4, <3>1
      <4> HIDE DEF u
      <4>2. w \in Seq(Function) /\ Len(w) = Len(v) /\ \A n \in 1 .. Len(v) : w[n] = u[n]
        BY <4>1 DEF Popped
      <4> HIDE DEF w
      <4>3. w = v
        BY <2>4, <4>1, <4>2, SeqEqual
      <4>4. u # <<>>
        BY <4>1, EmptySeq
      <4> QED
        BY <4>3, <4>4 DEF u, w
    <3>3. ~Calls(i) /\ Returns(i) /\ i.func # Library /\ Top(t) # Library /\ i.func # Top(t)
      BY <1>4, <2>6 DEF Calls, Returns
    <3>4. CallsAfter(UserCalls(s), i, Top(t)) = Popped(UserCalls(s))
      BY <3>1, <3>2, <3>3 DEF CallsAfter
    <3> QED
      BY <2>2, <3>1, <3>2, <3>4 DEF v
  <2> QED
    BY <2>5, <2>6
<1>5. CASE i.does = "ret" /\ ~(Len(s) > 1)
  <2>1. Len(s) = 1 /\ s \in Seq(AnyFunction) /\ s[1] \in AnyFunction
    <3>1. Len(s) = 1
      <4>1. Len(s) \in Nat /\ Len(s) >= 1
        BY LengthOfStack
      <4>2. ~(Len(s) > 1)
        BY <1>5
      <4> QED
        BY <4>1, <4>2
    <3>2. s \in Seq(AnyFunction) /\ \A n \in 1 .. Len(s) : s[n] \in AnyFunction
      BY LengthOfStack
    <3> QED
      BY <3>1, <3>2
  <2>2. s = <<s[1]>>
    <3>1. /\ <<s[1]>> \in Seq(AnyFunction) /\ Len(<<s[1]>>) = Len(s)
          /\ \A n \in 1 .. Len(s) : s[n] = <<s[1]>>[n]
      BY <2>1
    <3> QED
      BY <2>1, <3>1, SeqEqual
  <2>3. PICK f \in AnyFunction : t = <<f>>
    BY <1>5 DEF StacksAfter, AnyFunction
  <2>4. UserCalls(s) = <<>>
    BY <2>1, <2>2, CallsOfOne
  <2>5. t \in Stack /\ UserCalls(t) = <<>>
    BY <2>3, CallsOfOne
  <2>6. ~Calls(i)
    BY <1>5 DEF Calls
  <2> QED
    BY <2>4, <2>5, <2>6 DEF CallsAfter
<1> QED
  BY <1>1, <1>2, <1>3, <1>4, <1>5

-----------------------------------------------------------------------------
\* The results and answers as functions of the trace alone.
KnownIn(tr, id, n) ==
  IF id \in 1 .. n /\ (id > 1 => tr[id].ip # tr[id - 1].ip)
  THEN InfoOf(tr[id].ip, UserCalls(tr[id].frames)) ELSE NoInfo

Answer(tr, q, t) == <<t, q[t], KnownIn(tr, t, t), KnownIn(tr, q[t], t)>>
Due(q, n) == {t \in 1 .. n : q[t] # -1}
DueAnswers(tr, q, n) == {Answer(tr, q, t) : t \in Due(q, n)}

InformerTypes ==
  /\ retired \in 0 .. MaxInstr /\ queries \in Nat /\ frames \in Stack
  /\ trace \in Seq([ip : Instruction, frames : Stack]) /\ Len(trace) = retired
  /\ DOMAIN past_results = 0 .. MaxInstr
  /\ todo \in [1 .. MaxInstr -> -1 .. MaxInstr] /\ asked \in [1 .. MaxInstr -> -1 .. MaxInstr]

\* What the informer keeps of the last instruction, and the program's stack since.
Executed(i, s) ==
  /\ i.func = Top(s) /\ (i.does \in {"plain", "ret"} => i.to = i.func)
  /\ past_ip = i /\ prev_func = i.func /\ prev_call = Calls(i) /\ prev_ret = Returns(i)
  /\ call_stk = UserCalls(s)
  /\ frames \in StacksAfter(s, i)

KeepsUp ==
  /\ retired = 0 => /\ call_stk = <<>> /\ prev_func = Library /\ past_ip = Library
                    /\ UserCalls(frames) = <<>>
  /\ retired > 0 => Executed(trace[retired].ip, trace[retired].frames)

ResultsKept == \A id \in 0 .. MaxInstr : past_results[id] = KnownIn(trace, id, retired)

QueriesKept == \A id \in retired + 1 .. MaxInstr : todo[id] = asked[id]

AnswersKept == answers = DueAnswers(trace, asked, retired)

InformerInv == InformerTypes /\ KeepsUp /\ ResultsKept /\ QueriesKept /\ AnswersKept

LEMMA InformerInvInit == InformerInit => InformerInv
<1> SUFFICES ASSUME InformerInit PROVE InformerInv
  OBVIOUS
<1> USE DEF InformerInit
<1>1. MaxInstr \in Nat
  BY InformerAssumption
<1>2. PICK f \in AnyFunction : frames = <<f>>
  BY DEF AnyFunction
<1>3. frames \in Stack /\ UserCalls(frames) = <<>>
  BY <1>2, CallsOfOne
<1>4. InformerTypes
  BY <1>1, <1>3, EmptySeq DEF InformerTypes
<1>5. KeepsUp
  BY <1>3 DEF KeepsUp
<1>6. ResultsKept
  BY DEF ResultsKept, KnownIn
<1>7. QueriesKept
  BY <1>1 DEF QueriesKept
<1>8. AnswersKept
  BY DEF AnswersKept, DueAnswers, Due
<1> QED
  BY <1>4, <1>5, <1>6, <1>7, <1>8 DEF InformerInv

\* update brings the call stack to that of the instruction.
LEMMA UpdateKeepsUp ==
  ASSUME OrdinaryCalls, InformerInv, NEW i \in Instruction, MayExecute(i), NEW id, update(i, id)
  PROVE  /\ past_ip' = i /\ prev_func' = i.func /\ prev_call' = Calls(i) /\ prev_ret' = Returns(i)
         /\ call_stk' = UserCalls(frames)
<1>1. i.func = Top(frames) /\ i # Library /\ retired \in Nat
  BY InformerAssumption DEF MayExecute, InformerInv, InformerTypes
<1>2. CASE retired = 0
  BY <1>1, <1>2 DEF InformerInv, KeepsUp, update, CallStackAfter, Crosses, callStackVars
<1>3. CASE retired > 0
  <2> DEFINE e == trace[retired].ip
             s == trace[retired].frames
  <2>1. e \in Instruction /\ s \in Stack
    <3>1. trace \in Seq([ip : Instruction, frames : Stack]) /\ retired \in 1 .. Len(trace)
      BY <1>1, <1>3 DEF InformerInv, InformerTypes
    <3>2. trace[retired] \in [ip : Instruction, frames : Stack]
      BY <3>1, ElementOfSeq
    <3> QED
      BY <3>2
  <2>2. Executed(e, s)
    BY <1>3 DEF InformerInv, KeepsUp
  <2> HIDE DEF e, s
  <2>3. UserCalls(frames) = CallsAfter(call_stk, e, i.func)
    BY <1>1, <2>1, <2>2, StepOfTheStack DEF Executed
  <2>4. CASE i = past_ip
    <3>1. i = e /\ UserCalls(frames) = call_stk
      BY <2>2, <2>3, <2>4 DEF Executed, CallsAfter
    <3> QED
      BY <2>2, <2>4, <3>1 DEF Executed, update, callStackVars
  <2>5. CASE i # past_ip
    <3>1. CallStackAfter(i) = CallsAfter(call_stk, e, i.func)
      BY <2>2 DEF Executed, CallStackAfter, CallsAfter, Crosses
    <3> QED
      BY <2>3, <2>5, <3>1 DEF update
  <2> QED
    BY <2>4, <2>5
<1> QED
  BY <1>1, <1>2, <1>3

\* What is known of past instructions stays.
LEMMA KnownStays ==
  ASSUME NEW tr, NEW tt, NEW n \in Nat, \A k \in 1 .. n : tt[k] = tr[k], NEW m \in 0 .. n, NEW x \in Int
  PROVE  KnownIn(tt, x, m) = KnownIn(tr, x, m)
<1>1. CASE x \in 1 .. m
  <2>1. x \in 1 .. n /\ (x > 1 => x - 1 \in 1 .. n)
    BY <1>1
  <2> QED
    BY <2>1 DEF KnownIn
<1>2. CASE ~(x \in 1 .. m)
  BY <1>2 DEF KnownIn
<1> QED
  BY <1>1, <1>2

LEMMA RetireKeepsInformer ==
  ASSUME OrdinaryCalls, InformerInv, NEW i \in Instruction, handle_retire(i)
  PROVE  InformerInv'
<1> DEFINE id == retired + 1
<1>1. /\ retired \in Nat /\ MaxInstr \in Nat /\ retired' = id /\ id \in 1 .. MaxInstr /\ id \in Nat
      /\ retired \in 0 .. id
  BY InformerAssumption DEF InformerInv, InformerTypes, handle_retire
<1>2. /\ trace' = Append(trace, [ip |-> i, frames |-> frames])
      /\ MayExecute(i) /\ update(i, id) /\ frames' \in StacksAfter(frames, i)
      /\ UNCHANGED <<asked, queries>>
  BY DEF handle_retire, FramesAfter, StacksAfter
<1>3. /\ past_ip' = i /\ prev_func' = i.func /\ prev_call' = Calls(i) /\ prev_ret' = Returns(i)
      /\ call_stk' = UserCalls(frames)
  BY <1>2, UpdateKeepsUp
<1>4. /\ frames \in Stack /\ i.func = Top(frames) /\ (i.does \in {"plain", "ret"} => i.to = i.func)
  BY <1>2 DEF InformerInv, InformerTypes, MayExecute
<1>5. frames' \in Stack
  BY <1>2, <1>4, StepOfTheStack
<1>6. /\ trace' \in Seq([ip : Instruction, frames : Stack]) /\ Len(trace') = id
      /\ trace'[id] = [ip |-> i, frames |-> frames]
      /\ \A k \in 1 .. retired : trace'[k] = trace[k]
  <2>1. /\ trace \in Seq([ip : Instruction, frames : Stack]) /\ Len(trace) = retired
        /\ [ip |-> i, frames |-> frames] \in [ip : Instruction, frames : Stack]
    BY <1>4 DEF InformerInv, InformerTypes
  <2> QED
    BY <1>1, <1>2, <2>1
<1>7. KeepsUp'
  <2>1. PICK s : s = frames
    OBVIOUS
  <2>2. Executed(i, s)'
    BY <1>2, <1>3, <1>4, <2>1 DEF Executed, StacksAfter
  <2>3. trace'[retired'].ip = i /\ trace'[retired'].frames = s /\ retired' # 0
    BY <1>1, <1>6, <2>1
  <2> QED
    BY <2>2, <2>3 DEF KeepsUp
<1>8. /\ DOMAIN past_results' = 0 .. MaxInstr
      /\ \A x \in 0 .. MaxInstr : past_results'[x] = KnownIn(trace', x, id)
  <2>1. /\ DOMAIN past_results = 0 .. MaxInstr
        /\ \A x \in 0 .. MaxInstr : past_results[x] = KnownIn(trace, x, retired)
    BY DEF InformerInv, InformerTypes, ResultsKept
  <2>2. \A x \in 0 .. MaxInstr : x # id => KnownIn(trace', x, id) = KnownIn(trace, x, retired)
    <3> SUFFICES ASSUME NEW x \in 0 .. MaxInstr, x # id
                 PROVE  KnownIn(trace', x, id) = KnownIn(trace, x, retired)
      OBVIOUS
    <3>1. KnownIn(trace', x, retired) = KnownIn(trace, x, retired)
      <4>1. retired \in Nat /\ retired \in 0 .. retired /\ x \in Int
        BY <1>1
      <4>2. \A k \in 1 .. retired : trace'[k] = trace[k]
        BY <1>6
      <4> QED
        BY <4>1, <4>2, KnownStays
    <3>2. x \in 1 .. id <=> x \in 1 .. retired
      BY <1>1
    <3>3. KnownIn(trace', x, id) = KnownIn(trace', x, retired)
      BY <3>2 DEF KnownIn
    <3> QED
      BY <3>1, <3>3
  <2>3. retired > 0 => past_ip = trace'[retired].ip
    BY <1>1, <1>6 DEF InformerInv, KeepsUp, Executed
  <2>4. retired = 0 => past_ip # i
    BY InformerAssumption DEF InformerInv, KeepsUp
  <2>5. CASE i = past_ip
    <3>1. past_results' = past_results
      BY <1>2, <2>5 DEF update
    <3>2. KnownIn(trace, id, retired) = NoInfo
      BY <1>1 DEF KnownIn
    <3>3. KnownIn(trace', id, id) = NoInfo
      <4>1. id > 1 /\ id - 1 = retired /\ trace'[id].ip = trace'[id - 1].ip
        BY <1>1, <1>6, <2>3, <2>4, <2>5
      <4> QED
        BY <4>1 DEF KnownIn
    <3> QED
      BY <2>1, <2>2, <3>1, <3>2, <3>3
  <2>6. CASE i # past_ip
    <3>1. past_results' = [past_results EXCEPT ![id] = InfoOf(i, UserCalls(frames))]
      BY <1>2, <1>3, <2>6 DEF update, Recorded
    <3>2. KnownIn(trace', id, id) = InfoOf(i, UserCalls(frames))
      <4>1. id \in 1 .. id /\ (id > 1 => retired > 0 /\ id - 1 = retired)
        BY <1>1
      <4>2. id > 1 => trace'[id].ip # trace'[id - 1].ip
        BY <1>6, <2>3, <2>6, <4>1
      <4> QED
        BY <1>6, <4>1, <4>2 DEF KnownIn
    <3>3. id \in 0 .. MaxInstr
      BY <1>1
    <3> QED
      BY <2>1, <2>2, <3>1, <3>2, <3>3
  <2> QED
    BY <2>5, <2>6
<1>9. /\ todo' \in [1 .. MaxInstr -> -1 .. MaxInstr]
      /\ \A x \in id + 1 .. MaxInstr : todo'[x] = asked[x]
      /\ todo[id] = asked[id] /\ asked[id] \in -1 .. MaxInstr
  <2>1. /\ todo \in [1 .. MaxInstr -> -1 .. MaxInstr] /\ asked \in [1 .. MaxInstr -> -1 .. MaxInstr]
        /\ \A x \in retired + 1 .. MaxInstr : todo[x] = asked[x]
    BY DEF InformerInv, InformerTypes, QueriesKept
  <2>2. todo' = todo \/ todo' = [todo EXCEPT ![id] = -1]
    BY DEF handle_retire
  <2>3. \A x \in id + 1 .. MaxInstr : x \in 1 .. MaxInstr /\ x # id /\ x \in retired + 1 .. MaxInstr
    BY <1>1
  <2>4. id \in retired + 1 .. MaxInstr /\ -1 \in -1 .. MaxInstr
    BY <1>1
  <2> QED
    BY <1>1, <2>1, <2>2, <2>3, <2>4
<1>10. AnswersKept'
  <2>1. answers = {Answer(trace, asked, t) : t \in Due(asked, retired)}
    BY DEF InformerInv, AnswersKept, DueAnswers
  <2>2. ASSUME NEW t \in Due(asked, retired)
        PROVE  Answer(trace', asked, t) = Answer(trace, asked, t)
    <3>1. t \in 1 .. retired /\ t \in 0 .. retired /\ t \in Int /\ asked[t] \in Int
      BY <1>1 DEF Due, InformerInv, InformerTypes
    <3>2. \A x \in Int : KnownIn(trace', x, t) = KnownIn(trace, x, t)
      <4>1. retired \in Nat /\ \A k \in 1 .. retired : trace'[k] = trace[k]
        BY <1>1, <1>6
      <4> QED
        BY <3>1, <4>1, KnownStays
    <3> QED
      BY <3>1, <3>2 DEF Answer
  <2> HIDE DEF id
  <2>3. \A t : t \in Due(asked, id) <=> t \in Due(asked, retired) \/ (t = id /\ asked[id] # -1)
    BY <1>1 DEF Due, id
  <2>4. answers' = IF asked[id] = -1 THEN answers
                   ELSE answers \cup {<<id, asked[id], past_results'[id], past_results'[asked[id]]>>}
    BY <1>9 DEF handle_retire, id
  <2>5. asked[id] # -1 =>
          <<id, asked[id], past_results'[id], past_results'[asked[id]]>> = Answer(trace', asked, id)
    <3>1. id \in 0 .. MaxInstr /\ (asked[id] # -1 => asked[id] \in 0 .. MaxInstr)
      BY <1>1, <1>9
    <3> QED
      BY <1>8, <3>1 DEF Answer
  <2>6. \A a : a \in answers' <=> \E t \in Due(asked, id) : a = Answer(trace', asked, t)
    BY <2>1, <2>2, <2>3, <2>4, <2>5
  <2>7. answers' = {Answer(trace', asked, t) : t \in Due(asked, id)}
    BY <2>6
  <2> QED
    BY <1>1, <1>2, <2>7 DEF AnswersKept, DueAnswers
<1>11. asked' = asked /\ queries' = queries /\ asked \in [1 .. MaxInstr -> -1 .. MaxInstr] /\ queries \in Nat
  BY <1>2 DEF InformerInv, InformerTypes
<1>12. InformerTypes'
  BY <1>1, <1>5, <1>6, <1>8, <1>9, <1>11 DEF InformerTypes
<1>13. ResultsKept' /\ QueriesKept'
  BY <1>1, <1>8, <1>9, <1>11 DEF ResultsKept, QueriesKept
<1> QED
  BY <1>7, <1>10, <1>12, <1>13 DEF InformerInv

LEMMA QueryKeepsInformer ==
  ASSUME InformerInv, NEW trigger \in 1 .. MaxInstr, NEW iid \in 0 .. MaxInstr,
         accept_query(trigger, iid)
  PROVE  InformerInv'
<1>1. /\ retired \in Nat /\ MaxInstr \in Nat /\ queries \in Nat
      /\ todo \in [1 .. MaxInstr -> -1 .. MaxInstr] /\ asked \in [1 .. MaxInstr -> -1 .. MaxInstr]
      /\ \A x \in retired + 1 .. MaxInstr : todo[x] = asked[x]
  BY InformerAssumption DEF InformerInv, InformerTypes, QueriesKept
<1>2. /\ queries' = queries + 1 /\ todo' = [todo EXCEPT ![trigger] = iid]
      /\ asked' = IF trigger > retired THEN [asked EXCEPT ![trigger] = iid] ELSE asked
      /\ UNCHANGED <<retired, frames, callStackVars, past_ip, past_results, answers, trace>>
  BY DEF accept_query
<1>3. iid \in -1 .. MaxInstr
  BY <1>1
<1>4. /\ todo' \in [1 .. MaxInstr -> -1 .. MaxInstr] /\ asked' \in [1 .. MaxInstr -> -1 .. MaxInstr]
      /\ queries' \in Nat
  BY <1>1, <1>2, <1>3
<1>5. \A x \in 1 .. retired : asked'[x] = asked[x]
  BY <1>1, <1>2
<1>6. \A x \in retired + 1 .. MaxInstr : todo'[x] = asked'[x]
  BY <1>1, <1>2
<1>7. InformerTypes'
  BY <1>2, <1>4 DEF InformerInv, InformerTypes
<1>8. KeepsUp' /\ ResultsKept'
  BY <1>2 DEF InformerInv, KeepsUp, Executed, ResultsKept, callStackVars
<1>9. QueriesKept'
  BY <1>2, <1>6 DEF QueriesKept
<1>10. AnswersKept'
  <2>1. \A t : /\ t \in Due(asked', retired) <=> t \in Due(asked, retired)
               /\ t \in Due(asked, retired) => Answer(trace, asked', t) = Answer(trace, asked, t)
    BY <1>5 DEF Due, Answer
  <2>2. DueAnswers(trace, asked', retired) = DueAnswers(trace, asked, retired)
    <3>1. \A a : a \in DueAnswers(trace, asked', retired) <=> a \in DueAnswers(trace, asked, retired)
      BY <2>1 DEF DueAnswers
    <3> QED
      BY <3>1 DEF DueAnswers
  <2> QED
    BY <1>2, <2>2 DEF InformerInv, AnswersKept
<1> QED
  BY <1>7, <1>8, <1>9, <1>10 DEF InformerInv

LEMMA InformerInvNext ==
  ASSUME OrdinaryCalls, InformerInv, [InformerNext]_informerVars PROVE InformerInv'
<1>1. CASE UNCHANGED informerVars
  BY <1>1 DEF informerVars, InformerInv, InformerTypes, KeepsUp, Executed, ResultsKept, QueriesKept,
     AnswersKept, callStackVars
<1>2. CASE \E i \in Instruction : handle_retire(i)
  BY <1>2, RetireKeepsInformer
<1>3. CASE \E trigger \in 1 .. MaxInstr, iid \in 0 .. MaxInstr : accept_query(trigger, iid)
  BY <1>3, QueryKeepsInformer
<1>4. ASSUME InformerNext
      PROVE  \/ \E i \in Instruction : handle_retire(i)
             \/ \E trigger \in 1 .. MaxInstr, iid \in 0 .. MaxInstr : accept_query(trigger, iid)
  <2> DEFINE near == (1 .. MaxInstr) \cap (retired + 1 - Near .. retired + Near)
  <2>1. \A x \in near : x \in 1 .. MaxInstr /\ x \in 0 .. MaxInstr
    BY InformerAssumption
  <2>2. 0 \in 0 .. MaxInstr
    BY InformerAssumption
  <2>3. \/ \E i \in Instruction : handle_retire(i)
        \/ \E trigger \in near, iid \in near \cup {0} : accept_query(trigger, iid)
    BY <1>4 DEF InformerNext
  <2> HIDE DEF near
  <2> QED
    BY <2>1, <2>2, <2>3
<1> QED
  BY <1>1, <1>2, <1>3, <1>4

LEMMA InformerInvAlways == OrdinaryCalls /\ InformerSpec => []InformerInv
<1> SUFFICES ASSUME OrdinaryCalls PROVE InformerSpec => []InformerInv
  OBVIOUS
<1>1. InformerInv /\ [InformerNext]_informerVars => InformerInv'
  BY InformerInvNext
<1> QED
  BY <1>1, InformerInvInit, PTL DEF InformerSpec

\* CallStackIsExact: for any functions, in any trace of calls and returns, call_stk is the
\* program's stack reduced to the calls between different user functions.
THEOREM CallStackStaysExact == OrdinaryCalls /\ InformerSpec => []CallStackIsExact
<1>1. InformerInv => CallStackIsExact
  BY DEF InformerInv, KeepsUp, Executed, CallStackIsExact
<1> QED
  BY <1>1, InformerInvAlways, PTL

\* AnswersAreExact: each query accepted before its trigger retires is answered then, once, with
\* what was true of both instructions when they retired.
THEOREM AnswersStayExact == OrdinaryCalls /\ InformerSpec => []AnswersAreExact
<1>1. InformerInv => AnswersAreExact
  BY DEF InformerInv, AnswersKept, DueAnswers, Due, Answer, KnownIn, Known, AnswersAreExact
<1> QED
  BY <1>1, InformerInvAlways, PTL

=============================================================================
