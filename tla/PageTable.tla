----------------------------- MODULE PageTable ------------------------------
(***************************************************************************)
(* Address translation: va_to_pa (src/main.cc), which gives a page of a    *)
(* core its frame, and the translations the cores hold of it.  va_to_pa is *)
(* called by a miss of the STLB, whose answer then travels to the TLBs, by *)
(* the fetch buffer and by the code prefetcher, which take the answer at   *)
(* once.  When DRAM_PAGES frames are in use, a page is swapped out.        *)
(*                                                                         *)
(* The lines a swap takes from the caches are in CacheHierarchy (SwapOut); *)
(* page_queue and unique_cl are never read, and stall_cycle is time.       *)
(***************************************************************************)
EXTENDS Integers, FiniteSets

CONSTANTS
  NUM_CPUS,
  Vpages,        \* per core, the virtual page numbers its program uses
  Frame,         \* the physical page numbers champsim_rand draws from
  DRAM_PAGES,
  RunLength,     \* the values of 1 << (rand() % 10)
  Word,          \* the values of a uint64_t are 0 .. Word - 1
  TLB_SIZE, MSHR_SIZE      \* translations of a core in its TLBs, and on their way

ASSUME PageTableAssumption ==
  /\ NUM_CPUS \in Nat \ {0} /\ DRAM_PAGES \in Nat \ {0} /\ {Word, TLB_SIZE, MSHR_SIZE} \subseteq Nat
  /\ Vpages \in [0 .. NUM_CPUS - 1 -> SUBSET Nat] /\ Frame \subseteq Nat /\ RunLength \subseteq 1 .. Word - 1

Cpu == 0 .. NUM_CPUS - 1

\* The core is in the high bits of a page of the table.
Page == {p \in Cpu \X Nat : p[2] \in Vpages[p[1]]}
Before(p, q) == p[1] < q[1] \/ (p[1] = q[1] /\ p[2] < q[2])

VARIABLES
  page_table, inverse_table,         \* std::map: functions on the keys they hold
  previous_ppage, num_adjacent_page, allocated_pages,
  tlb,           \* per core, the <<virtual page, frame>> its three TLBs hold
  inflight,      \* per core, those on their way from va_to_pa or the STLB to a TLB
  outlived       \* history: <<core, <<virtual page, frame>>>> held that a swap left behind

tables == <<page_table, inverse_table, previous_ppage, num_adjacent_page, allocated_pages>>
translationVars == <<tables, tlb, inflight, outlived>>

-----------------------------------------------------------------------------
(* std::map *)

\* insert leaves a key alone that is there.
Insert(m, k, v) == [x \in DOMAIN m \cup {k} |-> IF x \in DOMAIN m THEN m[x] ELSE v]
Erase(m, k) == [x \in DOMAIN m \ {k} |-> m[x]]

-----------------------------------------------------------------------------
(* A page without a frame, while there are frames *)

\* Mutant: a run that is over is not noticed.
Fragmented_IfTaken == previous_ppage + 1 \in DOMAIN inverse_table

\* No frame is left of the run, or the next one is taken: a new run is begun.
Fragmented == num_adjacent_page = 0 \/ previous_ppage + 1 \in DOMAIN inverse_table

\* Mutant: the next frame is taken unseen.
Candidates_Next ==
  IF num_adjacent_page > 0 THEN {previous_ppage + 1} ELSE Frame \ DOMAIN inverse_table

\* The next frame of the run, or drawn until one is free.
Candidates ==
  IF Fragmented THEN Frame \ DOMAIN inverse_table ELSE {previous_ppage + 1}

Allocate(p) ==
  /\ p \notin DOMAIN page_table
  /\ allocated_pages < DRAM_PAGES
  /\ \E f \in Candidates :
       /\ page_table' = Insert(page_table, p, f)
       /\ inverse_table' = Insert(inverse_table, f, p)
       /\ previous_ppage' = f
  /\ IF Fragmented THEN num_adjacent_page' \in RunLength
                   ELSE num_adjacent_page' = (num_adjacent_page - 1) % Word
  /\ allocated_pages' = allocated_pages + 1
  /\ UNCHANGED <<tlb, outlived>>

-----------------------------------------------------------------------------
(* A page without a frame, when all are in use *)

\* The first page of the table: recent_page is never filled.
Victim(p) == p \in DOMAIN page_table /\ \A q \in DOMAIN page_table : p = q \/ Before(p, q)

\* Mutant: the TLBs are left alone.
Invalidated_None(c, victim) == tlb

\* invalidate_entry in the TLBs of core c: their tags are virtual pages without the core,
\* so they can equal only a page of core 0.
Invalidated(c, victim) ==
  [tlb EXCEPT ![c] = {t \in @ : ~(victim[1] = 0 /\ t[1] = victim[2])}]

Held(d, t) == t \in tlb[d] \cup inflight[d]

\* The victim's translation, if it is on its way or not where invalidate_entry looks.
Outliving(c, victim) ==
  LET o == <<victim[1], <<victim[2], page_table[victim]>>>>
  IN IF \/ victim[1] \notin {c} \cap {0} /\ Held(o[1], o[2])
        \/ o[2] \in inflight[o[1]]
     THEN {o} ELSE {}

Swap(c, p) ==
  /\ p \notin DOMAIN page_table
  /\ allocated_pages >= DRAM_PAGES
  /\ \E victim \in DOMAIN page_table :
       /\ Victim(victim)
       /\ page_table' = Insert(Erase(page_table, victim), p, page_table[victim])
       /\ inverse_table' = [inverse_table EXCEPT ![page_table[victim]] = p]
       /\ tlb' = Invalidated(c, victim)
       /\ outlived' = (outlived \cup Outliving(c, victim)) \ {<<c, <<p[2], page_table[victim]>>>>}
  /\ UNCHANGED <<previous_ppage, num_adjacent_page, allocated_pages>>

va_to_pa(c, p) ==
  \/ p \in DOMAIN page_table /\ UNCHANGED <<tables, tlb, outlived>>
  \/ Allocate(p)
  \/ Swap(c, p)

-----------------------------------------------------------------------------
(* Those who ask *)

\* Instruction fetch and code prefetch: no TLB is involved.
TranslateCode(c, v) == va_to_pa(c, <<c, v>>) /\ UNCHANGED inflight

\* The STLB misses: the answer is returned to its MSHR.
TranslateData(c, v) ==
  /\ Cardinality(inflight[c]) < MSHR_SIZE
  /\ va_to_pa(c, <<c, v>>)
  /\ inflight' = [inflight EXCEPT ![c] = @ \cup {<<v, page_table'[<<c, v>>]>>}]

\* A TLB above misses and the STLB hits.
HitBelow(c, t) ==
  /\ t \in tlb[c]
  /\ Cardinality(inflight[c] \cup {t}) <= MSHR_SIZE
  /\ inflight' = [inflight EXCEPT ![c] = @ \cup {t}]
  /\ UNCHANGED <<tables, tlb, outlived>>

\* A TLB is filled; the one above it may wait for the same translation.
FillTlb(c, t) ==
  /\ t \in inflight[c]
  /\ Cardinality(tlb[c] \cup {t}) <= TLB_SIZE
  /\ tlb' = [tlb EXCEPT ![c] = @ \cup {t}]
  /\ \E left \in {{}, {t}} : inflight' = [inflight EXCEPT ![c] = (@ \ {t}) \cup left]
  /\ UNCHANGED <<tables, outlived>>

\* A TLB's last copy is replaced.
EvictTlb(c, t) ==
  /\ t \in tlb[c]
  /\ tlb' = [tlb EXCEPT ![c] = @ \ {t}]
  /\ outlived' = IF t \in inflight[c] THEN outlived ELSE outlived \ {<<c, t>>}
  /\ UNCHANGED <<tables, inflight>>

TranslationInit ==
  /\ page_table = [p \in {} |-> 0] /\ inverse_table = [f \in {} |-> <<0, 0>>]
  /\ previous_ppage = 0 /\ num_adjacent_page = 0 /\ allocated_pages = 0
  /\ tlb = [c \in Cpu |-> {}] /\ inflight = [c \in Cpu |-> {}] /\ outlived = {}

TranslationNext ==
  \E c \in Cpu :
    \/ \E v \in Vpages[c] : TranslateCode(c, v) \/ TranslateData(c, v)
    \/ \E t \in tlb[c] : HitBelow(c, t) \/ EvictTlb(c, t)
    \/ \E t \in inflight[c] : FillTlb(c, t)

TranslationSpec == TranslationInit /\ [][TranslationNext]_translationVars

-----------------------------------------------------------------------------
(***************************************************************************)
(* page_table and inverse_table are inverse to each other after any        *)
(* sequence of runs, redrawn frames and swaps: no frame is given to two    *)
(* pages, and the assert of the swap that the victim's frame is in         *)
(* inverse_table never fails.                                              *)
(***************************************************************************)
TablesAreInverse ==
  /\ \A p \in DOMAIN page_table :
       page_table[p] \in DOMAIN inverse_table /\ inverse_table[page_table[p]] = p
  /\ \A f \in DOMAIN inverse_table :
       inverse_table[f] \in DOMAIN page_table /\ page_table[inverse_table[f]] = f

(***************************************************************************)
(* The counters are those of the tables: as many pages are allocated as    *)
(* are mapped and never more than DRAM_PAGES, and the run that is left is  *)
(* one of those drawn, although num_adjacent_page is unsigned and counted  *)
(* down also when it is zero.                                              *)
(***************************************************************************)
AllocationCounted ==
  /\ allocated_pages = Cardinality(DOMAIN page_table)
  /\ allocated_pages <= DRAM_PAGES
  /\ num_adjacent_page = 0 \/ \E n \in RunLength : num_adjacent_page <= n

Current(c, t) == <<c, t[1]>> \in DOMAIN page_table /\ page_table[<<c, t[1]>>] = t[2]

(***************************************************************************)
(* A translation a core holds is the page table's, unless its page was     *)
(* swapped out while it was on its way to a TLB, by another core, or in a  *)
(* core other than 0, whose pages' tags invalidate_entry does not match:   *)
(* the swap reaches every other copy.                                      *)
(***************************************************************************)
StaleOnlyIfOutlived ==
  \A c \in Cpu : \A t \in tlb[c] \cup inflight[c] : Current(c, t) \/ <<c, t>> \in outlived

=============================================================================
