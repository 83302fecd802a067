--------------------------- MODULE CacheHierarchy ---------------------------
(***************************************************************************)
(* CACHE (src/cache.cc): the caches and TLBs of one core, their queues and *)
(* MSHRs, and the packets they exchange.                                   *)
(*                                                                         *)
(* A packet is sent down with add_rq, add_wq or add_pq into a queue of the *)
(* cache below; data comes back up with return_data into an MSHR entry.    *)
(* Each handler of operate() is an action on the head of its queue.        *)
(* Latencies are abstracted: a head whose event_cycle has come is any      *)
(* head, and of the returned MSHR entries any may be the next to fill.     *)
(* So is the replacement policy: any way of a full set may be the victim.  *)
(* Each cache has one set: sets share nothing but the queues.              *)
(***************************************************************************)
EXTENDS Integers, Sequences, FiniteSets

CONSTANTS
  Cache,            \* the caches of the instance, by their names in the code
  CodeBlock,        \* blocks (for TLBs: pages) that instructions are fetched from
  DataBlock,        \* blocks that loads and stores access
  Word,             \* the full addresses within a block
  Request,          \* reads the core may have outstanding
  RQ_SIZE, WQ_SIZE, PQ_SIZE, MSHR_SIZE, NUM_WAY,  \* of each cache
  PROCESSED_SIZE,   \* ROB_SIZE
  MaxPrefetch,      \* bound: prefetches issued
  MaxSwap           \* bound: blocks and pages invalidated by va_to_pa

Memory == "DRAM"    \* what is below the last cache of the instance
TLB == {"ITLB", "DTLB", "STLB"}
Block == CodeBlock \cup DataBlock

ASSUME CacheAssumption ==
  /\ Cache \subseteq TLB \cup {"L1I", "L1D", "L2C", "LLC"}
  /\ Cache \cap TLB # {} => "STLB" \in Cache
  /\ Cache \cap {"L1I", "L1D", "LLC"} # {} => "L2C" \in Cache
  /\ 0 \notin Block               \* 0 marks an empty entry
  /\ 0 \in Word

ASSUME SizesAssumption ==
  /\ RQ_SIZE \in [Cache \cup {Memory} -> Nat]
  /\ WQ_SIZE \in [Cache \cup {Memory} -> Nat]
  /\ PQ_SIZE \in [Cache \cup {Memory} -> Nat]
  /\ MSHR_SIZE \in [Cache -> Nat \ {0}]
  /\ NUM_WAY \in [Cache -> Nat \ {0}]
  /\ PROCESSED_SIZE \in Nat
  /\ MaxPrefetch \in Nat
  /\ MaxSwap \in Nat

VARIABLES
  rq, wq, pq,       \* the queues of each cache and of memory, heads first
  mshr,             \* the MSHR entries of each cache
  line,             \* block[set]: the ways of each cache
  processed,        \* PROCESSED of each cache the core reads
  asserted,         \* an assert(0) has been reached
  pending,          \* external: what each outstanding read of the core waits for
  prefetches,       \* prefetches issued (bounded by MaxPrefetch)
  swaps,            \* invalidations (bounded by MaxSwap)
  modified          \* history: blocks marked dirty whose data memory has not got yet

queues == <<rq, wq, pq>>
vars == <<queues, mshr, line, processed, asserted, pending, prefetches, swaps, modified>>

-----------------------------------------------------------------------------
(* The wiring of main.cc. *)

Level(c) == CASE c \in {"ITLB", "DTLB", "L1I", "L1D"} -> 1   \* FILL_L1
              [] c \in {"STLB", "L2C"} -> 2                  \* FILL_L2
              [] OTHER -> 4                                  \* FILL_LLC

Below == [c \in {"ITLB", "DTLB", "L1I", "L1D", "L2C", "LLC"} |->
            CASE c \in {"ITLB", "DTLB"} -> "STLB"
              [] c \in {"L1I", "L1D"} -> "L2C"
              [] c = "L2C" /\ "LLC" \in Cache -> "LLC"
              [] OTHER -> Memory]

HasLower(c) == c # "STLB"        \* the page table is below the STLB
InstrCache == {"ITLB", "L1I"}    \* upper_level_icache
DataCache == {"DTLB", "L1D"}     \* upper_level_dcache
CoreCache == Cache \cap (InstrCache \cup DataCache)
UpperI(c) == IF c = "STLB" THEN "ITLB" ELSE "L1I"
UpperD(c) == IF c = "STLB" THEN "DTLB" ELSE "L1D"

\* The caches whose return_data is called with packet p by cache (or memory) d.
ReturnsTo(d, p) ==
  CASE d = Memory -> {c \in Cache : HasLower(c) /\ Below[c] = Memory /\ p.level <= Level(c)}
    [] d = "LLC" -> IF p.level < 4 THEN {"L2C"} ELSE {}
    [] d \in {"L2C", "STLB"} ->
         {c \in {UpperI(d)} : p.level < 2 /\ p.l1i} \cup {c \in {UpperD(d)} : p.level < 2 /\ p.l1d}
    [] OTHER -> {}

-----------------------------------------------------------------------------
(* Queues and MSHRs. *)

Ends(s) == 1 .. Len(s)
Holds(s, a) == \E i \in Ends(s) : s[i].addr = a

\* PACKET_QUEUE::check_queue: L1D_WQ compares full addresses, the others blocks.
Matches(c, p) == {i \in Ends(wq[c]) : /\ wq[c][i].addr = p.addr
                                      /\ c = "L1D" => wq[c][i].word = p.word}
Forwards(c, p) == Matches(c, p) # {}

Find(s, a) == CHOOSE i \in Ends(s) : s[i].addr = a
Least(m, n) == IF m <= n THEN m ELSE n

\* Mutants: a merge forgets who asked, or which cache above; writes are not looked up.
RqAfter_NoWaiters(c, q, p) ==
  CASE Forwards(c, p) \/ (~Holds(q, p.addr) /\ Len(q) >= RQ_SIZE[c]) -> q
    [] ~Forwards(c, p) /\ Holds(q, p.addr) ->
         [q EXCEPT ![Find(q, p.addr)] = [@ EXCEPT !.l1i = @ \/ p.l1i, !.l1d = @ \/ p.l1d]]
    [] OTHER -> Append(q, p)

RqAfter_NoFlags(c, q, p) ==
  CASE Forwards(c, p) \/ (~Holds(q, p.addr) /\ Len(q) >= RQ_SIZE[c]) -> q
    [] ~Forwards(c, p) /\ Holds(q, p.addr) ->
         [q EXCEPT ![Find(q, p.addr)].waiters = @ \cup p.waiters]
    [] OTHER -> Append(q, p)

RqAfter_NoForward(c, q, p) ==
  IF Holds(q, p.addr) \/ Len(q) >= RQ_SIZE[c] THEN q ELSE Append(q, p)

\* A read merged into the entry e of the RQ.
Joined(e, p) ==
  [e EXCEPT !.waiters = @ \cup p.waiters, !.l1i = @ \/ p.l1i, !.l1d = @ \/ p.l1d]

\* RQ of c after add_rq(p): a forward from the WQ, a merge, a refusal or a new entry.
RqAfter(c, q, p) ==
  LET i == Find(q, p.addr)
  IN CASE Forwards(c, p) -> q
       [] ~Forwards(c, p) /\ Holds(q, p.addr) -> [q EXCEPT ![i] = Joined(q[i], p)]
       [] ~Forwards(c, p) /\ ~Holds(q, p.addr) /\ Len(q) >= RQ_SIZE[c] -> q
       [] OTHER -> Append(q, p)

\* A prefetch merged into the entry e of its block, of the PQ or of the MSHR.
MergedPrefetch(e, p) ==
  [e EXCEPT !.level = Least(@, p.level), !.l1i = @ \/ p.l1i, !.l1d = @ \/ p.l1d]

\* PQ of c after add_pq(p).
PqAfter(c, q, p) ==
  LET i == Find(q, p.addr)
  IN CASE Forwards(c, p) -> q
       [] ~Forwards(c, p) /\ Holds(q, p.addr) -> [q EXCEPT ![i] = MergedPrefetch(q[i], p)]
       [] ~Forwards(c, p) /\ ~Holds(q, p.addr) /\ Len(q) >= PQ_SIZE[c] -> q
       [] OTHER -> Append(q, p)

\* WQ of c after add_wq(p): a queued writeback of the same block stands for both.
WqAfter(c, p) == IF Forwards(c, p) THEN wq[c] ELSE Append(wq[c], p)

\* The packet as a cache sends it down: only a cache the core reads answers waiters
\* and compares full addresses.
Sent(p) == [p EXCEPT !.waiters = {}, !.word = 0]

Entry(c, a) == CHOOSE e \in mshr[c] : e.addr = a
\* Mutant: an entry whose data has come is overlooked.
InMshr_Waiting(c, a) == \E e \in mshr[c] : e.addr = a /\ ~e.returned

InMshr(c, a) == \E e \in mshr[c] : e.addr = a
Filled(c, a) == \E w \in 1..NUM_WAY[c] : line[c][w].valid /\ line[c][w].addr = a

\* check_hit returns the first way that holds the block.
HitWay(c, a) ==
  CHOOSE w \in 1..NUM_WAY[c] :
    /\ line[c][w].valid /\ line[c][w].addr = a
    /\ \A v \in 1 .. w-1 : ~(line[c][v].valid /\ line[c][v].addr = a)

\* return_data(p) in each cache of the set T, on MSHRs m.
Returned(m, T, a) ==
  [c \in Cache |-> IF c \in T
                   THEN {IF e.addr = a THEN [e EXCEPT !.returned = TRUE] ELSE e : e \in m[c]}
                   ELSE m[c]]
\* It asserts that the MSHR has the block.
Orphan(m, T, a) == \E c \in T : c \notin Cache \/ \A e \in m[c] : e.addr # a

-----------------------------------------------------------------------------
(* The core. *)

Idle == [cache |-> "none", addr |-> 0]

Packet(c, a, w, t, l, R) ==
  [addr |-> a, word |-> w, type |-> t, level |-> l, waiters |-> R, returned |-> FALSE,
   l1i |-> c \in InstrCache, l1d |-> c \in DataCache]

Processed(c, p) ==
  IF Len(processed[c]) < PROCESSED_SIZE THEN Append(processed[c], p) ELSE processed[c]

(***************************************************************************)
(* PROCESSED takes a packet only while it has room.  In the code it always *)
(* has: update_rob takes an entry at each of its three calls a cycle, the  *)
(* one store or prefetch filled in a cycle adds one, and all others answer *)
(* the core's own outstanding reads, fewer than ROB_SIZE.  Without clocks  *)
(* that pace is a guard of the actions that add an entry.                  *)
(***************************************************************************)
CoreKeepsUp(c) == Len(processed[c]) < PROCESSED_SIZE

\* fetch_instruction, schedule_memory_instruction, execute_load: one add_rq, tried
\* again later if it returns -2.
CoreRead(c, r, a, w, t) ==
  LET p == Packet(c, a, w, t, 1, IF c \in InstrCache THEN {} ELSE {r})
  IN /\ c \in CoreCache
     /\ a \in (IF c \in InstrCache THEN CodeBlock ELSE DataBlock)
     /\ t = "RFO" => c = "DTLB"
     /\ w # 0 => c = "L1D"
     /\ pending[r] = Idle
     /\ Forwards(c, p) \/ Holds(rq[c], a) \/ Len(rq[c]) < RQ_SIZE[c]
     /\ pending' = [pending EXCEPT ![r] = [cache |-> c, addr |-> a]]
     /\ rq' = [rq EXCEPT ![c] = RqAfter(c, @, p)]
     /\ Forwards(c, p) => CoreKeepsUp(c)
     /\ processed' = IF c = "L1D" /\ Forwards(c, p)
                     THEN [processed EXCEPT ![c] = Processed(c, p)] ELSE processed
     /\ UNCHANGED <<wq, pq, mshr, line, asserted, prefetches, swaps, modified>>

\* retire_rob: a store leaves the core once the write queue of the L1D has room.
CoreWrite(a, w) ==
  /\ "L1D" \in Cache
  /\ a \in DataBlock
  /\ Len(wq["L1D"]) < WQ_SIZE["L1D"]
  /\ wq' = [wq EXCEPT !["L1D"] = WqAfter("L1D", Packet("L1D", a, w, "RFO", 1, {}))]
  /\ UNCHANGED <<rq, pq, mshr, line, processed, asserted, pending, prefetches, swaps, modified>>

\* update_rob takes the head of PROCESSED: complete_instr_fetch answers every
\* instruction of the block, complete_data_fetch the loads the packet carries.
TakeProcessed(c) ==
  /\ processed[c] # << >>
  /\ LET p == Head(processed[c])
         answered == {r \in Request :
                        IF c \in InstrCache THEN pending[r] = [cache |-> c, addr |-> p.addr]
                                            ELSE r \in p.waiters}
     IN pending' = [r \in Request |-> IF r \in answered THEN Idle ELSE pending[r]]
  /\ processed' = [processed EXCEPT ![c] = Tail(@)]
  /\ UNCHANGED <<queues, mshr, line, asserted, prefetches, swaps, modified>>

(***************************************************************************)
(* prefetch_line of cache c with fill level l; prefetch_code_line for the  *)
(* L1I.  Which blocks are prefetched is the prefetcher's affair.           *)
(***************************************************************************)
PrefetchLine(c, a, l) ==
  LET p == [Packet(c, a, 0, "PREFETCH", l, {}) EXCEPT !.l1d = (l = 1 /\ c # "L1I")]
  IN /\ c \in Cache \ TLB
     /\ a \in (IF c = "L1I" THEN CodeBlock ELSE Block)
     /\ c = "L1D" => a \in DataBlock
     /\ Level(c) <= l
     /\ c \in {"L1I", "LLC"} => l = Level(c)
     /\ prefetches < MaxPrefetch
     /\ Len(pq[c]) < PQ_SIZE[c]
     /\ prefetches' = prefetches + 1
     /\ pq' = [pq EXCEPT ![c] = PqAfter(c, @, p)]
     /\ UNCHANGED <<rq, wq, mshr, line, processed, asserted, pending, swaps, modified>>

-----------------------------------------------------------------------------
(* Replacing a line. *)

\* lru_victim takes the first invalid way; the LLC's policies need not.
Victims(c) ==
  LET invalid == {w \in 1..NUM_WAY[c] : ~line[c][w].valid}
  IN IF c = "LLC" \/ invalid = {} THEN 1..NUM_WAY[c]
     ELSE {w \in invalid : \A v \in invalid : w <= v}

\* Mutant: the L2C forgets its dirty lines.
WritesBack_L1Only(c, w) == line[c][w].dirty /\ c \in CoreCache

WritesBack(c, w) == line[c][w].dirty /\ HasLower(c)

\* Mutant
MayReplace_Always(c, w) == TRUE

\* The lower write queue must not be full, even if it holds the victim's block.
MayReplace(c, w) ==
  WritesBack(c, w) => Len(wq[Below[c]]) # WQ_SIZE[Below[c]]

\* The write queues after way w of cache c is written back.
AfterWriteback(c, w) ==
  IF WritesBack(c, w)
  THEN [wq EXCEPT ![Below[c]] = WqAfter(Below[c],
          Packet("none", line[c][w].addr, 0, "WRITEBACK", 2 * Level(c), {}))]
  ELSE wq

\* fill_cache
FillCache(c, w, a, d) ==
  line' = [line EXCEPT ![c] = [@ EXCEPT ![w] = [addr |-> a, valid |-> TRUE, dirty |-> d]]]

AddMshr(c, p) == [mshr EXCEPT ![c] = @ \cup {[p EXCEPT !.returned = FALSE]}]

\* Mutants: the prefetch is not overwritten; the merge leaves the fill level alone.
Merged_StaysPrefetch(e, p) ==
  [e EXCEPT !.level = Least(@, p.level), !.l1i = @ \/ p.l1i, !.l1d = @ \/ p.l1d,
            !.waiters = @ \cup p.waiters]
Merged_KeepsLevel(e, p) == [e EXCEPT !.type = p.type, !.waiters = @ \cup p.waiters]

\* A request of c merged into the MSHR entry e of its block.  A prefetch in flight is
\* overwritten by the request.
Merged(e, p) ==
  IF e.type = "PREFETCH" THEN [p EXCEPT !.returned = e.returned]
  ELSE [e EXCEPT !.level = Least(@, p.level), !.l1i = @ \/ p.l1i, !.l1d = @ \/ p.l1d,
                 !.waiters = @ \cup p.waiters]

Replace(c, e, f) == [mshr EXCEPT ![c] = (@ \ {e}) \cup {f}]

-----------------------------------------------------------------------------
(* handle_fill *)

(***************************************************************************)
(* A returned miss takes the place of a victim, which is written back if   *)
(* its dirty bit is set; the data goes on to the caches above that asked,  *)
(* and to the core through PROCESSED.                                      *)
(***************************************************************************)
HandleFill(c) == \E e \in mshr[c] : \E w \in Victims(c) :
  LET up == ReturnsTo(c, e)
  IN /\ e.returned
     /\ c \in CoreCache => CoreKeepsUp(c)
     /\ MayReplace(c, w)
     /\ wq' = AfterWriteback(c, w)
     /\ FillCache(c, w, e.addr, c = "L1D" /\ e.type = "RFO")
     /\ mshr' = Returned([mshr EXCEPT ![c] = @ \ {e}], up, e.addr)
     /\ asserted' = (asserted \/ Orphan(mshr, up, e.addr))
     /\ processed' = IF c \in CoreCache /\ (c = "L1D" => e.type # "PREFETCH")
                     THEN [processed EXCEPT ![c] = Processed(c, e)] ELSE processed
     /\ modified' = IF c = "L1D" /\ e.type = "RFO" THEN modified \cup {e.addr} ELSE modified
     /\ UNCHANGED <<rq, pq, pending, prefetches, swaps>>

\* LLC_BYPASS: the replacement policy may decline to place the block.
BypassFill == \E e \in mshr["LLC"] :
  LET up == ReturnsTo("LLC", e)
  IN /\ e.returned
     /\ mshr' = Returned([mshr EXCEPT !["LLC"] = @ \ {e}], up, e.addr)
     /\ asserted' = (asserted \/ Orphan(mshr, up, e.addr))
     /\ UNCHANGED <<queues, line, processed, pending, prefetches, swaps, modified>>

-----------------------------------------------------------------------------
(* handle_read *)

\* The queues after request p, at the head of the RQ of c, is handled; and after it
\* is also read from below.
PopRead(c) == rq' = [rq EXCEPT ![c] = Tail(@)]
PopReadAndSend(c, p) ==
  rq' = [rq EXCEPT ![c] = Tail(@), ![Below[c]] = RqAfter(Below[c], @, Sent(p))]

ReadHit(c) ==
  /\ rq[c] # << >>
  /\ LET p == Head(rq[c])
         up == ReturnsTo(c, p)
     IN /\ Filled(c, p.addr)
        /\ c \in CoreCache => CoreKeepsUp(c)
        /\ mshr' = Returned(mshr, up, p.addr)
        /\ asserted' = (asserted \/ Orphan(mshr, up, p.addr))
        /\ processed' = IF c \in CoreCache THEN [processed EXCEPT ![c] = Processed(c, p)]
                                           ELSE processed
  /\ PopRead(c)
  /\ UNCHANGED <<wq, pq, line, pending, prefetches, swaps, modified>>

\* Only the LLC looks whether the queue below has room.  A write queued below answers
\* at once, and the page table does so below the STLB.
ReadNewMiss(c) ==
  /\ rq[c] # << >>
  /\ LET p == Head(rq[c])
         d == Below[c]
         up == IF HasLower(c) THEN IF Forwards(d, p) THEN ReturnsTo(d, p) ELSE {} ELSE {c}
     IN /\ ~Filled(c, p.addr)
        /\ ~InMshr(c, p.addr)
        /\ Cardinality(mshr[c]) < MSHR_SIZE[c]
        /\ c = "LLC" => Len(rq[d]) # RQ_SIZE[d]
        /\ mshr' = Returned(AddMshr(c, p), up, p.addr)
        /\ asserted' = (asserted \/ Orphan(AddMshr(c, p), up, p.addr))
        /\ IF HasLower(c) THEN PopReadAndSend(c, p) ELSE PopRead(c)
  /\ UNCHANGED <<wq, pq, line, processed, pending, prefetches, swaps, modified>>

ReadMerge(c) ==
  /\ rq[c] # << >>
  /\ LET p == Head(rq[c])
     IN /\ ~Filled(c, p.addr)
        /\ InMshr(c, p.addr)
        /\ mshr' = Replace(c, Entry(c, p.addr), Merged(Entry(c, p.addr), p))
  /\ PopRead(c)
  /\ UNCHANGED <<wq, pq, line, processed, asserted, pending, prefetches, swaps, modified>>

HandleRead(c) == ReadHit(c) \/ ReadNewMiss(c) \/ ReadMerge(c)

-----------------------------------------------------------------------------
(* handle_writeback *)

\* A queued write never has a level below the cache's, so nothing is returned.
WriteHit(c) ==
  /\ wq[c] # << >>
  /\ LET p == Head(wq[c])
         w == HitWay(c, p.addr)
     IN /\ Filled(c, p.addr)
        /\ line' = [line EXCEPT ![c] = [@ EXCEPT ![w].dirty = TRUE]]
        /\ modified' = IF c = "L1D" THEN modified \cup {p.addr} ELSE modified
  /\ wq' = [wq EXCEPT ![c] = Tail(@)]
  /\ UNCHANGED <<rq, pq, mshr, processed, asserted, pending, prefetches, swaps>>

\* A store misses in the L1D: its block is read from below.
StoreNewMiss ==
  /\ wq["L1D"] # << >>
  /\ LET p == Head(wq["L1D"])
         up == IF Forwards("L2C", p) THEN ReturnsTo("L2C", p) ELSE {}
     IN /\ ~Filled("L1D", p.addr)
        /\ ~InMshr("L1D", p.addr)
        /\ Cardinality(mshr["L1D"]) < MSHR_SIZE["L1D"]
        /\ mshr' = Returned(AddMshr("L1D", p), up, p.addr)
        /\ asserted' = (asserted \/ Orphan(AddMshr("L1D", p), up, p.addr))
        /\ rq' = [rq EXCEPT !["L2C"] = RqAfter("L2C", @, Sent(p))]
  /\ wq' = [wq EXCEPT !["L1D"] = Tail(@)]
  /\ UNCHANGED <<pq, line, processed, pending, prefetches, swaps, modified>>

StoreMerge ==
  /\ wq["L1D"] # << >>
  /\ LET p == Head(wq["L1D"])
     IN /\ ~Filled("L1D", p.addr)
        /\ InMshr("L1D", p.addr)
        /\ mshr' = Replace("L1D", Entry("L1D", p.addr), Merged(Entry("L1D", p.addr), p))
  /\ wq' = [wq EXCEPT !["L1D"] = Tail(@)]
  /\ UNCHANGED <<rq, pq, line, processed, asserted, pending, prefetches, swaps, modified>>

\* Elsewhere a writeback that misses is placed at once, dirty.
WriteAllocate(c) == \E w \in Victims(c) :
  /\ wq[c] # << >>
  /\ LET p == Head(wq[c])
     IN /\ ~Filled(c, p.addr)
        /\ MayReplace(c, w)
        /\ wq' = [AfterWriteback(c, w) EXCEPT ![c] = Tail(@)]
        /\ FillCache(c, w, p.addr, TRUE)
  /\ UNCHANGED <<rq, pq, mshr, processed, asserted, pending, prefetches, swaps, modified>>

\* Mutant: a store that misses is placed at once, too.
HandleWriteback_Allocates(c) == WriteHit(c) \/ WriteAllocate(c)

HandleWriteback(c) ==
  \/ WriteHit(c)
  \/ c = "L1D" /\ (StoreNewMiss \/ StoreMerge)
  \/ c # "L1D" /\ WriteAllocate(c)

-----------------------------------------------------------------------------
(* handle_prefetch *)

PrefetchHit(c) ==
  /\ pq[c] # << >>
  /\ LET p == Head(pq[c])
         up == ReturnsTo(c, p)
     IN /\ Filled(c, p.addr)
        /\ mshr' = Returned(mshr, up, p.addr)
        /\ asserted' = (asserted \/ Orphan(mshr, up, p.addr))
  /\ pq' = [pq EXCEPT ![c] = Tail(@)]
  /\ UNCHANGED <<rq, wq, line, processed, pending, prefetches, swaps, modified>>

\* Mutant: a prefetch for the LLC takes no MSHR.
FillsHere_Strictly(c, p) == p.level < Level(c)

FillsHere(c, p) == p.level <= Level(c)

(***************************************************************************)
(* A prefetch that misses goes down, if the queue below has room, even     *)
(* when it is not to be filled here: then it takes no MSHR, although it    *)
(* waited for one to be free.  The LLC puts it into the DRAM's read queue. *)
(***************************************************************************)
PrefetchNewMiss(c) ==
  /\ pq[c] # << >>
  /\ LET p == Head(pq[c])
         d == Below[c]
         m == IF FillsHere(c, p) THEN AddMshr(c, p) ELSE mshr
         up == IF Forwards(d, p) THEN ReturnsTo(d, p) ELSE {}
     IN /\ ~Filled(c, p.addr)
        /\ ~InMshr(c, p.addr)
        /\ Cardinality(mshr[c]) < MSHR_SIZE[c]
        /\ mshr' = Returned(m, up, p.addr)
        /\ asserted' = (asserted \/ Orphan(m, up, p.addr))
        /\ IF c = "LLC"
           THEN /\ Len(rq[d]) # RQ_SIZE[d]
                /\ rq' = [rq EXCEPT ![d] = RqAfter(d, @, Sent(p))]
                /\ pq' = [pq EXCEPT ![c] = Tail(@)]
           ELSE /\ Len(pq[d]) # PQ_SIZE[d]
                /\ pq' = [pq EXCEPT ![c] = Tail(@), ![d] = PqAfter(d, @, Sent(p))]
                /\ UNCHANGED rq
  /\ UNCHANGED <<wq, line, processed, pending, prefetches, swaps, modified>>

PrefetchMerge(c) ==
  /\ pq[c] # << >>
  /\ LET p == Head(pq[c])
     IN /\ ~Filled(c, p.addr)
        /\ InMshr(c, p.addr)
        /\ mshr' = Replace(c, Entry(c, p.addr), MergedPrefetch(Entry(c, p.addr), p))
  /\ pq' = [pq EXCEPT ![c] = Tail(@)]
  /\ UNCHANGED <<rq, wq, line, processed, asserted, pending, prefetches, swaps, modified>>

HandlePrefetch(c) == PrefetchHit(c) \/ PrefetchNewMiss(c) \/ PrefetchMerge(c)

-----------------------------------------------------------------------------
(* What is below the last cache, and the page table's swap. *)

Without(s, i) == SubSeq(s, 1, i - 1) \o SubSeq(s, i + 1, Len(s))

\* Memory answers its reads in an order of its own.
MemoryReturns == \E q \in {"RQ", "PQ"} :
  LET reads == IF q = "RQ" THEN rq[Memory] ELSE pq[Memory]
  IN \E i \in Ends(reads) :
  LET p == reads[i]
      up == ReturnsTo(Memory, p)
  IN /\ mshr' = Returned(mshr, up, p.addr)
     /\ asserted' = (asserted \/ Orphan(mshr, up, p.addr))
     /\ IF q = "RQ" THEN rq' = [rq EXCEPT ![Memory] = Without(@, i)] /\ UNCHANGED pq
                    ELSE pq' = [pq EXCEPT ![Memory] = Without(@, i)] /\ UNCHANGED rq
     /\ UNCHANGED <<wq, line, processed, pending, prefetches, swaps, modified>>

DirtyCopy(a) ==
  \/ \E c \in Cache : \E w \in 1..NUM_WAY[c] : line[c][w].dirty /\ line[c][w].addr = a
  \/ \E c \in (Cache \ CoreCache) \cup {Memory} : Holds(wq[c], a)

MemoryWrites == \E i \in Ends(wq[Memory]) :
  /\ wq' = [wq EXCEPT ![Memory] = Without(@, i)]
  /\ UNCHANGED <<rq, pq, mshr, line, processed, asserted, pending, prefetches, swaps>>
  /\ modified' = {a \in modified : a # wq[Memory][i].addr \/ DirtyCopy(a)'}

\* Mutant: the line forgets that it is dirty.
SwapOut_Cleans(a) ==
  /\ swaps < MaxSwap
  /\ swaps' = swaps + 1
  /\ line' = [c \in Cache |->
       IF Filled(c, a)
       THEN [line[c] EXCEPT ![HitWay(c, a)] = [@ EXCEPT !.valid = FALSE, !.dirty = FALSE]]
       ELSE line[c]]
  /\ UNCHANGED <<queues, mshr, processed, asserted, pending, prefetches, modified>>

\* va_to_pa calls invalidate_entry for a block (or page) it swaps out; the line stays dirty.
SwapOut(a) ==
  /\ swaps < MaxSwap
  /\ swaps' = swaps + 1
  /\ line' = [c \in Cache |->
       IF Filled(c, a) THEN [line[c] EXCEPT ![HitWay(c, a)].valid = FALSE] ELSE line[c]]
  /\ UNCHANGED <<queues, mshr, processed, asserted, pending, prefetches, modified>>

-----------------------------------------------------------------------------
Init ==
  /\ rq = [c \in Cache \cup {Memory} |-> << >>]
  /\ wq = [c \in Cache \cup {Memory} |-> << >>]
  /\ pq = [c \in Cache \cup {Memory} |-> << >>]
  /\ mshr = [c \in Cache |-> {}]
  /\ line = [c \in Cache |->
                [w \in 1..NUM_WAY[c] |-> [addr |-> 0, valid |-> FALSE, dirty |-> FALSE]]]
  /\ processed = [c \in CoreCache |-> << >>]
  /\ asserted = FALSE
  /\ pending = [r \in Request |-> Idle]
  /\ prefetches = 0 /\ swaps = 0
  /\ modified = {}

Core ==
  \/ \E c \in CoreCache, r \in Request, a \in Block, w \in Word, t \in {"LOAD", "RFO"} :
       CoreRead(c, r, a, w, t)
  \/ \E a \in Block, w \in Word : CoreWrite(a, w)
  \/ \E c \in CoreCache : TakeProcessed(c)

operate(c) == HandleFill(c) \/ HandleWriteback(c) \/ HandleRead(c) \/ HandlePrefetch(c)

Next ==
  \/ Core
  \/ \E c \in Cache, a \in Block, l \in {1, 2, 4} : PrefetchLine(c, a, l)
  \/ \E c \in Cache : operate(c)
  \/ "LLC" \in Cache /\ BypassFill
  \/ MemoryReturns \/ MemoryWrites
  \/ \E a \in Block : SwapOut(a)

Spec == Init /\ [][Next]_vars

(***************************************************************************)
(* operate() runs every handler every cycle, update_rob takes from every   *)
(* PROCESSED, and memory answers.  The core need not ask for anything.     *)
(***************************************************************************)
Fairness ==
  /\ \A c \in Cache : /\ WF_vars(HandleFill(c)) /\ WF_vars(HandleWriteback(c))
                      /\ WF_vars(HandleRead(c)) /\ WF_vars(HandlePrefetch(c))
  /\ \A c \in CoreCache : WF_vars(TakeProcessed(c))
  /\ WF_vars(MemoryReturns) /\ WF_vars(MemoryWrites)

FairSpec == Spec /\ Fairness

-----------------------------------------------------------------------------
PacketType == [addr : Block, word : Word, type : {"LOAD", "RFO", "PREFETCH", "WRITEBACK"},
               level : {1, 2, 4, 8}, waiters : SUBSET Request, returned : BOOLEAN,
               l1i : BOOLEAN, l1d : BOOLEAN]

\* Type correctness; the queues and MSHRs fit, so the assert of add_wq on a full
\* write queue never fails.
TypeOK ==
  /\ \A c \in Cache \cup {Memory} :
       /\ rq[c] \in Seq(PacketType) /\ Len(rq[c]) <= RQ_SIZE[c]
       /\ wq[c] \in Seq(PacketType) /\ Len(wq[c]) <= WQ_SIZE[c]
       /\ pq[c] \in Seq(PacketType) /\ Len(pq[c]) <= PQ_SIZE[c]
  /\ \A c \in Cache :
       /\ mshr[c] \subseteq PacketType /\ Cardinality(mshr[c]) <= MSHR_SIZE[c]
       /\ line[c] \in [1..NUM_WAY[c] ->
                         [addr : Block \cup {0}, valid : BOOLEAN, dirty : BOOLEAN]]
  /\ \A c \in CoreCache : processed[c] \in Seq(PacketType)
  /\ asserted \in BOOLEAN
  /\ pending \in [Request -> [cache : CoreCache, addr : Block] \cup {Idle}]
  /\ modified \subseteq Block

\* Where in cache d a packet waits that will be returned to cache c for block a.
Sources(c, a, d) ==
  {<<"RQ", i>> : i \in {j \in Ends(rq[d]) : rq[d][j].addr = a /\ c \in ReturnsTo(d, rq[d][j])}}
  \cup
  {<<"PQ", i>> : i \in {j \in Ends(pq[d]) : pq[d][j].addr = a /\ c \in ReturnsTo(d, pq[d][j])}}
  \cup
  {<<"MSHR", 0>> : e \in {f \in IF d = Memory THEN {} ELSE mshr[d] :
                              f.addr = a /\ c \in ReturnsTo(d, f)}}

(***************************************************************************)
(* No miss is lost and none is answered twice: a block has one MSHR entry  *)
(* in a cache, and while the entry waits exactly one packet below will be  *)
(* returned to it; no packet below will be returned to a cache that does   *)
(* not wait.  Hence the assert of return_data never fails, although        *)
(* add_mshr precedes an add_rq whose refusal (-2) is ignored, flags are    *)
(* merged in RQ, PQ and MSHR, and a prefetch is overwritten by a request.  *)
(***************************************************************************)
MissesMatchRequests ==
  /\ ~asserted
  /\ \A c \in Cache : \A e, f \in mshr[c] : e.addr = f.addr => e = f
  /\ \A c \in Cache, a \in Block : HasLower(c) =>
       Cardinality(Sources(c, a, Below[c])) =
         IF \E e \in mshr[c] : e.addr = a /\ ~e.returned THEN 1 ELSE 0

(***************************************************************************)
(* A cache the core reads never holds a block twice, nor a block that one  *)
(* of its misses waits for: a line is filled only by the miss of its block *)
(* and the miss began with check_hit failing.                              *)
(***************************************************************************)
OneCopyPerBlock ==
  \A c \in CoreCache :
    /\ \A v, w \in 1..NUM_WAY[c] :
         line[c][v].valid /\ line[c][w].valid /\ line[c][v].addr = line[c][w].addr => v = w
    /\ \A e \in mshr[c] : ~Filled(c, e.addr)

\* The places of cache c that hold request r of the core.
Carriers(c, r) ==
  {<<"RQ", i>> : i \in {j \in Ends(rq[c]) : r \in rq[c][j].waiters}}
  \cup {<<"MSHR", e.addr>> : e \in {f \in mshr[c] : r \in f.waiters /\ f.type # "PREFETCH"}}
  \cup {<<"PROCESSED", i>> : i \in {j \in Ends(processed[c]) : r \in processed[c][j].waiters}}

(***************************************************************************)
(* Each outstanding load or translation of the core is in exactly one      *)
(* place: no merge drops it and none answers it twice (num_mem_ops would   *)
(* go below zero).  An instruction fetch has its block in some place.      *)
(***************************************************************************)
RequestsAccountedFor ==
  /\ \A c \in CoreCache \ InstrCache, r \in Request :
       Cardinality(Carriers(c, r)) = IF pending[r].cache = c THEN 1 ELSE 0
  /\ \A c \in CoreCache \cap InstrCache, r \in Request : pending[r].cache = c =>
       LET a == pending[r].addr IN Holds(rq[c], a) \/ InMshr(c, a) \/ Holds(processed[c], a)

(***************************************************************************)
(* A block that was marked dirty is dirty in some cache or on its way down *)
(* until memory has been given it, whatever is evicted, allocated by a     *)
(* writeback, filled or invalidated meanwhile.                             *)
(***************************************************************************)
DirtyNeverDropped == \A a \in modified : DirtyCopy(a)

(***************************************************************************)
(* What Dram takes for granted of its client: the LLC never asks memory    *)
(* for a block that it is being sent already, and what it takes an MSHR    *)
(* entry for is answered from a queued write at once or enters the read    *)
(* queue.  MEMORY_CONTROLLER::add_rq returns the "merged index" of a       *)
(* second read and drops one it has no slot for; the LLC looks at neither. *)
(***************************************************************************)
MemoryIsAskedOnce ==
  [][\A a \in Block : "LLC" \in Cache /\ ~InMshr("LLC", a) /\ InMshr("LLC", a)' =>
       /\ ~Holds(rq[Memory], a)
       /\ IF Holds(wq[Memory], a) THEN \A e \in mshr'["LLC"] : e.addr = a => e.returned
                                 ELSE Holds(rq'[Memory], a)]_vars

(***************************************************************************)
(* Every read of the core is answered: what the deadlock check of main.cc  *)
(* (print_deadlock, assert(0)) says of an instruction waiting for memory.  *)
(***************************************************************************)
EveryReadIsAnswered == \A r \in Request : pending[r] # Idle ~> pending[r] = Idle

=============================================================================
