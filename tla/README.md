# Specifications of the hwsw simulator

hwsw is a fork of ChampSim: a single-threaded, cycle-driven simulator of an
out-of-order core, its caches and its memory, driven by an instruction trace.
The fork adds `codeinfo/`, which follows the trace through the compiler's view
of the program (control flow, call stack) while it is simulated.

The simulator runs in one thread.  What is concurrent is what it *simulates*:
every cycle the main loop (`src/main.cc`) calls the stages of the core and the
`operate()` of each cache and of the memory controller in a fixed order, and
packets sent in one cycle are answered many cycles later, merged with others,
reordered, or refused and tried again.  The properties below are about that
protocol, and about the data structures it rests on.

## Components

| component | source | state | operations | talks to |
|---|---|---|---|---|
| main loop | `src/main.cc` | cycle, warm-up and completion flags, page tables | one pass per cycle; `va_to_pa`; deadlock check | calls every other component |
| core | `src/ooo_cpu.cc`, `inc/ooo_cpu.h`, `inc/instruction.h`, `inc/set.h` | IFETCH and DECODE buffers, ROB, LQ, SQ, the rings RTE, RTL, RTS, STA | fetch, dispatch, schedule, execute, load and store issue, forwarding, return, retire | `add_rq`, `add_wq` of L1 caches and TLBs; reads their PROCESSED queues |
| cache and TLB | `src/cache.cc`, `inc/cache.h` | tag array, RQ, WQ, PQ, MSHR, PROCESSED | `operate` = `handle_fill`, `handle_writeback`, `handle_read`, `handle_prefetch`; `add_rq`, `add_wq`, `add_pq`, `return_data` | the level above (`return_data`) and the level below (`add_*`) |
| packet queue | `src/block.cc`, `inc/block.h` | a ring of PACKETs | `check_queue`, `add_queue`, `remove_queue` | caches, TLBs, memory |
| memory controller | `src/dram_controller.cc`, `inc/dram_controller.h` | read and write queues, banks, data bus, read/write mode | `operate` = mode, `schedule`, `process`; `add_rq`, `add_wq` | `return_data` of the LLC |
| replacement | `replacement/` | per-set recency or RRPV, PSEL, SHCT | `find_victim`, `update_replacement_state` | called by the LLC and, as LRU, by every cache |
| prefetchers | `prefetcher/` | per-IP strides, correlation tables | `*_operate`, `*_cache_fill` | `prefetch_line` of their cache |
| branch predictors | `branch/` | counters, histories, weights | `predict_branch`, `last_branch_result` | the core |
| code information | `codeinfo/`, `inc/codeinfo/` | call stack, block tables, triggers | `CodeInformer`, `CallStack`, `BBMeta` | the core and prefetchers |
| tracer, LLVM pass, scripts | `tracer/`, `infgen/`, `scripts/`, `spec/` | | produce traces and side files | outside the simulation |

## Modules

| part | specification | abstract specification | proofs | instance for TLC |
|---|---|---|---|---|
| memory controller | `Dram` | `MemService` | `DramProofs` | `MCDram` |
| caches and TLBs | `CacheHierarchy` | | `CacheProofs` | `MCCacheHierarchy` |
| core, back end | `O3Core`, `ReadyRing` | `InOrder` | `RingProofs`, `O3CoreProofs`, `O3LsqProofs` | `MCO3Core` |
| core, front end | `FrontEnd` | | `FrontEndProofs` | `MCFrontEnd` |
| page table | `PageTable` | | `StructuresProofs` | `MCStructures` |
| packet queue | `PacketQueue` | `Fifo` | `StructuresProofs` | `MCStructures` |
| replacement (LRU) | `Lru` | `RecencyOrder` | `StructuresProofs` | `MCStructures` |
| fastset | `FastSet` | | | `MCStructures` |
| code information | `CodeInformer` | | `StructuresProofs` | `MCStructures` |

`NatFacts` holds facts on natural numbers, and induction over the turns of a loop,
that the proofs share.  How the models
meet: `MemoryIsAskedOnce` of `CacheHierarchy` is what `Dram` assumes of its client; its queues are sequences because `PacketQueue`
implements `Fifo`; its victims are any way, of which `Lru` is a choice; the
answers of DTLB and L1D that are external to `O3Core`, and those of the L1I that
are external to `FrontEnd`, are what `RequestsAccountedFor` and
`EveryReadIsAnswered` say of `CacheHierarchy`; the ROB of `FrontEnd` executes and
retires as `RetiresUnlessClogged` says of `O3Core`, where its load queue does not clog.

## The memory controller

`Dram` models `MEMORY_CONTROLLER` for one channel of one rank, as the
configuration of `inc/champsim.h` has it.  A packet is its block address, its
`event_cycle` and its `scheduled` flag; block address 0 marks an empty slot, as
in the code.  The three stages of a call of `operate()` are the actions
`BeginCycle` (the clock and the choice of mode, with `reset_remain_requests`),
`Schedule` and `Process`; then the last-level cache may call `add_rq` and
`add_wq` any number of times before the next cycle.  The caller is external to
the module and reduced to what `cache.cc` guarantees: it calls only while the
queue is not full (`get_occupancy` against `get_size`) and reads a block only
when none of its MSHRs already waits for it (`MemoryIsAskedOnce`).  `warm` is the end of the warm-up,
before which every read is answered at once and every write dropped.

`awaiting` (the blocks the LLC's MSHRs wait for), `requests`, `last_switch` and
`stale_writes` are history or environment: no guard of the controller reads
them.

`MemService` is what the controller promises: a read of a block whose write is
pending is answered from that write, any other stays pending until its data
returns, a write stays pending until memory has it, and nothing else makes a
request appear or disappear.  `ImplementsMemService` maps pending reads to
`awaiting` and pending writes to the addresses of the write queue.

### What is checked

| run | question | bounds |
|---|---|---|
| `dram_service` | do banks, counters, cached indices and queues agree through every change of mode; is the bus booked a bounded time ahead; is the turn-around respected; is the memory service implemented; does every queued request get through | 3 blocks, 2 banks of 2 rows, RQ 2, WQ 3, watermarks 2 and 3, `tCAS` 2, turn-around 2, 4 calls by cycle 3, 40 cycles |
| `dram_latest` | is a read answered with the latest writeback (violated) | the same queues, `tCAS` 5, turn-around 5, calls up to cycle 11 |

Three blocks over two banks give a row conflict, a row hit and an independent
bank; four calls fill the read queue or bring the write queue to its high
watermark and leave calls for the other mode, so accesses are abandoned in both
directions.  `MaxCycle` ends a behaviour, so deadlock is not checked; the 40
cycles end long after the last queue has emptied.

`FairSpec` assumes weak fairness of the three stages of `operate()`: the main
loop calls it every cycle and each stage always returns.  Calls of the client
and the end of the warm-up need no fairness.  The client stops calling after
three cycles; with calls for ever the row-hit-first policy, and
`reset_remain_requests`, which stamps abandoned requests with the current cycle,
may let younger requests overtake one without bound.  The model does not exclude
that starvation, and no property speaks of it.

`dram_latest` is a divergence between a comment and the code: `add_rq` looks for
"the latest wirtebacks in the write queue", but `add_wq` merges a second
writeback of a queued block by returning its index, without its data.

### What is proved

`DramProofs` proves, for every queue size, geometry and timing that the
assumptions of `Dram` allow (watermarks ordered, `TURN_AROUND <= tCAS`), all the
safety properties of `dram_service` and the refinement of `MemService`.  The inductive invariant `IInv` adds three things to
the properties:

* `NextProcessIsScheduled`: `process()` is only called on a scheduled request;
  without it a transfer could free a bank of nobody;
* `BusBacklogByMode`: how many turn-arounds are booked, by mode and by what the
  queues hold.  The bound of four alone is not inductive: it takes that the
  drain mode with writes below the low watermark has booked two at most, and an
  idle read mode one;
* `AccessOutlastsTurnAround`: an access begun after a switch ends after the
  turn-around.  It is what makes `TurnAroundRespected` true although the penalty
  may be added to a bus time in the past, and it rests on `TURN_AROUND <= tCAS`.

The counters need `BanksOfAQueue`: scheduled requests and the banks they hold
are in bijection, so the loop of `reset_remain_requests` decrements the counter
once per scheduled request.

`CachedIndicesAreFresh` goes through `SameCandidatesSameNext`: what a scan finds
depends on its candidates and their times alone, as of two requests of one time the
one in the lower slot is taken (`OldestIsUnique`).  `add_rq` and `add_wq` fill a slot
that was empty, `process` empties one that was scheduled, and neither changes the
candidates of the index it does not refresh; the proof rests on `IInv` for the
slots that were scheduled.

## The caches and TLBs

`CacheHierarchy` models `CACHE` for one core, with the wiring of `main.cc`: the
constant `Cache` names the caches of an instance, `Below` and `ReturnsTo` say
whom they call.  The state of a cache is its queues (`rq`, `wq`, `pq`), its MSHR
entries, its ways and, for the caches the core reads, `processed`.  A packet has
what decides where it goes: block, address within the block, type, fill level,
the flags `fill_l1i` and `fill_l1d`, the core's reads that were merged into it
(`waiters`: `lq_index_depend_on_me` and its own `lq_index`) and `returned`.

| code | model |
|---|---|
| `add_rq`, `add_wq`, `add_pq` (merge, forward from the WQ, refusal) | `RqAfter`, `WqAfter`, `PqAfter`, and `Forwards` |
| `return_data`, with its assert | `Returned`, `Orphan` |
| `handle_fill`, with eviction and bypass | `HandleFill`, `BypassFill` |
| `handle_writeback` | `WriteHit`, `StoreNewMiss`, `StoreMerge`, `WriteAllocate` |
| `handle_read` | `ReadHit`, `ReadNewMiss`, `ReadMerge` |
| `handle_prefetch` | `PrefetchHit`, `PrefetchNewMiss`, `PrefetchMerge` |
| `prefetch_line`, `prefetch_code_line` | `PrefetchLine` |
| `invalidate_entry`, called by `va_to_pa` | `SwapOut` |
| `update_rob`, issue and retirement of the core (external to the component) | `CoreRead`, `CoreWrite`, `TakeProcessed` |
| `MEMORY_CONTROLLER` or the page table below | `MemoryReturns`, `MemoryWrites`; the STLB answers itself |

What is abstracted, and why nothing is lost:

* **Time.**  A handler works on the head of its queue once its `event_cycle` has
  come, and on returned entries in the order of theirs.  Latencies depend on
  configuration, so any head may be handled and any returned entry filled; all
  timings of the code are among the behaviours.  The number of heads handled per
  cycle (`MAX_READ`, `MAX_WRITE`) disappears likewise.
* **Sets.**  Each cache has one set.  Sets share only queues and MSHRs, and blocks
  of one set compete most.  The victim is the first invalid way, else any way
  (`Lru` says which; the LLC's other policies pick any).
* **PROCESSED.**  `handle_fill` and `handle_read` drop an answer when PROCESSED is
  full.  It never is: it has `ROB_SIZE` entries, `update_rob` runs three times a
  cycle and takes up to one entry at each, while only a store's or prefetch's
  fill adds an entry that answers none of the at most `LQ_SIZE + SQ_SIZE` reads
  the core waits for.  Without clocks this pace cannot be derived, so
  `CoreKeepsUp` is a guard of the actions that add an entry: an assumption of
  this module, named as such.
* **`modified`** is history: blocks that were marked dirty and whose data memory
  has not got.

Sizes matter.  `handle_read` and `handle_writeback` allocate an MSHR and then
ignore whether `add_rq` below refused the packet.  In `inc/cache.h` the read queue
of each cache has at least as many entries as the MSHRs above it together (L2C:
32 for 8 + 16; LLC: 32 for 32; STLB: 32 for 8 + 8), and each of those sends a
block at most once.  The instances keep that relation, `ReadQueuesSuffice`; it is a
hypothesis of the theorem about `MissesMatchRequests`, which says nothing of other
sizes.

### Properties

* `MissesMatchRequests`: each MSHR entry that waits has exactly one packet in the
  cache below that will be returned to it, and no packet will be returned to a
  cache that does not wait.  It covers the assert of `return_data`, the ignored
  refusals, every merge of flags and fill levels, and prefetches that go down
  without an MSHR entry.
* `RequestsAccountedFor`: each read of the core is carried by exactly one queue
  entry, MSHR entry or answer.
* `OneCopyPerBlock`: an L1 or TLB never holds a block twice, nor one that it is
  waiting for.  The L2C and the LLC can: a writeback allocates its line while a
  miss of the block is in flight.
* `DirtyNeverDropped`: a line marked dirty is dirty somewhere until memory has it.
* `MemoryIsAskedOnce`: the LLC never asks memory for a block that memory is sending
  it, and what it takes an MSHR entry for is answered from a queued write at once or
  enters the read queue.  It speaks of the *step*, since a second read would leave no
  trace in the queue: `MEMORY_CONTROLLER::add_rq` returns the index of the first, at
  which the LLC does not look.  `Dram` takes it for granted (the guards of its
  `add_rq`), so the two modules compose.
* `EveryReadIsAnswered`: every read is answered.

| run | instance | question |
|---|---|---|
| `cache_data` | L1D (1 way, 1 miss) over L2C (2 ways, 2 misses), 2 blocks of 2 addresses, 2 loads, stores, a swap | all safety properties of the data side |
| `cache_llc` | L1D, L2C, LLC of one way, 2 blocks, 1 load, stores, a prefetch | fill levels, prefetches without an MSHR, and what the LLC asks of memory |
| `cache_tlb` | ITLB, DTLB, STLB with 2 ways and 2 misses, 3 pages, one of them shared, a swap | merging of both TLBs at the STLB |
| `cache_liveness` | L1I, L1D, L2C, a code and a data block, 2 reads, a prefetch | every read is answered |
| `cache_shared` | as `cache_liveness` with 1 read, but the block is code and data | violated: a merge loses `fill_l1d` |

Queues of one or two entries are full as soon as anything waits; one way per L1
makes every fill an eviction; two blocks conflict, and the second one's
writeback meets the first one's miss.  One prefetch or one swap is placed at
every point of every behaviour.  All runs let the core stop asking, so deadlock
is not checked; `cache_liveness` shows that nothing waits for ever.

The runs of an L1I and an L1D keep code and data blocks apart
(`CodeBlock`, `DataBlock`), except `cache_shared`: with a shared block the
hierarchy loses a miss, as that run shows.  The TLB run shares a page: TLBs have
no prefetches, and the merge is right without them.

`FairSpec` assumes weak fairness of the four handlers of each cache, of
`TakeProcessed` and of memory: `operate_cache()` and `update_rob()` run every
cycle.  `handle_prefetch` gets the slots that `handle_read` leaves of `MAX_READ`,
so reads without end could deny it; but a read that waits for a prefetch is a
load or fetch in the ROB or the IFETCH buffer, nothing younger can retire, the
buffers fill up, the core stops sending reads and the prefetch has its turn.
That is why fairness of `HandlePrefetch` is assumed where a read depends on it.

### What is proved

`CacheProofs` proves every safety property above for every wiring that
`CacheAssumption` allows, all sizes, ways and numbers of blocks.  Only
`MissesMatchRequests` and `MemoryIsAskedOnce` have further hypotheses, both needed for the first:
`ReadQueuesSuffice`, the relation of sizes of `inc/cache.h`, and
`CodeApartFromData`, that no block is both code and data unless the instance has
TLBs alone; `cache_shared` shows what happens without the second.

* `CacheInv` carries `TypeOK` and `OneCopyPerBlock`.  It adds that the MSHR entries
  of a cache are of different blocks, so that marking them in `return_data` keeps
  their number; that a dirty way has a block, so that it can be written back; and
  that a queue is quiet (`Quiet`): nothing writes to a TLB or to the L1I.  Without
  that, a writeback would allocate a line in an L1 whose miss of the block is in
  flight.  Each change of the MSHRs is a lemma that says which blocks a cache waits
  for afterwards; `FilledOnce` is the reason: a fill ends the only miss of its
  block, and while a miss waits the cache has no line of the block.
* `DirtyInv` adds to `DirtyNeverDropped` that TLBs are clean.  The STLB has no cache
  below, so `fill_cache` drops what it evicts; that loses nothing only because no
  handler ever makes a translation dirty.  `HeldAfterWriteback` says that the
  victim's block is in the WQ below afterwards, appended or merged; a line that
  `invalidate_entry` empties stays dirty and is written back when its way is taken.
* `MissInv` carries `MissesMatchRequests`.  `MatchedAll` says of each cache that
  asks another and each block that the RQ below, the PQ below and the MSHR below
  hold at most one packet to be returned to it between them, and one exactly while
  the cache waits for the block.  `PacketsFit` says which flags and fill levels a
  packet can have where it is: a packet of one L1 is never marked for the other, a
  prefetch that fills the LLC alone is returned to nobody.  A merge of flags then
  answers those who asked before and those who ask now.  The places in the RQ below
  are counted with the misses above (`NoMoreThanMisses`): each packet there belongs
  to a waiting entry, the new miss has none yet, so `add_rq` has room, and that
  `handle_read` ignores its refusal does no harm.
* `LocalInv` carries `RequestsAccountedFor`, cache by cache.  A load or translation
  is carried by one packet of the RQ, one MSHR entry or one answer (`HeldOnce`), also
  where a demand read takes over the entry of a prefetch, which carries nobody, and
  where a read finds its block in the WQ.  A second fetch of a block is merged in the
  RQ and leaves no trace of its own, so of fetches the invariant keeps only that
  their block is somewhere (`HasBlock`), as the property does.
* `LlcAsksMemoryOnce` is `MemoryIsAskedOnce`.  A read in memory's queue belongs to
  a miss of the LLC (`ReadsAreMissed`, from `MissInv`), so a block the LLC does not
  miss is not being sent; the three steps that add a miss of the LLC send the read at
  once, and memory's read queue has room for it by `NoMoreThanMisses`; every other
  step adds no miss of the LLC.

### Divergences

* `cache_shared`.  A read that finds a prefetch's MSHR entry merges its flags into
  the entry and then replaces the entry by its own packet.  When the L1D
  prefetched a block that the L1I now reads, the L2C forgets that the L1D waits.
* Without a run: `handle_fill` says "RFO marks cache line dirty" (`cache.cc:346`)
  and tests the type of the MSHR entry.  A store that misses while a load's miss
  of the block is in flight is merged without changing the type, so the line is
  filled clean.  The model follows the code: `DirtyNeverDropped` speaks of lines
  the code did mark dirty.

## The core, back end

`O3Core` models what happens to an instruction between dispatch and retirement.
An instruction of the trace is the registers it reads (`src`) and writes (`dst`)
and the addresses it loads and stores.

| code | model |
|---|---|
| `read_from_trace` as far as STA is concerned, `add_to_rob` | `read_from_trace`, `add_to_rob` |
| `schedule_instruction`, `do_scheduling`, `reg_dependency`, `reg_RAW_dependency` | `MaySchedule`, `Producer`, `do_scheduling` |
| `execute_instruction`, `do_execution` | `do_execution` |
| `update_rob`, `do_complete_execution`, `reg_RAW_release` | `complete_execution` |
| `schedule_memory_instruction`, `do_memory_scheduling`, `check_and_add_lsq`, `add_load_queue`, `add_store_queue`, `mem_RAW_dependency`, forwarding | `do_memory_scheduling` and the operators of the same names |
| `operate_lsq`, `execute_store`, `execute_load` | `TranslateStore`, `TranslateLoad`, `execute_store`, `execute_load` |
| `complete_data_fetch`, `release_load_queue` | `TranslationDone`, `DataDone`, `release_load_queue` |
| `retire_rob` | `retire_rob` |

Each action is a handler or one turn of its loop.  Widths and latencies decide
how many turns fit into a cycle; any turn whose operands are there may be the
next, so all widths and latencies are covered.  Only `schedule_memory_instruction`
keeps an order: its scan tries every older instruction that is ready before a younger
one, within the cycle, so `do_memory_scheduling` takes the oldest that can add an
operand.  DTLB and L1D are external and
reduced to what `CacheHierarchy` shows of them: each request is answered once, in
any order, merged requests together (`packet`; the packet's own index is pushed
before those merged into it).  `memory`, `got` and `results` are history: what the
loads returned, by the instruction that stored it.

One detail follows the code where a reader may expect otherwise: the scan of
`schedule_instruction` ends at `ROB.next_fetch[1]`, which nothing moves from 0, so
it never passes the end of the ring; instructions in the slots before the head
are scheduled when the head has wrapped.

Properties of `core_safety`:

* `ImplementsInOrder`: the core implements `InOrder`, in which instructions execute
  one by one and a load returns the last store to its address.  The mapping takes
  `memory` and `results`, which change at retirement only.
* `HandoversAreExact`: an operand is in exactly one of the rings and requests while
  it has a queue entry, and in none after that; no push overwrites an index; an
  instruction is queued for execution once.
* `OperandsAccountedFor`: `num_mem_ops` and the two in-flight counters are exact.
* `ExecutesAfterItsProducers`, `StoreQueueInProgramOrder`,
  `StoresForwardToTheirLoads` (the assert of `execute_store`).

* `RetiresUnlessClogged`: every trace is executed to its end, unless the load queue
  clogs for ever (`LoadQueueClogged`: all its entries are loads that wait for a store,
  and a load of the instruction at the head of the ROB has none).  So no wake-up is
  lost, no counter stays above zero, and no full ring, store queue or STA stops the
  core; what does stop it is one situation, which one of the traces reaches and which
  `core_lqfull` reports.  `FairSpec` assumes weak fairness of `Work` alone: what can
  move moves.  The code grants more: every handler runs in every cycle over all
  entries, and each request is answered (`EveryReadIsAnswered`).

Bounds: ROB 5, LQ 2, SQ 2, STA 6, window of 4, L1D write queue 2, two sources and
two destinations.  The program has ROB 352, LQ 128, SQ 72, a window of 128, four
sources and two destinations.  The small queues fill up with two instructions,
the rings wrap within one trace, and instructions stay half added for want of an
entry.  The traces are all sequences of three instructions of eight kinds, and
nine longer ones with stores forwarded in and out of order, registers
overwritten and read twice, instructions with two loads or stores, and loads that
clog the load queue.
The short traces leave out those in which a store follows an instruction with two
stores, on which the code fails:

* `core_twostores` (a bug).  An instruction records in
  `memory_instrs_depend_on_me` the *instructions* that wait for it, not their
  operands.  If it stores to two addresses, a third instruction overwrites one of
  them and a fourth loads both, then the assert "does not match to the store
  instr_id" fails when its stores execute.

* `core_lqfull` (a bug, `NeverStuck`).  Loads take entries of the load queue out of
  program order.  Here they wait for two stores, of which the younger waits in STA for
  the older, and the older for the register of a load that finds no entry: nothing can
  move, and the deadlock check of the main loop (`main.cc:885`) aborts.  The comment on
  STA (`ooo_cpu.cc:226`) speaks of stores executing "without deadlock": STA keeps the
  store queue in program order, and nothing does the same for the load queue.  The
  trace fills a load queue of 8.  In a program an older load that misses, and the
  instructions that compute the next address from it, give the younger loads the time
  to fill the 128 entries: a window of 128 instructions of up to four loads each has
  enough of them.

### What is proved

`O3CoreProofs` proves `ExecutesAfterItsProducers` for every set of traces, all
addresses and all sizes of the queues.  An instruction's `reg_ready` says nothing of
itself: it is set when a count falls to zero, by releases that may come in any order
from slots that are reused.  The inductive invariant therefore says what the count
counts:

* `Registers`: the window of the reorder buffer holds the instructions that are
  dispatched and not retired, from the head on and in program order (`InWindow`); they
  are scheduled in that order; a scheduled instruction waits for the last writer of
  each source that has not completed (`WaitsForLastWriter`), for one producer per
  source, and `num_reg_dependent` is the number of sources it waits for
  (`SourcesCounted`); what has been issued was ready (`IssuedWhenReady`); and RTE0
  and RTE1 hold, once each, the instructions that are ready and have not started
  (`Queued`).  Since waiting is recorded per slot, a slot that is freed must have
  nobody waiting for it: only instructions that have completed retire, and completion
  takes the instruction out of every wait.
* `Machine`: the types, and `LoadStages`, which says that a load is asked for once, in
  the ring or request of its stage.  It is what lets `release_load_queue` free an
  entry, and it is needed because memory instructions complete through the load and store queues.

`RingProofs` has what both parts rest on.  `RingHolds` says that a ring of any size
holds a queue from its head round the end, `RingOf` that it holds a set of indices,
each once; a push of an index that is not there always finds a free slot, because
there are as many slots as indices.  `check_and_add_lsq` runs two loops over the
operands of an instruction, each turn of which updates the whole core.  The loops are
recursive functions in `O3Core`; `LoadsByTurns` and `StoresByTurns` state what a
family of sets of cores must satisfy for the loop to stay in it
(`NatFacts!LoopStays`), and one lemma per handler then says what it leaves of the two parts.

`O3LsqProofs` adds the load and store queues: `TypeOK`, `OperandsAccountedFor`,
`HandoversAreExact` and `StoreQueueInProgramOrder`, again for all traces, addresses
and sizes.  The counts alone are not inductive.  `retire_rob` empties the entries its
instruction names and moves the head by their number, which is right only if they are
the ones at the head; `add_store_queue` writes at the tail without looking, which is
right only if the queue has no hole.  The invariant `Lsq` therefore follows the
stores of the whole trace:

* `StoresUpTo(p, f)`: the stores of trace `p` are one stream, `f[n]` of them in the
  first `n` instructions, so that each store has a place in it.  `Stores` says that
  for some place `a` the store queue holds the stores from the last retired
  instruction's on up to `a`, from its head on (`StoreWindow`); that an instruction has added
  exactly its stores up to `a` and names their entries (`StoresNamed`); that STA
  holds what is read beyond `a` (`StaHolds`); and that a store which has not
  executed is in the ring or request of its stage (`StoreStages`).
* `Accounts`: each entry of the load queue is named by the instruction it names, and
  each counter is the number of operands it counts.
* `AddedIsIssued`: what has added all its operands has been issued, without which
  `inflight_mem_executions` would miss instructions.

`CoreImplementsInOrder` proves that the core implements `InOrder`.  `retire_rob` is the
one step of the in-order machine and every other handler leaves `program`, `memory` and
`results` alone, so what has to be shown is that an instruction retires with the right
values, which `LoadsReturnLastStores` proves first.  `IsLastStore(p, i, a, m)` says that `m` is the last instruction before `i` to
store to `a`, and the invariant `Values` that

* a load in the queue waits for the last store before it to its address, or it waits
  for none and that store has retired (`LoadsFind`);
* each load that an instruction has added is in the queue, or it has returned its last
  store (`LoadsServed`);
* memory holds the last store of the retired instructions to each address
  (`MemoryHolds`).

When a load enters, the buffer holds every instruction between the last retired one
and its own, so the nearest older store there is its last store, and if there is none
memory has it (`NearestIsLast`, `NoOlderStore`).  The second case stays true until the
L1D answers, however many instructions retire in between: those that come before the
load do not store to its address, those after it cannot retire first
(`MemoryIsLast`).  A store that forwards hands its value only to loads that
name it as their producer, which the assert of `execute_store` enforces; where it fails
the program stops, so the refinement needs no hypothesis on the trace.

`StoresMatchTheirLoads` proves that assert, `StoresForwardToTheirLoads`.  It needs one
(`TracesStoreApart`): an instruction stores to an address once (`StoresAreDistinct`; the
tracer keeps each address once), and if a load of an instruction has its last store in an
earlier one, so have all its loads that the earlier one stores (`NoneOverwritten`).
`MCO3Core` assumes both of all traces of `core_safety`, and that the trace of
`core_twostores`, on which the assert fails, breaks the second only.  The invariant `Waits`:

* an instruction in `memory_instrs_depend_on_me` of another has *some* load for which
  that one stores last (`WaitersLoad`, `Awaits`);
* a load that an instruction has added is in the queue until its last store has executed
  or retired (`LoadsStay`, `StaysForStore`).

By the first and `NoneOverwritten`, the store that executes is the last store for
each load that it would forward to; by the second and because it has not
executed, that load is still in the queue; and by `LoadsFind` a load in the queue names
its last store's instruction (`WaiterMatches`).  That no other store of that instruction to
the same address executed first is what `StoresAreDistinct` is for.

All theorems of this part but `StaIsEnough` have the hypothesis `StaSuffices`: the
stores of the instructions that are read and not retired fit into STA.  It is needed,
because a push onto a full STA overwrites (the assert of `read_from_trace`,
`ooo_cpu.cc:228`, compares head and tail, which are equal when STA is exactly full).
`StaIsEnough` proves it from sizes: the program has 352 entries in the ROB and 12 + 18 in
the buffers before it, and a plain trace at most two stores per instruction, which
needs (352 + 30) * 2 = 764 places of 1408.  In the other trace format
(`cloudsuite_instr`, four stores) it is an assumption on the trace: `STA_SIZE`
multiplies by four, but counts the ROB only.  The traces of all runs satisfy it.

## The core, front end

`FrontEnd` models reading the trace, the IFETCH buffer and its requests to the L1I,
the DECODE buffer, dispatch and the stall at a mispredicted branch.  A cycle runs
through the phases of the main loop (back end, decode, fetch, read).  The L1I is
external: it merges requests of one physical line, refuses them when full, and
answers.  Lines are pages, so that `va_to_pa` maps each.

* `StallHasItsCause`: fetch is stalled by the last instruction read, a mispredicted
  branch that has not executed, or by the penalty after it, and by nothing else;
  no resume cycle is left over to end the next stall early.
* `InflightLinesAreAsked`: an entry marked as being fetched has a request under way
  that will complete it.
* `EveryInstructionPasses`: every instruction of the trace is fetched, decoded,
  dispatched and retired.

Bounds: IFETCH 3, DECODE 2, ROB 2, L1I 2, widths 2, latency 1, penalty 2; four
traces of up to seven instructions with branches in a row and apart, predicted
taken and mispredicted, read before and after the end of the warm-up.  A full
DECODE buffer and a full ROB occur in each.

Fairness: weak of the steps of a cycle, which follow each other.  Strong of the
answers, of execution and of retirement: these are enabled only in the phase
of the back end, so no step of theirs is enabled for ever, but each cycle has that
phase and `CacheHierarchy` and `O3Core` show that answer and execution come.

An observation that no listed run checks: with `FrontEnd_swap.cfg`, in which a third
line takes the frame of a line that is being fetched, `EveryInstructionPasses`
fails.  The L1I merges two virtual lines of one frame, its answer names one of
them, and the entries of the other stay `INFLIGHT` for ever.  It takes as many
pages in use as DRAM has, and a swap during a fetch.

`FrontEndProofs` proves all three invariants for all traces, sizes, widths and
latencies.  `StallHasItsCause` is not inductive: that an executing branch leaves no
other branch unresolved takes that the last instruction read is in one place only.
The invariant `FrontInv` therefore says that the instructions from the ROB through
the DECODE buffer to the IFETCH buffer are numbered without a gap (`Consecutive`), up
to `read`, and that the buffers have room for what is moved (`Room`).  A mispredicted
branch that is unresolved is then the last one (`OneCause`), and it is unresolved
until it executes as the last of the three buffers' entries.

`TypeOK` follows with `Bounds`, which counts what each loop moves, and
`InflightLinesAreAsked` with `AskInv`: the frames that the L1I's packets ask for are
those of their lines (`FramesMatch`).  The loop in which `fetch_instruction` asks for
one line after the other is a recursive function; `RequestedByTurns` shows by
induction over its turns (`NatFacts!UpTo`) what it has asked for at its end.  The
theorem `InflightLinesStayAsked` assumes `EnoughFrames`, no more lines than frames:
without it the property fails, in the way `FrontEnd_swap.cfg` shows.

## The page table

`PageTable` models `va_to_pa`: both maps, runs of adjacent frames, redrawn frames,
swaps, and the translations held by the TLBs of each core or on their way to one
(`tlb`, `inflight`).  `TLB_SIZE` and `MSHR_SIZE` bound them for TLC.  `Word` is 2^64,
in which the unsigned `num_adjacent_page` wraps.

* `TablesAreInverse`, `AllocationCounted`: no frame has two pages; the counters are
  those of the tables, although `num_adjacent_page` is decremented at zero.
* `StaleOnlyIfOutlived`: a translation held is the table's, unless a swap could not
  reach it.  The history `outlived` says which those are: translations in flight
  during the swap, those of another core than the one that faults, and those of
  any core but 0, because the tag given to `invalidate_entry` has the core in its
  high bits and the tags in the TLBs have not.

So with `NUM_CPUS` above 1, or a miss in flight, a swap does leave stale
translations behind; with one core and nothing in flight it does not.  A frame
number of 0 can be drawn and fails the assert of `fill_cache` (`cache.cc:1086`); it
is one number of 2^36, and the model lets it be drawn and does not stop.

`StructuresProofs` proves the three for any number of cores, pages and frames.
`TablesAreInverse` is inductive by itself.  `Counters` adds to the second that the
table is finite and the run non-negative, `Holdings` to the third the types of what
is held.  `Translations` states once what the three ways of `va_to_pa` do to the
tables; each of the three proofs goes through them and then through the callers.

## The packet queue

`PacketQueue` is the ring of `block.cc`, `Fifo` a queue whose search returns the
oldest match.  The place of slot `i` is counted from the head round the end.
`structures` checks a ring of four and three addresses, so that each address may be
there twice and the ring wraps; `StructuresProofs` proves the refinement for any
size.  Its invariant `Ring` places the tail: where `occupancy` slots after the head
end.  `SearchedIsOccupied` then shows that the loops of `check_queue` go through
exactly the slots that hold packets, also when `head = tail`.

## Fastset

`FastSet` models the union of the sorted array and the bit vector as one set of
bits, with every operation of `inc/set.h`.  `HoldsItsMembers`: `search` and
`expand` return what was inserted and joined, in both representations, starting
from memory of any contents.  The instance has values of 3 bits, an array of 4 (linear
search below 3), words of 4 bits and values below 6; the program has 16, 13, 6,
64 and 512.  Both searches, the change of representation and a join of each
pair of representations occur.

`join` reads whole words up to the next multiple of the word size above `n`, so
`n = MAX_SIZE` would read one past the end; the assumption of the module excludes it, and
the callers (`cache.cc:703` and those that follow) pass `SQ_SIZE`, `LQ_SIZE` and
`ROB_SIZE`, below 512.

## Code information

`CodeInformer` models `codeinfo/`: the queries of a prefetcher, the results kept of
each retired instruction, and the call stack, which is kept from pairs of
consecutive instructions.  The traced program is external: a stack of functions,
user functions and library code, in which each instruction is plain, a call or a
return.

* `CallStackIsExact`: the call stack is the program's, reduced to the calls from one
  user function to another, through recursion, library code, callbacks and a trace
  that begins deep in the program.
* `AnswersAreExact`: the answers given are those due, and each tells what was true
  when its instructions retired.

Bounds: two user functions, five instructions less the queries, two queries about
instructions next to those retiring, and one call in a result.  Five
instructions call, return, call again and see the effect of each, which the code
shows at the instruction after.

Observations: with `Does` including `"tail call"` or `"hidden call"` (a call that the
compiler's instructions do not show), `CallStackIsExact` is violated, as the pairs
cannot tell these apart.  A query whose trigger has retired is never answered.

`StructuresProofs` proves both for any functions, instructions, calls in a result,
length of the trace and depth of its stacks, provided that the trace has neither tail
calls nor hidden ones (`OrdinaryCalls`, without which both can fail).  What a stack
says is a recursive function, so the first lemmas are that it exists and agrees with
its equation on each stack.  One lemma says what an instruction does to a stack and to
its user calls: nothing, a push or a pop.  The invariant says how far behind the
informer is, by exactly one instruction: `KeepsUp` (its last instruction is the last
retired, its call stack the user calls of the stack at that instruction), then
`ResultsKept`, `QueriesKept` and `AnswersKept` (the results, the queries still open
and the answers are what trace and queries alone say of the instructions retired).

## Replacement

`Lru` models `lru_victim`, `lru_update` and their use by hits, fills and
`invalidate_entry` for one set.  `RecencyOrder` says what it is for: a fill takes
the first empty way, else the block used longest ago.  `structures` checks with
four ways (24 orders of use, every pattern of valid ways) that the "no victim!"
assert never fails and that `Lru` implements `RecencyOrder`; `StructuresProofs` proves
both for every number of ways.  The invariant is that the recencies are a
permutation (`TypeOK` and `RecenciesDistinct`); an injective map of a finite set to
itself is onto, so the last recency is held by some way, and because it is the
largest that way is older than all others.

## The run `structures`

The five data structures call no other part, and no step of one concerns another.
`MCStructures` chooses one of them at the start and lets it alone make steps: the
states are the sum of theirs, and every property is checked of every behaviour of
its part.  The bounds of each are given above; the page table has two cores with
three and two pages, four frames and runs of one, so that every frame is used, runs
are over at once and swaps happen in both cores.  None of the parts must
go on, so deadlock is not checked.

## What is proved and what is model-checked only

Proved for every value of the constants: the safety properties and refinements of
`Dram`, `Lru`, `PacketQueue`, `CacheHierarchy`, `PageTable` and `FrontEnd`; those of
`O3Core` where STA has room (`StaSuffices`), one of them for traces whose stores are apart
(`TracesStoreApart`); those of `CodeInformer` for traces of ordinary calls.  The
assumptions are those named in each module (`GeometryAssumption`,
`TimingAssumption`, `QueueAssumption` and the like), which TLC evaluates in each run.

Model-checked only: every liveness property, which is out of the prover's reach, and
`FastSet`, whose properties are about bits of words, powers of two and a recursive
search.

## Not modelled

* **Main loop.**  The order of stages, the end of the warm-up and the deadlock check
  are in the models of the parts.  Command line, the end of a simulation and its
  statistics are not: nothing in the simulated machine reads them.
* **SRRIP, DRRIP, SHiP.**  Arithmetic of counters.  Any way of the LLC is a victim to
  `CacheHierarchy`, so its properties hold with these, too.
* **Prefetchers.**  `CacheHierarchy` lets any prefetch happen at any time.  The
  predictions of `kpcp.l2c_pref`, `ip_stride` and `sisb` are heuristics no other
  part relies on.
* **Branch predictors.**  `FrontEnd` lets any branch be mispredicted.
* **Records of the trace**, the files `llvm_info` reads, and which LLVM instructions
  belong to a pc: inputs of the models.
* The tracer, the LLVM pass and the scripts run outside the simulation.  Statistics
  and output are left out everywhere.
