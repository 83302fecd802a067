------------------------------- MODULE O3Core -------------------------------
(***************************************************************************)
(* The out-of-order back end of O3_CPU (src/ooo_cpu.cc): the reorder       *)
(* buffer, the load and store queues, the rings of ready indices, register *)
(* and memory dependencies, store-to-load forwarding and retirement.       *)
(*                                                                         *)
(* Each action is one handler of the cycle, or one turn of its loop over   *)
(* the ROB or over a ring: the widths and latencies only say how many      *)
(* turns fit into a cycle and which come first, so any turn whose operands *)
(* are there may be the next.  DTLB and L1D are external here: they answer *)
(* each request once, in any order, several merged requests together.      *)
(***************************************************************************)
EXTENDS Integers, Sequences, FiniteSets, ReadyRing

CONSTANTS
  Programs,              \* the traces: sequences of instructions
  Addr,                  \* the addresses they access
  ROB_SIZE, LQ_SIZE, SQ_SIZE, STA_SIZE, SCHEDULER_SIZE,
  FRONT_SIZE,            \* instructions read and not yet in the ROB
  L1D_WQ_SIZE,
  NUM_INSTR_SOURCES, NUM_INSTR_DESTINATIONS

ASSUME SizesAssumption ==
  /\ {ROB_SIZE, LQ_SIZE, SQ_SIZE, STA_SIZE, SCHEDULER_SIZE, FRONT_SIZE, L1D_WQ_SIZE}
       \subseteq Nat \ {0}
  /\ NUM_INSTR_SOURCES \in Nat
  /\ NUM_INSTR_DESTINATIONS \in Nat
  /\ NUM_INSTR_DESTINATIONS \leq L1D_WQ_SIZE
  /\ Nil \notin Int \cup Addr

\* An instruction of a trace: the registers it reads and writes, the addresses it loads
\* and stores, in the arrays of input_instr.
ASSUME ProgramsAssumption ==
  \A program \in Programs :
    /\ program \in Seq([src : Seq(Nat), dst : SUBSET Nat, loads : Seq(Addr), stores : Seq(Addr)])
    /\ \A n \in DOMAIN program :
         /\ Len(program[n].src) \leq NUM_INSTR_SOURCES
         /\ Len(program[n].loads) \leq NUM_INSTR_SOURCES
         /\ Len(program[n].stores) \leq NUM_INSTR_DESTINATIONS

Slot == 0 .. ROB_SIZE - 1
Lq == 0 .. LQ_SIZE - 1
Sq == 0 .. SQ_SIZE - 1
Src == 1 .. NUM_INSTR_SOURCES
Dst == 1 .. NUM_INSTR_DESTINATIONS

VARIABLES
  program,        \* the trace being simulated
  read,           \* instructions read from it
  dispatched,     \* instructions that have entered the ROB
  sta,            \* STA: the instructions of the stores not yet in the SQ, in order
  rob,            \* ROB: its entries, head and tail
  lq,             \* LQ.entry
  sq,             \* SQ: its entries, head and tail
  ready,          \* the six rings of ready indices
  inflight,       \* inflight_reg_executions and inflight_mem_executions
  dtlb, l1d,      \* external: requests the DTLB and the L1D have not answered
  l1dWQ,          \* stores in the write queue of the L1D
  memory,         \* history: the instruction that stored to each address last
  got,            \* history: what each load has returned
  results         \* history: what the loads of the retired instructions returned

trace == <<program, read, dispatched>>
core == <<rob, lq, sq, sta, ready, inflight, got>>
outside == <<dtlb, l1d, l1dWQ>>
history == <<memory, results>>
vars == <<trace, core, outside, history>>

-----------------------------------------------------------------------------
(* Entries of the buffers.                                                 *)

NoInstr ==
  [id |-> 0, scheduled |-> "NO", executed |-> "NO", reg_ready |-> FALSE,
   num_reg_dependent |-> 0, num_mem_ops |-> 0, source_added |-> {}, destination_added |-> {},
   registers_depend_on_me |-> [j \in Src |-> {}], memory_depend_on_me |-> {},
   lq_index |-> [j \in Src |-> Nil], sq_index |-> [k \in Dst |-> Nil]]

NoLoad == [id |-> 0, addr |-> Nil, rob_index |-> 0, data_index |-> 0,
           producer_id |-> Nil, translated |-> "NO", fetched |-> "NO"]
NoStore == [id |-> 0, addr |-> Nil, rob_index |-> 0, data_index |-> 0,
            translated |-> "NO", fetched |-> "NO"]

\* The trace's operands of the instruction in slot s.
At(s) == rob.at[s]
InstrIn(s) == program[At(s).id]
InRob(s) == At(s).id # 0
MemOps(instr) == Len(instr.loads) + Len(instr.stores)
IsMemory(s) == MemOps(InstrIn(s)) > 0
StoresOf(instr) == {instr.stores[k] : k \in DOMAIN instr.stores}
Occupancy == Cardinality({s \in Slot : InRob(s)})
LqOccupancy == Cardinality({l \in Lq : lq[l].addr # Nil})
SqOccupancy == Cardinality({s \in Sq : sq.at[s].addr # Nil})

Older(s, t) == InRob(s) /\ InRob(t) /\ At(s).id < At(t).id
Youngest(S) == CHOOSE s \in S : \A t \in S : At(t).id \leq At(s).id

\* The part of the state the handlers of the LSQ pass on from operand to operand.
Core == [rob |-> rob, lq |-> lq, sq |-> sq, sta |-> sta, ready |-> ready,
         inflight |-> inflight, got |-> got]
Become(q) ==
  /\ rob' = q.rob
  /\ lq' = q.lq
  /\ sq' = q.sq
  /\ sta' = q.sta
  /\ ready' = q.ready
  /\ inflight' = q.inflight
  /\ got' = q.got

-----------------------------------------------------------------------------
(* From the trace to the reorder buffer.                                   *)

Init ==
  /\ program \in Programs
  /\ read = 0
  /\ dispatched = 0
  /\ sta = EmptyRing(STA_SIZE)
  /\ rob = [at |-> [s \in Slot |-> NoInstr], head |-> 0, tail |-> 0]
  /\ lq = [l \in Lq |-> NoLoad]
  /\ sq = [at |-> [s \in Sq |-> NoStore], head |-> 0, tail |-> 0]
  /\ ready = [RTE0 |-> EmptyRing(ROB_SIZE), RTE1 |-> EmptyRing(ROB_SIZE),
              RTL0 |-> EmptyRing(LQ_SIZE), RTL1 |-> EmptyRing(LQ_SIZE),
              RTS0 |-> EmptyRing(SQ_SIZE), RTS1 |-> EmptyRing(SQ_SIZE)]
  /\ inflight = [reg |-> 0, mem |-> 0]
  /\ dtlb = {}
  /\ l1d = {}
  /\ l1dWQ = 0
  /\ memory = [a \in Addr |-> 0]
  /\ got = [n \in 1 .. Len(program) |-> [j \in DOMAIN program[n].loads |-> -1]]
  /\ results = <<>>

\* Each store operand of the instruction takes its place in STA.
StaPush(r, n) == PushAll(r, [k \in DOMAIN program[n].stores |-> n])

read_from_trace ==
  /\ read < Len(program)
  /\ read - dispatched < FRONT_SIZE
  /\ read' = read + 1
  /\ sta' = StaPush(sta, read + 1)
  /\ UNCHANGED <<program, dispatched, rob, lq, sq, ready, inflight, got, outside, history>>

add_to_rob ==
  LET n == dispatched + 1
  IN /\ dispatched < read
     /\ Occupancy < ROB_SIZE
     /\ ~InRob(rob.tail)                      \* add_to_rob asserts it
     /\ dispatched' = n
     /\ rob' = [rob EXCEPT !.at[rob.tail] =
                  [NoInstr EXCEPT !.id = n, !.num_mem_ops = MemOps(program[n])],
                           !.tail = (@ + 1) % ROB_SIZE]
     /\ UNCHANGED <<program, read, lq, sq, sta, ready, inflight, got, outside, history>>

-----------------------------------------------------------------------------
(* Scheduling, register dependencies and execution.                        *)

\* The scan of schedule_instruction stops at ROB.next_fetch[1], which nothing moves
\* from 0: it runs from the head to the last slot, never into the slots before the
\* head, and schedules what it meets in order.
MaySchedule(s) ==
  /\ InRob(s)
  /\ rob.head \leq s
  /\ s - rob.head < SCHEDULER_SIZE
  /\ At(s).scheduled = "NO"
  /\ \A t \in rob.head .. s - 1 : At(t).scheduled # "NO"

\* The instructions in the ROB that have not executed and write source j of slot s.
Writers(s, j) ==
  {p \in Slot : /\ Older(p, s)
                /\ At(p).executed # "COMPLETED"
                /\ InstrIn(s).src[j] \in InstrIn(p).dst}

Producer_Oldest(s, j) ==
  CHOOSE p \in Writers(s, j) : \A q \in Writers(s, j) : At(p).id \leq At(q).id

\* The latest of them is the producer reg_dependency records.
Producer(s, j) == Youngest(Writers(s, j))

Dependencies(s) == {j \in DOMAIN InstrIn(s).src : Writers(s, j) # {}}

SourcesToWaitFor_Once(s) == IF Dependencies(s) = {} THEN 0 ELSE 1

\* num_reg_dependent counts the sources that wait, one by one.
SourcesToWaitFor(s) == Cardinality(Dependencies(s))

\* The entry of slot s as it is scheduled, and that of slot t, which records the sources
\* of s it produces.
Scheduled(s) ==
  [At(s) EXCEPT !.scheduled = IF IsMemory(s) THEN "INFLIGHT" ELSE "COMPLETED",
                !.reg_ready = (Dependencies(s) = {}),
                !.num_reg_dependent = SourcesToWaitFor(s)]

Recording(t, s) ==
  [At(t) EXCEPT !.registers_depend_on_me = [j \in Src |->
     IF j \in Dependencies(s) /\ Producer(s, j) = t THEN @[j] \cup {s} ELSE @[j]]]

do_scheduling(s) ==
  /\ MaySchedule(s)
  /\ rob' = [rob EXCEPT !.at = [t \in Slot |-> IF t = s THEN Scheduled(s) ELSE Recording(t, s)]]
  /\ ready' = IF ~IsMemory(s) /\ Dependencies(s) = {}
              THEN [ready EXCEPT !.RTE1 = Push(@, s)] ELSE ready
  /\ UNCHANGED <<trace, lq, sq, sta, inflight, got, outside, history>>

\* The head of a ring of ready instructions begins to execute.
do_execution(ring) ==
  LET s == First(ready[ring])
  IN /\ ring \in {"RTE0", "RTE1"}
     /\ s # Nil
     /\ ready' = [ready EXCEPT ![ring] = Pop(@)]
     /\ rob' = [rob EXCEPT !.at[s].executed = "INFLIGHT"]
     /\ inflight' = [inflight EXCEPT !.reg = @ + 1]
     /\ UNCHANGED <<trace, lq, sq, sta, got, outside, history>>

\* reg_RAW_release: one source less to wait for in each instruction that waits for s.
WaitsFor(s, t) == {j \in Src : t \in At(s).registers_depend_on_me[j]}
StillWaits(s, t) == At(t).num_reg_dependent - Cardinality(WaitsFor(s, t))
Released(s) == {t \in Slot : WaitsFor(s, t) # {} /\ StillWaits(s, t) = 0}

Woken_All(s) == Ascending(Released(s))

\* Those that do not access memory go to RTE0; schedule_memory_instruction scans for the rest.
Woken(s) == Ascending({t \in Released(s) : ~IsMemory(t)})

\* The entry of slot t as slot s completes.
WithoutSource(t, s) ==
  [At(t) EXCEPT !.num_reg_dependent = IF InRob(t) THEN StillWaits(s, t) ELSE @,
                !.reg_ready = @ \/ t \in Released(s),
                !.scheduled = IF t \notin Released(s) THEN @
                              ELSE IF IsMemory(t) THEN "INFLIGHT" ELSE "COMPLETED"]

\* update_rob looks for completed executions only while some are in flight.
complete_execution(s) ==
  /\ inflight.reg > 0 \/ inflight.mem > 0
  /\ InRob(s)
  /\ At(s).executed = "INFLIGHT"
  /\ IsMemory(s) => At(s).num_mem_ops = 0
  /\ rob' = [rob EXCEPT !.at = [t \in Slot |->
                IF t = s THEN [At(s) EXCEPT !.executed = "COMPLETED"] ELSE WithoutSource(t, s)]]
  /\ ready' = [ready EXCEPT !.RTE0 = PushAll(@, Woken(s))]
  /\ inflight' = IF IsMemory(s) THEN [inflight EXCEPT !.mem = @ - 1]
                 ELSE [inflight EXCEPT !.reg = @ - 1]
  /\ UNCHANGED <<trace, lq, sq, sta, got, outside, history>>

-----------------------------------------------------------------------------
(* Memory operations that are done: num_mem_ops--, and when none is left   *)
(* inflight_mem_executions++.                                              *)

WithoutOps(e, n) == [e EXCEPT !.num_mem_ops = @ - n]

OpsDone_EachCounts(q, n) ==
  [q EXCEPT !.rob.at = [s \in Slot |-> WithoutOps(q.rob.at[s], n[s])],
            !.inflight.mem = @ + Cardinality({s \in Slot : n[s] > 0})]

OpsDone(q, n) ==       \* n[s]: operations of slot s that are done
  [q EXCEPT !.rob.at = [s \in Slot |-> WithoutOps(q.rob.at[s], n[s])],
            !.inflight.mem = @ + Cardinality({s \in Slot : n[s] > 0 /\ q.rob.at[s].num_mem_ops = n[s]})]

\* The loads in L have their data, value[l]: their entries are released.
release_load_queue(q, L, value) ==
  LET n == [s \in Slot |-> Cardinality({l \in L : q.lq[l].rob_index = s})]
      Of(i, j) == {l \in L : q.lq[l].id = i /\ q.lq[l].data_index = j}
  IN [OpsDone(q, n) EXCEPT
        !.lq = [l \in Lq |-> IF l \in L THEN NoLoad ELSE q.lq[l]],
        !.got = [i \in DOMAIN q.got |-> [j \in DOMAIN q.got[i] |->
                   IF Of(i, j) = {} THEN q.got[i][j] ELSE value[CHOOSE l \in Of(i, j) : TRUE]]]]

-----------------------------------------------------------------------------
(* do_memory_scheduling: operands enter the load and store queues.         *)

OlderStores_InQueue(s, a) ==
  {p \in Slot : Older(p, s) /\ \E f \in Sq : sq.at[f].id = At(p).id /\ sq.at[f].addr = a}

\* Stores to a in the ROB that come before slot s; mem_RAW_dependency marks the nearest.
OlderStores(s, a) == {p \in Slot : Older(p, s) /\ a \in StoresOf(InstrIn(p))}
NearestStore(s, a) == Youngest(OlderStores(s, a))

\* The first entry of the load queue that is empty.
FreeLoad(q) == CHOOSE l \in Lq :
  q.lq[l].addr = Nil /\ \A m \in 0 .. l - 1 : q.lq[m].addr # Nil

Forwarders_None(q, id, a) == {}

\* Entries of the store queue of the producer, already executed: they forward at once.
Forwarders(q, id, a) ==
  {f \in Sq : q.sq.at[f].addr = a /\ q.sq.at[f].id = id /\ q.sq.at[f].fetched = "COMPLETED"}

\* A load without an older store in the ROB goes to the DTLB; one with waits for the
\* store, unless the store has executed and forwards at once.
LoadAdded(e, j, l) == [e EXCEPT !.source_added = @ \cup {j}, !.lq_index[j] = l]
WaitedFor(e, s) == [e EXCEPT !.memory_depend_on_me = @ \cup {s}]

add_load_queue(q, s, j) ==
  LET a == InstrIn(s).loads[j]
      l == FreeLoad(q)
      entry == [NoLoad EXCEPT !.id = At(s).id, !.addr = a, !.rob_index = s, !.data_index = j]
      added == [q EXCEPT !.rob.at[s] = LoadAdded(@, j, l)]
      p == NearestStore(s, a)
      executed == Forwarders(q, At(p).id, a)
      waiting == [added EXCEPT
                    !.rob.at[p] = WaitedFor(@, s),
                    !.lq[l] = [entry EXCEPT !.producer_id = At(p).id, !.translated = "INFLIGHT"]]
  IN IF OlderStores(s, a) = {}
     THEN [added EXCEPT !.lq[l] = entry, !.ready.RTL0 = Push(@, l)]
     ELSE IF executed = {}
     THEN waiting
     ELSE release_load_queue(waiting, {l}, [m \in {l} |-> q.sq.at[CHOOSE f \in executed : TRUE].id])

MayAddStore_AnyOrder(q, s) ==
  Cardinality({f \in Sq : q.sq.at[f].addr # Nil}) < SQ_SIZE

\* Stores enter the store queue in the order of the program: STA holds it.
MayAddStore(q, s) ==
  /\ Cardinality({f \in Sq : q.sq.at[f].addr # Nil}) < SQ_SIZE
  /\ First(q.sta) = At(s).id

StoreAdded(e, k, f) == [e EXCEPT !.destination_added = @ \cup {k}, !.sq_index[k] = f]

add_store_queue(q, s, k) ==
  LET f == q.sq.tail
      entry == [NoStore EXCEPT !.id = At(s).id, !.addr = InstrIn(s).stores[k],
                               !.rob_index = s, !.data_index = k]
  IN [q EXCEPT !.sq.at[f] = entry, !.sq.tail = (@ + 1) % SQ_SIZE,
               !.rob.at[s] = StoreAdded(@, k, f),
               !.sta = Pop(@),
               !.ready.RTS0 = Push(@, f)]

\* check_and_add_lsq adds every operand that has a place, loads first, in their order.
LqHasRoom(q) == \E l \in Lq : q.lq[l].addr = Nil

AddLoads(q, s) ==
  LET add[j \in 0 .. Len(InstrIn(s).loads)] ==
        IF j = 0 THEN q
        ELSE IF j \notin At(s).source_added /\ LqHasRoom(add[j - 1])
             THEN add_load_queue(add[j - 1], s, j) ELSE add[j - 1]
  IN add[Len(InstrIn(s).loads)]

AddStores(q, s) ==
  LET add[k \in 0 .. Len(InstrIn(s).stores)] ==
        IF k = 0 THEN q
        ELSE IF k \notin At(s).destination_added /\ MayAddStore(add[k - 1], s)
             THEN add_store_queue(add[k - 1], s, k) ELSE add[k - 1]
  IN add[Len(InstrIn(s).stores)]

check_and_add_lsq(s) == AddStores(AddLoads(Core, s), s)

Issued(e) == [e EXCEPT !.scheduled = "COMPLETED", !.executed = "INFLIGHT"]

AllAdded(e, instr) ==
  /\ e.source_added = DOMAIN instr.loads
  /\ e.destination_added = DOMAIN instr.stores

\* Some operand of slot s is ready and has a place.
MayAdd(s) ==
  /\ InRob(s)
  /\ IsMemory(s)
  /\ At(s).reg_ready
  /\ At(s).scheduled = "INFLIGHT"
  /\ check_and_add_lsq(s) # Core

\* The scan tries older instructions first.  An instruction is scheduled once all its
\* operands are in; until then it is tried again, and what it has added stays.
do_memory_scheduling(s) ==
  LET q == check_and_add_lsq(s)
  IN /\ MayAdd(s)
     /\ \A t \in Slot : Older(t, s) => ~MayAdd(t)
     /\ Become(IF AllAdded(q.rob.at[s], InstrIn(s))
               THEN [q EXCEPT !.rob.at[s] = Issued(@)]
               ELSE q)
     /\ UNCHANGED <<trace, outside, history>>

-----------------------------------------------------------------------------
(* operate_lsq: the heads of RTS0, RTS1, RTL0 and RTL1.                    *)

\* RTS0 and RTL0: ask the DTLB for the translation.
TranslateStore ==
  LET f == First(ready.RTS0)
  IN /\ f # Nil
     /\ dtlb' = dtlb \cup {<<"store", f>>}
     /\ sq' = [sq EXCEPT !.at[f].translated = "INFLIGHT"]
     /\ ready' = [ready EXCEPT !.RTS0 = Pop(@)]
     /\ UNCHANGED <<trace, rob, lq, sta, inflight, got, l1d, l1dWQ, history>>

TranslateLoad ==
  LET l == First(ready.RTL0)
  IN /\ l # Nil
     /\ dtlb' = dtlb \cup {<<"load", l>>}
     /\ lq' = [lq EXCEPT ![l].translated = "INFLIGHT"]
     /\ ready' = [ready EXCEPT !.RTL0 = Pop(@)]
     /\ UNCHANGED <<trace, rob, sq, sta, inflight, got, l1d, l1dWQ, history>>

DependentLoads_AnyAddress(s, a) ==
  {d \in Slot \X Src :
     /\ d[1] \in At(s).memory_depend_on_me
     /\ d[2] \in At(d[1]).source_added}

\* The loads in the queue of the instructions that wait for slot s, at the address of
\* the store that executes: <<slot, source>>.
DependentLoads(s, a) ==
  {d \in Slot \X Src :
     /\ d[1] \in At(s).memory_depend_on_me
     /\ d[2] \in At(d[1]).source_added
     /\ InstrIn(d[1]).loads[d[2]] = a}

\* The assert of execute_store: each of these loads names this store as its producer.
ForwardsToItsLoads(f) ==
  \A d \in DependentLoads(sq.at[f].rob_index, sq.at[f].addr) :
    lq[At(d[1]).lq_index[d[2]]].producer_id = sq.at[f].id

ForwardTo(f) ==
  {At(d[1]).lq_index[d[2]] : d \in DependentLoads(sq.at[f].rob_index, sq.at[f].addr)}

\* RTS1: the store has its data, and forwards them to the loads that wait for it.
\* Where the assert fails the program stops.
execute_store ==
  LET f == First(ready.RTS1)
      s == sq.at[f].rob_index
      executed == OpsDone([Core EXCEPT !.sq.at[f].fetched = "COMPLETED",
                                       !.ready.RTS1 = Pop(@)],
                          [t \in Slot |-> IF t = s THEN 1 ELSE 0])
  IN /\ f # Nil
     /\ ForwardsToItsLoads(f)
     /\ Become(release_load_queue(executed, ForwardTo(f), [l \in Lq |-> sq.at[f].id]))
     /\ UNCHANGED <<trace, outside, history>>

\* RTL1: ask the L1D for the data.
execute_load ==
  LET l == First(ready.RTL1)
  IN /\ l # Nil
     /\ l1d' = l1d \cup {l}
     /\ lq' = [lq EXCEPT ![l].fetched = "INFLIGHT"]
     /\ ready' = [ready EXCEPT !.RTL1 = Pop(@)]
     /\ UNCHANGED <<trace, rob, sq, sta, inflight, got, dtlb, l1dWQ, history>>

-----------------------------------------------------------------------------
(* complete_data_fetch: a packet of DTLB.PROCESSED or L1D.PROCESSED, with  *)
(* the requests merged into it.                                            *)

\* Its own index first, then the merged ones in ascending order.
InOrderOf(own, S) == IF own \in S THEN <<own>> \o Ascending(S \ {own}) ELSE Ascending(S)

TranslationDone(own, packet) ==
  LET stores == {f \in Sq : <<"store", f>> \in packet}
      loads == {l \in Lq : <<"load", l>> \in packet}
  IN /\ packet \subseteq dtlb
     /\ own \in packet
     /\ dtlb' = dtlb \ packet
     /\ sq' = [sq EXCEPT !.at = [f \in Sq |->
                 IF f \in stores THEN [@[f] EXCEPT !.translated = "COMPLETED"] ELSE @[f]]]
     /\ lq' = [l \in Lq |->
                 IF l \in loads THEN [lq[l] EXCEPT !.translated = "COMPLETED"] ELSE lq[l]]
     /\ ready' = [ready EXCEPT
                    !.RTS1 = PushAll(@, IF own[1] = "store" THEN InOrderOf(own[2], stores)
                                          ELSE Ascending(stores)),
                    !.RTL1 = PushAll(@, IF own[1] = "load" THEN InOrderOf(own[2], loads)
                                          ELSE Ascending(loads))]
     /\ UNCHANGED <<trace, rob, sta, inflight, got, l1d, l1dWQ, history>>

DataDone(packet) ==
  /\ packet # {}
  /\ packet \subseteq l1d
  /\ l1d' = l1d \ packet
  /\ Become(release_load_queue(Core, packet, [l \in packet |-> memory[lq[l].addr]]))
  /\ UNCHANGED <<trace, dtlb, l1dWQ, history>>

\* The L1D takes a store out of its write queue; what it does with it is in CacheHierarchy.
L1DWrites ==
  /\ l1dWQ > 0
  /\ l1dWQ' = l1dWQ - 1
  /\ UNCHANGED <<trace, core, dtlb, l1d, history>>

-----------------------------------------------------------------------------
(* Retirement, in order.                                                   *)

\* The entries of the store queue that retirement empties, and how far the head moves.
StoreEntries(s) == {At(s).sq_index[k] : k \in Dst} \ {Nil}

retire_rob ==
  LET s == rob.head
      instr == InstrIn(s)
      released == StoreEntries(s)
  IN /\ InRob(s)
     /\ At(s).executed = "COMPLETED"
     /\ l1dWQ + Len(instr.stores) \leq L1D_WQ_SIZE
     /\ l1dWQ' = l1dWQ + Len(instr.stores)
     /\ sq' = [sq EXCEPT !.at = [f \in Sq |-> IF f \in released THEN NoStore ELSE @[f]],
                         !.head = (@ + Cardinality(released)) % SQ_SIZE]
     /\ rob' = [rob EXCEPT !.at[s] = NoInstr, !.head = (@ + 1) % ROB_SIZE]
     /\ memory' = [a \in Addr |-> IF a \in StoresOf(instr) THEN At(s).id ELSE memory[a]]
     /\ results' = Append(results, got[At(s).id])
     /\ UNCHANGED <<trace, lq, sta, ready, inflight, got, dtlb, l1d>>

Done == Len(results) = Len(program) /\ l1dWQ = 0 /\ UNCHANGED vars

\* A step of the core, or an answer it waits for.
Work ==
  \/ read_from_trace
  \/ add_to_rob
  \/ \E s \in Slot : do_scheduling(s)
  \/ \E ring \in {"RTE0", "RTE1"} : do_execution(ring)
  \/ \E s \in Slot : complete_execution(s)
  \/ TranslateStore
  \/ TranslateLoad
  \/ execute_load
  \/ \E packet \in SUBSET dtlb : \E own \in packet : TranslationDone(own, packet)
  \/ \E packet \in SUBSET l1d : DataDone(packet)
  \/ L1DWrites
  \/ retire_rob
  \/ execute_store
  \/ \E s \in Slot : do_memory_scheduling(s)

Next == Work \/ Done

Spec == Init /\ [][Next]_vars

\* Every cycle calls every handler, and DTLB and L1D answer every request: what can move
\* moves.  No handler is singled out, for no step of one undoes what another has done.
Fairness == WF_vars(Work)

FairSpec == Spec /\ Fairness

-----------------------------------------------------------------------------
(* Properties.                                                             *)

Progress == {"NO", "INFLIGHT", "COMPLETED"}
Request == ({"load"} \X Lq) \cup ({"store"} \X Sq)

\* The state of the core keeps its types: indices stay within the queues and rings they
\* index, counters that the code keeps in unsigned or asserted ints never go below zero.
TypeOK ==
  /\ read \in 0 .. Len(program) /\ dispatched \in 0 .. read
  /\ rob.at \in [Slot -> [
       id : 0 .. Len(program), scheduled : Progress, executed : Progress, reg_ready : BOOLEAN,
       num_reg_dependent : Nat, num_mem_ops : Nat, source_added : SUBSET Src,
       destination_added : SUBSET Dst, registers_depend_on_me : [Src -> SUBSET Slot],
       memory_depend_on_me : SUBSET Slot, lq_index : [Src -> Lq \cup {Nil}],
       sq_index : [Dst -> Sq \cup {Nil}]]]
  /\ rob.head \in Slot /\ rob.tail \in Slot /\ sq.head \in Sq /\ sq.tail \in Sq
  /\ lq \in [Lq -> [id : 0 .. Len(program), addr : Addr \cup {Nil}, rob_index : Slot,
                    data_index : 0 .. NUM_INSTR_SOURCES, producer_id : Nat \cup {Nil},
                    translated : Progress, fetched : Progress]]
  /\ sq.at \in [Sq -> [id : 0 .. Len(program), addr : Addr \cup {Nil}, rob_index : Slot,
                       data_index : 0 .. NUM_INSTR_DESTINATIONS,
                       translated : Progress, fetched : Progress]]
  /\ inflight \in [reg : Nat, mem : Nat]
  /\ dtlb \subseteq Request /\ l1d \subseteq Lq /\ l1dWQ \in 0 .. L1D_WQ_SIZE

\* Places a load in the queue can be: it waits for a store, or its index is in RTL0, in
\* a DTLB request, in RTL1 or in an L1D request.
LoadPlaces(l) ==
  Cardinality({i \in Lq : ready.RTL0.at[i] = l}) + Cardinality({i \in Lq : ready.RTL1.at[i] = l})
  + Cardinality({r \in dtlb : r = <<"load", l>>}) + Cardinality({r \in l1d : r = l})
  + IF lq[l].producer_id # Nil THEN 1 ELSE 0

StorePlaces(f) ==
  Cardinality({i \in Sq : ready.RTS0.at[i] = f}) + Cardinality({i \in Sq : ready.RTS1.at[i] = f})
  + Cardinality({r \in dtlb : r = <<"store", f>>})
  + IF sq.at[f].fetched = "COMPLETED" THEN 1 ELSE 0

\* No load or store is lost on its way through rings and requests, none is there twice,
\* and no index of a released entry stays behind to be taken for the next owner's
\* (add_load_queue, operate_lsq, complete_data_fetch, release_load_queue).
EveryOperandIsInOnePlace ==
  /\ \A l \in Lq : LoadPlaces(l) = IF lq[l].addr # Nil THEN 1 ELSE 0
  /\ \A f \in Sq : StorePlaces(f) = IF sq.at[f].addr # Nil THEN 1 ELSE 0

\* A push never overwrites an index: each ring, STA included, holds its indices from
\* head to tail and the sentinel elsewhere (RTL0_tail++ and the like count nothing).
RingsAreIntact ==
  /\ \A ring \in DOMAIN ready : Contiguous(ready[ring])
  /\ Contiguous(sta)

\* An instruction that does not access memory is in one ready-to-execute ring, once,
\* from the time its sources are ready until it executes (do_scheduling, reg_RAW_release).
EveryReadyInstructionIsQueuedOnce ==
  \A s \in Slot :
    Cardinality({x \in {"RTE0", "RTE1"} \X Slot : ready[x[1]].at[x[2]] = s})
    = IF /\ InRob(s)
         /\ ~IsMemory(s)
         /\ At(s).scheduled = "COMPLETED"
         /\ At(s).reg_ready
         /\ At(s).executed = "NO"
      THEN 1 ELSE 0

\* What the rings hand from stage to stage is exact: no operand and no instruction is
\* lost, overwritten, handed on twice or early, or left behind for the next owner of its
\* slot (the RTE, RTL and RTS rings, STA, and the requests to DTLB and L1D).
HandoversAreExact ==
  /\ EveryOperandIsInOnePlace
  /\ RingsAreIntact
  /\ EveryReadyInstructionIsQueuedOnce

\* num_mem_ops counts the operands that have no data yet: not in a queue, or in the
\* load queue, or in the store queue and not executed; it is asserted not to be negative.
\* The in-flight counters, without which update_rob completes nothing, are exact.
OperandsAccountedFor ==
  /\ \A s \in Slot : InRob(s) =>
       At(s).num_mem_ops =
         Cardinality(DOMAIN InstrIn(s).loads \ At(s).source_added)
         + Cardinality(DOMAIN InstrIn(s).stores \ At(s).destination_added)
         + Cardinality({l \in Lq : lq[l].addr # Nil /\ lq[l].rob_index = s})
         + Cardinality({f \in Sq : /\ sq.at[f].addr # Nil
                                   /\ sq.at[f].rob_index = s
                                   /\ sq.at[f].fetched # "COMPLETED"})
  /\ inflight.reg =
       Cardinality({s \in Slot : InRob(s) /\ ~IsMemory(s) /\ At(s).executed = "INFLIGHT"})
  /\ inflight.mem =
       Cardinality({s \in Slot : InRob(s) /\ IsMemory(s) /\ At(s).executed = "INFLIGHT"
                                /\ At(s).num_mem_ops = 0})

\* The last instruction before n that writes register r, 0 when there is none.
WriterBefore(n, r) ==
  LET W == {m \in 1 .. n - 1 : r \in program[m].dst}
  IN IF W = {} THEN 0 ELSE CHOOSE m \in W : \A k \in W : k \leq m

Executed(n) == n \leq Len(results) \/ \E s \in Slot : At(s).id = n /\ At(s).executed = "COMPLETED"

\* Nothing executes, and no operand is issued to memory, before the instruction that
\* writes each of its source registers last in the program has executed.
ExecutesAfterItsProducers ==
  \A s \in Slot :
    (InRob(s) /\ (At(s).executed # "NO" \/ At(s).source_added # {} \/ At(s).destination_added # {}))
    => \A j \in DOMAIN InstrIn(s).src :
         LET p == WriterBefore(At(s).id, InstrIn(s).src[j]) IN p # 0 => Executed(p)

\* The store queue holds its stores from head to tail in program order, the order in
\* which retirement releases them, and STA the ones that follow: retire_rob empties the
\* entries its instruction names and moves the head by their number.
StoreQueueInProgramOrder ==
  LET n == SqOccupancy
      InQueue(i) == sq.at[(sq.head + i) % SQ_SIZE]
  IN /\ \A i \in 0 .. SQ_SIZE - 1 : InQueue(i).addr # Nil <=> i < n
     /\ \A i, j \in 0 .. n - 1 : i < j => InQueue(i).id \leq InQueue(j).id
     /\ First(sta) # Nil => \A i \in 0 .. n - 1 : InQueue(i).id \leq First(sta)

\* Of the stores of the trace before instruction i, that of m is the last to address a; 0
\* stands for the initial contents of memory.
IsLastStore(p, i, a, m) ==
  /\ m \in 0 .. i - 1
  /\ m # 0 => a \in StoresOf(p[m])
  /\ \A k \in m + 1 .. i - 1 : a \notin StoresOf(p[k])

\* An instruction stores to an address once: the tracer keeps one operand for each address
\* (src/tracer/champsim_tracer.cpp:279).
StoresAreDistinct(p) ==
  \A n \in DOMAIN p : \A k, l \in DOMAIN p[n].stores : p[n].stores[k] = p[n].stores[l] => k = l

\* Where an instruction loads two addresses that an earlier one stores, and that one is the
\* last to store the first of them, it is the last to store the second.
NoneOverwritten(p) ==
  \A n \in DOMAIN p : \A i, j \in DOMAIN p[n].loads : \A m \in 1 .. n - 1 :
    IsLastStore(p, n, p[n].loads[i], m) /\ p[n].loads[j] \in StoresOf(p[m])
      => IsLastStore(p, n, p[n].loads[j], m)

\* The assert of execute_store (src/ooo_cpu.cc:1650): when a store executes, each load in
\* the queue at its address whose instruction waits for the store's instruction names
\* that instruction as its producer.
StoresForwardToTheirLoads ==
  \A i \in Sq : ready.RTS1.at[i] # Nil => ForwardsToItsLoads(ready.RTS1.at[i])

IO == INSTANCE InOrder

\* The out-of-order core implements the in-order machine: what the loads of each retired
\* instruction returned is what the program order says, through forwarding, waiting,
\* merging and reordering.
ImplementsInOrder == IO!InOrderSpec

\* "This structure is required to execute store instructions properly without deadlock"
\* (STA, src/ooo_cpu.cc:226): until the trace is done something can move, and the core never
\* comes to where the deadlock check of the main loop aborts (src/main.cc:885).
NeverStuck == Len(results) < Len(program) => ENABLED Work

\* The instruction at the head of the ROB has a load that is not in the load queue, and
\* every entry of the queue is a load that waits for a store.
LoadQueueClogged ==
  /\ InRob(rob.head)
  /\ At(rob.head).source_added # DOMAIN InstrIn(rob.head).loads
  /\ \A l \in Lq : lq[l].addr # Nil /\ lq[l].producer_id # Nil

\* Every instruction of the trace retires, whatever order the DTLB and the L1D answer in,
\* unless the load queue clogs for ever: nothing else stops the core, no lost wake-up, no
\* counter, no full ring or store queue and no wait of operands for each other.
RetiresUnlessClogged == <>(Len(results) = Len(program)) \/ <>[]LoadQueueClogged

=============================================================================
