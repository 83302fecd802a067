-------------------------------- MODULE Dram --------------------------------
(***************************************************************************)
(* MEMORY_CONTROLLER (src/dram_controller.cc): one DRAM channel with its   *)
(* read and write queues, its banks and its data bus.                      *)
(*                                                                         *)
(* A simulated cycle is one pass of the main loop.  In it the controller   *)
(* runs operate() once, in three stages that nothing interrupts:           *)
(*   BeginCycle  - the clock advances and the read/write mode is chosen;   *)
(*   Schedule    - one queued request of the mode's queue gets its bank;   *)
(*   Process     - one request whose bank is ready uses the data bus.      *)
(* Then, in stage "add", the last-level cache (the client) runs and calls  *)
(* add_rq and add_wq any number of times.                                  *)
(*                                                                         *)
(* A packet is reduced to its block address, its event_cycle and its       *)
(* scheduled flag.  Block address 0 marks an empty slot, as in the code.   *)
(***************************************************************************)
EXTENDS Integers, FiniteSets

CONSTANTS
  RQ_SIZE, WQ_SIZE,  \* DRAM_RQ_SIZE, DRAM_WQ_SIZE
  HIGH_WM, LOW_WM,   \* DRAM_WRITE_HIGH_WM, DRAM_WRITE_LOW_WM
  BANKS,             \* DRAM_BANKS of the channel's one rank
  ROW_BLOCKS,        \* blocks of a bank's row (DRAM_COLUMNS)
  ROWS,              \* DRAM_ROWS
  tCAS, tRP_tRCD,    \* column access; precharge and activate
  RETURN_TIME,       \* DRAM_DBUS_RETURN_TIME
  TURN_AROUND,       \* DRAM_DBUS_TURN_AROUND_TIME
  MAX_ADDR,          \* block addresses are 1..MAX_ADDR
  MaxLag,            \* bound: cycles a request may have waited in the LLC
  MaxRequests,       \* bound: calls of add_rq and add_wq
  LastCall,          \* bound: the last cycle with such a call
  MaxCycle           \* bound: simulated cycles

ASSUME SizesAssumption ==
  /\ RQ_SIZE \in Nat \ {0}
  /\ WQ_SIZE \in Nat \ {0}
  /\ HIGH_WM \in 1..WQ_SIZE
  /\ LOW_WM \in 1..HIGH_WM

ASSUME GeometryAssumption ==
  /\ BANKS \in Nat \ {0}
  /\ ROW_BLOCKS \in Nat \ {0}
  /\ ROWS \in Nat \ {0}
  /\ MAX_ADDR \in Nat \ {0}

\* 12.5 ns, 25 ns and 7.5 ns in the code: a column access outlasts a turn-around.
ASSUME TimingAssumption ==
  /\ tCAS \in Nat
  /\ tRP_tRCD \in Nat
  /\ RETURN_TIME \in Nat
  /\ TURN_AROUND \in 0..tCAS

ASSUME BoundsAssumption ==
  /\ MaxLag \in Nat
  /\ MaxRequests \in Nat
  /\ LastCall \in Nat
  /\ MaxCycle \in Nat

VARIABLES
  now,                  \* current_core_cycle
  stage,                \* how far the main loop is in the current cycle
  warm,                 \* all_warmup_complete >= NUM_CPUS
  entry,                \* entry[q][i]: slot i of queue q
  occupancy,            \* occupancy[q]
  next_schedule,        \* next_schedule_index and _cycle of each queue
  next_process,         \* next_process_index and _cycle of each queue
  bank_request,         \* one record per bank
  scheduled,            \* scheduled_reads ("RQ") and scheduled_writes ("WQ")
  write_mode,
  dbus_cycle_available,
  awaiting,             \* external: blocks the LLC's MSHRs are waiting for
  requests,             \* calls made so far (bounded by MaxRequests)
  last_switch,          \* history: the cycle of the latest mode switch
  stale_writes          \* history: queued writes whose data a later add_wq replaced

queues == <<entry, occupancy, next_schedule, next_process>>
client == <<awaiting, requests>>
vars == <<now, stage, warm, queues, bank_request, scheduled, write_mode,
          dbus_cycle_available, client, last_switch, stale_writes>>

-----------------------------------------------------------------------------
Queue == {"RQ", "WQ"}
Size == [q \in Queue |-> IF q = "RQ" THEN RQ_SIZE ELSE WQ_SIZE]
Slot(q) == 0 .. Size[q] - 1
Addr == 1 .. MAX_ADDR
Bank == 0 .. BANKS - 1
Row == 0 .. ROWS - 1
NoRow == -1             \* UINT32_MAX: no row of the bank is open

BankOf(a) == a % BANKS
RowOf(a) == (a \div (BANKS * ROW_BLOCKS)) % ROWS

EmptySlot == [address |-> 0, event_cycle |-> 0, scheduled |-> FALSE]
IdleBank == [working |-> FALSE, op |-> "none", request_index |-> -1,
             open_row |-> NoRow, cycle_available |-> 0]

Full(q) == occupancy[q] = Size[q]
Holds(e, q, a) == \E i \in Slot(q) : e[q][i].address = a
ActiveQueue == IF write_mode THEN "WQ" ELSE "RQ"

\* The slot of the set S with the least event_cycle, the lowest index on a tie.
Oldest(slots, S) ==
  CHOOSE i \in S : \A j \in S :
     \/ slots[i].event_cycle < slots[j].event_cycle
     \/ slots[i].event_cycle = slots[j].event_cycle /\ i <= j

\* Mutant: the index of "none" is one too far.
Next_of_PastTheEnd(q, slots, S) ==
  IF S = {} THEN [index |-> Size[q] + 1, cycle |-> 0]
            ELSE [index |-> Oldest(slots, S), cycle |-> slots[Oldest(slots, S)].event_cycle]

\* What update_schedule_cycle and update_process_cycle cache; the index Size[q]
\* says that there is none, and its cycle is never read.
Next_of(q, slots, S) ==
  IF S = {} THEN [index |-> Size[q], cycle |-> 0]
            ELSE [index |-> Oldest(slots, S), cycle |-> slots[Oldest(slots, S)].event_cycle]

Unscheduled(q, slots) == {i \in Slot(q) : slots[i].address # 0 /\ ~slots[i].scheduled}
Scheduled(q, slots) == {i \in Slot(q) : slots[i].scheduled}
Occupied(q, slots) == {i \in Slot(q) : slots[i].address # 0}
update_schedule_cycle(q, slots) == Next_of(q, slots, Unscheduled(q, slots))
update_process_cycle(q, slots) == Next_of(q, slots, Scheduled(q, slots))

-----------------------------------------------------------------------------
Init ==
  /\ now = 0
  /\ stage = "add"
  /\ warm = FALSE
  /\ entry = [q \in Queue |-> [i \in Slot(q) |-> EmptySlot]]
  /\ occupancy = [q \in Queue |-> 0]
  /\ next_schedule = [q \in Queue |-> [index |-> Size[q], cycle |-> 0]]
  /\ next_process = [q \in Queue |-> [index |-> Size[q], cycle |-> 0]]
  /\ bank_request = [b \in Bank |-> IdleBank]
  /\ scheduled = [q \in Queue |-> 0]
  /\ write_mode = FALSE
  /\ dbus_cycle_available = 0
  /\ awaiting = {}
  /\ requests = 0
  /\ last_switch = 0
  /\ stale_writes = {}

(***************************************************************************)
(* reset_remain_requests: every scheduled request of queue q gives its     *)
(* bank back and becomes unscheduled, to be scheduled again in a later     *)
(* burst.  The row it activated stays open only if its column access had   *)
(* begun.                                                                  *)
(***************************************************************************)
TouchedBanks(q) == {BankOf(entry[q][i].address) : i \in Scheduled(q, entry[q])}
ScheduledOn(q, b) == CHOOSE i \in Scheduled(q, entry[q]) : BankOf(entry[q][i].address) = b

\* Mutants: the banks are not given back; next_process is not refreshed.
reset_KeepingBanks(q) ==
  LET slots == [i \in Slot(q) |-> [entry[q][i] EXCEPT !.scheduled = FALSE]]
  IN /\ entry' = [entry EXCEPT ![q] = slots]
     /\ scheduled' = [scheduled EXCEPT ![q] = 0]
     /\ next_schedule' = [p \in Queue |-> update_schedule_cycle(p, entry'[p])]
     /\ next_process' = [p \in Queue |-> update_process_cycle(p, entry'[p])]
     /\ UNCHANGED <<occupancy, bank_request>>

reset_StaleIndex(q) ==
  LET slots == [i \in Slot(q) |-> [entry[q][i] EXCEPT !.scheduled = FALSE]]
  IN /\ entry' = [entry EXCEPT ![q] = slots]
     /\ scheduled' = [scheduled EXCEPT ![q] = 0]
     /\ bank_request' = [b \in Bank |-> IF b \in TouchedBanks(q) THEN IdleBank ELSE bank_request[b]]
     /\ next_schedule' = [p \in Queue |-> update_schedule_cycle(p, entry'[p])]
     /\ UNCHANGED <<occupancy, next_process>>

reset_remain_requests(q) ==
  LET slots == [i \in Slot(q) |->
                  IF entry[q][i].scheduled
                    THEN [entry[q][i] EXCEPT !.scheduled = FALSE, !.event_cycle = now']
                    ELSE entry[q][i]]
  IN /\ entry' = [entry EXCEPT ![q] = slots]
     /\ bank_request' = [b \in Bank |->
          IF b \in TouchedBanks(q)
            THEN [IdleBank EXCEPT
                   !.open_row = IF bank_request[b].cycle_available - tCAS <= now'
                                  THEN RowOf(entry[q][ScheduledOn(q, b)].address)
                                  ELSE NoRow,
                   !.cycle_available = now']
            ELSE bank_request[b]]
     /\ scheduled' = [p \in Queue |->
          scheduled[p] - Cardinality({b \in TouchedBanks(q) : bank_request[b].op = p})]
     /\ next_schedule' = [p \in Queue |-> update_schedule_cycle(p, entry'[p])]
     /\ next_process' = [p \in Queue |-> update_process_cycle(p, entry'[p])]
     /\ UNCHANGED occupancy

\* Mutant: requests of the mode that ends stay scheduled.
SwitchTo_WithoutReset(mode, abandoned) ==
  /\ write_mode' = mode
  /\ dbus_cycle_available' = dbus_cycle_available + TURN_AROUND
  /\ last_switch' = now'
  /\ UNCHANGED <<queues, bank_request, scheduled>>

SwitchTo(mode, abandoned) ==
  /\ write_mode' = mode
  /\ reset_remain_requests(abandoned)
  /\ dbus_cycle_available' = dbus_cycle_available + TURN_AROUND
  /\ last_switch' = now'

\* Writes are drained when the write queue is nearly full or reads are absent.
MustDrainWrites ==
  \/ occupancy["WQ"] >= HIGH_WM
  \/ occupancy["RQ"] = 0 /\ occupancy["WQ"] > 0

\* Mutant: any read ends a burst of writes, whatever the low watermark.
MayServeReads_AtOnce == occupancy["WQ"] = 0 \/ occupancy["RQ"] > 0

MayServeReads ==
  \/ occupancy["WQ"] = 0
  \/ occupancy["RQ"] > 0 /\ occupancy["WQ"] < LOW_WM

EnterWriteMode == ~write_mode /\ MustDrainWrites /\ SwitchTo(TRUE, "RQ")
LeaveWriteMode == write_mode /\ MayServeReads /\ SwitchTo(FALSE, "WQ")
KeepMode ==
  /\ IF write_mode THEN ~MayServeReads ELSE ~MustDrainWrites
  /\ UNCHANGED <<queues, bank_request, scheduled, write_mode, dbus_cycle_available, last_switch>>

BeginCycle ==
  /\ stage = "add"
  /\ now < MaxCycle
  /\ now' = now + 1
  /\ stage' = "schedule"
  /\ EnterWriteMode \/ LeaveWriteMode \/ KeepMode
  /\ UNCHANGED <<warm, client, stale_writes>>

-----------------------------------------------------------------------------
\* Requests of queue q that could be given a bank, and those among them whose
\* row is the open one.
Ready(q) == {i \in Unscheduled(q, entry[q]) :
               ~bank_request[BankOf(entry[q][i].address)].working}
RowHits(q) == {i \in Ready(q) :
                 bank_request[BankOf(entry[q][i].address)].open_row
                   = RowOf(entry[q][i].address)}

\* Mutant: the column access is free.
Latency_NoCAS(hit) == IF hit THEN 0 ELSE tRP_tRCD

Latency(hit) == IF hit THEN tCAS ELSE tRP_tRCD + tCAS

\* schedule: the oldest row hit, or else the oldest request, takes its bank.
StartAccess(q, i, latency) ==
  LET a == entry[q][i].address
      slots == [entry[q] EXCEPT ![i].scheduled = TRUE,
                                ![i].event_cycle = now + latency]
  IN /\ entry' = [entry EXCEPT ![q] = slots]
     /\ bank_request' = [bank_request EXCEPT ![BankOf(a)] =
          [working |-> TRUE, op |-> q, request_index |-> i,
           open_row |-> RowOf(a), cycle_available |-> now + latency]]
     /\ scheduled' = [scheduled EXCEPT ![q] = @ + 1]
     /\ next_schedule' = [next_schedule EXCEPT ![q] = update_schedule_cycle(q, slots)]
     /\ next_process' = [next_process EXCEPT ![q] = update_process_cycle(q, slots)]

schedule(q) ==
  /\ Ready(q) # {}
  /\ IF RowHits(q) # {}
       THEN StartAccess(q, Oldest(entry[q], RowHits(q)), Latency(TRUE))
       ELSE StartAccess(q, Oldest(entry[q], Ready(q)), Latency(FALSE))

Due(next, q) == next[q].index < Size[q] /\ next[q].cycle <= now

Schedule ==
  /\ stage = "schedule"
  /\ stage' = "process"
  /\ \/ Due(next_schedule, ActiveQueue) /\ schedule(ActiveQueue)
     \/ /\ ~Due(next_schedule, ActiveQueue) \/ Ready(ActiveQueue) = {}
        /\ UNCHANGED <<entry, next_schedule, next_process, bank_request, scheduled>>
  /\ UNCHANGED <<now, warm, occupancy, write_mode, dbus_cycle_available, client,
                 last_switch, stale_writes>>

(***************************************************************************)
(* process: the request whose access ends first uses the data bus and      *)
(* leaves; a read's data goes back to the LLC (return_data).  If the bus   *)
(* is busy the bank is held until it is free.                              *)
(***************************************************************************)
Current(q) == next_process[q].index
CurrentBank(q) == BankOf(entry[q][Current(q)].address)
AccessDone(q) == bank_request[CurrentBank(q)].cycle_available <= now

Transfer(q) ==
  LET slots == [entry[q] EXCEPT ![Current(q)] = EmptySlot]
  IN /\ dbus_cycle_available <= now
     /\ dbus_cycle_available' = now + RETURN_TIME
     /\ bank_request' = [bank_request EXCEPT ![CurrentBank(q)] =
          [@ EXCEPT !.request_index = -1, !.working = FALSE, !.op = "none"]]
     /\ scheduled' = [scheduled EXCEPT ![q] = @ - 1]
     /\ entry' = [entry EXCEPT ![q] = slots]
     /\ occupancy' = [occupancy EXCEPT ![q] = @ - 1]
     /\ next_process' = [next_process EXCEPT ![q] = update_process_cycle(q, slots)]
     /\ IF q = "RQ"
          THEN /\ awaiting' = awaiting \ {entry[q][Current(q)].address}
               /\ UNCHANGED stale_writes
          ELSE /\ stale_writes' = stale_writes \ {entry[q][Current(q)].address}
               /\ UNCHANGED awaiting

BusBusy(q) ==
  /\ dbus_cycle_available > now
  /\ bank_request' = [bank_request EXCEPT ![CurrentBank(q)].cycle_available = dbus_cycle_available]
  /\ UNCHANGED <<dbus_cycle_available, scheduled, entry, occupancy,
                 next_process, awaiting, stale_writes>>

Process ==
  /\ stage = "process"
  /\ stage' = "add"
  /\ \/ /\ Due(next_process, ActiveQueue) /\ AccessDone(ActiveQueue)
        /\ Transfer(ActiveQueue) \/ BusBusy(ActiveQueue)
     \/ /\ ~(Due(next_process, ActiveQueue) /\ AccessDone(ActiveQueue))
        /\ UNCHANGED <<queues, bank_request, scheduled, dbus_cycle_available, awaiting, stale_writes>>
  /\ UNCHANGED <<now, warm, next_schedule, write_mode, requests, last_switch>>

-----------------------------------------------------------------------------
\* Mutant: the first slot, empty or not.
FirstEmpty_First(q) == 0

\* Where add_rq and add_wq put a packet: the first empty slot.
FirstEmpty(q) ==
  CHOOSE i \in Slot(q) : /\ entry[q][i].address = 0
                         /\ \A j \in Slot(q) : entry[q][j].address = 0 => i <= j

Enqueue(q, a, cycle) ==
  LET slots == [entry[q] EXCEPT ![FirstEmpty(q)] =
                  [address |-> a, event_cycle |-> cycle, scheduled |-> FALSE]]
  IN /\ entry' = [entry EXCEPT ![q] = slots]
     /\ occupancy' = [occupancy EXCEPT ![q] = @ + 1]
     /\ next_schedule' = [next_schedule EXCEPT ![q] = update_schedule_cycle(q, slots)]
     /\ UNCHANGED next_process

\* external: the LLC calls only while get_occupancy is below get_size.
LLCCalls(q) ==
  /\ stage = "add"
  /\ ~Full(q)
  /\ requests < MaxRequests
  /\ now <= LastCall
  /\ requests' = requests + 1

(***************************************************************************)
(* add_rq: answered at once before the warm-up ends, or from a queued      *)
(* write of the block; merged with a queued read of the block; else queued.*)
(* The LLC reads a block only when none of its MSHRs waits for it and the  *)
(* queue has room (in CacheHierarchy, MemoryIsAskedOnce).                  *)
(***************************************************************************)
\* Mutant: queued writes are not looked at.
AnsweredAtOnce_OnlyCold(a) == ~warm

AnsweredAtOnce(a) == ~warm \/ Holds(entry, "WQ", a)

add_rq(a, cycle) ==
  /\ LLCCalls("RQ")
  /\ a \notin awaiting
  /\ IF AnsweredAtOnce(a) \/ Holds(entry, "RQ", a)
       THEN UNCHANGED queues
       ELSE Enqueue("RQ", a, cycle)
  /\ awaiting' = IF AnsweredAtOnce(a) THEN awaiting ELSE awaiting \cup {a}
  /\ UNCHANGED <<now, stage, warm, bank_request, scheduled, write_mode,
                 dbus_cycle_available, last_switch, stale_writes>>

\* add_wq: dropped before the warm-up ends, merged with a queued write (whose data
\* stays as it was), or queued.
add_wq(a, cycle) ==
  /\ LLCCalls("WQ")
  /\ IF ~warm \/ Holds(entry, "WQ", a)
       THEN UNCHANGED queues
       ELSE Enqueue("WQ", a, cycle)
  /\ stale_writes' = IF Holds(entry, "WQ", a) THEN stale_writes \cup {a} ELSE stale_writes
  /\ UNCHANGED <<now, stage, warm, bank_request, scheduled, write_mode,
                 dbus_cycle_available, awaiting, last_switch>>

\* external: the main loop raises all_warmup_complete.
WarmupCompletes ==
  /\ stage = "add"
  /\ ~warm
  /\ warm' = TRUE
  /\ UNCHANGED <<now, stage, queues, bank_request, scheduled, write_mode,
                 dbus_cycle_available, client, last_switch, stale_writes>>

Lag == {c \in now - MaxLag .. now : c >= 0}

Next ==
  \/ BeginCycle
  \/ Schedule
  \/ Process
  \/ \E a \in Addr, cycle \in Lag : add_rq(a, cycle) \/ add_wq(a, cycle)
  \/ WarmupCompletes

Spec == Init /\ [][Next]_vars

\* The main loop never stops calling operate().
FairSpec == Spec /\ WF_vars(BeginCycle) /\ WF_vars(Schedule) /\ WF_vars(Process)

-----------------------------------------------------------------------------
SlotType == [address : Addr \cup {0}, event_cycle : Nat, scheduled : BOOLEAN]
NextType(q) == [index : 0 .. Size[q], cycle : Nat]
BankType == [working : BOOLEAN, op : Queue \cup {"none"},
             request_index : Int, open_row : Row \cup {NoRow}, cycle_available : Nat]

\* Type correctness of the controller's state.
TypeOK ==
  /\ now \in Nat /\ last_switch \in Nat /\ dbus_cycle_available \in Nat
  /\ stage \in {"add", "schedule", "process"}
  /\ warm \in BOOLEAN /\ write_mode \in BOOLEAN
  /\ DOMAIN entry = Queue
  /\ \A q \in Queue : entry[q] \in [Slot(q) -> SlotType]
  /\ occupancy \in [Queue -> Nat]
  /\ scheduled \in [Queue -> Int]
  /\ DOMAIN next_schedule = Queue /\ DOMAIN next_process = Queue
  /\ \A q \in Queue : next_schedule[q] \in NextType(q) /\ next_process[q] \in NextType(q)
  /\ bank_request \in [Bank -> BankType]
  /\ awaiting \in SUBSET Addr
  /\ stale_writes \in SUBSET Addr
  /\ requests \in Nat

(***************************************************************************)
(* The banks and the scheduled requests match one to one: a scheduled      *)
(* request's bank works for it, naming its queue and its slot, and a       *)
(* working bank has such a request.  The assert of process() that          *)
(* request_index is the request being processed never fails, whatever      *)
(* modes were abandoned in between.                                        *)
(***************************************************************************)
RequestHasItsBank ==
  \A q \in Queue : \A i \in Scheduled(q, entry[q]) :
    LET b == bank_request[BankOf(entry[q][i].address)]
    IN entry[q][i].address # 0 /\ b.working /\ b.op = q /\ b.request_index = i

BankHasItsRequest ==
  \A b \in Bank : bank_request[b].working =>
    LET r == bank_request[b]
    IN /\ r.op \in Queue
       /\ r.request_index \in Scheduled(r.op, entry[r.op])
       /\ BankOf(entry[r.op][r.request_index].address) = b

BanksMatchRequests == RequestHasItsBank /\ BankHasItsRequest

(***************************************************************************)
(* Only the current mode's queue has requests scheduled, and               *)
(* scheduled_reads and scheduled_writes count them: the assert at the end  *)
(* of reset_remain_requests never fails and no counter wraps below zero.   *)
(***************************************************************************)
OnlyTheModeIsScheduled ==
  \A q \in Queue :
    /\ scheduled[q] = Cardinality(Scheduled(q, entry[q]))
    /\ q # ActiveQueue => scheduled[q] = 0

(***************************************************************************)
(* The cached next_schedule and next_process are what a fresh scan of the  *)
(* queue would find, although process() refreshes only the second of them  *)
(* and add_rq and add_wq only the first.                                   *)
(***************************************************************************)
CachedIndicesAreFresh ==
  \A q \in Queue :
    /\ next_schedule[q] = update_schedule_cycle(q, entry[q])
    /\ next_process[q] = update_process_cycle(q, entry[q])

(***************************************************************************)
(* Every block the LLC waits for is in the read queue, once, and nothing   *)
(* else is: no read is dropped by a full queue, answered twice, or         *)
(* returned to an LLC that does not wait for it (CACHE::return_data        *)
(* asserts that it does).                                                  *)
(***************************************************************************)
ReadsAccountedFor ==
  /\ awaiting = {entry["RQ"][i].address : i \in Slot("RQ")} \ {0}
  /\ \A q \in Queue : \A i, j \in Slot(q) :
       entry[q][i].address = entry[q][j].address /\ entry[q][i].address # 0 => i = j
  /\ \A q \in Queue : occupancy[q] = Cardinality(Occupied(q, entry[q]))

(***************************************************************************)
(* Turn-around penalties do not pile up: dbus_cycle_available only ever    *)
(* grows by += on a switch, yet at most four of them separate two          *)
(* transfers, so the bus is never booked further ahead than this.          *)
(***************************************************************************)
BusBacklogBounded == dbus_cycle_available <= now + RETURN_TIME + 4 * TURN_AROUND

(***************************************************************************)
(* "the data bus must wait this amount of time when switching between      *)
(* reads and writes, and vice versa" (inc/dram_controller.h): no transfer  *)
(* starts within TURN_AROUND cycles of a switch, although the penalty is   *)
(* added to a dbus_cycle_available that may lie in the past.               *)
(***************************************************************************)
TurnAroundRespected ==
  [][(\E q \in Queue : occupancy'[q] < occupancy[q]) => now >= last_switch + TURN_AROUND]_vars

(***************************************************************************)
(* The controller implements the memory service of MemService, a read      *)
(* being pending while the LLC waits for it and a write while it is in the *)
(* write queue: no request is lost or overwritten in its queue, no read is *)
(* queued behind a write of its block, requests leave one at a time.       *)
(***************************************************************************)
Service == INSTANCE MemService WITH
  reads <- awaiting,
  writes <- {entry["WQ"][i].address : i \in Slot("WQ")} \ {0}

ImplementsMemService == Service!Spec

(***************************************************************************)
(* "check for the latest wirtebacks in the write queue" (add_rq): the data *)
(* a read can be forwarded from the write queue is that of the latest      *)
(* add_wq for the block.                                                   *)
(***************************************************************************)
QueuedWriteIsTheLatest == stale_writes = {}

\* Every queued read is returned and every queued write reaches its bank,
\* whatever modes are entered and abandoned meanwhile.
EveryRequestIsServed ==
  \A q \in Queue, a \in Addr : Holds(entry, q, a) ~> ~Holds(entry, q, a)

-----------------------------------------------------------------------------
(***************************************************************************)
(* The inductive invariant.  It adds to the properties above: what         *)
(* next_process points at; how far the bus is booked ahead in each mode;   *)
(* and that an access begun after a switch ends after the turn-around.     *)
(***************************************************************************)

\* process() is only called on a scheduled request.
NextProcessIsScheduled ==
  \A q \in Queue : next_process[q].index < Size[q] =>
                     next_process[q].index \in Scheduled(q, entry[q])

(***************************************************************************)
(* Turn-arounds booked since the latest transfer.  The drain mode is       *)
(* entered from idle reads at most once, and by the high watermark at most *)
(* once, before a transfer: leaving it again needs an occupancy below      *)
(* LOW_WM, hence a transfer.                                               *)
(***************************************************************************)
BookedAhead(k) == dbus_cycle_available <= now + RETURN_TIME + k * TURN_AROUND

BusBacklogByMode ==
  /\ BookedAhead(4)
  /\ ~write_mode => BookedAhead(3)
  /\ ~write_mode /\ occupancy["RQ"] = 0 => BookedAhead(1)
  /\ write_mode /\ occupancy["WQ"] < LOW_WM => BookedAhead(2)
  /\ write_mode /\ occupancy["WQ"] = 0 => BookedAhead(0)

\* No access begun after a switch ends before the turn-around does.
AccessOutlastsTurnAround ==
  /\ last_switch <= now
  /\ \A b \in Bank : bank_request[b].working =>
       bank_request[b].cycle_available >= last_switch + TURN_AROUND

IInv ==
  /\ TypeOK
  /\ BanksMatchRequests
  /\ OnlyTheModeIsScheduled
  /\ NextProcessIsScheduled
  /\ ReadsAccountedFor
  /\ BusBacklogByMode
  /\ AccessOutlastsTurnAround

=============================================================================
