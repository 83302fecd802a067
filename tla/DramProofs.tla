----------------------------- MODULE DramProofs -----------------------------
(***************************************************************************)
(* Proofs about Dram, for every queue size, geometry and timing its        *)
(* assumptions allow.                                                      *)
(***************************************************************************)
EXTENDS Dram, NatFacts

-----------------------------------------------------------------------------
(***************************************************************************)
(* Facts about the operators of the model.                                 *)
(***************************************************************************)

\* dram_get_bank and dram_get_row always name a bank and a row of the channel.
LEMMA AddressMapping ==
  ASSUME NEW a \in Nat
  PROVE  BankOf(a) \in Bank /\ RowOf(a) \in Row
<1>1. BANKS \in Nat \ {0} /\ ROWS \in Nat \ {0} /\ BANKS * ROW_BLOCKS \in Nat \ {0}
  BY GeometryAssumption
<1>2. BankOf(a) \in Bank
  BY <1>1 DEF BankOf, Bank
<1>3. a \div (BANKS * ROW_BLOCKS) \in Int
  BY <1>1
<1>4. RowOf(a) \in Row
  BY <1>1, <1>3 DEF RowOf, Row
<1> QED
  BY <1>2, <1>4

\* Both queues have slots 0 .. Size - 1.
LEMMA QueueSizes ==
  /\ \A q \in Queue : Size[q] \in Nat \ {0}
  /\ Size["RQ"] = RQ_SIZE /\ Size["WQ"] = WQ_SIZE
  /\ \A q \in Queue : Slot(q) \subseteq Nat /\ Size[q] \notin Slot(q)
  /\ \A q \in Queue : IsFiniteSet(Slot(q)) /\ Cardinality(Slot(q)) = Size[q]
<1>1. Size["RQ"] = RQ_SIZE /\ Size["WQ"] = WQ_SIZE
  BY DEF Size, Queue
<1>2. \A q \in Queue : Size[q] \in Nat \ {0}
  BY <1>1, SizesAssumption DEF Queue
<1>3. ASSUME NEW q \in Queue
      PROVE  IsFiniteSet(Slot(q)) /\ Cardinality(Slot(q)) = Size[q]
  BY <1>2, IndexSet DEF Slot
<1>4. \A q \in Queue : Slot(q) \subseteq Nat /\ Size[q] \notin Slot(q)
  BY <1>2 DEF Slot
<1> QED
  BY <1>1, <1>2, <1>3, <1>4

\* Slot i of S is at least as old as the others, and the first of those that are.
OldestOf(slots, S, i) ==
  \A j \in S : \/ slots[i].event_cycle < slots[j].event_cycle
               \/ slots[i].event_cycle = slots[j].event_cycle /\ i <= j

\* The scan for the oldest request finds the oldest of the candidates.
LEMMA OldestIsFound ==
  ASSUME NEW q \in Queue, NEW slots \in [Slot(q) -> SlotType],
         NEW S \in SUBSET Slot(q), S # {}
  PROVE  Oldest(slots, S) \in S /\ OldestOf(slots, S, Oldest(slots, S))
<1> DEFINE cycles == {slots[i].event_cycle : i \in S}
<1>1. cycles \in SUBSET Nat /\ cycles # {}
  BY DEF SlotType
<1>2. PICK c \in cycles : \A d \in cycles : c <= d
  BY <1>1, LeastNatural
<1> DEFINE firsts == {i \in S : slots[i].event_cycle = c}
<1>3. firsts \in SUBSET Nat /\ firsts # {}
  BY <1>2, QueueSizes
<1>4. PICK i \in firsts : \A j \in firsts : i <= j
  BY <1>3, LeastNatural
<1>5. \A j \in S : \/ slots[i].event_cycle < slots[j].event_cycle
                   \/ slots[i].event_cycle = slots[j].event_cycle /\ i <= j
  <2> SUFFICES ASSUME NEW j \in S, slots[j].event_cycle # c
               PROVE  c < slots[j].event_cycle
    BY <1>4
  <2>1. c <= slots[j].event_cycle /\ c \in Nat /\ slots[j].event_cycle \in Nat
    BY <1>1, <1>2
  <2> QED
    BY <2>1
<1> QED
  BY <1>4, <1>5 DEF Oldest, OldestOf

LEMMA OldestIsACandidate ==
  ASSUME NEW q \in Queue, NEW slots \in [Slot(q) -> SlotType],
         NEW S \in SUBSET Slot(q), S # {}
  PROVE  Oldest(slots, S) \in S
BY OldestIsFound

\* There is only one.
LEMMA OldestIsUnique ==
  ASSUME NEW q \in Queue, NEW slots \in [Slot(q) -> SlotType],
         NEW S \in SUBSET Slot(q), NEW i \in S, NEW k \in S,
         OldestOf(slots, S, i), OldestOf(slots, S, k)
  PROVE  i = k
<1>1. /\ i \in Nat /\ k \in Nat
      /\ slots[i].event_cycle \in Nat /\ slots[k].event_cycle \in Nat
  BY QueueSizes DEF SlotType
<1> QED
  BY <1>1 DEF OldestOf

\* A scan depends on its candidates and their times alone.
LEMMA SameCandidatesSameNext ==
  ASSUME NEW q \in Queue, NEW slots \in [Slot(q) -> SlotType],
         NEW later \in [Slot(q) -> SlotType], NEW S \in SUBSET Slot(q),
         \A i \in S : later[i].event_cycle = slots[i].event_cycle
  PROVE  Next_of(q, later, S) = Next_of(q, slots, S)
<1>1. CASE S = {}
  BY <1>1 DEF Next_of
<1>2. CASE S # {}
  <2>1. /\ Oldest(slots, S) \in S /\ OldestOf(slots, S, Oldest(slots, S))
        /\ Oldest(later, S) \in S /\ OldestOf(later, S, Oldest(later, S))
    BY <1>2, OldestIsFound
  <2>2. OldestOf(slots, S, Oldest(later, S))
    BY <2>1 DEF OldestOf
  <2>3. Oldest(later, S) = Oldest(slots, S)
    BY <2>1, <2>2, OldestIsUnique
  <2> QED
    BY <1>2, <2>1, <2>3 DEF Next_of
<1> QED
  BY <1>1, <1>2

\* What the update_*_cycle functions cache is a candidate or Size[q].
LEMMA CachedIndex ==
  ASSUME NEW q \in Queue, NEW slots \in [Slot(q) -> SlotType]
  PROVE  /\ update_schedule_cycle(q, slots) \in NextType(q)
         /\ update_process_cycle(q, slots) \in NextType(q)
         /\ update_process_cycle(q, slots).index < Size[q]
              => update_process_cycle(q, slots).index \in Scheduled(q, slots)
<1>1. ASSUME NEW S \in SUBSET Slot(q)
      PROVE  /\ Next_of(q, slots, S) \in NextType(q)
             /\ Next_of(q, slots, S).index < Size[q] => Next_of(q, slots, S).index \in S
  <2>1. CASE S = {}
    BY <2>1, QueueSizes DEF Next_of, NextType
  <2>2. CASE S # {}
    <3>1. Oldest(slots, S) \in S
      BY <2>2, OldestIsACandidate
    <3>2. Oldest(slots, S) \in 0 .. Size[q]
      <4>1. Oldest(slots, S) \in 0 .. Size[q] - 1 /\ Size[q] \in Nat
        BY <3>1, QueueSizes DEF Slot
      <4> QED
        BY <4>1
    <3>3. slots[Oldest(slots, S)].event_cycle \in Nat
      BY <3>1 DEF SlotType
    <3> QED
      BY <2>2, <3>1, <3>2, <3>3 DEF Next_of, NextType
  <2> QED
    BY <2>1, <2>2
<1> QED
  BY <1>1 DEF update_schedule_cycle, update_process_cycle, Unscheduled, Scheduled

\* The scheduled and the occupied slots of a queue are finitely many.
LEMMA SlotSetsAreFinite ==
  ASSUME NEW q \in Queue, NEW slots
  PROVE  /\ IsFiniteSet(Scheduled(q, slots)) /\ Cardinality(Scheduled(q, slots)) \in Nat
         /\ IsFiniteSet(Occupied(q, slots)) /\ Cardinality(Occupied(q, slots)) \in Nat
         /\ Scheduled(q, slots) = {} <=> Cardinality(Scheduled(q, slots)) = 0
         /\ Occupied(q, slots) = {} <=> Cardinality(Occupied(q, slots)) = 0
<1>1. Scheduled(q, slots) \in SUBSET Slot(q) /\ Occupied(q, slots) \in SUBSET Slot(q)
  BY DEF Scheduled, Occupied
<1>2. IsFiniteSet(Scheduled(q, slots)) /\ IsFiniteSet(Occupied(q, slots))
  BY <1>1, QueueSizes, FS_Subset
<1> QED
  BY <1>2, FS_CardinalityType, FS_EmptySet

\* A queue whose occupancy is below its size has an empty slot for add_rq or add_wq.
LEMMA RoomMeansAnEmptySlot ==
  ASSUME NEW q \in Queue, entry[q] \in [Slot(q) -> SlotType],
         occupancy[q] = Cardinality(Occupied(q, entry[q])), ~Full(q)
  PROVE  FirstEmpty(q) \in Slot(q) /\ entry[q][FirstEmpty(q)].address = 0
<1> DEFINE empty == {i \in Slot(q) : entry[q][i].address = 0}
<1>1. empty # {}
  <2> SUFFICES ASSUME empty = {} PROVE FALSE
    OBVIOUS
  <2>1. Occupied(q, entry[q]) = Slot(q)
    BY DEF Occupied
  <2> QED
    BY <2>1, QueueSizes DEF Full
<1>2. empty \in SUBSET Nat
  BY QueueSizes
<1>3. PICK i \in empty : \A j \in empty : i <= j
  BY <1>1, <1>2, LeastNatural
<1>4. /\ i \in Slot(q)
      /\ entry[q][i].address = 0 /\ \A j \in Slot(q) : entry[q][j].address = 0 => i <= j
  BY <1>3
<1> QED
  BY <1>4 DEF FirstEmpty

\* In a state of the invariant, a queue that is not the mode's has nothing scheduled.
LEMMA OtherQueueIdle ==
  ASSUME OnlyTheModeIsScheduled, NEW q \in Queue, q # ActiveQueue
  PROVE  Scheduled(q, entry[q]) = {}
BY SlotSetsAreFinite DEF OnlyTheModeIsScheduled

LEMMA ActiveQueueType == ActiveQueue \in Queue
BY DEF ActiveQueue, Queue

-----------------------------------------------------------------------------
(***************************************************************************)
(* The invariant holds initially.                                          *)
(***************************************************************************)
LEMMA InitIInv == Init => IInv
<1> SUFFICES ASSUME Init PROVE IInv
  OBVIOUS
<1>1. \A q \in Queue : Scheduled(q, entry[q]) = {} /\ Occupied(q, entry[q]) = {}
  BY DEF Init, Scheduled, Occupied, EmptySlot
<1>2. TypeOK
  <2>1. \A q \in Queue : entry[q] \in [Slot(q) -> SlotType]
    BY DEF Init, EmptySlot, SlotType
  <2>2. \A q \in Queue : next_schedule[q] \in NextType(q) /\ next_process[q] \in NextType(q)
    BY QueueSizes DEF Init, NextType
  <2>3. bank_request \in [Bank -> BankType]
    BY DEF Init, IdleBank, BankType
  <2>4. /\ now \in Nat /\ last_switch \in Nat /\ dbus_cycle_available \in Nat
        /\ stage \in {"add", "schedule", "process"}
        /\ warm \in BOOLEAN /\ write_mode \in BOOLEAN
        /\ awaiting \in SUBSET Addr /\ stale_writes \in SUBSET Addr /\ requests \in Nat
    BY DEF Init
  <2>5. DOMAIN entry = Queue /\ DOMAIN next_schedule = Queue /\ DOMAIN next_process = Queue
    BY DEF Init
  <2>6. occupancy \in [Queue -> Nat] /\ scheduled \in [Queue -> Int]
    BY DEF Init
  <2> QED
    BY <2>1, <2>2, <2>3, <2>4, <2>5, <2>6 DEF TypeOK
<1>3. BanksMatchRequests
  BY <1>1 DEF BanksMatchRequests, RequestHasItsBank, BankHasItsRequest, Init, IdleBank
<1>4. OnlyTheModeIsScheduled
  BY <1>1, FS_EmptySet DEF OnlyTheModeIsScheduled, Init
<1>5. NextProcessIsScheduled
  BY QueueSizes DEF NextProcessIsScheduled, Init
<1>6. ReadsAccountedFor
  <2>1. "RQ" \in Queue
    BY DEF Queue
  <2> QED
    BY <1>1, <2>1, FS_EmptySet DEF ReadsAccountedFor, Init, EmptySlot
<1>7. BusBacklogByMode
  BY TimingAssumption DEF BusBacklogByMode, BookedAhead, Init
<1>8. AccessOutlastsTurnAround
  BY DEF AccessOutlastsTurnAround, Init, IdleBank
<1> QED
  BY <1>2, <1>3, <1>4, <1>5, <1>6, <1>7, <1>8 DEF IInv

-----------------------------------------------------------------------------
(***************************************************************************)
(* One step of the controller or of its client preserves the invariant.    *)
(* The parts of the state a step leaves alone are handled once, here.      *)
(***************************************************************************)

\* Queues, banks and counters unchanged.
LEMMA IdleStep ==
  ASSUME IInv,
         UNCHANGED <<queues, bank_request, scheduled, write_mode, last_switch, awaiting>>,
         now' \in Nat, now <= now',
         dbus_cycle_available' = dbus_cycle_available,
         stage' \in {"add", "schedule", "process"},
         warm' \in BOOLEAN,
         stale_writes' \in SUBSET Addr,
         requests' \in Nat
  PROVE  IInv'
<1>1. TypeOK'
  BY DEF IInv, TypeOK, queues
<1>2. BanksMatchRequests'
  BY DEF IInv, BanksMatchRequests, RequestHasItsBank, BankHasItsRequest, queues
<1>3. OnlyTheModeIsScheduled'
  BY DEF IInv, OnlyTheModeIsScheduled, ActiveQueue, queues
<1>4. NextProcessIsScheduled' /\ ReadsAccountedFor'
  BY DEF IInv, NextProcessIsScheduled, ReadsAccountedFor, queues
<1>5. BusBacklogByMode'
  <2>1. ASSUME NEW k \in Nat PROVE BookedAhead(k) => BookedAhead(k)'
    <3>1. k * TURN_AROUND \in Int /\ RETURN_TIME \in Int
      BY TimingAssumption
    <3> QED
      BY <3>1 DEF IInv, TypeOK, BookedAhead
  <2> QED
    BY <2>1 DEF IInv, BusBacklogByMode, queues
<1>6. AccessOutlastsTurnAround'
  BY DEF IInv, TypeOK, AccessOutlastsTurnAround
<1> QED
  BY <1>1, <1>2, <1>3, <1>4, <1>5, <1>6 DEF IInv

\* add_rq and add_wq put a packet into an empty slot of a queue that has room.
LEMMA EnqueueStep ==
  ASSUME IInv, NEW q \in Queue, NEW a \in Addr, NEW cycle \in Nat,
         ~Full(q), Enqueue(q, a, cycle), ~Holds(entry, q, a),
         awaiting' = IF q = "RQ" THEN awaiting \cup {a} ELSE awaiting,
         UNCHANGED <<now, stage, warm, bank_request, scheduled, write_mode,
                     dbus_cycle_available, last_switch>>,
         stale_writes' \in SUBSET Addr,
         requests' \in Nat
  PROVE  IInv'
<1> DEFINE i == FirstEmpty(q)
           slots == [entry[q] EXCEPT ![i] =
                       [address |-> a, event_cycle |-> cycle, scheduled |-> FALSE]]
<1>1. entry[q] \in [Slot(q) -> SlotType]
  BY DEF IInv, TypeOK
<1>2. i \in Slot(q) /\ entry[q][i].address = 0
  BY <1>1, RoomMeansAnEmptySlot DEF IInv, ReadsAccountedFor
<1>3. ~entry[q][i].scheduled
  BY <1>2 DEF IInv, BanksMatchRequests, RequestHasItsBank, Scheduled
<1>4. slots \in [Slot(q) -> SlotType]
  BY <1>1, <1>2 DEF SlotType
<1>5. entry' = [entry EXCEPT ![q] = slots] /\ entry'[q] = slots /\ DOMAIN entry' = Queue
  BY DEF Enqueue, IInv, TypeOK
<1>6. \A p \in Queue \ {q} : entry'[p] = entry[p]
  BY <1>5 DEF IInv, TypeOK
<1>7. Scheduled(q, slots) = Scheduled(q, entry[q])
  BY <1>1, <1>2, <1>3 DEF Scheduled
<1>8. \A p \in Queue : Scheduled(p, entry'[p]) = Scheduled(p, entry[p])
  BY <1>5, <1>6, <1>7
<1>9. \A p \in Queue : \A j \in Scheduled(p, entry'[p]) : entry'[p][j] = entry[p][j]
  BY <1>1, <1>2, <1>3, <1>5, <1>6, <1>8 DEF Scheduled
<1>10. occupancy' = [occupancy EXCEPT ![q] = occupancy[q] + 1] /\ next_process' = next_process
  BY DEF Enqueue
<1>11. TypeOK'
  <2>1. update_schedule_cycle(q, slots) \in NextType(q)
    BY <1>4, CachedIndex
  <2>2. next_schedule' = [next_schedule EXCEPT ![q] = update_schedule_cycle(q, slots)]
    BY DEF Enqueue
  <2>3. DOMAIN next_schedule' = Queue /\ \A p \in Queue : next_schedule'[p] \in NextType(p)
    BY <2>1, <2>2 DEF IInv, TypeOK
  <2>4. DOMAIN entry' = Queue /\ \A p \in Queue : entry'[p] \in [Slot(p) -> SlotType]
    BY <1>4, <1>5, <1>6 DEF IInv, TypeOK
  <2>5. occupancy' \in [Queue -> Nat]
    BY <1>10 DEF IInv, TypeOK
  <2>6. awaiting' \in SUBSET Addr
    BY DEF IInv, TypeOK
  <2> QED
    BY <2>3, <2>4, <2>5, <2>6, <1>10 DEF IInv, TypeOK
<1>12. BanksMatchRequests'
  <2>1. RequestHasItsBank'
    BY <1>8, <1>9 DEF IInv, BanksMatchRequests, RequestHasItsBank
  <2>2. BankHasItsRequest'
    BY <1>8, <1>9 DEF IInv, BanksMatchRequests, BankHasItsRequest
  <2> QED
    BY <2>1, <2>2 DEF BanksMatchRequests
<1>13. OnlyTheModeIsScheduled'
  BY <1>8 DEF IInv, OnlyTheModeIsScheduled, ActiveQueue
<1>14. NextProcessIsScheduled'
  BY <1>8, <1>10 DEF IInv, NextProcessIsScheduled
<1>15. ReadsAccountedFor'
  <2>1. awaiting' = {entry'["RQ"][j].address : j \in Slot("RQ")} \ {0}
    <3>1. CASE q = "RQ"
      <4>1. {slots[j].address : j \in Slot(q)} \ {0}
              = ({entry[q][j].address : j \in Slot(q)} \ {0}) \cup {a}
        BY <1>1, <1>2 DEF Addr
      <4>2. awaiting = {entry[q][j].address : j \in Slot(q)} \ {0}
        BY <3>1 DEF IInv, ReadsAccountedFor
      <4>3. awaiting' = {slots[j].address : j \in Slot(q)} \ {0}
        BY <3>1, <4>1, <4>2
      <4> HIDE DEF slots
      <4> QED
        BY <3>1, <4>3, <1>5
    <3>2. CASE q # "RQ"
      BY <3>2, <1>6 DEF IInv, ReadsAccountedFor, Queue
    <3> QED
      BY <3>1, <3>2
  <2>2. ASSUME NEW p \in Queue, NEW j \in Slot(p), NEW k \in Slot(p),
               entry'[p][j].address = entry'[p][k].address, entry'[p][j].address # 0
        PROVE  j = k
    <3>1. CASE p # q
      BY <3>1, <2>2, <1>6 DEF IInv, ReadsAccountedFor
    <3>2. CASE p = q
      <4>1. \A l \in Slot(q) : l # i => slots[l].address = entry[q][l].address /\ slots[l].address # a
        BY <1>1, <1>2 DEF Holds
      <4>2. slots[i].address = a
        BY <1>1, <1>2
      <4> QED
        BY <4>1, <4>2, <3>2, <2>2, <1>5 DEF IInv, ReadsAccountedFor
    <3> QED
      BY <3>1, <3>2
  <2>3. ASSUME NEW p \in Queue
        PROVE  occupancy'[p] = Cardinality(Occupied(p, entry'[p]))
    <3>1. CASE p # q
      BY <3>1, <1>6, <1>10 DEF IInv, ReadsAccountedFor, TypeOK
    <3>2. CASE p = q
      <4>1. Occupied(q, slots) = Occupied(q, entry[q]) \cup {i} /\ i \notin Occupied(q, entry[q])
        BY <1>1, <1>2 DEF Occupied, Addr
      <4>2. Cardinality(Occupied(q, slots)) = Cardinality(Occupied(q, entry[q])) + 1
        BY <4>1, SlotSetsAreFinite, FS_AddElement
      <4> QED
        BY <4>2, <3>2, <1>5, <1>10 DEF IInv, ReadsAccountedFor, TypeOK
    <3> QED
      BY <3>1, <3>2
  <2> QED
    BY <2>1, <2>2, <2>3 DEF ReadsAccountedFor
<1>16. BusBacklogByMode'
  <2>1. \A p \in Queue : occupancy'[p] >= occupancy[p] /\ (p = q => occupancy'[p] > 0)
    BY <1>10 DEF IInv, TypeOK
  <2>2. "RQ" \in Queue /\ "WQ" \in Queue /\ occupancy \in [Queue -> Nat] /\ occupancy' \in [Queue -> Nat]
    BY <1>11 DEF IInv, TypeOK, Queue
  <2>3. /\ occupancy'["RQ"] = 0 => occupancy["RQ"] = 0
        /\ occupancy'["WQ"] = 0 => occupancy["WQ"] = 0
        /\ occupancy'["WQ"] < LOW_WM => occupancy["WQ"] < LOW_WM
    BY <2>1, <2>2, SizesAssumption
  <2>4. \A k : BookedAhead(k)' <=> BookedAhead(k)
    BY DEF BookedAhead
  <2> QED
    BY <2>3, <2>4 DEF IInv, BusBacklogByMode
<1>17. AccessOutlastsTurnAround'
  BY DEF IInv, AccessOutlastsTurnAround
<1> QED
  BY <1>11, <1>12, <1>13, <1>14, <1>15, <1>16, <1>17 DEF IInv

\* schedule: an idle bank starts working for an unscheduled request.
LEMMA StartAccessStep ==
  ASSUME IInv, NEW i \in Ready(ActiveQueue), NEW latency \in Nat, tCAS <= latency,
         StartAccess(ActiveQueue, i, latency),
         UNCHANGED <<now, warm, occupancy, write_mode, dbus_cycle_available,
                     client, last_switch, stale_writes>>,
         stage' = "process"
  PROVE  IInv'
<1> DEFINE q == ActiveQueue
           a == entry[q][i].address
           b == BankOf(a)
           slots == [entry[q] EXCEPT ![i].scheduled = TRUE, ![i].event_cycle = now + latency]
<1>1. q \in Queue /\ entry[q] \in [Slot(q) -> SlotType] /\ DOMAIN entry = Queue
  BY ActiveQueueType DEF IInv, TypeOK
<1>2. i \in Slot(q) /\ a \in Addr /\ ~entry[q][i].scheduled /\ ~bank_request[b].working
  BY <1>1 DEF Ready, Unscheduled, SlotType
<1>3. b \in Bank /\ RowOf(a) \in Row
  BY <1>2, AddressMapping DEF Addr
<1>4. now + latency \in Nat /\ now \in Nat
  BY DEF IInv, TypeOK
<1>5. slots \in [Slot(q) -> SlotType]
  BY <1>1, <1>2, <1>4 DEF SlotType
<1>6. /\ \A j \in Slot(q) : slots[j].address = entry[q][j].address
      /\ \A j \in Slot(q) \ {i} : slots[j] = entry[q][j]
      /\ slots[i].scheduled
  BY <1>1, <1>2 DEF SlotType
<1>7. entry' = [entry EXCEPT ![q] = slots]
  BY DEF StartAccess
<1>8. entry'[q] = slots /\ DOMAIN entry' = Queue /\ \A p \in Queue \ {q} : entry'[p] = entry[p]
  BY <1>1, <1>7
<1>9. bank_request' = [bank_request EXCEPT ![b] =
         [working |-> TRUE, op |-> q, request_index |-> i,
          open_row |-> RowOf(a), cycle_available |-> now + latency]]
  BY DEF StartAccess
<1>10. /\ bank_request'[b].working /\ bank_request'[b].op = q
       /\ bank_request'[b].request_index = i
       /\ bank_request'[b].cycle_available = now + latency
       /\ \A c \in Bank \ {b} : bank_request'[c] = bank_request[c]
  BY <1>3, <1>9 DEF IInv, TypeOK
<1> HIDE DEF slots, b
<1>11. /\ Scheduled(q, slots) = Scheduled(q, entry[q]) \cup {i}
       /\ i \notin Scheduled(q, entry[q])
  BY <1>2, <1>6 DEF Scheduled
<1>12. TypeOK'
  <2>1. next_schedule' = [next_schedule EXCEPT ![q] = update_schedule_cycle(q, slots)]
    BY DEF StartAccess, slots
  <2>2. next_process' = [next_process EXCEPT ![q] = update_process_cycle(q, slots)]
    BY DEF StartAccess, slots
  <2>3. /\ DOMAIN next_schedule' = Queue /\ \A p \in Queue : next_schedule'[p] \in NextType(p)
        /\ DOMAIN next_process' = Queue /\ \A p \in Queue : next_process'[p] \in NextType(p)
    BY <2>1, <2>2, <1>1, <1>5, CachedIndex DEF IInv, TypeOK
  <2>4. DOMAIN entry' = Queue /\ \A p \in Queue : entry'[p] \in [Slot(p) -> SlotType]
    BY <1>5, <1>8 DEF IInv, TypeOK
  <2>5. scheduled' \in [Queue -> Int]
    BY <1>1 DEF StartAccess, IInv, TypeOK
  <2>6. i \in Int
    BY <1>1, <1>2, QueueSizes
  <2>7. bank_request' \in [Bank -> BankType]
    BY <1>1, <1>3, <1>4, <1>9, <2>6 DEF BankType, IInv, TypeOK
  <2> QED
    BY <2>3, <2>4, <2>5, <2>7 DEF IInv, TypeOK, client
<1>13. BanksMatchRequests'
  <2>1. ASSUME NEW p \in Queue, NEW j \in Scheduled(p, entry'[p]), p # q \/ j # i
        PROVE  /\ j \in Scheduled(p, entry[p])
               /\ entry'[p][j] = entry[p][j]
               /\ BankOf(entry[p][j].address) \in Bank \ {b}
    <3>1. j \in Scheduled(p, entry[p]) /\ entry'[p][j] = entry[p][j]
      BY <2>1, <1>6, <1>8, <1>11 DEF Scheduled
    <3>2. bank_request[BankOf(entry[p][j].address)].working
      BY <3>1 DEF IInv, BanksMatchRequests, RequestHasItsBank
    <3>3. entry[p][j].address \in Nat
      BY <3>1 DEF IInv, TypeOK, Scheduled, SlotType, Addr
    <3> QED
      BY <3>1, <3>2, <3>3, <1>2, AddressMapping DEF b
  <2>2. RequestHasItsBank'
    <3> SUFFICES ASSUME NEW p \in Queue, NEW j \in Scheduled(p, entry'[p])
                 PROVE  LET r == bank_request'[BankOf(entry'[p][j].address)]
                        IN  entry'[p][j].address # 0 /\ r.working /\ r.op = p /\ r.request_index = j
      BY DEF RequestHasItsBank
    <3>1. CASE p = q /\ j = i
      BY <3>1, <1>2, <1>6, <1>8, <1>10 DEF b, Addr
    <3>2. CASE p # q \/ j # i
      BY <3>2, <2>1, <1>10 DEF IInv, BanksMatchRequests, RequestHasItsBank
    <3> QED
      BY <3>1, <3>2
  <2>3. BankHasItsRequest'
    <3> SUFFICES ASSUME NEW c \in Bank, bank_request'[c].working
                 PROVE  LET r == bank_request'[c]
                        IN  /\ r.op \in Queue
                            /\ r.request_index \in Scheduled(r.op, entry'[r.op])
                            /\ BankOf(entry'[r.op][r.request_index].address) = c
      BY DEF BankHasItsRequest
    <3>1. CASE c = b
      BY <3>1, <1>1, <1>2, <1>6, <1>8, <1>10, <1>11 DEF b
    <3>2. CASE c # b
      <4>1. bank_request'[c] = bank_request[c]
        BY <3>2, <1>10
      <4> DEFINE r == bank_request[c]
      <4>2. /\ r.op \in Queue
            /\ r.request_index \in Scheduled(r.op, entry[r.op])
            /\ BankOf(entry[r.op][r.request_index].address) = c
        BY <4>1 DEF IInv, BanksMatchRequests, BankHasItsRequest
      <4>3. \A p \in Queue : \A j \in Scheduled(p, entry[p]) :
              j \in Scheduled(p, entry'[p]) /\ entry'[p][j].address = entry[p][j].address
        BY <1>6, <1>8, <1>11 DEF Scheduled
      <4> QED
        BY <4>1, <4>2, <4>3
    <3> QED
      BY <3>1, <3>2
  <2> QED
    BY <2>2, <2>3 DEF BanksMatchRequests
<1>14. OnlyTheModeIsScheduled'
  <2>1. scheduled' = [scheduled EXCEPT ![q] = scheduled[q] + 1]
    BY DEF StartAccess
  <2>2. Cardinality(Scheduled(q, slots)) = Cardinality(Scheduled(q, entry[q])) + 1
    BY <1>1, <1>11, SlotSetsAreFinite, FS_AddElement
  <2>3. ActiveQueue' = q
    BY DEF ActiveQueue
  <2> QED
    BY <2>1, <2>2, <2>3, <1>1, <1>8 DEF IInv, TypeOK, OnlyTheModeIsScheduled
<1>15. NextProcessIsScheduled'
  <2>1. next_process' = [next_process EXCEPT ![q] = update_process_cycle(q, slots)]
    BY DEF StartAccess, slots
  <2>2. next_process'[q].index < Size[q] => next_process'[q].index \in Scheduled(q, slots)
    BY <2>1, <1>1, <1>5, CachedIndex DEF IInv, TypeOK
  <2>3. \A p \in Queue \ {q} : next_process'[p] = next_process[p]
    BY <2>1 DEF IInv, TypeOK
  <2> QED
    BY <2>2, <2>3, <1>8 DEF IInv, NextProcessIsScheduled
<1>16. ReadsAccountedFor'
  <2>1. \A p \in Queue : \A j \in Slot(p) : entry'[p][j].address = entry[p][j].address
    BY <1>6, <1>8
  <2>2. \A p \in Queue : Occupied(p, entry'[p]) = Occupied(p, entry[p])
    BY <2>1 DEF Occupied
  <2>3. "RQ" \in Queue
    BY DEF Queue
  <2>4. {entry'["RQ"][j].address : j \in Slot("RQ")} = {entry["RQ"][j].address : j \in Slot("RQ")}
    BY <2>1, <2>3
  <2> QED
    BY <2>1, <2>2, <2>4 DEF IInv, ReadsAccountedFor, client
<1>17. BusBacklogByMode'
  BY DEF IInv, BusBacklogByMode, BookedAhead
<1>18. AccessOutlastsTurnAround'
  <2>1. now + latency >= last_switch + TURN_AROUND
    BY <1>4, TimingAssumption DEF IInv, TypeOK, AccessOutlastsTurnAround
  <2> QED
    BY <2>1, <1>10 DEF IInv, AccessOutlastsTurnAround
<1> QED
  BY <1>12, <1>13, <1>14, <1>15, <1>16, <1>17, <1>18 DEF IInv

\* process: a request leaves its queue and its bank.
LEMMA TransferStep ==
  ASSUME IInv, Due(next_process, ActiveQueue), Transfer(ActiveQueue),
         UNCHANGED <<now, warm, next_schedule, write_mode, requests, last_switch>>,
         stage' = "add"
  PROVE  IInv' /\ occupancy'[ActiveQueue] = occupancy[ActiveQueue] - 1
<1> DEFINE q == ActiveQueue
           i == Current(q)
           a == entry[q][i].address
           b == BankOf(a)
           slots == [entry[q] EXCEPT ![i] = EmptySlot]
<1>1. q \in Queue /\ entry[q] \in [Slot(q) -> SlotType] /\ DOMAIN entry = Queue
  BY ActiveQueueType DEF IInv, TypeOK
<1>2. i \in Scheduled(q, entry[q])
  BY <1>1 DEF Due, Current, IInv, NextProcessIsScheduled
<1>3. i \in Slot(q) /\ entry[q][i].scheduled /\ a # 0 /\ a \in Addr
  BY <1>1, <1>2 DEF Scheduled, IInv, BanksMatchRequests, RequestHasItsBank, SlotType
<1>4. b \in Bank
  BY <1>3, AddressMapping DEF Addr
<1>5. bank_request[b].op = q /\ bank_request[b].request_index = i
  BY <1>1, <1>2 DEF IInv, BanksMatchRequests, RequestHasItsBank
<1>6. slots \in [Slot(q) -> SlotType] /\ slots[i] = EmptySlot
  BY <1>1, <1>3 DEF SlotType, EmptySlot
<1>7. \A j \in Slot(q) \ {i} : slots[j] = entry[q][j]
  BY <1>1
<1>8. entry' = [entry EXCEPT ![q] = slots]
  BY DEF Transfer
<1>9. entry'[q] = slots /\ DOMAIN entry' = Queue /\ \A p \in Queue \ {q} : entry'[p] = entry[p]
  BY <1>1, <1>8
<1>10. bank_request' = [bank_request EXCEPT ![b] =
           [bank_request[b] EXCEPT !.request_index = -1, !.working = FALSE, !.op = "none"]]
  BY DEF Transfer, CurrentBank
<1>11. ~bank_request'[b].working /\ \A c \in Bank \ {b} : bank_request'[c] = bank_request[c]
  BY <1>4, <1>10 DEF IInv, TypeOK, BankType
<1>12. /\ scheduled' = [scheduled EXCEPT ![q] = scheduled[q] - 1]
       /\ occupancy' = [occupancy EXCEPT ![q] = occupancy[q] - 1]
       /\ next_process' = [next_process EXCEPT ![q] = update_process_cycle(q, slots)]
       /\ dbus_cycle_available' = now + RETURN_TIME
       /\ awaiting' = IF q = "RQ" THEN awaiting \ {a} ELSE awaiting
       /\ stale_writes' \in SUBSET stale_writes
  BY DEF Transfer
<1> HIDE DEF slots, b, i
<1>13. Scheduled(q, slots) = Scheduled(q, entry[q]) \ {i}
  BY <1>6, <1>7 DEF Scheduled, EmptySlot
<1>14. Occupied(q, slots) = Occupied(q, entry[q]) \ {i} /\ i \in Occupied(q, entry[q])
  BY <1>3, <1>6, <1>7 DEF Occupied, EmptySlot
<1>15. \A p \in Queue : \A j \in Scheduled(p, entry'[p]) :
          j \in Scheduled(p, entry[p]) /\ entry'[p][j] = entry[p][j] /\ (p = q => j # i)
  BY <1>7, <1>9, <1>13 DEF Scheduled
<1>16. occupancy'[q] = occupancy[q] - 1 /\ occupancy' \in [Queue -> Nat]
  <2>1. occupancy[q] # 0
    BY <1>1, <1>14, SlotSetsAreFinite DEF IInv, ReadsAccountedFor
  <2>2. occupancy \in [Queue -> Nat]
    BY DEF IInv, TypeOK
  <2> QED
    BY <2>1, <2>2, <1>1, <1>12
<1>17. TypeOK'
  <2>1. DOMAIN next_process' = Queue /\ \A p \in Queue : next_process'[p] \in NextType(p)
    BY <1>1, <1>6, <1>12, CachedIndex DEF IInv, TypeOK
  <2>2. \A p \in Queue : entry'[p] \in [Slot(p) -> SlotType]
    BY <1>6, <1>9 DEF IInv, TypeOK
  <2>3. scheduled' \in [Queue -> Int]
    BY <1>1, <1>12 DEF IInv, TypeOK
  <2>4. bank_request' \in [Bank -> BankType]
    <3>1. bank_request \in [Bank -> BankType]
      BY DEF IInv, TypeOK
    <3> DEFINE freed == [bank_request[b] EXCEPT !.request_index = -1, !.working = FALSE, !.op = "none"]
    <3>2. bank_request[b] \in BankType /\ -1 \in Int
      BY <3>1, <1>4
    <3>3. freed \in BankType
      BY <3>2 DEF BankType
    <3> HIDE DEF freed
    <3> QED
      BY <3>1, <3>3, <1>4, <1>10 DEF freed
  <2>5. dbus_cycle_available' \in Nat
    BY <1>12, TimingAssumption DEF IInv, TypeOK
  <2>6. awaiting' \in SUBSET Addr /\ stale_writes' \in SUBSET Addr
    BY <1>12 DEF IInv, TypeOK
  <2> QED
    BY <2>1, <2>2, <2>3, <2>4, <2>5, <2>6, <1>9, <1>16 DEF IInv, TypeOK
<1>18. BanksMatchRequests'
  <2>1. RequestHasItsBank'
    <3> SUFFICES ASSUME NEW p \in Queue, NEW j \in Scheduled(p, entry'[p])
                 PROVE  LET r == bank_request'[BankOf(entry'[p][j].address)]
                        IN  entry'[p][j].address # 0 /\ r.working /\ r.op = p /\ r.request_index = j
      BY DEF RequestHasItsBank
    <3> DEFINE c == BankOf(entry[p][j].address)
    <3>1. /\ entry[p][j].address # 0 /\ bank_request[c].working
          /\ bank_request[c].op = p /\ bank_request[c].request_index = j
      BY <1>15 DEF IInv, BanksMatchRequests, RequestHasItsBank
    <3>2. c # b
      BY <3>1, <1>5, <1>15
    <3>3. c \in Bank
      <4>1. entry[p][j].address \in Nat
        BY <1>15 DEF IInv, TypeOK, Scheduled, SlotType, Addr
      <4> QED
        BY <4>1, AddressMapping
    <3> QED
      BY <3>1, <3>2, <3>3, <1>11, <1>15
  <2>2. BankHasItsRequest'
    <3> SUFFICES ASSUME NEW c \in Bank, bank_request'[c].working
                 PROVE  LET r == bank_request'[c]
                        IN  /\ r.op \in Queue
                            /\ r.request_index \in Scheduled(r.op, entry'[r.op])
                            /\ BankOf(entry'[r.op][r.request_index].address) = c
      BY DEF BankHasItsRequest
    <3>1. c # b /\ bank_request'[c] = bank_request[c]
      BY <1>11
    <3> DEFINE r == bank_request[c]
    <3>2. /\ r.op \in Queue
          /\ r.request_index \in Scheduled(r.op, entry[r.op])
          /\ BankOf(entry[r.op][r.request_index].address) = c
      BY <3>1 DEF IInv, BanksMatchRequests, BankHasItsRequest
    <3>3. r.op # q \/ r.request_index # i
      BY <3>1, <3>2 DEF b
    <3>4. /\ r.request_index \in Scheduled(r.op, entry'[r.op])
          /\ entry'[r.op][r.request_index] = entry[r.op][r.request_index]
      BY <3>2, <3>3, <1>7, <1>9, <1>13 DEF Scheduled
    <3> QED
      BY <3>1, <3>2, <3>4
  <2> QED
    BY <2>1, <2>2 DEF BanksMatchRequests
<1>19. OnlyTheModeIsScheduled'
  <2>1. Cardinality(Scheduled(q, slots)) = Cardinality(Scheduled(q, entry[q])) - 1
    <3>1. IsFiniteSet(Scheduled(q, entry[q]))
      BY <1>1, SlotSetsAreFinite
    <3> QED
      BY <3>1, <1>2, <1>13, FS_RemoveElement
  <2>2. ActiveQueue' = q
    BY DEF ActiveQueue
  <2> QED
    BY <2>1, <2>2, <1>1, <1>9, <1>12 DEF IInv, TypeOK, OnlyTheModeIsScheduled
<1>20. NextProcessIsScheduled'
  <2>1. next_process'[q].index < Size[q] => next_process'[q].index \in Scheduled(q, slots)
    BY <1>1, <1>6, <1>12, CachedIndex DEF IInv, TypeOK
  <2>2. \A p \in Queue \ {q} : next_process'[p] = next_process[p]
    BY <1>12 DEF IInv, TypeOK
  <2> QED
    BY <2>1, <2>2, <1>9 DEF IInv, NextProcessIsScheduled
<1>21. ReadsAccountedFor'
  <2>1. awaiting' = {entry'["RQ"][j].address : j \in Slot("RQ")} \ {0}
    <3>1. CASE q = "RQ"
      <4>1. \A j \in Slot(q) \ {i} : entry[q][j].address # a
        BY <1>1, <1>3 DEF IInv, ReadsAccountedFor
      <4>2. {slots[j].address : j \in Slot(q)} \ {0}
              = ({entry[q][j].address : j \in Slot(q)} \ {0}) \ {a}
        BY <4>1, <1>3, <1>6, <1>7 DEF EmptySlot
      <4>3. awaiting = {entry[q][j].address : j \in Slot(q)} \ {0}
        BY <3>1 DEF IInv, ReadsAccountedFor
      <4> QED
        BY <3>1, <4>2, <4>3, <1>9, <1>12
    <3>2. CASE q # "RQ"
      BY <3>2, <1>9, <1>12 DEF IInv, ReadsAccountedFor, Queue
    <3> QED
      BY <3>1, <3>2
  <2>2. \A p \in Queue : \A j \in Slot(p) :
          entry'[p][j].address = entry[p][j].address \/ entry'[p][j].address = 0
    BY <1>6, <1>7, <1>9 DEF EmptySlot
  <2>3. ASSUME NEW p \in Queue
        PROVE  occupancy'[p] = Cardinality(Occupied(p, entry'[p]))
    <3>1. CASE p # q
      BY <3>1, <1>9, <1>12 DEF IInv, ReadsAccountedFor, TypeOK
    <3>2. CASE p = q
      <4>1. IsFiniteSet(Occupied(q, entry[q]))
        BY <1>1, SlotSetsAreFinite
      <4>2. Cardinality(Occupied(q, slots)) = Cardinality(Occupied(q, entry[q])) - 1
        BY <4>1, <1>14, FS_RemoveElement
      <4> QED
        BY <3>2, <4>2, <1>1, <1>9, <1>16 DEF IInv, ReadsAccountedFor
    <3> QED
      BY <3>1, <3>2
  <2> QED
    BY <2>1, <2>2, <2>3 DEF IInv, ReadsAccountedFor
<1>22. BusBacklogByMode'
  <2>1. ASSUME NEW k \in Nat PROVE BookedAhead(k)'
    <3>1. k * TURN_AROUND \in Nat /\ RETURN_TIME \in Nat /\ now \in Nat
      BY TimingAssumption DEF IInv, TypeOK
    <3> QED
      BY <3>1, <1>12 DEF BookedAhead
  <2> QED
    BY <2>1 DEF BusBacklogByMode
<1>23. AccessOutlastsTurnAround'
  BY <1>11 DEF IInv, AccessOutlastsTurnAround
<1> QED
  BY <1>16, <1>17, <1>18, <1>19, <1>20, <1>21, <1>22, <1>23 DEF IInv

\* process: the bus is busy and the bank is held for longer.
LEMMA BusBusyStep ==
  ASSUME IInv, Due(next_process, ActiveQueue), AccessDone(ActiveQueue), BusBusy(ActiveQueue),
         UNCHANGED <<now, warm, next_schedule, write_mode, requests, last_switch>>,
         stage' = "add"
  PROVE  IInv' /\ UNCHANGED occupancy
<1> DEFINE b == CurrentBank(ActiveQueue)
<1>1. UNCHANGED <<entry, occupancy, next_process, next_schedule, scheduled, awaiting, stale_writes>>
  BY DEF BusBusy
<1>2. bank_request' = [bank_request EXCEPT ![b].cycle_available = dbus_cycle_available]
  BY DEF BusBusy
<1>3. \A c \in Bank :
         /\ bank_request'[c].working = bank_request[c].working
         /\ bank_request'[c].op = bank_request[c].op
         /\ bank_request'[c].request_index = bank_request[c].request_index
         /\ \/ bank_request'[c].cycle_available = bank_request[c].cycle_available
            \/ c = b /\ bank_request'[c].cycle_available = dbus_cycle_available
  BY <1>2 DEF IInv, TypeOK, BankType
<1>4. TypeOK'
  <2>1. bank_request' \in [Bank -> BankType]
    BY <1>2 DEF IInv, TypeOK, BankType
  <2> QED
    BY <2>1, <1>1 DEF IInv, TypeOK, BusBusy
<1>5. RequestHasItsBank'
  <2>1. ASSUME NEW p \in Queue, NEW j \in Scheduled(p, entry[p])
        PROVE  BankOf(entry[p][j].address) \in Bank
    <3>1. entry[p][j].address \in Nat
      BY <2>1 DEF IInv, TypeOK, Scheduled, SlotType, Addr
    <3> QED
      BY <3>1, AddressMapping
  <2> QED
    BY <2>1, <1>1, <1>3 DEF IInv, BanksMatchRequests, RequestHasItsBank
<1>6. BankHasItsRequest'
  BY <1>1, <1>3 DEF IInv, BanksMatchRequests, BankHasItsRequest
<1>7. OnlyTheModeIsScheduled' /\ NextProcessIsScheduled' /\ ReadsAccountedFor'
  BY <1>1 DEF IInv, OnlyTheModeIsScheduled, ActiveQueue, NextProcessIsScheduled, ReadsAccountedFor
<1>8. BusBacklogByMode'
  BY <1>1 DEF IInv, BusBacklogByMode, BookedAhead, BusBusy
<1>9. AccessOutlastsTurnAround'
  <2>1. ASSUME NEW c \in Bank, bank_request'[c].working
        PROVE  bank_request'[c].cycle_available >= last_switch + TURN_AROUND
    <3>1. bank_request[c].cycle_available >= last_switch + TURN_AROUND
      BY <2>1, <1>3 DEF IInv, AccessOutlastsTurnAround
    <3>2. c = b => bank_request[c].cycle_available < dbus_cycle_available
      BY DEF AccessDone, BusBusy, IInv, TypeOK, BankType
    <3>3. /\ bank_request[c].cycle_available \in Nat /\ dbus_cycle_available \in Nat
          /\ last_switch \in Nat /\ TURN_AROUND \in Nat
      BY TimingAssumption DEF IInv, TypeOK, BankType
    <3> QED
      BY <3>1, <3>2, <3>3, <1>3
  <2> QED
    BY <2>1 DEF IInv, AccessOutlastsTurnAround
<1> QED
  BY <1>1, <1>4, <1>5, <1>6, <1>7, <1>8, <1>9 DEF IInv, BanksMatchRequests


\* The scheduled requests of the mode's queue are on different banks, and the
\* banks working for it are theirs: they are as many as the counter says.
LEMMA BanksOfAQueue ==
  ASSUME IInv, NEW q \in Queue
  PROVE  /\ \A b \in TouchedBanks(q) : b \in Bank /\ bank_request[b].op = q
                                       /\ ScheduledOn(q, b) \in Scheduled(q, entry[q])
         /\ Cardinality(TouchedBanks(q)) = scheduled[q]
         /\ IsFiniteSet(TouchedBanks(q))
<1> DEFINE S == Scheduled(q, entry[q])
           f == [i \in S |-> BankOf(entry[q][i].address)]
<1>1. \A i \in S : entry[q][i].address \in Nat
  BY DEF IInv, TypeOK, Scheduled, SlotType, Addr
<1>2. \A i \in S : f[i] \in Bank /\ bank_request[f[i]].op = q /\ bank_request[f[i]].request_index = i
  BY <1>1, AddressMapping DEF IInv, BanksMatchRequests, RequestHasItsBank
<1>3. ASSUME NEW b \in TouchedBanks(q)
      PROVE  b \in Bank /\ bank_request[b].op = q /\ ScheduledOn(q, b) \in S
  <2>1. PICK i \in S : b = BankOf(entry[q][i].address)
    BY DEF TouchedBanks
  <2>2. ScheduledOn(q, b) \in S
    BY <2>1 DEF ScheduledOn
  <2> QED
    BY <2>1, <2>2, <1>2
<1>4. f \in Surjection(S, TouchedBanks(q))
  BY DEF Surjection, TouchedBanks
<1>5. f \in Injection(S, TouchedBanks(q))
  BY <1>2, <1>4 DEF Injection, IsInjective, Surjection
<1>6. IsFiniteSet(S)
  BY SlotSetsAreFinite
<1> HIDE DEF S, f
<1>7. IsFiniteSet(TouchedBanks(q)) /\ Cardinality(TouchedBanks(q)) = Cardinality(S)
  BY <1>4, <1>5, <1>6, FS_Surjection
<1>8. scheduled[q] = Cardinality(S)
  BY DEF S, IInv, OnlyTheModeIsScheduled
<1> QED
  BY <1>3, <1>7, <1>8 DEF S

\* A switch of mode: the queue of the mode that ends loses its banks.
LEMMA SwitchStep ==
  ASSUME IInv, NEW mode \in BOOLEAN, mode # write_mode, SwitchTo(mode, ActiveQueue),
         now' = now + 1, BusBacklogByMode',
         UNCHANGED <<warm, client, stale_writes>>,
         stage' = "schedule"
  PROVE  IInv'
<1> DEFINE q == ActiveQueue
           slots == [i \in Slot(q) |->
                       IF entry[q][i].scheduled
                         THEN [entry[q][i] EXCEPT !.scheduled = FALSE, !.event_cycle = now']
                         ELSE entry[q][i]]
<1>1. q \in Queue /\ entry[q] \in [Slot(q) -> SlotType] /\ DOMAIN entry = Queue
  BY ActiveQueueType DEF IInv, TypeOK
<1>2. now \in Nat /\ now' \in Nat
  BY DEF IInv, TypeOK
<1>3. entry' = [entry EXCEPT ![q] = slots]
  BY DEF SwitchTo, reset_remain_requests
<1>4. \A i \in Slot(q) : slots[i] \in SlotType /\ ~slots[i].scheduled /\ slots[i].address = entry[q][i].address
  BY <1>1, <1>2 DEF SlotType
<1>5. slots \in [Slot(q) -> SlotType]
  BY <1>4
<1> HIDE DEF slots
<1>6. entry'[q] = slots /\ DOMAIN entry' = Queue /\ \A p \in Queue \ {q} : entry'[p] = entry[p]
  BY <1>1, <1>3
<1>7. \A p \in Queue : Scheduled(p, entry'[p]) = {}
  BY <1>4, <1>6, OtherQueueIdle DEF IInv, Scheduled
<1>8. \A p \in Queue : entry'[p] \in [Slot(p) -> SlotType]
  BY <1>5, <1>6 DEF IInv, TypeOK
<1>9. \A p \in Queue : \A i \in Slot(p) : entry'[p][i].address = entry[p][i].address
  BY <1>4, <1>6
<1>10. /\ occupancy' = occupancy
       /\ next_schedule' = [p \in Queue |-> update_schedule_cycle(p, entry'[p])]
       /\ next_process' = [p \in Queue |-> update_process_cycle(p, entry'[p])]
       /\ scheduled' = [p \in Queue |-> scheduled[p]
                          - Cardinality({b \in TouchedBanks(q) : bank_request[b].op = p})]
       /\ dbus_cycle_available' = dbus_cycle_available + TURN_AROUND
       /\ last_switch' = now' /\ write_mode' = mode
  BY DEF SwitchTo, reset_remain_requests
<1>11. \A p \in Queue : scheduled'[p] = 0
  <2> SUFFICES ASSUME NEW p \in Queue PROVE scheduled'[p] = 0
    OBVIOUS
  <2> DEFINE T == {b \in TouchedBanks(q) : bank_request[b].op = p}
  <2>1. scheduled'[p] = scheduled[p] - Cardinality(T) /\ scheduled[p] \in Int
    BY <1>10 DEF IInv, TypeOK
  <2>2. CASE p = q
    <3>1. T = TouchedBanks(q)
      BY <2>2, <1>1, BanksOfAQueue
    <3>2. Cardinality(TouchedBanks(q)) = scheduled[q]
      BY <1>1, BanksOfAQueue
    <3> HIDE DEF T
    <3> QED
      BY <2>1, <2>2, <3>1, <3>2
  <2>3. CASE p # q
    <3>1. T = {}
      BY <2>3, <1>1, BanksOfAQueue
    <3>2. scheduled[p] = 0
      BY <2>3 DEF IInv, OnlyTheModeIsScheduled
    <3>3. Cardinality({}) = 0
      BY FS_EmptySet
    <3> HIDE DEF T
    <3> QED
      BY <2>1, <3>1, <3>2, <3>3
  <2> QED
    BY <2>2, <2>3
<1>12. bank_request' = [b \in Bank |->
          IF b \in TouchedBanks(q)
            THEN [IdleBank EXCEPT
                   !.open_row = IF bank_request[b].cycle_available - tCAS <= now'
                                  THEN RowOf(entry[q][ScheduledOn(q, b)].address)
                                  ELSE NoRow,
                   !.cycle_available = now']
            ELSE bank_request[b]]
  BY DEF SwitchTo, reset_remain_requests
<1>13. ASSUME NEW b \in Bank
       PROVE  bank_request'[b] \in BankType /\ ~bank_request'[b].working
  <2>1. CASE b \in TouchedBanks(q)
    <3> DEFINE row == IF bank_request[b].cycle_available - tCAS <= now'
                        THEN RowOf(entry[q][ScheduledOn(q, b)].address)
                        ELSE NoRow
    <3>1. ScheduledOn(q, b) \in Scheduled(q, entry[q])
      BY <2>1, <1>1, BanksOfAQueue
    <3>2. entry[q][ScheduledOn(q, b)].address \in Nat
      BY <3>1, <1>1 DEF Scheduled, SlotType, Addr
    <3>3. row \in Row \cup {NoRow}
      BY <3>2, AddressMapping
    <3>4. bank_request'[b] = [IdleBank EXCEPT !.open_row = row, !.cycle_available = now']
      BY <2>1, <1>12
    <3> HIDE DEF row
    <3>5. bank_request'[b] = [working |-> FALSE, op |-> "none", request_index |-> -1,
                              open_row |-> row, cycle_available |-> now']
      BY <3>4 DEF IdleBank
    <3>6. -1 \in Int /\ "none" \in Queue \cup {"none"}
      OBVIOUS
    <3> QED
      BY <3>3, <3>5, <3>6, <1>2 DEF BankType
  <2>2. CASE b \notin TouchedBanks(q)
    <3>1. bank_request'[b] = bank_request[b] /\ bank_request[b] \in BankType
      BY <2>2, <1>12 DEF IInv, TypeOK
    <3>2. ~bank_request[b].working
      <4> SUFFICES ASSUME bank_request[b].working PROVE FALSE
        OBVIOUS
      <4> DEFINE r == bank_request[b]
      <4>1. /\ r.op \in Queue /\ r.request_index \in Scheduled(r.op, entry[r.op])
            /\ BankOf(entry[r.op][r.request_index].address) = b
        BY DEF IInv, BanksMatchRequests, BankHasItsRequest
      <4>2. r.op = q
        BY <4>1, OtherQueueIdle DEF IInv
      <4> QED
        BY <4>1, <4>2, <2>2 DEF TouchedBanks
    <3> QED
      BY <3>1, <3>2
  <2> QED
    BY <2>1, <2>2
<1>14. TypeOK'
  <2>1. \A p \in Queue : next_schedule'[p] \in NextType(p) /\ next_process'[p] \in NextType(p)
    BY <1>8, <1>10, CachedIndex
  <2>2. scheduled' \in [Queue -> Int]
    <3>1. DOMAIN scheduled' = Queue /\ scheduled' = [p \in Queue |-> scheduled'[p]]
      BY <1>10
    <3>2. \A p \in Queue : scheduled'[p] \in Int
      BY <1>11
    <3> QED
      BY <3>1, <3>2
  <2>3. bank_request' \in [Bank -> BankType]
    <3>1. bank_request' = [b \in Bank |-> bank_request'[b]]
      BY <1>12
    <3> QED
      BY <3>1, <1>13
  <2>4. dbus_cycle_available' \in Nat
    BY <1>10, TimingAssumption DEF IInv, TypeOK
  <2>5. DOMAIN next_schedule' = Queue /\ DOMAIN next_process' = Queue
    BY <1>10
  <2>6. last_switch' \in Nat /\ write_mode' \in BOOLEAN
    BY <1>2, <1>10
  <2> QED
    BY <2>1, <2>2, <2>3, <2>4, <2>5, <2>6, <1>2, <1>6, <1>8, <1>10 DEF IInv, TypeOK, client
<1>15. BanksMatchRequests'
  BY <1>7, <1>13 DEF BanksMatchRequests, RequestHasItsBank, BankHasItsRequest
<1>16. OnlyTheModeIsScheduled'
  BY <1>7, <1>11, FS_EmptySet DEF OnlyTheModeIsScheduled
<1>17. NextProcessIsScheduled'
  BY <1>8, <1>10, CachedIndex DEF NextProcessIsScheduled
<1>18. ReadsAccountedFor'
  <2>1. \A p \in Queue : Occupied(p, entry'[p]) = Occupied(p, entry[p])
    BY <1>9 DEF Occupied
  <2>2. "RQ" \in Queue
    BY DEF Queue
  <2>3. {entry'["RQ"][j].address : j \in Slot("RQ")} = {entry["RQ"][j].address : j \in Slot("RQ")}
    BY <1>9, <2>2
  <2> QED
    BY <2>1, <2>3, <1>9, <1>10 DEF IInv, ReadsAccountedFor, client
<1>19. AccessOutlastsTurnAround'
  BY <1>2, <1>10, <1>13 DEF AccessOutlastsTurnAround
<1> QED
  BY <1>14, <1>15, <1>16, <1>17, <1>18, <1>19 DEF IInv


\* Switching books one turn-around more, at most two into the drain mode from a
\* bus booked one ahead, four from three, and back with one less to go.
LEMMA BacklogAtSwitch ==
  ASSUME IInv, EnterWriteMode \/ LeaveWriteMode, now' = now + 1
  PROVE  BusBacklogByMode'
<1>1. /\ now \in Nat /\ now' \in Nat /\ dbus_cycle_available \in Nat
      /\ RETURN_TIME \in Nat /\ TURN_AROUND \in Nat
  BY TimingAssumption DEF IInv, TypeOK
<1>2. /\ dbus_cycle_available' = dbus_cycle_available + TURN_AROUND
      /\ occupancy' = occupancy
  BY DEF EnterWriteMode, LeaveWriteMode, SwitchTo, reset_remain_requests
<1>3. /\ BookedAhead(0) => BookedAhead(1)'
      /\ BookedAhead(1) => BookedAhead(2)'
      /\ BookedAhead(2) => BookedAhead(3)'
      /\ BookedAhead(3) => BookedAhead(4)'
      /\ BookedAhead(1)' => BookedAhead(3)'
      /\ BookedAhead(2)' => BookedAhead(4)'
      /\ BookedAhead(3)' => BookedAhead(4)'
  BY <1>1, <1>2 DEF BookedAhead
<1>4. LOW_WM \in Nat \ {0} /\ HIGH_WM \in Nat /\ LOW_WM <= HIGH_WM
  BY SizesAssumption
<1>5. occupancy["RQ"] \in Nat /\ occupancy["WQ"] \in Nat
  BY DEF IInv, TypeOK, Queue
<1>6. CASE EnterWriteMode
  <2>1. ~write_mode /\ write_mode' = TRUE /\ MustDrainWrites
    BY <1>6 DEF EnterWriteMode, SwitchTo
  <2>2. occupancy["WQ"] # 0
    BY <2>1, <1>4, <1>5 DEF MustDrainWrites
  <2>3. occupancy["WQ"] < LOW_WM => occupancy["RQ"] = 0
    BY <2>1, <1>4, <1>5 DEF MustDrainWrites
  <2> QED
    BY <1>2, <1>3, <2>1, <2>2, <2>3 DEF IInv, BusBacklogByMode
<1>7. CASE LeaveWriteMode
  <2>1. write_mode /\ write_mode' = FALSE /\ MayServeReads
    BY <1>7 DEF LeaveWriteMode, SwitchTo
  <2>2. occupancy["WQ"] < LOW_WM
    BY <2>1, <1>4, <1>5 DEF MayServeReads
  <2>3. occupancy["RQ"] = 0 => occupancy["WQ"] = 0
    BY <2>1, <1>5 DEF MayServeReads
  <2> QED
    BY <1>2, <1>3, <2>1, <2>2, <2>3 DEF IInv, BusBacklogByMode
<1> QED
  BY <1>6, <1>7

\* schedule gives a bank to a request that can have it, after tCAS at least.
LEMMA ScheduleChoice ==
  ASSUME IInv, schedule(ActiveQueue)
  PROVE  \E i \in Ready(ActiveQueue), hit \in BOOLEAN : StartAccess(ActiveQueue, i, Latency(hit))
<1> DEFINE q == ActiveQueue
<1>1. q \in Queue /\ entry[q] \in [Slot(q) -> SlotType]
  BY ActiveQueueType DEF IInv, TypeOK
<1>2. Ready(q) \in SUBSET Slot(q) /\ RowHits(q) \in SUBSET Ready(q)
  BY DEF Ready, RowHits, Unscheduled
<1>3. CASE RowHits(q) # {}
  <2>1. Oldest(entry[q], RowHits(q)) \in Ready(q)
    BY <1>1, <1>2, <1>3, OldestIsACandidate
  <2> QED
    BY <2>1, <1>3 DEF schedule
<1>4. CASE RowHits(q) = {}
  <2>1. Oldest(entry[q], Ready(q)) \in Ready(q)
    BY <1>1, <1>2, OldestIsACandidate DEF schedule
  <2> QED
    BY <2>1, <1>4 DEF schedule
<1> QED
  BY <1>3, <1>4


\* A queued read is one the LLC waits for.
LEMMA QueuedReadIsAwaited ==
  ASSUME IInv, NEW a \in Addr
  PROVE  Holds(entry, "RQ", a) <=> a \in awaiting
BY DEF IInv, ReadsAccountedFor, Holds, Addr

\* Every step preserves the invariant, and no transfer breaks the turn-around.
LEMMA NextPreservesIInv ==
  ASSUME IInv, [Next]_vars
  PROVE  /\ IInv'
         /\ (\E q \in Queue : occupancy'[q] < occupancy[q]) => now >= last_switch + TURN_AROUND
<1> DEFINE Respected == (\E q \in Queue : occupancy'[q] < occupancy[q])
                          => now >= last_switch + TURN_AROUND
<1>1. occupancy \in [Queue -> Nat]
  BY DEF IInv, TypeOK
<1>2. UNCHANGED occupancy => Respected
  BY <1>1
<1>3. CASE BeginCycle
  <2>1. /\ now' = now + 1 /\ stage' = "schedule"
        /\ UNCHANGED <<warm, client, stale_writes>> /\ now' \in Nat /\ now <= now'
    BY <1>3 DEF BeginCycle, IInv, TypeOK
  <2>2. ASSUME EnterWriteMode \/ LeaveWriteMode
        PROVE  IInv' /\ UNCHANGED occupancy
    <3>1. BusBacklogByMode'
      BY <2>1, <2>2, BacklogAtSwitch
    <3>2. \E mode \in BOOLEAN : mode # write_mode /\ SwitchTo(mode, ActiveQueue)
      BY <2>2 DEF EnterWriteMode, LeaveWriteMode, ActiveQueue
    <3>3. UNCHANGED occupancy
      BY <3>2 DEF SwitchTo, reset_remain_requests
    <3> QED
      BY <2>1, <3>1, <3>2, <3>3, SwitchStep
  <2>3. ASSUME KeepMode
        PROVE  IInv' /\ UNCHANGED occupancy
    <3>1. /\ UNCHANGED <<queues, bank_request, scheduled, write_mode, last_switch,
                         dbus_cycle_available>>
          /\ UNCHANGED <<warm, awaiting, requests, stale_writes>>
      BY <2>1, <2>3 DEF KeepMode, client
    <3>2. /\ warm' \in BOOLEAN /\ stale_writes' \in SUBSET Addr /\ requests' \in Nat
          /\ stage' \in {"add", "schedule", "process"}
      BY <2>1, <3>1 DEF IInv, TypeOK
    <3>3. IInv'
      BY <2>1, <3>1, <3>2, IdleStep
    <3> QED
      BY <3>1, <3>3 DEF queues
  <2> QED
    BY <1>2, <1>3, <2>2, <2>3 DEF BeginCycle
<1>4. CASE Schedule
  <2>1. /\ stage' = "process"
        /\ UNCHANGED <<now, warm, occupancy, write_mode, dbus_cycle_available, client,
                       last_switch, stale_writes>>
    BY <1>4 DEF Schedule
  <2>2. CASE schedule(ActiveQueue)
    <3>1. PICK i \in Ready(ActiveQueue), hit \in BOOLEAN :
             StartAccess(ActiveQueue, i, Latency(hit))
      BY <2>2, ScheduleChoice
    <3>2. Latency(hit) \in Nat /\ tCAS <= Latency(hit)
      BY TimingAssumption DEF Latency
    <3> HIDE DEF Latency
    <3> QED
      BY <1>2, <2>1, <3>1, <3>2, StartAccessStep
  <2>3. CASE UNCHANGED <<entry, next_schedule, next_process, bank_request, scheduled>>
    <3>1. /\ UNCHANGED <<queues, bank_request, scheduled, write_mode, last_switch, awaiting>>
          /\ requests' = requests
      BY <2>1, <2>3 DEF queues, client
    <3>2. /\ warm' \in BOOLEAN /\ stale_writes' \in SUBSET Addr /\ requests' \in Nat
          /\ now' \in Nat /\ now <= now' /\ stage' \in {"add", "schedule", "process"}
      BY <2>1, <3>1 DEF IInv, TypeOK
    <3> QED
      BY <1>2, <2>1, <3>1, <3>2, IdleStep
  <2> QED
    BY <1>4, <2>2, <2>3 DEF Schedule
<1>5. CASE Process
  <2>1. /\ stage' = "add"
        /\ UNCHANGED <<now, warm, next_schedule, write_mode, requests, last_switch>>
    BY <1>5 DEF Process
  <2>2. CASE /\ Due(next_process, ActiveQueue) /\ AccessDone(ActiveQueue)
             /\ Transfer(ActiveQueue)
    <3>1. IInv'
      BY <2>1, <2>2, TransferStep
    <3>2. now >= last_switch + TURN_AROUND
      <4> DEFINE b == CurrentBank(ActiveQueue)
      <4>1. Current(ActiveQueue) \in Scheduled(ActiveQueue, entry[ActiveQueue])
        BY <2>2, ActiveQueueType DEF Due, Current, IInv, NextProcessIsScheduled
      <4>2. bank_request[b].working
        BY <4>1, ActiveQueueType
           DEF CurrentBank, IInv, BanksMatchRequests, RequestHasItsBank
      <4>3. b \in Bank
        <5>1. entry[ActiveQueue][Current(ActiveQueue)].address \in Nat
          BY <4>1, ActiveQueueType DEF IInv, TypeOK, Scheduled, SlotType, Addr
        <5> QED
          BY <5>1, AddressMapping DEF CurrentBank
      <4>4. bank_request[b].cycle_available >= last_switch + TURN_AROUND
        BY <4>2, <4>3 DEF IInv, AccessOutlastsTurnAround
      <4>5. /\ bank_request[b].cycle_available \in Nat /\ last_switch \in Nat
            /\ now \in Nat /\ TURN_AROUND \in Nat
        BY <4>3, TimingAssumption DEF IInv, TypeOK, BankType
      <4>6. bank_request[b].cycle_available <= now
        BY <2>2 DEF AccessDone
      <4> QED
        BY <4>4, <4>5, <4>6
    <3> QED
      BY <3>1, <3>2
  <2>3. CASE /\ Due(next_process, ActiveQueue) /\ AccessDone(ActiveQueue)
             /\ BusBusy(ActiveQueue)
    BY <1>2, <2>1, <2>3, BusBusyStep
  <2>4. CASE UNCHANGED <<queues, bank_request, scheduled, dbus_cycle_available,
                         awaiting, stale_writes>>
    <3>1. /\ warm' \in BOOLEAN /\ stale_writes' \in SUBSET Addr /\ requests' \in Nat
          /\ now' \in Nat /\ now <= now' /\ stage' \in {"add", "schedule", "process"}
      BY <2>1, <2>4 DEF IInv, TypeOK
    <3>2. IInv'
      BY <2>1, <2>4, <3>1, IdleStep
    <3>3. UNCHANGED occupancy
      BY <2>4 DEF queues
    <3> QED
      BY <1>2, <3>2, <3>3
  <2> QED
    BY <1>5, <2>2, <2>3, <2>4 DEF Process
<1>6. ASSUME NEW a \in Addr, NEW cycle \in Lag, add_rq(a, cycle)
      PROVE  IInv' /\ Respected
  <2>1. /\ UNCHANGED <<now, stage, warm, bank_request, scheduled, write_mode,
                       dbus_cycle_available, last_switch, stale_writes>>
        /\ stale_writes' \in SUBSET Addr /\ now \in Nat /\ now' \in Nat /\ now <= now'
        /\ stage' \in {"add", "schedule", "process"} /\ warm' \in BOOLEAN
    BY <1>6 DEF add_rq, IInv, TypeOK
  <2>2. requests' \in Nat
    BY <1>6 DEF add_rq, LLCCalls, IInv, TypeOK
  <2>3. CASE AnsweredAtOnce(a)
    <3>1. UNCHANGED queues /\ UNCHANGED awaiting
      BY <1>6, <2>3 DEF add_rq
    <3>2. IInv'
      BY <2>1, <2>2, <3>1, IdleStep
    <3> QED
      BY <1>2, <3>1, <3>2 DEF queues
  <2>4. CASE ~AnsweredAtOnce(a)
    <3>1. ~Holds(entry, "RQ", a)
      BY <1>6, QueuedReadIsAwaited DEF add_rq
    <3>2. /\ Enqueue("RQ", a, cycle) /\ awaiting' = awaiting \cup {a} /\ ~Full("RQ")
          /\ "RQ" \in Queue
      BY <1>6, <2>4, <3>1 DEF add_rq, LLCCalls, Queue
    <3>3. cycle \in Nat
      BY <2>1, BoundsAssumption DEF Lag
    <3>4. IInv'
      BY <2>1, <2>2, <3>1, <3>2, <3>3, EnqueueStep
    <3>5. \A p \in Queue : occupancy'[p] >= occupancy[p]
      BY <1>1, <3>2 DEF Enqueue
    <3> QED
      BY <1>1, <3>4, <3>5 DEF IInv, TypeOK
  <2> QED
    BY <2>3, <2>4
<1>7. ASSUME NEW a \in Addr, NEW cycle \in Lag, add_wq(a, cycle)
      PROVE  IInv' /\ Respected
  <2>1. /\ UNCHANGED <<now, stage, warm, bank_request, scheduled, write_mode,
                       dbus_cycle_available, awaiting, last_switch>>
        /\ now \in Nat /\ now' \in Nat /\ now <= now'
        /\ stage' \in {"add", "schedule", "process"} /\ warm' \in BOOLEAN
    BY <1>7 DEF add_wq, IInv, TypeOK
  <2>2. requests' \in Nat /\ stale_writes' \in SUBSET Addr
    BY <1>7 DEF add_wq, LLCCalls, IInv, TypeOK
  <2>3. CASE ~warm \/ Holds(entry, "WQ", a)
    <3>1. UNCHANGED queues
      BY <1>7, <2>3 DEF add_wq
    <3>2. IInv'
      BY <2>1, <2>2, <3>1, IdleStep
    <3> QED
      BY <1>2, <3>1, <3>2 DEF queues
  <2>4. CASE ~(~warm \/ Holds(entry, "WQ", a))
    <3>1. Enqueue("WQ", a, cycle) /\ ~Full("WQ") /\ "WQ" \in Queue /\ ~Holds(entry, "WQ", a)
      BY <1>7, <2>4 DEF add_wq, LLCCalls, Queue
    <3>2. cycle \in Nat
      BY <2>1, BoundsAssumption DEF Lag
    <3>3. IInv'
      BY <2>1, <2>2, <3>1, <3>2, EnqueueStep
    <3>4. \A p \in Queue : occupancy'[p] >= occupancy[p]
      BY <1>1, <3>1 DEF Enqueue
    <3> QED
      BY <1>1, <3>3, <3>4 DEF IInv, TypeOK
  <2> QED
    BY <2>3, <2>4
<1>8. CASE WarmupCompletes
  <2>1. /\ UNCHANGED <<queues, bank_request, scheduled, write_mode, last_switch, awaiting,
                       dbus_cycle_available>>
        /\ stale_writes' = stale_writes /\ requests' = requests /\ now' = now /\ stage' = stage
        /\ warm' = TRUE
    BY <1>8 DEF WarmupCompletes, client
  <2>2. /\ warm' \in BOOLEAN /\ stale_writes' \in SUBSET Addr /\ requests' \in Nat
        /\ now' \in Nat /\ now <= now' /\ stage' \in {"add", "schedule", "process"}
    BY <2>1 DEF IInv, TypeOK
  <2>3. IInv'
    BY <2>1, <2>2, IdleStep
  <2> QED
    BY <1>2, <2>1, <2>3 DEF queues
<1>9. CASE UNCHANGED vars
  <2>1. /\ UNCHANGED <<queues, bank_request, scheduled, write_mode, last_switch, awaiting,
                       dbus_cycle_available>>
        /\ stale_writes' = stale_writes /\ requests' = requests /\ now' = now /\ stage' = stage
        /\ warm' = warm
    BY <1>9 DEF vars, client
  <2>2. /\ warm' \in BOOLEAN /\ stale_writes' \in SUBSET Addr /\ requests' \in Nat
        /\ now' \in Nat /\ now <= now' /\ stage' \in {"add", "schedule", "process"}
    BY <2>1 DEF IInv, TypeOK
  <2>3. IInv'
    BY <2>1, <2>2, IdleStep
  <2> QED
    BY <1>2, <2>1, <2>3 DEF queues
<1> QED
  BY <1>3, <1>4, <1>5, <1>6, <1>7, <1>8, <1>9 DEF Next


-----------------------------------------------------------------------------
(***************************************************************************)
(* The controller's invariants, for every specification parameter.         *)
(***************************************************************************)

\* Every reachable state of the controller satisfies the inductive invariant.
THEOREM InvariantHolds == Spec => []IInv
<1>1. IInv /\ [Next]_vars => IInv'
  BY NextPreservesIInv
<1> QED
  BY InitIInv, <1>1, PTL DEF Spec

\* The controller's state keeps its types: no index leaves its queue.
THEOREM TypeCorrect == Spec => []TypeOK
<1>1. IInv => TypeOK
  BY DEF IInv
<1> QED
  BY InvariantHolds, <1>1, PTL

\* Banks and scheduled requests match one to one through every change of mode
\* (the assert on request_index in process()).
THEOREM BanksMatch == Spec => []BanksMatchRequests
<1>1. IInv => BanksMatchRequests
  BY DEF IInv
<1> QED
  BY InvariantHolds, <1>1, PTL

\* scheduled_reads and scheduled_writes count what is scheduled, and are zero out
\* of their mode (the assert of reset_remain_requests).
THEOREM CountersExact == Spec => []OnlyTheModeIsScheduled
<1>1. IInv => OnlyTheModeIsScheduled
  BY DEF IInv
<1> QED
  BY InvariantHolds, <1>1, PTL

\* The read queue holds each block the LLC waits for, once (the queues of add_rq
\* and add_wq never overwrite or lose a packet).
THEOREM NoReadLost == Spec => []ReadsAccountedFor
<1>1. IInv => ReadsAccountedFor
  BY DEF IInv
<1> QED
  BY InvariantHolds, <1>1, PTL

\* The data bus is never booked further ahead than one transfer and four
\* turn-arounds (dbus_cycle_available in operate() and process()).
THEOREM BacklogBound == Spec => []BusBacklogBounded
<1>1. IInv => BusBacklogBounded
  BY DEF IInv, BusBacklogByMode, BookedAhead, BusBacklogBounded
<1> QED
  BY InvariantHolds, <1>1, PTL

\* No transfer within the turn-around that follows a switch of mode.
THEOREM TurnAround == Spec => TurnAroundRespected
<1> DEFINE Step == (\E q \in Queue : occupancy'[q] < occupancy[q])
                     => now >= last_switch + TURN_AROUND
<1>1. IInv /\ [Next]_vars => [Step]_vars
  BY NextPreservesIInv
<1> QED
  BY InvariantHolds, <1>1, PTL DEF Spec, TurnAroundRespected

-----------------------------------------------------------------------------
(***************************************************************************)
(* The cached indices: each step refreshes those whose candidates it       *)
(* touches.  add_rq and add_wq fill a slot that was empty, so that what is *)
(* scheduled stays; process() empties one that was scheduled, so that what *)
(* is to be scheduled stays.                                               *)
(***************************************************************************)
LEMMA EnqueueKeepsFresh ==
  ASSUME IInv, IInv', CachedIndicesAreFresh, NEW q \in Queue, NEW a \in Addr, NEW cycle,
         ~Full(q), Enqueue(q, a, cycle)
  PROVE  CachedIndicesAreFresh'
<1>1. /\ entry[q] \in [Slot(q) -> SlotType] /\ entry'[q] \in [Slot(q) -> SlotType]
      /\ DOMAIN entry = Queue /\ DOMAIN next_schedule = Queue
      /\ occupancy[q] = Cardinality(Occupied(q, entry[q]))
  BY DEF IInv, TypeOK, ReadsAccountedFor
<1>2. FirstEmpty(q) \in Slot(q) /\ entry[q][FirstEmpty(q)].address = 0
  BY <1>1, RoomMeansAnEmptySlot
<1>3. FirstEmpty(q) \notin Scheduled(q, entry[q])
  BY <1>2 DEF IInv, BanksMatchRequests, RequestHasItsBank
<1>4. /\ entry'[q][FirstEmpty(q)].scheduled = FALSE
      /\ \A i \in Slot(q) : i # FirstEmpty(q) => entry'[q][i] = entry[q][i]
      /\ next_schedule'[q] = update_schedule_cycle(q, entry'[q])
      /\ \A p \in Queue : p # q => entry'[p] = entry[p] /\ next_schedule'[p] = next_schedule[p]
      /\ next_process' = next_process
  BY <1>1, <1>2 DEF Enqueue
<1>5. Scheduled(q, entry'[q]) = Scheduled(q, entry[q])
  BY <1>2, <1>3, <1>4 DEF Scheduled
<1>6. \A i \in Scheduled(q, entry[q]) : entry'[q][i].event_cycle = entry[q][i].event_cycle
  BY <1>3, <1>4 DEF Scheduled
<1>7. Scheduled(q, entry[q]) \in SUBSET Slot(q)
  BY DEF Scheduled
<1>8. update_process_cycle(q, entry'[q]) = update_process_cycle(q, entry[q])
  BY <1>1, <1>5, <1>6, <1>7, SameCandidatesSameNext DEF update_process_cycle
<1> QED
  BY <1>4, <1>8 DEF CachedIndicesAreFresh

LEMMA TransferKeepsFresh ==
  ASSUME IInv, IInv', CachedIndicesAreFresh, NEW q \in Queue,
         Due(next_process, q), Transfer(q), next_schedule' = next_schedule
  PROVE  CachedIndicesAreFresh'
<1>1. /\ entry[q] \in [Slot(q) -> SlotType] /\ entry'[q] \in [Slot(q) -> SlotType]
      /\ DOMAIN entry = Queue /\ DOMAIN next_process = Queue
  BY DEF IInv, TypeOK
<1>2. Current(q) \in Scheduled(q, entry[q])
  BY DEF IInv, NextProcessIsScheduled, Due, Current
<1>3. /\ entry'[q][Current(q)].address = 0
      /\ \A i \in Slot(q) : i # Current(q) => entry'[q][i] = entry[q][i]
      /\ next_process'[q] = update_process_cycle(q, entry'[q])
      /\ \A p \in Queue : p # q => entry'[p] = entry[p] /\ next_process'[p] = next_process[p]
  BY <1>1, <1>2 DEF Transfer, EmptySlot, Scheduled
<1>4. Unscheduled(q, entry'[q]) = Unscheduled(q, entry[q])
  BY <1>2, <1>3 DEF Unscheduled, Scheduled
<1>5. \A i \in Unscheduled(q, entry[q]) : entry'[q][i].event_cycle = entry[q][i].event_cycle
  BY <1>2, <1>3 DEF Unscheduled, Scheduled
<1>6. Unscheduled(q, entry[q]) \in SUBSET Slot(q)
  BY DEF Unscheduled
<1>7. update_schedule_cycle(q, entry'[q]) = update_schedule_cycle(q, entry[q])
  BY <1>1, <1>4, <1>5, <1>6, SameCandidatesSameNext DEF update_schedule_cycle
<1> QED
  BY <1>3, <1>7 DEF CachedIndicesAreFresh

\* A change of mode refreshes everything, an access both indices of its queue.
LEMMA RefreshingKeepsFresh ==
  ASSUME IInv, CachedIndicesAreFresh,
         \/ \E q \in Queue : reset_remain_requests(q)
         \/ \E q \in Queue : \E i, latency : StartAccess(q, i, latency)
         \/ UNCHANGED queues
  PROVE  CachedIndicesAreFresh'
<1>1. ASSUME NEW q \in Queue, reset_remain_requests(q)
      PROVE  CachedIndicesAreFresh'
  BY <1>1 DEF reset_remain_requests, CachedIndicesAreFresh
<1>2. ASSUME NEW q \in Queue, NEW i, NEW latency, StartAccess(q, i, latency)
      PROVE  CachedIndicesAreFresh'
  <2>1. DOMAIN entry = Queue /\ DOMAIN next_schedule = Queue /\ DOMAIN next_process = Queue
    BY DEF IInv, TypeOK
  <2>2. /\ next_schedule'[q] = update_schedule_cycle(q, entry'[q])
        /\ next_process'[q] = update_process_cycle(q, entry'[q])
        /\ \A p \in Queue : p # q => /\ entry'[p] = entry[p]
                                    /\ next_schedule'[p] = next_schedule[p]
                                    /\ next_process'[p] = next_process[p]
    BY <1>2, <2>1 DEF StartAccess
  <2> QED
    BY <2>2 DEF CachedIndicesAreFresh
<1>3. CASE UNCHANGED queues
  BY <1>3 DEF queues, CachedIndicesAreFresh
<1> QED
  BY <1>1, <1>2, <1>3

LEMMA StepKeepsFresh ==
  ASSUME IInv, IInv', CachedIndicesAreFresh, [Next]_vars
  PROVE  CachedIndicesAreFresh'
<1>1. CASE BeginCycle
  BY <1>1, RefreshingKeepsFresh
     DEF BeginCycle, EnterWriteMode, LeaveWriteMode, KeepMode, SwitchTo, Queue
<1>2. CASE Schedule
  <2>1. CASE schedule(ActiveQueue)
    BY <2>1, RefreshingKeepsFresh, ActiveQueueType DEF schedule
  <2>2. CASE UNCHANGED <<entry, next_schedule, next_process, bank_request, scheduled>>
    BY <1>2, <2>2, RefreshingKeepsFresh DEF Schedule, queues
  <2> QED
    BY <1>2, <2>1, <2>2 DEF Schedule
<1>3. CASE Process
  <2>1. CASE Due(next_process, ActiveQueue) /\ Transfer(ActiveQueue)
    BY <1>3, <2>1, TransferKeepsFresh, ActiveQueueType DEF Process
  <2>2. CASE BusBusy(ActiveQueue) \/ UNCHANGED queues
    BY <1>3, <2>2, RefreshingKeepsFresh DEF Process, BusBusy, queues
  <2> QED
    BY <1>3, <2>1, <2>2 DEF Process
<1>4. ASSUME NEW a \in Addr, NEW cycle \in Lag, add_rq(a, cycle)
      PROVE  CachedIndicesAreFresh'
  BY <1>4, EnqueueKeepsFresh, RefreshingKeepsFresh DEF add_rq, LLCCalls, Queue
<1>5. ASSUME NEW a \in Addr, NEW cycle \in Lag, add_wq(a, cycle)
      PROVE  CachedIndicesAreFresh'
  BY <1>5, EnqueueKeepsFresh, RefreshingKeepsFresh DEF add_wq, LLCCalls, Queue
<1>6. CASE WarmupCompletes \/ UNCHANGED vars
  BY <1>6, RefreshingKeepsFresh DEF WarmupCompletes, vars, queues
<1> QED
  BY <1>1, <1>2, <1>3, <1>4, <1>5, <1>6 DEF Next

\* The cached indices are what a fresh scan of the queues would find
\* (update_schedule_cycle and update_process_cycle, left out where they may be).
THEOREM IndicesStayFresh == Spec => []CachedIndicesAreFresh
<1>1. Init => CachedIndicesAreFresh
  <2> SUFFICES ASSUME Init, NEW q \in Queue
               PROVE  /\ next_schedule[q] = update_schedule_cycle(q, entry[q])
                      /\ next_process[q] = update_process_cycle(q, entry[q])
    BY DEF CachedIndicesAreFresh
  <2>1. Unscheduled(q, entry[q]) = {} /\ Scheduled(q, entry[q]) = {}
    BY DEF Init, Unscheduled, Scheduled, EmptySlot
  <2> QED
    BY <2>1 DEF Init, update_schedule_cycle, update_process_cycle, Next_of
<1>2. IInv /\ IInv' /\ CachedIndicesAreFresh /\ [Next]_vars => CachedIndicesAreFresh'
  BY StepKeepsFresh
<1> QED
  BY <1>1, <1>2, InvariantHolds, PTL DEF Spec

-----------------------------------------------------------------------------
(***************************************************************************)
(* The controller implements the memory service.                           *)
(***************************************************************************)
PendingWrites == {entry["WQ"][i].address : i \in Slot("WQ")} \ {0}

\* A step that moves no packet is a stutter of the service.
LEMMA SamePackets ==
  ASSUME UNCHANGED awaiting,
         \A i \in Slot("WQ") : entry'["WQ"][i].address = entry["WQ"][i].address
  PROVE  UNCHANGED <<awaiting, PendingWrites>>
BY DEF PendingWrites

\* Initial states map to the service's, and every step to a step of it or a stutter.
LEMMA StepRefinement ==
  ASSUME IInv, [Next]_vars
  PROVE  [Service!Next]_(Service!vars)
<1> SUFFICES \/ UNCHANGED <<awaiting, PendingWrites>>
             \/ Service!Next
  BY DEF Service!vars, PendingWrites
<1> "RQ" \in Queue /\ "WQ" \in Queue /\ Queue = {"RQ", "WQ"}
  BY DEF Queue
<1>1. \A q \in Queue : entry[q] \in [Slot(q) -> SlotType]
  BY DEF IInv, TypeOK
<1>2. CASE UNCHANGED <<entry, awaiting>>
  BY <1>2, SamePackets
<1>3. CASE BeginCycle
  <2>1. UNCHANGED awaiting
    BY <1>3 DEF BeginCycle, client
  <2>2. \A i \in Slot("WQ") : entry'["WQ"][i].address = entry["WQ"][i].address
    <3>1. CASE KeepMode
      BY <3>1 DEF KeepMode, queues
    <3>2. ASSUME NEW q \in Queue, reset_remain_requests(q)
          PROVE  \A i \in Slot("WQ") : entry'["WQ"][i].address = entry["WQ"][i].address
      <4> DEFINE slots == [i \in Slot(q) |->
                             IF entry[q][i].scheduled
                               THEN [entry[q][i] EXCEPT !.scheduled = FALSE, !.event_cycle = now']
                               ELSE entry[q][i]]
      <4>1. entry' = [entry EXCEPT ![q] = slots]
        BY <3>2 DEF reset_remain_requests
      <4>2. \A i \in Slot(q) : slots[i].address = entry[q][i].address
        BY <1>1 DEF SlotType
      <4> HIDE DEF slots
      <4> QED
        BY <4>1, <4>2 DEF IInv, TypeOK
    <3> QED
      BY <1>3, <3>1, <3>2 DEF BeginCycle, EnterWriteMode, LeaveWriteMode, SwitchTo
  <2> QED
    BY <2>1, <2>2, SamePackets
<1>4. CASE Schedule
  <2>1. UNCHANGED awaiting
    BY <1>4 DEF Schedule, client
  <2>2. CASE schedule(ActiveQueue)
    <3>1. PICK i \in Ready(ActiveQueue), hit \in BOOLEAN :
             StartAccess(ActiveQueue, i, Latency(hit))
      BY <2>2, ScheduleChoice
    <3> DEFINE q == ActiveQueue
               slots == [entry[q] EXCEPT ![i].scheduled = TRUE,
                                         ![i].event_cycle = now + Latency(hit)]
    <3>2. entry' = [entry EXCEPT ![q] = slots] /\ q \in Queue
      BY <3>1, ActiveQueueType DEF StartAccess
    <3>3. \A j \in Slot(q) : slots[j].address = entry[q][j].address
      BY <1>1, <3>2 DEF SlotType
    <3> HIDE DEF slots, q
    <3>4. \A j \in Slot("WQ") : entry'["WQ"][j].address = entry["WQ"][j].address
      BY <3>2, <3>3 DEF IInv, TypeOK
    <3> QED
      BY <2>1, <3>4, SamePackets
  <2> QED
    BY <1>2, <1>4, <2>1, <2>2 DEF Schedule
<1>5. CASE Process
  <2>1. CASE Due(next_process, ActiveQueue) /\ Transfer(ActiveQueue)
    <3> DEFINE q == ActiveQueue
               i == Current(q)
               a == entry[q][i].address
    <3>1. q \in Queue /\ i \in Scheduled(q, entry[q])
      BY <2>1, ActiveQueueType DEF Due, Current, IInv, NextProcessIsScheduled
    <3>2. i \in Slot(q) /\ a # 0 /\ a \in Addr
      BY <1>1, <3>1 DEF Scheduled, IInv, BanksMatchRequests, RequestHasItsBank, SlotType
    <3>3. \A j \in Slot(q) \ {i} : entry[q][j].address # a
      BY <3>1, <3>2 DEF IInv, ReadsAccountedFor
    <3>4. entry' = [entry EXCEPT ![q] = [entry[q] EXCEPT ![i] = EmptySlot]]
      BY <2>1 DEF Transfer
    <3>5. /\ q = "RQ" => awaiting' = awaiting \ {a}
          /\ q # "RQ" => awaiting' = awaiting
      BY <2>1 DEF Transfer
    <3> HIDE DEF q, i
    <3>6. CASE q = "RQ"
      <4>1. entry'["WQ"] = entry["WQ"]
        BY <3>4, <3>6 DEF IInv, TypeOK
      <4>2. UNCHANGED PendingWrites
        BY <4>1 DEF PendingWrites
      <4>3. a \in awaiting
        BY <3>2, <3>6 DEF IInv, ReadsAccountedFor
      <4>4. Service!ReturnRead(a)
        BY <3>5, <3>6, <4>2, <4>3 DEF Service!ReturnRead, PendingWrites
      <4> HIDE DEF a
      <4> QED
        BY <3>2, <4>4 DEF Service!Next
    <3>7. CASE q = "WQ"
      <4>1. entry'["WQ"] = [entry["WQ"] EXCEPT ![i] = EmptySlot]
        BY <3>1, <3>4, <3>7 DEF IInv, TypeOK
      <4>2. entry'["WQ"][i].address = 0 /\ \A j \in Slot("WQ") \ {i} : entry'["WQ"][j] = entry["WQ"][j]
        BY <1>1, <3>2, <3>7, <4>1 DEF EmptySlot
      <4>3. PendingWrites' = PendingWrites \ {a} /\ a \in PendingWrites
        BY <3>2, <3>3, <3>7, <4>2 DEF PendingWrites
      <4>4. \E d \in Addr : Service!RetireWrite(d)
        BY <3>2, <3>5, <3>7, <4>3 DEF Service!RetireWrite, PendingWrites
      <4> QED
        BY <4>4 DEF Service!Next
    <3> QED
      BY <3>1, <3>6, <3>7
  <2>2. CASE ~Transfer(ActiveQueue)
    BY <1>2, <1>5, <2>2 DEF Process, BusBusy, queues
  <2> QED
    BY <1>2, <1>5, <2>1, <2>2 DEF Process, queues
<1>6. ASSUME NEW q \in Queue, NEW a \in Addr, NEW cycle, Enqueue(q, a, cycle), ~Full(q)
      PROVE  /\ \A p \in Queue \ {q} : entry'[p] = entry[p]
             /\ q = "WQ" => PendingWrites' = PendingWrites \cup {a}
  <2> DEFINE i == FirstEmpty(q)
             packet == [address |-> a, event_cycle |-> cycle, scheduled |-> FALSE]
  <2>1. i \in Slot(q) /\ entry[q][i].address = 0
    BY <1>1, <1>6, RoomMeansAnEmptySlot DEF IInv, ReadsAccountedFor
  <2>2. entry' = [entry EXCEPT ![q] = [entry[q] EXCEPT ![i] = packet]]
    BY <1>6 DEF Enqueue
  <2>3. packet.address = a
    OBVIOUS
  <2> HIDE DEF i, packet
  <2>4. \A p \in Queue \ {q} : entry'[p] = entry[p]
    BY <2>2 DEF IInv, TypeOK
  <2>5. entry'[q][i].address = a /\ \A j \in Slot(q) \ {i} : entry'[q][j] = entry[q][j]
    BY <1>1, <2>1, <2>2, <2>3 DEF IInv, TypeOK
  <2>6. a # 0
    BY DEF Addr
  <2>7. q = "WQ" => PendingWrites' = PendingWrites \cup {a}
    BY <2>1, <2>5, <2>6 DEF PendingWrites
  <2> QED
    BY <2>4, <2>7
<1>7. ASSUME NEW a \in Addr, NEW cycle \in Lag, add_rq(a, cycle)
      PROVE  \/ UNCHANGED <<awaiting, PendingWrites>>
             \/ Service!Next
  <2>1. CASE AnsweredAtOnce(a)
    BY <1>2, <1>7, <2>1 DEF add_rq, queues
  <2>2. CASE ~AnsweredAtOnce(a)
    <3>1. ~Holds(entry, "RQ", a)
      BY <1>7, QueuedReadIsAwaited DEF add_rq
    <3>2. Enqueue("RQ", a, cycle) /\ ~Full("RQ") /\ awaiting' = awaiting \cup {a} /\ a \notin awaiting
      BY <1>7, <2>2, <3>1 DEF add_rq, LLCCalls
    <3>3. UNCHANGED PendingWrites
      BY <1>6, <3>2 DEF PendingWrites
    <3>4. a \notin PendingWrites
      BY <2>2 DEF AnsweredAtOnce, Holds, PendingWrites
    <3>5. Service!Read(a)
      BY <3>2, <3>3, <3>4 DEF Service!Read, PendingWrites
    <3> QED
      BY <3>5 DEF Service!Next
  <2> QED
    BY <2>1, <2>2
<1>8. ASSUME NEW a \in Addr, NEW cycle \in Lag, add_wq(a, cycle)
      PROVE  \/ UNCHANGED <<awaiting, PendingWrites>>
             \/ Service!Next
  <2>1. UNCHANGED awaiting
    BY <1>8 DEF add_wq
  <2>2. CASE UNCHANGED queues
    BY <1>2, <2>1, <2>2 DEF queues
  <2>3. CASE Enqueue("WQ", a, cycle)
    <3>1. PendingWrites' = PendingWrites \cup {a}
      BY <1>6, <1>8, <2>3 DEF add_wq, LLCCalls
    <3>2. Service!Write(a)
      BY <2>1, <3>1 DEF Service!Write, PendingWrites
    <3> QED
      BY <3>2 DEF Service!Next
  <2> QED
    BY <1>8, <2>2, <2>3 DEF add_wq
<1>9. CASE WarmupCompletes
  BY <1>2, <1>9 DEF WarmupCompletes, queues, client
<1>10. CASE UNCHANGED vars
  BY <1>2, <1>10 DEF vars, queues, client
<1> QED
  BY <1>3, <1>4, <1>5, <1>7, <1>8, <1>9, <1>10 DEF Next

\* MEMORY_CONTROLLER keeps the promise of MemService: requests are neither lost,
\* duplicated nor overwritten in its queues, through every change of mode.
THEOREM Refinement == Spec => ImplementsMemService
<1>1. Init => Service!Init
  <2> SUFFICES ASSUME Init PROVE Service!Init
    OBVIOUS
  <2>1. \A i \in Slot("WQ") : entry["WQ"][i].address = 0
    BY DEF Init, EmptySlot, Queue
  <2> QED
    BY <2>1 DEF Init, Service!Init
<1>2. IInv /\ [Next]_vars => [Service!Next]_(Service!vars)
  BY StepRefinement
<1> QED
  BY <1>1, <1>2, InvariantHolds, PTL DEF Spec, ImplementsMemService, Service!Spec

=============================================================================
