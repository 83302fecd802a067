---------------------------- MODULE PacketQueue -----------------------------
(***************************************************************************)
(* PACKET_QUEUE (src/block.cc) as the caches use it for RQ, WQ, PQ and     *)
(* PROCESSED: a ring that is added to at the tail, removed from at the     *)
(* head and searched by address (the write queue of the L1D by full        *)
(* address, which is then what stands for the address here).  head and     *)
(* tail are equal when the ring is empty and when it is full.              *)
(***************************************************************************)
EXTENDS Integers, Sequences

CONSTANTS Address, SIZE, NoAddress

ASSUME QueueAssumption == SIZE \in Nat \ {0} /\ NoAddress \notin Address

VARIABLES
  entry, head, tail, occupancy,
  index          \* what check_queue returned last; -1 again when an entry is removed

queueVars == <<entry, head, tail, occupancy, index>>

Slot == 0 .. SIZE - 1

NextSlot(i) == IF i + 1 >= SIZE THEN 0 ELSE i + 1

\* The callers add only below SIZE: a full queue fails the assert.
add_queue(a) ==
  /\ occupancy < SIZE
  /\ entry' = [entry EXCEPT ![tail] = a]
  /\ occupancy' = occupancy + 1
  /\ tail' = NextSlot(tail)
  /\ UNCHANGED <<head, index>>

\* The callers pass the entry at the head.  What they found before is of no use then.
remove_queue ==
  /\ occupancy > 0
  /\ entry' = [entry EXCEPT ![head] = NoAddress]
  /\ occupancy' = occupancy - 1
  /\ head' = NextSlot(head)
  /\ index' = -1
  /\ UNCHANGED tail

\* Mutant: a ring that wraps is searched from slot 0.
Earlier_BySlot(i, j) == i < j

\* The order in which check_queue looks: from the head up to the tail or to the end,
\* then from slot 0.
Earlier(i, j) ==
  IF head < tail \/ (i >= head) = (j >= head) THEN i < j ELSE i >= head

Searched ==
  IF head = tail /\ occupancy = 0 THEN {}
  ELSE IF head < tail THEN head .. tail - 1
  ELSE (head .. SIZE - 1) \cup (0 .. tail - 1)

check_queue(a) ==
  /\ \/ index' = -1 /\ \A i \in Searched : entry[i] # a
     \/ /\ index' \in Searched
        /\ entry[index'] = a
        /\ \A i \in Searched : Earlier(i, index') => entry[i] # a
  /\ UNCHANGED <<entry, head, tail, occupancy>>

QueueInit ==
  /\ entry = [i \in Slot |-> NoAddress]
  /\ head = 0 /\ tail = 0 /\ occupancy = 0 /\ index = -1

QueueNext == (\E a \in Address : add_queue(a) \/ check_queue(a)) \/ remove_queue

QueueSpec == QueueInit /\ [][QueueNext]_queueVars

-----------------------------------------------------------------------------
\* The slot of the packet at place k, and the place of slot i.
SlotOf(k) == IF head + k - 1 >= SIZE THEN head + k - 1 - SIZE ELSE head + k - 1
PlaceOf(i) == IF i >= head THEN i - head + 1 ELSE i - head + 1 + SIZE

Contents == [k \in 1 .. occupancy |-> entry[SlotOf(k)]]
Found == IF index = -1 THEN 0 ELSE PlaceOf(index)

Queue == INSTANCE Fifo WITH queue <- Contents, found <- Found

(***************************************************************************)
(* The ring is a queue, through any sequence of additions, removals and    *)
(* wraps: nothing is overwritten or lost, packets leave in their order,    *)
(* and check_queue finds the oldest packet of an address, also in a ring   *)
(* that is full, when head and tail are equal as in an empty one.          *)
(***************************************************************************)
ImplementsFifo == Queue!Spec

=============================================================================
