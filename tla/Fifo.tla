-------------------------------- MODULE Fifo --------------------------------
(***************************************************************************)
(* What the queues between caches promise: packets leave in the order they *)
(* came, and a search finds the oldest packet of an address.               *)
(***************************************************************************)
EXTENDS Naturals, Sequences

CONSTANTS Address, SIZE

VARIABLES queue, found     \* found: the place the last search found, or 0

Add(a) == Len(queue) < SIZE /\ queue' = Append(queue, a) /\ UNCHANGED found

Remove == queue # <<>> /\ queue' = Tail(queue) /\ found' = 0

IsOldest(a, i) == queue[i] = a /\ \A j \in 1 .. i - 1 : queue[j] # a

Search(a) ==
  /\ \/ found' = 0 /\ \A i \in 1 .. Len(queue) : queue[i] # a
     \/ found' \in 1 .. Len(queue) /\ IsOldest(a, found')
  /\ UNCHANGED queue

Init == queue = <<>> /\ found = 0

Next == (\E a \in Address : Add(a) \/ Search(a)) \/ Remove

Spec == Init /\ [][Next]_<<queue, found>>

=============================================================================
