---------------------------- MODULE O3LsqProofs -----------------------------
(***************************************************************************)
(* Proofs about the load and store queues of O3Core, for every trace and   *)
(* every size of the queues, where STA has room for the stores of what is  *)
(* read and not retired (StaSuffices).                                     *)
(*                                                                         *)
(* The invariant Lsq has three parts.  Every operand is accounted for: an  *)
(* entry of the load queue is named by the instruction it names, and       *)
(* num_mem_ops and the numbers in flight are exact.  What has added all    *)
(* its operands has been issued.  And the stores of the trace are one      *)
(* stream of places, f[n] of them in the first n instructions: the store   *)
(* queue holds those from the last retired instruction's up to some place  *)
(* a, from its head on, an instruction names exactly its stores up to a,   *)
(* and STA holds the rest of what is read, in order; a store that has not  *)
(* executed is in RTS0, in a request to the DTLB or in RTS1, as it says.   *)
(*                                                                         *)
(* Counting alone is not inductive: that retire_rob empties the entries at *)
(* the head, and that an index is free when it is pushed, follows only     *)
(* from the order of the stream.  The rest comes from O3CoreProofs: the    *)
(* window of the reorder buffer, and the stages of the loads.              *)
(*                                                                         *)
(* On top of these, Values says which store each load returns: the last of *)
(* the trace before it to its address.  With it every step of the core is  *)
(* a step of the in-order machine or leaves what that machine shows alone. *)
(*                                                                         *)
(* Waits says for which stores instructions wait: for the last to one of   *)
(* their loads' addresses, and the load stays in the queue until then.     *)
(***************************************************************************)
EXTENDS O3CoreProofs

-----------------------------------------------------------------------------
(* Operands: what each slot has issued and what it still waits for.        *)

\* The loads of slot s that are in the queue, and its stores there that have no data.
InLq(q, s) == {l \in Lq : q.lq[l].addr # Nil /\ q.lq[l].rob_index = s}
InSq(q, s) ==
  {f \in Sq : q.sq.at[f].addr # Nil /\ q.sq.at[f].rob_index = s /\ q.sq.at[f].fetched # "COMPLETED"}

\* Entry l of the load queue is a load of the instruction in the slot it names, which
\* names the entry.
IsLoadOf(p, b, e, l) ==
  /\ e.addr \in Addr
  /\ b.at[e.rob_index].id = e.id /\ e.id # 0
  /\ e.data_index \in DOMAIN p[e.id].loads
  /\ e.addr = p[e.id].loads[e.data_index]
  /\ e.data_index \in b.at[e.rob_index].source_added
  /\ b.at[e.rob_index].lq_index[e.data_index] = l

LoadsNamed(p, q) == \A l \in Lq : q.lq[l] = NoLoad \/ IsLoadOf(p, q.rob, q.lq[l], l)

\* num_mem_ops of slot s is the number of its operands that have no data yet.
Counts(p, q, s) ==
  LET e == q.rob.at[s]
  IN /\ e.source_added \subseteq DOMAIN p[e.id].loads
     /\ e.destination_added \subseteq DOMAIN p[e.id].stores
     /\ e.num_mem_ops = Cardinality(DOMAIN p[e.id].loads \ e.source_added)
                        + Cardinality(DOMAIN p[e.id].stores \ e.destination_added)
                        + Cardinality(InLq(q, s)) + Cardinality(InSq(q, s))

OperandsCounted(p, q) ==
  \A s \in Slot : IF q.rob.at[s].id # 0 THEN Counts(p, q, s) ELSE q.rob.at[s].num_mem_ops = 0

\* Instructions that execute in the core, and those that have all their data.
Executing(p, b) ==
  {s \in Slot : b.at[s].id # 0 /\ ~Accesses(p, b.at[s]) /\ b.at[s].executed = "INFLIGHT"}
HaveData(p, b) ==
  {s \in Slot : /\ b.at[s].id # 0 /\ Accesses(p, b.at[s])
                /\ b.at[s].executed # "COMPLETED" /\ b.at[s].num_mem_ops = 0}

InflightCounted(p, q) ==
  /\ q.inflight.reg = Cardinality(Executing(p, q.rob))
  /\ q.inflight.mem = Cardinality(HaveData(p, q.rob))
  /\ \A s \in Slot : q.rob.at[s].id # 0 /\ Accesses(p, q.rob.at[s]) /\ q.rob.at[s].executed = "COMPLETED"
       => q.rob.at[s].num_mem_ops = 0

Accounts(p, q) == LoadsNamed(p, q) /\ OperandsCounted(p, q) /\ InflightCounted(p, q)

\* What has all its operands in the queues has been issued.
AddedIsIssued(p, b) ==
  \A s \in Slot : b.at[s].id # 0 /\ Accesses(p, b.at[s]) /\ b.at[s].executed = "NO"
    => ~AllAdded(b.at[s], p[b.at[s].id])

-----------------------------------------------------------------------------
(* Stores: one stream, in program order, through STA and the store queue.  *)

\* f[n] stores are in the first n instructions: store k of instruction n is in place
\* f[n - 1] + k of the stream.
StoresUpTo(p, f) ==
  /\ f \in [0 .. Len(p) -> Nat]
  /\ f[0] = 0
  /\ \A n \in 1 .. Len(p) : f[n] = f[n - 1] + Len(p[n].stores)

\* Entry e of the store queue is a store of the instruction in the slot it names.
IsStoreOf(p, b, e) ==
  /\ e.id \in 1 .. Len(p) /\ e.data_index \in DOMAIN p[e.id].stores
  /\ e.addr = p[e.id].stores[e.data_index]
  /\ b.at[e.rob_index].id = e.id

StoresHeld(p, b, q) == \A f \in Sq : q.at[f] = NoStore \/ IsStoreOf(p, b, q.at[f])

\* It holds the store in place x.
HoldsPlace(p, f, b, e, x) == IsStoreOf(p, b, e) /\ f[e.id - 1] + e.data_index = x

\* The store queue holds the stores from place c on up to place a, from its head on.
StoreWindow(p, f, b, q, c, a) ==
  /\ a - c \in 0 .. SQ_SIZE
  /\ q.tail = Wrap(SQ_SIZE, q.head + (a - c))
  /\ \A i \in Sq : IF Dist(SQ_SIZE, q.head, i) < a - c
                   THEN HoldsPlace(p, f, b, q.at[i], c + 1 + Dist(SQ_SIZE, q.head, i))
                   ELSE q.at[i] = NoStore

\* An instruction has added the stores up to place a, and names their entries.
NamesStores(p, f, e, q, a) ==
  /\ e.destination_added = {k \in DOMAIN p[e.id].stores : f[e.id - 1] + k <= a}
  /\ \A k \in Dst : IF k \in e.destination_added
                    THEN /\ e.sq_index[k] \in Sq
                         /\ q.at[e.sq_index[k]].addr # Nil
                         /\ q.at[e.sq_index[k]].id = e.id
                         /\ q.at[e.sq_index[k]].data_index = k
                    ELSE e.sq_index[k] = Nil

StoresNamed(p, f, b, q, a) == \A s \in Slot : b.at[s].id # 0 => NamesStores(p, f, b.at[s], q, a)

\* STA holds the instructions of the stores from place a on that have been read.
StaHolds(f, t, a, r) ==
  \E w : /\ RingHolds(t, STA_SIZE, Nat, w)
         /\ Len(w) = f[r] - a
         /\ \A i \in 1 .. Len(w) : w[i] \in 1 .. r /\ f[w[i] - 1] < a + i /\ a + i <= f[w[i]]

\* The stages of a store: its index is in RTS0, in a request to the DTLB or in RTS1, until
\* it has executed.
InStoreStage(q, x, y) ==
  {f \in Sq : q[f].addr # Nil /\ q[f].translated = x /\ q[f].fetched = y}

StoreStages(q, g, D) ==
  /\ RingOf(g.RTS0, SQ_SIZE, InStoreStage(q, "NO", "NO"))
  /\ {f \in Sq : <<"store", f>> \in D} = InStoreStage(q, "INFLIGHT", "NO")
  /\ RingOf(g.RTS1, SQ_SIZE, InStoreStage(q, "COMPLETED", "NO"))
  /\ \A f \in Sq : q[f].addr # Nil =>
       \/ q[f].translated \in {"NO", "INFLIGHT"} /\ q[f].fetched = "NO"
       \/ q[f].translated = "COMPLETED" /\ q[f].fetched \in {"NO", "COMPLETED"}

\* The stores that are read and not retired, a of the stream in the store queue so far.
Stores(p, f, q, D, n, d, r, a) ==
  /\ a \in f[n] .. f[d]
  /\ StoreWindow(p, f, q.rob, q.sq, f[n], a)
  /\ StoresNamed(p, f, q.rob, q.sq, a)
  /\ StaHolds(f, q.sta, a, r)
  /\ StoreStages(q.sq.at, q.ready, D)

-----------------------------------------------------------------------------
(* Counting                                                                *)

\* One member more, one less, and all but some.
Larger(S, T) == Cardinality(T) = Cardinality(S) + 1 /\ Cardinality(S) \in Nat /\ Cardinality(T) \in Nat
WithoutPart(S, T, R) ==
  /\ Cardinality(R) = Cardinality(S) - Cardinality(T)
  /\ Cardinality(S) \in Nat /\ Cardinality(T) \in Nat /\ Cardinality(R) \in Nat
  /\ Cardinality(S) = 0 <=> S = {}
  /\ Cardinality(T) = 0 <=> T = {}
  /\ Cardinality(T) <= Cardinality(S)

\* A member more makes the count one larger,
LEMMA CountLarger ==
  ASSUME NEW S, IsFiniteSet(S), NEW x, x \notin S, NEW T, T = S \cup {x}
  PROVE  Larger(S, T) /\ IsFiniteSet(T)
BY FS_AddElement, FS_CardinalityType DEF Larger

\* and a part less makes it less by the part.
LEMMA CountWithoutPart ==
  ASSUME NEW S, IsFiniteSet(S), NEW T, T \subseteq S, NEW R, R = S \ T
  PROVE  WithoutPart(S, T, R)
<1>1. IsFiniteSet(T) /\ Cardinality(T) <= Cardinality(S)
  BY FS_Subset
<1>2. IsFiniteSet(R) /\ Cardinality(R) = Cardinality(S) - Cardinality(S \cap T)
  BY FS_Difference
<1>3. S \cap T = T
  OBVIOUS
<1> QED
  BY <1>1, <1>2, <1>3, FS_CardinalityType, FS_EmptySet DEF WithoutPart

\* Sets of operands are finite,
LEMMA OperandsFinite ==
  ASSUME NEW S, S \subseteq Src \/ S \subseteq Dst
  PROVE  IsFiniteSet(S) /\ Cardinality(S) \in Nat
<1>1. IsFiniteSet(Src) /\ IsFiniteSet(Dst)
  <2>1. 1 \in Int /\ NUM_INSTR_SOURCES \in Int /\ NUM_INSTR_DESTINATIONS \in Int
    BY Sizes
  <2> QED
    BY <2>1, FS_Interval DEF Src, Dst
<1> QED
  BY <1>1, FS_Subset, FS_CardinalityType

\* and an instruction has Len of them.
LEMMA OperandsLen ==
  ASSUME NEW n \in Nat, NEW S, S = 1 .. n
  PROVE  Cardinality(S) = n
<1>1. 1 \in Int /\ n \in Int
  OBVIOUS
<1>2. Cardinality(S) = IF 1 > n THEN 0 ELSE n - 1 + 1
  BY <1>1, FS_Interval
<1> QED
  BY <1>2

\* So are the operands of a slot that are in the queues,
LEMMA QueuesFinite ==
  ASSUME NEW q, NEW s
  PROVE  /\ IsFiniteSet(InLq(q, s)) /\ Cardinality(InLq(q, s)) \in Nat
         /\ IsFiniteSet(InSq(q, s)) /\ Cardinality(InSq(q, s)) \in Nat
<1>1. InLq(q, s) \in SUBSET Lq /\ InSq(q, s) \in SUBSET Sq
  BY DEF InLq, InSq
<1> QED
  BY <1>1, LqFinite, SqFinite

\* and the instructions in flight.
LEMMA InflightFinite ==
  ASSUME NEW p, NEW b
  PROVE  /\ IsFiniteSet(Executing(p, b)) /\ Cardinality(Executing(p, b)) \in Nat
         /\ IsFiniteSet(HaveData(p, b)) /\ Cardinality(HaveData(p, b)) \in Nat
<1>1. Executing(p, b) \in SUBSET Slot /\ HaveData(p, b) \in SUBSET Slot
  BY DEF Executing, HaveData
<1> QED
  BY <1>1, SlotsFinite

\* The instructions in the buffer b are in the trace p.
IdsOf(p, b) == \A t \in Slot : b.at[t].id \in 0 .. Len(p)

\* The operands of such an instruction.
LEMMA OperandsOf ==
  ASSUME NEW p \in Programs, NEW i \in 0 .. Len(p), i # 0
  PROVE  /\ IsFiniteSet(DOMAIN p[i].loads) /\ IsFiniteSet(DOMAIN p[i].stores)
         /\ DOMAIN p[i].loads \subseteq Src /\ DOMAIN p[i].stores \subseteq Dst
         /\ DOMAIN p[i].loads = 1 .. Len(p[i].loads) /\ DOMAIN p[i].stores = 1 .. Len(p[i].stores)
         /\ Cardinality(DOMAIN p[i].loads) = Len(p[i].loads)
         /\ Cardinality(DOMAIN p[i].stores) = Len(p[i].stores)
         /\ Len(p[i].loads) \in Nat /\ Len(p[i].stores) \in Nat
         /\ \A j \in DOMAIN p[i].loads : p[i].loads[j] \in Addr
         /\ \A j \in DOMAIN p[i].stores : p[i].stores[j] \in Addr
<1>1. Len(p) \in Nat
  BY ProgramsAssumption, LenProperties
<1>2. i \in 1 .. Len(p)
  BY <1>1
<1> DEFINE x == p[i].loads
           y == p[i].stores
<1>3. /\ DOMAIN x \subseteq Src /\ DOMAIN y \subseteq Dst
      /\ x \in Seq(Addr) /\ y \in Seq(Addr)
      /\ Len(x) \in Nat /\ Len(y) \in Nat
      /\ DOMAIN x = 1 .. Len(x) /\ DOMAIN y = 1 .. Len(y)
  BY <1>2, ProgramFacts
<1> HIDE DEF x, y
<1>4. Cardinality(DOMAIN x) = Len(x) /\ Cardinality(DOMAIN y) = Len(y)
  BY <1>3, OperandsLen
<1>5. IsFiniteSet(DOMAIN x) /\ IsFiniteSet(DOMAIN y)
  BY <1>3, OperandsFinite
<1>6. (\A j \in DOMAIN x : x[j] \in Addr) /\ (\A j \in DOMAIN y : y[j] \in Addr)
  BY <1>3, ElementOfSeq
<1> QED
  BY <1>3, <1>4, <1>5, <1>6 DEF x, y

-----------------------------------------------------------------------------
(* Operands that enter the queues and leave them                           *)

\* What is counted of an entry of the reorder buffer is the same in two.
KeepsOperands(e, f) ==
  /\ f.id = e.id
  /\ f.executed = e.executed
  /\ f.num_mem_ops = e.num_mem_ops
  /\ f.source_added = e.source_added
  /\ f.destination_added = e.destination_added
  /\ f.lq_index = e.lq_index
  /\ f.sq_index = e.sq_index

\* Two entries of the load queue hold the same load, or none; of the store queue, a store.
KeepsLoad(e, f) ==
  \/ f = e
  \/ /\ e.addr # Nil
     /\ f.id = e.id /\ f.addr = e.addr /\ f.rob_index = e.rob_index /\ f.data_index = e.data_index
KeepsStore(e, f) ==
  \/ f = e
  \/ /\ e.addr # Nil
     /\ f.id = e.id /\ f.addr = e.addr /\ f.rob_index = e.rob_index /\ f.data_index = e.data_index
     /\ f.fetched = "COMPLETED" <=> e.fetched = "COMPLETED"

\* The loads that an entry of the reorder buffer names keep their names in another.
KeepsNames(e, f) ==
  /\ f.id = e.id
  /\ e.source_added \subseteq f.source_added
  /\ \A j \in e.source_added : f.lq_index[j] = e.lq_index[j]

\* Where a load of q stays, its instruction still names it.
StaysNamed(q, r, l) ==
  /\ KeepsLoad(q.lq[l], r.lq[l])
  /\ q.lq[l].addr # Nil => KeepsNames(q.rob.at[q.lq[l].rob_index], r.rob.at[q.lq[l].rob_index])

\* Each load of a queue is named by its instruction where it was added or stays named.
LEMMA NamesKept ==
  ASSUME NEW p, NEW q, NEW r, LoadsNamed(p, q),
         \A l \in Lq : r.lq[l] = NoLoad \/ StaysNamed(q, r, l) \/ IsLoadOf(p, r.rob, r.lq[l], l)
  PROVE  LoadsNamed(p, r)
<1> SUFFICES ASSUME NEW l \in Lq, StaysNamed(q, r, l), r.lq[l] # NoLoad
             PROVE  IsLoadOf(p, r.rob, r.lq[l], l)
  BY DEF LoadsNamed
<1>1. Nil \notin Addr /\ NoLoad.addr = Nil
  BY Sizes DEF NoLoad
<1>2. IsLoadOf(p, q.rob, q.lq[l], l)
  BY <1>1 DEF LoadsNamed, StaysNamed, KeepsLoad
<1>3. q.lq[l].addr # Nil
  BY Zenon, <1>1, <1>2 DEF IsLoadOf
<1>4. /\ r.lq[l].id = q.lq[l].id /\ r.lq[l].addr = q.lq[l].addr
      /\ r.lq[l].rob_index = q.lq[l].rob_index /\ r.lq[l].data_index = q.lq[l].data_index
  BY DEF StaysNamed, KeepsLoad
<1>5. KeepsNames(q.rob.at[q.lq[l].rob_index], r.rob.at[q.lq[l].rob_index])
  BY <1>3 DEF StaysNamed
<1> QED
  BY Zenon, <1>2, <1>4, <1>5 DEF IsLoadOf, KeepsNames

\* The count of a slot is right where its operands and what is in the queues stay.
LEMMA CountsKept ==
  ASSUME NEW p, NEW q, NEW r, NEW s, Counts(p, q, s), KeepsOperands(q.rob.at[s], r.rob.at[s]),
         InLq(r, s) = InLq(q, s), InSq(r, s) = InSq(q, s)
  PROVE  Counts(p, r, s)
BY Zenon DEF Counts, KeepsOperands

\* The numbers of the count.
CountsAre(p, q, s, a, b, c, d) ==
  LET e == q.rob.at[s]
  IN /\ e.source_added \subseteq DOMAIN p[e.id].loads
     /\ e.destination_added \subseteq DOMAIN p[e.id].stores
     /\ a = Cardinality(DOMAIN p[e.id].loads \ e.source_added)
     /\ b = Cardinality(DOMAIN p[e.id].stores \ e.destination_added)
     /\ c = Cardinality(InLq(q, s)) /\ d = Cardinality(InSq(q, s))
     /\ a \in Nat /\ b \in Nat /\ c \in Nat /\ d \in Nat
     /\ e.num_mem_ops = a + b + c + d
     /\ IsFiniteSet(DOMAIN p[e.id].loads \ e.source_added)
     /\ IsFiniteSet(DOMAIN p[e.id].stores \ e.destination_added)

\* What num_mem_ops counts are numbers.
LEMMA CountedNumbers ==
  ASSUME NEW p \in Programs, NEW q, NEW s \in Slot, IdsOf(p, q.rob), q.rob.at[s].id # 0, Counts(p, q, s)
  PROVE  \E a, b, c, d \in Nat : CountsAre(p, q, s, a, b, c, d)
<1> DEFINE e == q.rob.at[s]
           x == p[e.id].loads
           y == p[e.id].stores
           A == DOMAIN x \ e.source_added
           B == DOMAIN y \ e.destination_added
<1>1. e.id \in 0 .. Len(p) /\ e.id # 0
  BY DEF IdsOf
<1>2. DOMAIN x \subseteq Src /\ DOMAIN y \subseteq Dst
  BY <1>1, OperandsOf
<1>3. A \subseteq Src /\ B \subseteq Dst
  BY <1>2
<1> HIDE DEF A, B
<1>4. IsFiniteSet(A) /\ Cardinality(A) \in Nat /\ IsFiniteSet(B) /\ Cardinality(B) \in Nat
  BY <1>3, OperandsFinite
<1>5. Cardinality(InLq(q, s)) \in Nat /\ Cardinality(InSq(q, s)) \in Nat
  BY QueuesFinite
<1>6. CountsAre(p, q, s, Cardinality(A), Cardinality(B), Cardinality(InLq(q, s)), Cardinality(InSq(q, s)))
  BY Zenon, <1>4, <1>5 DEF Counts, CountsAre, A, B
<1> QED
  BY <1>4, <1>5, <1>6

\* Loads of slot s leave the queue.
LEMMA CountsReleased ==
  ASSUME NEW p \in Programs, NEW q, NEW r, NEW s \in Slot, IdsOf(p, q.rob), q.rob.at[s].id # 0,
         Counts(p, q, s), NEW R \in SUBSET InLq(q, s), NEW n, n = Cardinality(R),
         IsWithoutOps(q.rob.at[s], r.rob.at[s], n),
         InLq(r, s) = InLq(q, s) \ R, InSq(r, s) = InSq(q, s)
  PROVE  Counts(p, r, s) /\ n \in Nat /\ n <= q.rob.at[s].num_mem_ops
<1>1. PICK a, b, c, d \in Nat : CountsAre(p, q, s, a, b, c, d)
  BY CountedNumbers
<1>2. WithoutPart(InLq(q, s), R, InLq(r, s))
  BY QueuesFinite, CountWithoutPart
<1>3. a \in Nat /\ b \in Nat /\ c \in Nat /\ d \in Nat /\ n \in Nat /\ n <= c
  BY ZenonT(60), <1>1, <1>2 DEF CountsAre, WithoutPart
<1>8. q.rob.at[s].num_mem_ops = a + b + c + d
  BY Zenon, <1>1 DEF CountsAre
<1>9. r.rob.at[s].num_mem_ops = q.rob.at[s].num_mem_ops - n
  BY DEF IsWithoutOps
<1>4. q.rob.at[s].num_mem_ops = a + b + c + d /\ r.rob.at[s].num_mem_ops = a + b + c + d - n
  BY <1>3, <1>8, <1>9
<1>5. a + b + c + d - n = a + b + (c - n) + d /\ n <= a + b + c + d
  BY <1>3
<1>6. Cardinality(InLq(r, s)) = c - n /\ Cardinality(InSq(r, s)) = d
  BY ZenonT(60), <1>1, <1>2 DEF CountsAre, WithoutPart
<1>7. Counts(p, r, s)
  BY Zenon, <1>1, <1>4, <1>5, <1>6 DEF Counts, CountsAre, IsWithoutOps, SameRegs
<1> QED
  BY <1>3, <1>4, <1>5, <1>7

\* A store of slot s executes.
LEMMA CountsExecuted ==
  ASSUME NEW p \in Programs, NEW q, NEW r, NEW s \in Slot, IdsOf(p, q.rob), q.rob.at[s].id # 0,
         Counts(p, q, s), NEW f \in InSq(q, s),
         IsWithoutOps(q.rob.at[s], r.rob.at[s], 1),
         InLq(r, s) = InLq(q, s), InSq(r, s) = InSq(q, s) \ {f}
  PROVE  Counts(p, r, s) /\ 1 <= q.rob.at[s].num_mem_ops
<1>1. PICK a, b, c, d \in Nat : CountsAre(p, q, s, a, b, c, d)
  BY CountedNumbers
<1>2. Cardinality(InSq(r, s)) = d - 1 /\ Cardinality(InSq(r, s)) \in Nat
  BY Zenon, <1>1, QueuesFinite, FS_RemoveElement, FS_CardinalityType DEF CountsAre
<1>8. d - 1 \in Nat
  BY <1>2
<1>3. 1 <= d
  BY <1>8
<1>9. q.rob.at[s].num_mem_ops = a + b + c + d
  BY Zenon, <1>1 DEF CountsAre
<1>10. r.rob.at[s].num_mem_ops = q.rob.at[s].num_mem_ops - 1
  BY DEF IsWithoutOps
<1>4. q.rob.at[s].num_mem_ops = a + b + c + d /\ r.rob.at[s].num_mem_ops = a + b + c + d - 1
  BY <1>9, <1>10
<1>5. a + b + c + d - 1 = a + b + c + (d - 1) /\ 1 <= a + b + c + d
  BY <1>3
<1>7. Counts(p, r, s)
  BY ZenonT(60), <1>1, <1>2, <1>4, <1>5 DEF Counts, CountsAre, IsWithoutOps, SameRegs
<1> QED
  BY <1>4, <1>5, <1>7

\* Load j of slot s enters the queue,
LEMMA CountsLoadAdded ==
  ASSUME NEW p \in Programs, NEW q, NEW r, NEW s \in Slot, IdsOf(p, q.rob), q.rob.at[s].id # 0,
         Counts(p, q, s), NEW j \in DOMAIN p[q.rob.at[s].id].loads, j \notin q.rob.at[s].source_added,
         NEW l, l \notin InLq(q, s), IsLoadAdded(q.rob.at[s], r.rob.at[s], j, l),
         InLq(r, s) = InLq(q, s) \cup {l}, InSq(r, s) = InSq(q, s)
  PROVE  Counts(p, r, s)
<1>1. PICK a, b, c, d \in Nat : CountsAre(p, q, s, a, b, c, d)
  BY CountedNumbers
<1> DEFINE D == DOMAIN p[q.rob.at[s].id].loads
           A == D \ q.rob.at[s].source_added
           B == D \ r.rob.at[s].source_added
<1>2. B = A \ {j} /\ j \in A /\ r.rob.at[s].source_added \subseteq D
  BY ZenonT(60), <1>1 DEF IsLoadAdded, CountsAre
<1>3. a = Cardinality(A) /\ IsFiniteSet(A)
  BY Zenon, <1>1 DEF CountsAre
<1> HIDE DEF A, B
<1>4. Cardinality(B) = a - 1
  BY Zenon, <1>2, <1>3, FS_RemoveElement
<1>5. Larger(InLq(q, s), InLq(r, s))
  BY QueuesFinite, CountLarger
<1>6. Cardinality(InLq(r, s)) = c + 1 /\ Cardinality(InSq(r, s)) = d
  BY Zenon, <1>1, <1>5 DEF CountsAre, Larger
<1>7. a + b + c + d = (a - 1) + b + (c + 1) + d
  OBVIOUS
<1>8. r.rob.at[s].id = q.rob.at[s].id
  BY DEF IsLoadAdded, SameRegs
<1> QED
  BY ZenonT(60), <1>1, <1>2, <1>4, <1>6, <1>7, <1>8 DEF Counts, CountsAre, IsLoadAdded, B

\* and so does store k.
LEMMA CountsStoreAdded ==
  ASSUME NEW p \in Programs, NEW q, NEW r, NEW s \in Slot, IdsOf(p, q.rob), q.rob.at[s].id # 0,
         Counts(p, q, s), NEW k \in DOMAIN p[q.rob.at[s].id].stores, k \notin q.rob.at[s].destination_added,
         NEW f, f \notin InSq(q, s), IsStoreAdded(q.rob.at[s], r.rob.at[s], k, f),
         InLq(r, s) = InLq(q, s), InSq(r, s) = InSq(q, s) \cup {f}
  PROVE  Counts(p, r, s)
<1>1. PICK a, b, c, d \in Nat : CountsAre(p, q, s, a, b, c, d)
  BY CountedNumbers
<1> DEFINE D == DOMAIN p[q.rob.at[s].id].stores
           A == D \ q.rob.at[s].destination_added
           B == D \ r.rob.at[s].destination_added
<1>2. B = A \ {k} /\ k \in A /\ r.rob.at[s].destination_added \subseteq D
  BY ZenonT(60), <1>1 DEF IsStoreAdded, CountsAre
<1>3. b = Cardinality(A) /\ IsFiniteSet(A)
  BY Zenon, <1>1 DEF CountsAre
<1> HIDE DEF A, B
<1>4. Cardinality(B) = b - 1
  BY <1>2, <1>3, FS_RemoveElement
<1>5. Larger(InSq(q, s), InSq(r, s))
  BY QueuesFinite, CountLarger
<1>6. Cardinality(InSq(r, s)) = d + 1 /\ Cardinality(InLq(r, s)) = c
  BY Zenon, <1>1, <1>5 DEF CountsAre, Larger
<1>7. a + b + c + d = a + (b - 1) + c + (d + 1)
  OBVIOUS
<1>8. r.rob.at[s].id = q.rob.at[s].id
  BY DEF IsStoreAdded, SameRegs
<1> QED
  BY ZenonT(60), <1>1, <1>2, <1>4, <1>6, <1>7, <1>8 DEF Counts, CountsAre, IsStoreAdded, B

\* What the numbers in flight rest on is the same in two entries.
SameProgress(e, f) == f.id = e.id /\ f.executed = e.executed /\ f.num_mem_ops = e.num_mem_ops

\* The numbers in flight are those of the same instructions.
LEMMA InflightKept ==
  ASSUME NEW p, NEW q, NEW r, InflightCounted(p, q), r.inflight = q.inflight,
         \A t \in Slot : SameProgress(q.rob.at[t], r.rob.at[t])
  PROVE  InflightCounted(p, r)
<1>1. \A t \in Slot : Accesses(p, r.rob.at[t]) <=> Accesses(p, q.rob.at[t])
  BY DEF SameProgress, Accesses
<1>2. Executing(p, r.rob) = Executing(p, q.rob)
  BY <1>1 DEF Executing, SameProgress
<1>3. HaveData(p, r.rob) = HaveData(p, q.rob)
  BY <1>1 DEF HaveData, SameProgress
<1> QED
  BY <1>1, <1>2, <1>3 DEF InflightCounted, SameProgress

\* n[t] operations of each slot t are done: those with none left have their data.
LEMMA InflightWithDone ==
  ASSUME NEW p, NEW q, NEW r, NEW n, InflightCounted(p, q),
         \A t \in Slot : /\ n[t] \in Nat /\ q.rob.at[t].num_mem_ops \in Int
                         /\ IsWithoutOps(q.rob.at[t], r.rob.at[t], n[t])
                         /\ n[t] # 0 => /\ q.rob.at[t].id # 0 /\ Accesses(p, q.rob.at[t])
                                        /\ n[t] <= q.rob.at[t].num_mem_ops,
         r.inflight.reg = q.inflight.reg,
         r.inflight.mem = q.inflight.mem
           + Cardinality({t \in Slot : n[t] > 0 /\ q.rob.at[t].num_mem_ops = n[t]})
  PROVE  InflightCounted(p, r)
<1> DEFINE G == {t \in Slot : n[t] > 0 /\ q.rob.at[t].num_mem_ops = n[t]}
           H == HaveData(p, q.rob)
           K == HaveData(p, r.rob)
<1>1. \A t \in Slot : /\ r.rob.at[t].id = q.rob.at[t].id
                      /\ r.rob.at[t].executed = q.rob.at[t].executed
                      /\ Accesses(p, r.rob.at[t]) <=> Accesses(p, q.rob.at[t])
  BY DEF IsWithoutOps, SameRegs, Accesses
<1>2. Executing(p, r.rob) = Executing(p, q.rob)
  BY <1>1 DEF Executing
<1>3. ASSUME NEW t \in Slot
      PROVE  /\ r.rob.at[t].num_mem_ops = 0 <=> q.rob.at[t].num_mem_ops = n[t]
             /\ n[t] = 0 \/ n[t] > 0
             /\ ~(q.rob.at[t].num_mem_ops = 0 /\ n[t] > 0)
             /\ q.rob.at[t].num_mem_ops = 0 => r.rob.at[t].num_mem_ops = 0
  <2>1. r.rob.at[t].num_mem_ops = q.rob.at[t].num_mem_ops - n[t]
    BY DEF IsWithoutOps
  <2>2. n[t] \in Nat /\ q.rob.at[t].num_mem_ops \in Int /\ (n[t] # 0 => n[t] <= q.rob.at[t].num_mem_ops)
    OBVIOUS
  <2> QED
    BY <2>1, <2>2
<1>4. ASSUME NEW t \in Slot, n[t] > 0
      PROVE  q.rob.at[t].id # 0 /\ Accesses(p, q.rob.at[t]) /\ q.rob.at[t].executed # "COMPLETED"
  <2>1. n[t] # 0
    BY <1>4
  <2>2. q.rob.at[t].id # 0 /\ Accesses(p, q.rob.at[t])
    BY <2>1
  <2> QED
    BY <1>3, <1>4, <2>2 DEF InflightCounted
<1>5. K = H \cup G
  BY <1>1, <1>3, <1>4 DEF HaveData
<1>6. H \cap G = {}
  BY <1>3 DEF HaveData
<1>7. G \in SUBSET Slot /\ H \in SUBSET Slot
  BY DEF HaveData
<1>8. q.inflight.mem = Cardinality(H) /\ r.inflight.mem = q.inflight.mem + Cardinality(G)
  BY DEF InflightCounted
<1> HIDE DEF G, H, K
<1>9. IsFiniteSet(G) /\ IsFiniteSet(H) /\ Cardinality(G) \in Nat /\ Cardinality(H) \in Nat
  BY <1>7, SlotsFinite
<1>10. Cardinality(K) = Cardinality(H) + Cardinality(G)
  <2>1. Cardinality(K) = Cardinality(H) + Cardinality(G) - Cardinality(H \cap G)
    BY <1>5, <1>9, FS_Union
  <2>2. Cardinality(H \cap G) = 0
    BY <1>6, FS_EmptySet
  <2> QED
    BY <1>9, <2>1, <2>2
<1>11. r.inflight.mem = Cardinality(K)
  BY <1>8, <1>10
<1>12. r.inflight.reg = Cardinality(Executing(p, r.rob))
  BY <1>2 DEF InflightCounted
<1>13. \A t \in Slot : r.rob.at[t].id # 0 /\ Accesses(p, r.rob.at[t]) /\ r.rob.at[t].executed = "COMPLETED"
         => r.rob.at[t].num_mem_ops = 0
  BY <1>1, <1>3 DEF InflightCounted
<1> QED
  BY <1>11, <1>12, <1>13 DEF InflightCounted, K

\* Nothing that is counted changes.
LEMMA AccountsKept ==
  ASSUME NEW p, NEW q, NEW r, Accounts(p, q), r.inflight = q.inflight,
         \A t \in Slot : KeepsOperands(q.rob.at[t], r.rob.at[t]),
         \A l \in Lq : KeepsLoad(q.lq[l], r.lq[l]) /\ q.lq[l].rob_index \in Slot,
         \A f \in Sq : KeepsStore(q.sq.at[f], r.sq.at[f])
  PROVE  Accounts(p, r)
<1>1. LoadsNamed(p, r)
  <2>1. \A t \in Slot : KeepsNames(q.rob.at[t], r.rob.at[t])
    BY DEF KeepsNames, KeepsOperands
  <2>2. \A l \in Lq : StaysNamed(q, r, l)
    BY <2>1 DEF StaysNamed
  <2>3. LoadsNamed(p, q)
    BY DEF Accounts
  <2> QED
    BY <2>2, <2>3, NamesKept
<1>2. OperandsCounted(p, r)
  <2>1. \A s \in Slot : InLq(r, s) = InLq(q, s) /\ InSq(r, s) = InSq(q, s)
    BY DEF InLq, InSq, KeepsLoad, KeepsStore
  <2>2. \A s \in Slot : Counts(p, q, s) => Counts(p, r, s)
    BY <2>1, CountsKept
  <2> QED
    BY <2>2 DEF Accounts, OperandsCounted, KeepsOperands
<1>3. InflightCounted(p, r)
  <2>1. \A t \in Slot : SameProgress(q.rob.at[t], r.rob.at[t])
    BY DEF KeepsOperands, SameProgress
  <2>2. InflightCounted(p, q)
    BY DEF Accounts
  <2> QED
    BY <2>1, <2>2, InflightKept
<1> QED
  BY <1>1, <1>2, <1>3 DEF Accounts

\* Load j of the instruction i in slot s takes entry l of the queue, at address a.
TakesEntry(q, r, s, j, l, i, a) ==
  /\ IsLoadAdded(q.rob.at[s], r.rob.at[s], j, l)
  /\ \A t \in Slot : t # s => KeepsOperands(q.rob.at[t], r.rob.at[t])
  /\ \A m \in Lq : m # l => r.lq[m] = q.lq[m]
  /\ r.lq[l].id = i /\ r.lq[l].addr = a /\ r.lq[l].rob_index = s /\ r.lq[l].data_index = j
  /\ r.sq = q.sq /\ r.inflight = q.inflight

\* A load that add_load_queue adds is named and counted.
LEMMA AccountsWithLoad ==
  ASSUME NEW p \in Programs, NEW q, NEW r, q.lq \in [Lq -> LoadRec], Accounts(p, q), IdsOf(p, q.rob),
         NEW s \in Slot, NEW i, q.rob.at[s].id = i, i # 0,
         NEW j \in DOMAIN p[i].loads, j \notin q.rob.at[s].source_added,
         NEW l \in Lq, q.lq[l].addr = Nil, NEW a, a = p[i].loads[j],
         TakesEntry(q, r, s, j, l, i, a)
  PROVE  Accounts(p, r)
<1>0. i \in 0 .. Len(p)
  BY DEF IdsOf
<1>1. a \in Addr /\ a # Nil /\ DOMAIN p[i].loads \subseteq Src
  BY <1>0, OperandsOf, Sizes
<1>2. /\ r.rob.at[s].id = i /\ r.rob.at[s].executed = q.rob.at[s].executed
      /\ r.rob.at[s].num_mem_ops = q.rob.at[s].num_mem_ops
      /\ r.rob.at[s].source_added = q.rob.at[s].source_added \cup {j}
      /\ \A m \in Src : r.rob.at[s].lq_index[m] = IF m = j THEN l ELSE q.rob.at[s].lq_index[m]
  BY DEF TakesEntry, IsLoadAdded, SameRegs
<1>3. q.rob.at[s].source_added \subseteq DOMAIN p[i].loads
  BY DEF Accounts, OperandsCounted, Counts
<1>4. \A t \in Slot : KeepsNames(q.rob.at[t], r.rob.at[t])
  <2>1. KeepsNames(q.rob.at[s], r.rob.at[s])
    BY <1>1, <1>2, <1>3 DEF KeepsNames
  <2>2. \A t \in Slot : t # s => KeepsOperands(q.rob.at[t], r.rob.at[t])
    BY DEF TakesEntry
  <2> QED
    BY <2>1, <2>2 DEF KeepsNames, KeepsOperands
<1>5. LoadsNamed(p, r)
  <2>1. IsLoadOf(p, r.rob, r.lq[l], l)
    BY <1>1, <1>2 DEF TakesEntry, IsLoadOf
  <2>2. \A m \in Lq : m # l => StaysNamed(q, r, m)
    BY <1>4 DEF StaysNamed, KeepsLoad, TakesEntry, LoadRec
  <2>3. LoadsNamed(p, q)
    BY DEF Accounts
  <2> QED
    BY <2>1, <2>2, <2>3, NamesKept
<1>6. OperandsCounted(p, r)
  <2>1. InLq(r, s) = InLq(q, s) \cup {l} /\ l \notin InLq(q, s)
    BY <1>1 DEF InLq, TakesEntry
  <2>2. \A t \in Slot : t # s => InLq(r, t) = InLq(q, t)
    BY <1>1 DEF InLq, TakesEntry
  <2>3. \A t \in Slot : InSq(r, t) = InSq(q, t)
    BY DEF InSq, TakesEntry
  <2>4. Counts(p, q, s)
    BY DEF Accounts, OperandsCounted
  <2>5. IsLoadAdded(q.rob.at[s], r.rob.at[s], j, l)
    BY DEF TakesEntry
  <2>6. Counts(p, r, s)
    BY <2>1, <2>3, <2>4, <2>5, CountsLoadAdded
  <2>7. ASSUME NEW t \in Slot, t # s  PROVE IF r.rob.at[t].id # 0 THEN Counts(p, r, t) ELSE r.rob.at[t].num_mem_ops = 0
    <3>1. KeepsOperands(q.rob.at[t], r.rob.at[t])
      BY <2>7 DEF TakesEntry
    <3>2. IF q.rob.at[t].id # 0 THEN Counts(p, q, t) ELSE q.rob.at[t].num_mem_ops = 0
      BY DEF Accounts, OperandsCounted
    <3>3. Counts(p, q, t) => Counts(p, r, t)
      BY <2>2, <2>3, <2>7, <3>1, CountsKept
    <3> QED
      BY <3>1, <3>2, <3>3 DEF KeepsOperands
  <2> QED
    BY <1>2, <2>6, <2>7 DEF OperandsCounted
<1>7. InflightCounted(p, r)
  <2>1. \A t \in Slot : SameProgress(q.rob.at[t], r.rob.at[t])
    BY <1>2 DEF TakesEntry, KeepsOperands, SameProgress
  <2>2. r.inflight = q.inflight /\ InflightCounted(p, q)
    BY DEF TakesEntry, Accounts
  <2> QED
    BY <2>1, <2>2, InflightKept
<1> QED
  BY <1>5, <1>6, <1>7 DEF Accounts

\* Loads in L get their data and leave the queue.
LEMMA AccountsReleased ==
  ASSUME NEW p \in Programs, NEW q \in CoreRec(p), NEW r, Accounts(p, q), IdsOf(p, q.rob),
         NEW L \in SUBSET Lq, \A l \in L : q.lq[l].addr # Nil,
         NEW v, IsReleased(p, q, r, L, v)
  PROVE  Accounts(p, r)
<1> DEFINE R(t) == InLoads(q, L, t)
           n == [t \in Slot |-> Cardinality(R(t))]
<1>1. /\ \A t \in Slot : IsWithoutOps(q.rob.at[t], r.rob.at[t], n[t])
      /\ \A l \in Lq : r.lq[l] = IF l \in L THEN NoLoad ELSE q.lq[l]
      /\ r.sq = q.sq /\ r.inflight.reg = q.inflight.reg
  BY DEF IsReleased
<1>2. \A t \in Slot : /\ R(t) \subseteq InLq(q, t)
                      /\ InLq(r, t) = InLq(q, t) \ R(t) /\ InSq(r, t) = InSq(q, t)
  BY <1>1 DEF InLq, InSq, InLoads, NoLoad
<1>3. \A t \in Slot : n[t] \in Nat /\ n[t] = Cardinality(R(t)) /\ IsFiniteSet(R(t))
  <2>1. \A t \in Slot : R(t) \in SUBSET Lq
    BY SMTT(30) DEF InLoads
  <2> HIDE DEF R
  <2> QED
    BY <2>1, LqFinite
<1>4. \A l \in Lq : q.lq[l].addr # Nil =>
        /\ q.rob.at[q.lq[l].rob_index].id # 0 /\ q.lq[l].rob_index \in Slot
        /\ q.lq[l].data_index \in DOMAIN p[q.rob.at[q.lq[l].rob_index].id].loads
  <2> SUFFICES ASSUME NEW l \in Lq, q.lq[l].addr # Nil
               PROVE  /\ q.rob.at[q.lq[l].rob_index].id # 0 /\ q.lq[l].rob_index \in Slot
                      /\ q.lq[l].data_index \in DOMAIN p[q.rob.at[q.lq[l].rob_index].id].loads
    OBVIOUS
  <2>1. PICK e : e = q.lq[l] /\ e.addr # Nil
    OBVIOUS
  <2>2. e \in LoadRec /\ e # NoLoad
    BY <2>1, CoreFields DEF NoLoad
  <2>3. e.rob_index \in Slot
    BY <2>2 DEF LoadRec
  <2>4. IsLoadOf(p, q.rob, e, l)
    BY Zenon, <2>1, <2>2 DEF Accounts, LoadsNamed
  <2> QED
    BY Zenon, <2>1, <2>3, <2>4 DEF IsLoadOf
<1>5. ASSUME NEW t \in Slot, n[t] # 0
      PROVE  q.rob.at[t].id # 0 /\ Accesses(p, q.rob.at[t])
  <2>1. PICK l \in R(t) : TRUE
    BY <1>3, <1>5, FS_EmptySet
  <2>2. q.lq[l].addr # Nil /\ l \in Lq /\ q.lq[l].rob_index = t
    BY <2>1 DEF InLoads
  <2>3. q.rob.at[t].id # 0 /\ q.lq[l].data_index \in DOMAIN p[q.rob.at[t].id].loads
    BY <1>4, <2>2
  <2>4. q.rob.at[t].id \in 0 .. Len(p)
    BY DEF IdsOf
  <2> DEFINE x == p[q.rob.at[t].id].loads
             y == p[q.rob.at[t].id].stores
  <2>5. Len(x) \in Nat /\ Len(y) \in Nat /\ DOMAIN x = 1 .. Len(x)
    BY <2>3, <2>4, OperandsOf
  <2>6. Len(x) + Len(y) > 0
    <3> HIDE DEF x, y
    <3>1. DOMAIN x # {}
      BY <2>3 DEF x
    <3> QED
      BY <2>5, <3>1
  <2> QED
    BY <2>3, <2>6 DEF Accesses, MemOps
<1>6. ASSUME NEW t \in Slot
      PROVE  /\ IF r.rob.at[t].id # 0 THEN Counts(p, r, t) ELSE r.rob.at[t].num_mem_ops = 0
             /\ n[t] # 0 => n[t] <= q.rob.at[t].num_mem_ops
  <2>1. r.rob.at[t].id = q.rob.at[t].id /\ IsWithoutOps(q.rob.at[t], r.rob.at[t], n[t])
    BY <1>1 DEF IsWithoutOps, SameRegs
  <2>2. IF q.rob.at[t].id # 0 THEN Counts(p, q, t) ELSE q.rob.at[t].num_mem_ops = 0
    BY DEF Accounts, OperandsCounted
  <2>3. R(t) \in SUBSET InLq(q, t) /\ InLq(r, t) = InLq(q, t) \ R(t) /\ InSq(r, t) = InSq(q, t)
    BY <1>2
  <2>4. CASE q.rob.at[t].id # 0
    <3> DEFINE S == R(t)
               m == n[t]
    <3>1. m = Cardinality(S) /\ S \in SUBSET InLq(q, t) /\ InLq(r, t) = InLq(q, t) \ S
          /\ IsWithoutOps(q.rob.at[t], r.rob.at[t], m)
      BY <1>3, <2>1, <2>3
    <3> HIDE DEF S, m, n, R
    <3>2. Counts(p, r, t) /\ m <= q.rob.at[t].num_mem_ops
      BY <2>2, <2>3, <2>4, <3>1, CountsReleased
    <3> QED
      BY <2>1, <2>4, <3>2 DEF m
  <2>5. CASE q.rob.at[t].id = 0
    <3>1. n[t] = 0
      BY <1>5, <2>5
    <3>2. r.rob.at[t].num_mem_ops = 0 - 0
      BY <2>1, <2>2, <2>5, <3>1 DEF IsWithoutOps
    <3> QED
      BY <2>1, <2>5, <3>1, <3>2
  <2> QED
    BY <2>4, <2>5
<1>7. InflightCounted(p, r)
  <2>1. r.inflight.mem = q.inflight.mem + Cardinality({t \in Slot : n[t] > 0 /\ q.rob.at[t].num_mem_ops = n[t]})
    <3> DEFINE G == {t \in Slot : n[t] > 0 /\ q.rob.at[t].num_mem_ops = n[t]}
               H == {t \in Slot : /\ Cardinality(InLoads(q, L, t)) > 0
                                  /\ q.rob.at[t].num_mem_ops = Cardinality(InLoads(q, L, t))}
    <3>1. G = H
      OBVIOUS
    <3>2. r.inflight.mem = q.inflight.mem + Cardinality(H)
      BY DEF IsReleased
    <3> QED
      BY <3>1, <3>2
  <2>2. \A t \in Slot : q.rob.at[t].num_mem_ops \in Int
    BY CoreFields DEF Rob, Entry
  <2>3. InflightCounted(p, q)
    BY DEF Accounts
  <2>4. \A t \in Slot : /\ n[t] \in Nat /\ q.rob.at[t].num_mem_ops \in Int
                        /\ IsWithoutOps(q.rob.at[t], r.rob.at[t], n[t])
                        /\ n[t] # 0 => /\ q.rob.at[t].id # 0 /\ Accesses(p, q.rob.at[t])
                                       /\ n[t] <= q.rob.at[t].num_mem_ops
    <3> HIDE DEF n, R
    <3> QED
      BY <1>1, <1>3, <1>5, <1>6, <2>2
  <2> HIDE DEF n, R
  <2> QED
    BY <1>1, <2>1, <2>3, <2>4, InflightWithDone
<1>8. LoadsNamed(p, r)
  <2>1. \A t \in Slot : KeepsNames(q.rob.at[t], r.rob.at[t])
    BY <1>1 DEF IsWithoutOps, SameRegs, KeepsNames
  <2>2. \A l \in Lq : l \notin L => StaysNamed(q, r, l)
    BY <1>1, <1>4, <2>1 DEF StaysNamed, KeepsLoad
  <2>3. LoadsNamed(p, q)
    BY DEF Accounts
  <2> HIDE DEF n, R
  <2> QED
    BY <1>1, <2>2, <2>3, NamesKept
<1> QED
  BY <1>6, <1>7, <1>8 DEF Accounts, OperandsCounted

\* Store k of the instruction i in slot s takes entry g of the queue.
LEMMA AccountsWithStore ==
  ASSUME NEW p \in Programs, NEW q \in CoreRec(p), NEW r, Accounts(p, q), IdsOf(p, q.rob),
         NEW s \in Slot, NEW i, q.rob.at[s].id = i, i # 0,
         NEW k \in DOMAIN p[i].stores, k \notin q.rob.at[s].destination_added,
         q.sq.at[q.sq.tail].addr = Nil, NEW a, AddsStore(p, q, r, s, k, i, a)
  PROVE  Accounts(p, r)
<1> DEFINE g == q.sq.tail
<1>1. /\ q.sq.at \in [Sq -> StoreRec] /\ g \in Sq /\ q.lq \in [Lq -> LoadRec]
  BY CoreFields DEF SqRec
<1>2. /\ IsStoreAdded(q.rob.at[s], r.rob.at[s], k, g)
      /\ \A t \in Slot : t # s => r.rob.at[t] = q.rob.at[t]
      /\ \A f \in Sq : r.sq.at[f] = IF f = g THEN StoreOf(i, a, s, k) ELSE q.sq.at[f]
      /\ r.lq = q.lq /\ r.inflight = q.inflight /\ a # Nil
  BY Sizes DEF AddsStore
<1>3. \A t \in Slot : KeepsNames(q.rob.at[t], r.rob.at[t]) /\ SameProgress(q.rob.at[t], r.rob.at[t])
  BY <1>2 DEF IsStoreAdded, SameRegs, KeepsNames, SameProgress
<1>4. LoadsNamed(p, r)
  <2>1. \A l \in Lq : StaysNamed(q, r, l)
    BY <1>1, <1>2, <1>3 DEF StaysNamed, KeepsLoad, LoadRec
  <2>2. LoadsNamed(p, q)
    BY DEF Accounts
  <2> QED
    BY <2>1, <2>2, NamesKept
<1>5. OperandsCounted(p, r)
  <2>1. InSq(r, s) = InSq(q, s) \cup {g} /\ g \notin InSq(q, s)
    BY <1>1, <1>2 DEF InSq, StoreOf
  <2>2. \A t \in Slot : t # s => InSq(r, t) = InSq(q, t)
    BY <1>1, <1>2 DEF InSq, StoreOf
  <2>3. \A t \in Slot : InLq(r, t) = InLq(q, t)
    BY <1>2 DEF InLq
  <2>4. Counts(p, q, s)
    BY DEF Accounts, OperandsCounted
  <2> HIDE DEF g
  <2>6. Counts(p, r, s)
    BY <1>2, <2>1, <2>3, <2>4, CountsStoreAdded
  <2>7. ASSUME NEW t \in Slot, t # s  PROVE IF r.rob.at[t].id # 0 THEN Counts(p, r, t) ELSE r.rob.at[t].num_mem_ops = 0
    <3>1. r.rob.at[t] = q.rob.at[t] /\ InLq(r, t) = InLq(q, t) /\ InSq(r, t) = InSq(q, t)
      BY <1>2, <2>2, <2>3, <2>7
    <3>2. IF q.rob.at[t].id # 0 THEN Counts(p, q, t) ELSE q.rob.at[t].num_mem_ops = 0
      BY DEF Accounts, OperandsCounted
    <3> QED
      BY <3>1, <3>2 DEF Counts
  <2> QED
    BY <1>3, <2>6, <2>7 DEF OperandsCounted, SameProgress
<1>6. InflightCounted(p, r)
  BY <1>2, <1>3, InflightKept DEF Accounts
<1> QED
  BY <1>4, <1>5, <1>6 DEF Accounts

\* Store f of slot s executes.
LEMMA AccountsExecuted ==
  ASSUME program \in Programs, NEW q \in CoreRec(program), NEW x, NEW r, Accounts(program, q), IdsOf(program, q.rob),
         NEW f \in Sq, NEW s \in Slot, f \in InSq(q, s),
         q.rob.at[s].id # 0, Accesses(program, q.rob.at[s]),
         Executes(q, x, f), NEW n, n = [t \in Slot |-> IF t = s THEN 1 ELSE 0], IsOpsDone(program, x, r, n)
  PROVE  Accounts(program, r)
<1>1. /\ q.sq.at \in [Sq -> StoreRec] /\ q.lq \in [Lq -> LoadRec] /\ q.rob \in Rob
  BY CoreFields DEF SqRec
<1>2. /\ \A t \in Slot : IsWithoutOps(q.rob.at[t], r.rob.at[t], n[t])
      /\ r.lq = q.lq
      /\ \A g \in Sq : r.sq.at[g] = IF g = f THEN [q.sq.at[f] EXCEPT !.fetched = "COMPLETED"] ELSE q.sq.at[g]
      /\ r.inflight.reg = q.inflight.reg
      /\ r.inflight.mem = q.inflight.mem + Cardinality({t \in Slot : n[t] > 0 /\ q.rob.at[t].num_mem_ops = n[t]})
  BY DEF Executes, IsOpsDone
<1>3. \A t \in Slot : InLq(r, t) = InLq(q, t)
  BY <1>2 DEF InLq
<1>4. \A t \in Slot : InSq(r, t) = IF t = s THEN InSq(q, s) \ {f} ELSE InSq(q, t)
  <2>1. q.sq.at[f].rob_index = s /\ [q.sq.at[f] EXCEPT !.fetched = "COMPLETED"].fetched = "COMPLETED"
    BY <1>1 DEF InSq, StoreRec
  <2>2. ASSUME NEW t \in Slot, NEW g \in Sq
        PROVE  g \in InSq(r, t) <=> g \in (IF t = s THEN InSq(q, s) \ {f} ELSE InSq(q, t))
    <3>1. CASE g = f
      <4>1. r.sq.at[g].fetched = "COMPLETED"
        BY <1>2, <2>1, <3>1
      <4>2. g \notin InSq(r, t)
        BY <4>1 DEF InSq
      <4>3. t # s => g \notin InSq(q, t)
        BY <2>1, <3>1 DEF InSq
      <4> QED
        BY <3>1, <4>2, <4>3
    <3>2. CASE g # f
      <4>1. r.sq.at[g] = q.sq.at[g]
        BY <1>2, <3>2
      <4>2. g \in InSq(r, t) <=> g \in InSq(q, t)
        BY <4>1 DEF InSq
      <4> QED
        BY <3>2, <4>2
    <3> QED
      BY <3>1, <3>2
  <2>3. \A t \in Slot : InSq(r, t) \subseteq Sq /\ InSq(q, t) \subseteq Sq
    BY DEF InSq
  <2> QED
    BY <2>2, <2>3
<1>5. Counts(program, r, s) /\ 1 <= q.rob.at[s].num_mem_ops
  <2>1. IsWithoutOps(q.rob.at[s], r.rob.at[s], 1)
    BY <1>2
  <2>2. Counts(program, q, s)
    BY DEF Accounts, OperandsCounted
  <2> QED
    BY <1>3, <1>4, <2>1, <2>2, CountsExecuted
<1>6. ASSUME NEW t \in Slot, t # s
      PROVE  IF r.rob.at[t].id # 0 THEN Counts(program, r, t) ELSE r.rob.at[t].num_mem_ops = 0
  <2>1. IsWithoutOps(q.rob.at[t], r.rob.at[t], 0)
    BY <1>2, <1>6
  <2>2. q.rob.at[t].num_mem_ops \in Int
    BY <1>1 DEF Rob, Entry
  <2>3. KeepsOperands(q.rob.at[t], r.rob.at[t])
    BY <2>1, <2>2 DEF IsWithoutOps, SameRegs, KeepsOperands
  <2>4. IF q.rob.at[t].id # 0 THEN Counts(program, q, t) ELSE q.rob.at[t].num_mem_ops = 0
    BY DEF Accounts, OperandsCounted
  <2>5. Counts(program, q, t) => Counts(program, r, t)
    BY <1>3, <1>4, <1>6, <2>3, CountsKept
  <2> QED
    BY <2>3, <2>4, <2>5 DEF KeepsOperands
<1>7. OperandsCounted(program, r)
  <2>1. r.rob.at[s].id = q.rob.at[s].id
    BY <1>2 DEF IsWithoutOps, SameRegs
  <2> QED
    BY <1>5, <1>6, <2>1 DEF OperandsCounted
<1>8. InflightCounted(program, r)
  <2>1. \A t \in Slot : q.rob.at[t].num_mem_ops \in Int
    BY <1>1 DEF Rob, Entry
  <2>2. \A t \in Slot : /\ n[t] \in Nat /\ q.rob.at[t].num_mem_ops \in Int
                        /\ IsWithoutOps(q.rob.at[t], r.rob.at[t], n[t])
                        /\ n[t] # 0 => /\ q.rob.at[t].id # 0 /\ Accesses(program, q.rob.at[t])
                                       /\ n[t] <= q.rob.at[t].num_mem_ops
    BY <1>2, <1>5, <2>1
  <2>3. InflightCounted(program, q)
    BY DEF Accounts
  <2>4. /\ r.inflight.reg = q.inflight.reg
        /\ r.inflight.mem = q.inflight.mem
             + Cardinality({t \in Slot : n[t] > 0 /\ q.rob.at[t].num_mem_ops = n[t]})
    BY <1>2
  <2> QED
    BY ONLY <2>2, <2>3, <2>4, InflightWithDone
<1>9. LoadsNamed(program, r)
  <2>1. \A t \in Slot : KeepsNames(q.rob.at[t], r.rob.at[t])
    BY <1>2 DEF IsWithoutOps, SameRegs, KeepsNames
  <2>2. \A l \in Lq : StaysNamed(q, r, l)
    BY <1>1, <1>2, <2>1 DEF StaysNamed, KeepsLoad, LoadRec
  <2>3. LoadsNamed(program, q)
    BY DEF Accounts
  <2> QED
    BY <2>2, <2>3, NamesKept
<1> QED
  BY <1>7, <1>8, <1>9 DEF Accounts

\* An instruction enters the reorder buffer with all its operands to come.
LEMMA AccountsNew ==
  ASSUME NEW p \in Programs, NEW q \in CoreRec(p), NEW r, Accounts(p, q), StoresHeld(p, q.rob, q.sq),
         NEW s \in Slot, q.rob.at[s].id = 0, NEW i \in 1 .. Len(p),
         IsNew(r.rob.at[s], i, MemOps(p[i])),
         \A t \in Slot : t # s => r.rob.at[t] = q.rob.at[t],
         r.lq = q.lq, r.sq = q.sq, r.inflight = q.inflight
  PROVE  Accounts(p, r)
<1>1. q.lq \in [Lq -> LoadRec] /\ q.sq.at \in [Sq -> StoreRec]
  BY CoreFields DEF SqRec
<1>2. \A t \in Slot : InLq(r, t) = InLq(q, t) /\ InSq(r, t) = InSq(q, t)
  BY DEF InLq, InSq
<1>3. InLq(q, s) = {} /\ InSq(q, s) = {}
  <2>1. ASSUME NEW l \in InLq(q, s)  PROVE FALSE
    BY <2>1 DEF Accounts, LoadsNamed, IsLoadOf, InLq, NoLoad
  <2>2. ASSUME NEW f \in InSq(q, s)  PROVE FALSE
    BY <2>2 DEF StoresHeld, IsStoreOf, InSq, NoStore
  <2> QED
    BY <2>1, <2>2
<1>4. /\ r.rob.at[s].id = i /\ r.rob.at[s].num_mem_ops = MemOps(p[i]) /\ r.rob.at[s].executed = "NO"
      /\ r.rob.at[s].source_added = {} /\ r.rob.at[s].destination_added = {}
  BY DEF IsNew
<1> DEFINE x == p[i].loads
           y == p[i].stores
<1>5. i # 0 /\ i \in 0 .. Len(p)
  OBVIOUS
<1>6. /\ Cardinality(DOMAIN x) = Len(x) /\ Cardinality(DOMAIN y) = Len(y)
      /\ Len(x) \in Nat /\ Len(y) \in Nat
  BY <1>5, OperandsOf
<1>7. Counts(p, r, s)
  <2>1. DOMAIN x \ {} = DOMAIN x /\ DOMAIN y \ {} = DOMAIN y
    OBVIOUS
  <2>2. Cardinality(InLq(r, s)) = 0 /\ Cardinality(InSq(r, s)) = 0
    BY <1>2, <1>3, FS_EmptySet
  <2>3. MemOps(p[i]) = Cardinality(DOMAIN x) + Cardinality(DOMAIN y) + 0 + 0
    <3> HIDE DEF x, y
    <3>1. MemOps(p[i]) = Len(x) + Len(y)
      BY DEF MemOps, x, y
    <3> QED
      BY <1>6, <3>1
  <2> QED
    BY <1>4, <2>1, <2>2, <2>3 DEF Counts
<1>8. OperandsCounted(p, r)
  <2>1. ASSUME NEW t \in Slot, t # s  PROVE IF r.rob.at[t].id # 0 THEN Counts(p, r, t) ELSE r.rob.at[t].num_mem_ops = 0
    <3>1. IF q.rob.at[t].id # 0 THEN Counts(p, q, t) ELSE q.rob.at[t].num_mem_ops = 0
      BY DEF Accounts, OperandsCounted
    <3>2. r.rob.at[t] = q.rob.at[t] /\ InLq(r, t) = InLq(q, t) /\ InSq(r, t) = InSq(q, t)
      BY <1>2, <2>1
    <3> QED
      BY <3>1, <3>2 DEF Counts
  <2> QED
    BY <1>4, <1>5, <1>7, <2>1 DEF OperandsCounted
<1>9. InflightCounted(p, r)
  <2>1. Executing(p, r.rob) = Executing(p, q.rob)
    BY <1>4 DEF Executing
  <2>2. Accesses(p, r.rob.at[s]) => r.rob.at[s].num_mem_ops # 0
    <3> DEFINE m == MemOps(p[i])
    <3>1. r.rob.at[s].num_mem_ops = m /\ (Accesses(p, r.rob.at[s]) <=> m > 0)
      BY <1>4 DEF Accesses
    <3> HIDE DEF m
    <3> QED
      BY <3>1
  <2>3. HaveData(p, r.rob) = HaveData(p, q.rob)
    BY <1>4, <2>2 DEF HaveData
  <2> QED
    BY <1>4, <2>1, <2>3 DEF Accounts, InflightCounted
<1>10. LoadsNamed(p, r)
  <2>1. \A l \in Lq : q.lq[l].addr # Nil => q.lq[l].rob_index # s /\ q.lq[l].rob_index \in Slot
    BY <1>1, <1>3 DEF InLq, LoadRec
  <2>2. \A l \in Lq : StaysNamed(q, r, l)
    BY <2>1 DEF StaysNamed, KeepsLoad, KeepsNames
  <2>3. LoadsNamed(p, q)
    BY DEF Accounts
  <2> QED
    BY <2>2, <2>3, NamesKept
<1> QED
  BY <1>8, <1>9, <1>10 DEF Accounts

\* An entry of the reorder buffer whose execution comes to x.
ExecutionIs(e, f, x) ==
  /\ f.id = e.id /\ f.executed = x /\ f.num_mem_ops = e.num_mem_ops
  /\ f.source_added = e.source_added /\ f.destination_added = e.destination_added
  /\ f.lq_index = e.lq_index /\ f.sq_index = e.sq_index

\* The loads and the numbers of operands do not depend on what has executed.
LEMMA ExecutionKeeps ==
  ASSUME NEW p, NEW q, NEW r, Accounts(p, q), r.lq = q.lq, r.sq = q.sq,
         \A l \in Lq : q.lq[l].rob_index \in Slot,
         \A t \in Slot : ExecutionIs(q.rob.at[t], r.rob.at[t], r.rob.at[t].executed)
  PROVE  LoadsNamed(p, r) /\ OperandsCounted(p, r)
<1>1. LoadsNamed(p, r)
  <2>1. \A t \in Slot : KeepsNames(q.rob.at[t], r.rob.at[t])
    BY DEF KeepsNames, ExecutionIs
  <2>2. \A l \in Lq : StaysNamed(q, r, l)
    BY <2>1 DEF StaysNamed, KeepsLoad
  <2>3. LoadsNamed(p, q)
    BY DEF Accounts
  <2> QED
    BY <2>2, <2>3, NamesKept
<1>2. OperandsCounted(p, r)
  <2>1. \A t \in Slot : InLq(r, t) = InLq(q, t) /\ InSq(r, t) = InSq(q, t)
    BY SMTT(30) DEF InLq, InSq
  <2>2. \A t \in Slot : Counts(p, q, t) => Counts(p, r, t)
    BY <2>1 DEF Counts, ExecutionIs
  <2> QED
    BY SMTT(30), <2>2 DEF Accounts, OperandsCounted, ExecutionIs
<1> QED
  BY <1>1, <1>2

\* An instruction that does not access memory begins to execute.
LEMMA AccountsStarted ==
  ASSUME NEW p \in Programs, NEW q \in CoreRec(p), NEW r, Accounts(p, q), r.lq = q.lq, r.sq = q.sq,
         NEW s \in Slot, q.rob.at[s].id # 0, ~Accesses(p, q.rob.at[s]), q.rob.at[s].executed = "NO",
         ExecutionIs(q.rob.at[s], r.rob.at[s], "INFLIGHT"),
         \A t \in Slot : t # s => r.rob.at[t] = q.rob.at[t],
         r.inflight.reg = q.inflight.reg + 1, r.inflight.mem = q.inflight.mem
  PROVE  Accounts(p, r)
<1>1. LoadsNamed(p, r) /\ OperandsCounted(p, r)
  <2>1. \A t \in Slot : ExecutionIs(q.rob.at[t], r.rob.at[t], r.rob.at[t].executed)
    BY DEF ExecutionIs
  <2>2. \A l \in Lq : q.lq[l].rob_index \in Slot
    BY CoreFields DEF LoadRec
  <2> QED
    BY <2>1, <2>2, ExecutionKeeps
<1>2. r.rob.at[s].id = q.rob.at[s].id /\ r.rob.at[s].executed = "INFLIGHT" /\ ~Accesses(p, r.rob.at[s])
  BY DEF ExecutionIs, Accesses
<1>3. HaveData(p, r.rob) = HaveData(p, q.rob)
  BY <1>2 DEF HaveData
<1>4. Executing(p, r.rob) = Executing(p, q.rob) \cup {s} /\ s \notin Executing(p, q.rob)
  BY <1>2 DEF Executing
<1>5. Larger(Executing(p, q.rob), Executing(p, r.rob))
  BY <1>4, InflightFinite, CountLarger
<1>6. InflightCounted(p, r)
  BY <1>2, <1>3, <1>5 DEF Accounts, InflightCounted, Larger
<1> QED
  BY <1>1, <1>6 DEF Accounts

\* The instruction in slot s has executed.
LEMMA AccountsCompleted ==
  ASSUME NEW p \in Programs, NEW q \in CoreRec(p), NEW r, Accounts(p, q), r.lq = q.lq, r.sq = q.sq,
         NEW s \in Slot, q.rob.at[s].id # 0, q.rob.at[s].executed = "INFLIGHT",
         Accesses(p, q.rob.at[s]) => q.rob.at[s].num_mem_ops = 0,
         ExecutionIs(q.rob.at[s], r.rob.at[s], "COMPLETED"),
         \A t \in Slot : t # s => KeepsOperands(q.rob.at[t], r.rob.at[t]),
         r.inflight.mem = q.inflight.mem - (IF Accesses(p, q.rob.at[s]) THEN 1 ELSE 0),
         r.inflight.reg = q.inflight.reg - (IF Accesses(p, q.rob.at[s]) THEN 0 ELSE 1)
  PROVE  Accounts(p, r)
<1>1. LoadsNamed(p, r) /\ OperandsCounted(p, r)
  <2>1. \A t \in Slot : ExecutionIs(q.rob.at[t], r.rob.at[t], r.rob.at[t].executed)
    BY DEF ExecutionIs, KeepsOperands
  <2>2. \A l \in Lq : q.lq[l].rob_index \in Slot
    BY CoreFields DEF LoadRec
  <2> QED
    BY <2>1, <2>2, ExecutionKeeps
<1>2. /\ r.rob.at[s].id = q.rob.at[s].id /\ r.rob.at[s].executed = "COMPLETED"
      /\ r.rob.at[s].num_mem_ops = q.rob.at[s].num_mem_ops
  BY DEF ExecutionIs
<1>3. \A t \in Slot : t # s => SameProgress(q.rob.at[t], r.rob.at[t])
  BY DEF SameProgress, KeepsOperands
<1>4. \A t \in Slot : Accesses(p, r.rob.at[t]) <=> Accesses(p, q.rob.at[t])
  BY <1>2, <1>3 DEF SameProgress, Accesses
<1>5. HaveData(p, r.rob) = HaveData(p, q.rob) \ {s}
  BY <1>2, <1>3, <1>4 DEF HaveData, SameProgress
<1>6. Executing(p, r.rob) = Executing(p, q.rob) \ {s}
  BY <1>2, <1>3, <1>4 DEF Executing, SameProgress
<1>7. /\ q.inflight.mem = Cardinality(HaveData(p, q.rob)) /\ q.inflight.reg = Cardinality(Executing(p, q.rob))
  BY DEF Accounts, InflightCounted
<1>8. \A t \in Slot : r.rob.at[t].id # 0 /\ Accesses(p, r.rob.at[t]) /\ r.rob.at[t].executed = "COMPLETED"
         => r.rob.at[t].num_mem_ops = 0
  BY <1>2, <1>3, <1>4 DEF Accounts, InflightCounted, SameProgress
<1>9. CASE Accesses(p, q.rob.at[s])
  <2>1. s \in HaveData(p, q.rob) /\ s \notin Executing(p, q.rob)
    BY <1>9 DEF HaveData, Executing
  <2>2. Cardinality(HaveData(p, r.rob)) = Cardinality(HaveData(p, q.rob)) - 1
    BY <1>5, <2>1, InflightFinite, FS_RemoveElement
  <2>3. Executing(p, r.rob) = Executing(p, q.rob)
    BY <1>6, <2>1
  <2>4. Cardinality(Executing(p, q.rob)) \in Nat
    BY InflightFinite
  <2>5. r.inflight.mem = q.inflight.mem - 1 /\ r.inflight.reg = q.inflight.reg - 0
    BY <1>9
  <2> QED
    BY <1>1, <1>7, <1>8, <2>2, <2>3, <2>4, <2>5 DEF Accounts, InflightCounted
<1>10. CASE ~Accesses(p, q.rob.at[s])
  <2>1. s \in Executing(p, q.rob) /\ s \notin HaveData(p, q.rob)
    BY <1>10 DEF HaveData, Executing
  <2>2. Cardinality(Executing(p, r.rob)) = Cardinality(Executing(p, q.rob)) - 1
    BY <1>6, <2>1, InflightFinite, FS_RemoveElement
  <2>3. HaveData(p, r.rob) = HaveData(p, q.rob)
    BY <1>5, <2>1
  <2>4. Cardinality(HaveData(p, q.rob)) \in Nat
    BY InflightFinite
  <2>5. r.inflight.reg = q.inflight.reg - 1 /\ r.inflight.mem = q.inflight.mem - 0
    BY <1>10
  <2> QED
    BY <1>1, <1>7, <1>8, <2>2, <2>3, <2>4, <2>5 DEF Accounts, InflightCounted
<1> QED
  BY <1>9, <1>10

\* An instruction that accesses memory has all its operands in the queues.
LEMMA AccountsIssued ==
  ASSUME NEW p \in Programs, NEW q \in CoreRec(p), NEW r, Accounts(p, q), r.lq = q.lq, r.sq = q.sq,
         r.inflight = q.inflight, NEW s \in Slot, Accesses(p, q.rob.at[s]), q.rob.at[s].executed = "NO",
         ExecutionIs(q.rob.at[s], r.rob.at[s], "INFLIGHT"),
         \A t \in Slot : t # s => r.rob.at[t] = q.rob.at[t]
  PROVE  Accounts(p, r)
<1>1. LoadsNamed(p, r) /\ OperandsCounted(p, r)
  <2>1. \A t \in Slot : ExecutionIs(q.rob.at[t], r.rob.at[t], r.rob.at[t].executed)
    BY DEF ExecutionIs
  <2>2. \A l \in Lq : q.lq[l].rob_index \in Slot
    BY CoreFields DEF LoadRec
  <2> QED
    BY <2>1, <2>2, ExecutionKeeps
<1>2. /\ r.rob.at[s].id = q.rob.at[s].id /\ r.rob.at[s].executed = "INFLIGHT" /\ Accesses(p, r.rob.at[s])
      /\ r.rob.at[s].num_mem_ops = q.rob.at[s].num_mem_ops
  BY DEF ExecutionIs, Accesses
<1>3. HaveData(p, r.rob) = HaveData(p, q.rob) /\ Executing(p, r.rob) = Executing(p, q.rob)
  BY <1>2 DEF HaveData, Executing
<1> QED
  BY <1>1, <1>2, <1>3 DEF Accounts, InflightCounted

\* An instruction that has executed has no operand left to wait for.
NothingLeft(p, q, s) ==
  /\ InLq(q, s) = {} /\ InSq(q, s) = {}
  /\ q.rob.at[s].source_added = DOMAIN p[q.rob.at[s].id].loads
  /\ q.rob.at[s].destination_added = DOMAIN p[q.rob.at[s].id].stores

\* update_rob completes no instruction that has an operand in a queue without its data.
LEMMA CompleteHasNothingLeft ==
  ASSUME NEW p \in Programs, NEW q \in CoreRec(p), Accounts(p, q), IdsOf(p, q.rob),
         StoresHeld(p, q.rob, q.sq),
         NEW s \in Slot, q.rob.at[s].id # 0, q.rob.at[s].executed = "COMPLETED"
  PROVE  NothingLeft(p, q, s)
<1> DEFINE e == q.rob.at[s]
           x == p[e.id].loads
           y == p[e.id].stores
<1>1. /\ e.id \in 0 .. Len(p) /\ e.id # 0 /\ Counts(p, q, s)
  BY DEF IdsOf, Accounts, OperandsCounted
<1>2. /\ Len(x) \in Nat /\ Len(y) \in Nat /\ DOMAIN x = 1 .. Len(x) /\ DOMAIN y = 1 .. Len(y)
      /\ IsFiniteSet(DOMAIN x) /\ IsFiniteSet(DOMAIN y)
  BY SMTT(30), <1>1, OperandsOf
<1>3. e.source_added \subseteq DOMAIN x /\ e.destination_added \subseteq DOMAIN y
  BY <1>1 DEF Counts
<1>4. CASE Accesses(p, e)
  <2>1. e.num_mem_ops = 0
    BY <1>1, <1>4 DEF Accounts, InflightCounted
  <2>2. PICK a, b, c, d \in Nat : CountsAre(p, q, s, a, b, c, d)
    BY <1>1, CountedNumbers
  <2>3. e.num_mem_ops = a + b + c + d
    BY Zenon, <2>2 DEF CountsAre
  <2>4. a = 0 /\ b = 0 /\ c = 0 /\ d = 0
    <3> HIDE DEF e
    <3> QED
      BY <2>1, <2>3
  <2>5. /\ a = Cardinality(DOMAIN x \ e.source_added) /\ IsFiniteSet(DOMAIN x \ e.source_added)
        /\ b = Cardinality(DOMAIN y \ e.destination_added) /\ IsFiniteSet(DOMAIN y \ e.destination_added)
        /\ c = Cardinality(InLq(q, s)) /\ d = Cardinality(InSq(q, s))
    BY Zenon, <2>2 DEF CountsAre
  <2>6. DOMAIN x \ e.source_added = {} /\ DOMAIN y \ e.destination_added = {}
        /\ InLq(q, s) = {} /\ InSq(q, s) = {}
    <3> HIDE DEF x, y, e
    <3> QED
      BY <2>4, <2>5, QueuesFinite, FS_EmptySet
  <2> QED
    BY <1>3, <2>6 DEF NothingLeft
<1>5. CASE ~Accesses(p, e)
  <2>1. ~(Len(x) + Len(y) > 0)
    BY <1>5 DEF Accesses, MemOps
  <2>2. DOMAIN x = {} /\ DOMAIN y = {}
    <3> HIDE DEF x, y
    <3> QED
      BY <1>2, <2>1
  <2>3. ASSUME NEW l \in InLq(q, s)  PROVE FALSE
    <3>1. q.lq[l].addr # Nil /\ l \in Lq /\ q.lq[l].rob_index = s
      BY <2>3 DEF InLq
    <3>2. IsLoadOf(p, q.rob, q.lq[l], l)
      BY SMTT(30), <3>1 DEF Accounts, LoadsNamed, NoLoad
    <3> QED
      BY <2>2, <3>1, <3>2 DEF IsLoadOf
  <2>4. ASSUME NEW f \in InSq(q, s)  PROVE FALSE
    <3>1. q.sq.at[f].addr # Nil /\ f \in Sq /\ q.sq.at[f].rob_index = s
      BY <2>4 DEF InSq
    <3>2. IsStoreOf(p, q.rob, q.sq.at[f])
      BY <3>1 DEF StoresHeld, NoStore
    <3> QED
      BY <2>2, <3>1, <3>2 DEF IsStoreOf
  <2> QED
    BY <1>3, <2>2, <2>3, <2>4 DEF NothingLeft
<1> QED
  BY <1>4, <1>5

\* The instruction in slot s retires, and its stores K leave the queue.
LEMMA AccountsRetired ==
  ASSUME NEW p \in Programs, NEW q \in CoreRec(p), NEW r, Accounts(p, q), r.lq = q.lq, r.inflight = q.inflight,
         NEW s \in Slot, q.rob.at[s].executed = "COMPLETED", NothingLeft(p, q, s),
         r.rob.at[s] = NoInstr, \A t \in Slot : t # s => r.rob.at[t] = q.rob.at[t],
         NEW K, \A f \in Sq : r.sq.at[f] = IF f \in K THEN NoStore ELSE q.sq.at[f],
         \A f \in K : q.sq.at[f].rob_index = s
  PROVE  Accounts(p, r)
<1>1. q.lq \in [Lq -> LoadRec]
  BY CoreFields
<1>2. NoInstr.id = 0 /\ NoInstr.num_mem_ops = 0
  BY DEF NoInstr
<1>3. \A t \in Slot : InLq(r, t) = InLq(q, t)
  BY DEF InLq
<1>4. \A t \in Slot : t # s => InSq(r, t) = InSq(q, t)
  BY DEF InSq, NoStore
<1>5. OperandsCounted(p, r)
  <2>1. ASSUME NEW t \in Slot, t # s  PROVE IF r.rob.at[t].id # 0 THEN Counts(p, r, t) ELSE r.rob.at[t].num_mem_ops = 0
    <3>1. IF q.rob.at[t].id # 0 THEN Counts(p, q, t) ELSE q.rob.at[t].num_mem_ops = 0
      BY DEF Accounts, OperandsCounted
    <3>2. r.rob.at[t] = q.rob.at[t] /\ InLq(r, t) = InLq(q, t) /\ InSq(r, t) = InSq(q, t)
      BY <1>3, <1>4, <2>1
    <3> QED
      BY <3>1, <3>2 DEF Counts
  <2> QED
    BY <1>2, <2>1 DEF OperandsCounted
<1>6. InflightCounted(p, r)
  <2>1. HaveData(p, r.rob) = HaveData(p, q.rob) /\ Executing(p, r.rob) = Executing(p, q.rob)
    BY <1>2 DEF HaveData, Executing
  <2> QED
    BY <1>2, <2>1 DEF Accounts, InflightCounted
<1>7. LoadsNamed(p, r)
  <2>1. \A l \in Lq : q.lq[l].addr # Nil => q.lq[l].rob_index # s /\ q.lq[l].rob_index \in Slot
    BY <1>1 DEF NothingLeft, InLq, LoadRec
  <2>2. \A l \in Lq : StaysNamed(q, r, l)
    BY <2>1 DEF StaysNamed, KeepsLoad, KeepsNames
  <2>3. LoadsNamed(p, q)
    BY DEF Accounts
  <2> QED
    BY <2>2, <2>3, NamesKept
<1> QED
  BY <1>5, <1>6, <1>7 DEF Accounts

-----------------------------------------------------------------------------
(* The stream of stores                                                    *)

\* Every trace has one.
LEMMA StreamExists ==
  ASSUME NEW p \in Programs
  PROVE  \E f : StoresUpTo(p, f)
<1>1. Len(p) \in Nat
  BY ProgramsAssumption, LenProperties
<1> DEFINE step == [z \in (1 .. Len(p)) \X Nat |-> z[2] + Len(p[z[1]].stores)]
<1>2. \A i \in 1 .. Len(p) : Len(p[i].stores) \in Nat
  BY ProgramFacts
<1>3. step \in [(1 .. Len(p)) \X Nat -> Nat]
  BY <1>2
<1>4. \A i \in 1 .. Len(p) : \A x \in Nat : step[<<i, x>>] = x + Len(p[i].stores)
  OBVIOUS
<1> HIDE DEF step
<1>5. PICK f \in [0 .. Len(p) -> Nat] : Results(f, Len(p), 0, step)
  BY <1>1, <1>3, LoopResults
<1>6. \A i \in 1 .. Len(p) : i - 1 \in 0 .. Len(p)
  BY <1>1
<1>7. StoresUpTo(p, f)
  BY <1>4, <1>5, <1>6 DEF StoresUpTo, Results
<1> QED
  BY <1>7

\* Later places are higher.
LEMMA PlacesGrow ==
  ASSUME NEW p \in Programs, NEW f, StoresUpTo(p, f), NEW i \in 0 .. Len(p), NEW j \in i .. Len(p)
  PROVE  f[i] <= f[j] /\ f[i] \in Nat /\ f[j] \in Nat
<1>1. Len(p) \in Nat
  BY ProgramsAssumption, LenProperties
<1>2. f \in [0 .. Len(p) -> Nat] /\ \A n \in 1 .. Len(p) : f[n] = f[n - 1] + Len(p[n].stores)
  BY DEF StoresUpTo
<1> DEFINE S == {k \in 0 .. j - i : f[i] <= f[i + k]}
<1>3. j - i \in Nat
  BY <1>1
<1>4. 0 \in S
  BY SMTT(30), <1>1, <1>2, <1>3
<1>5. ASSUME NEW k \in 1 .. j - i, k - 1 \in S  PROVE k \in S
  <2>1. i + k \in 1 .. Len(p) /\ i + k - 1 = i + (k - 1) /\ i + (k - 1) \in 0 .. Len(p)
    BY <1>1, <1>3
  <2>2. f[i + k] = f[i + (k - 1)] + Len(p[i + k].stores) /\ Len(p[i + k].stores) \in Nat
    BY <1>2, <2>1, ProgramFacts
  <2>3. f[i] <= f[i + (k - 1)] /\ f[i] \in Nat /\ f[i + (k - 1)] \in Nat
    BY <1>2, <1>5, <2>1
  <2>4. f[i] <= f[i + k]
    BY <2>2, <2>3
  <2> QED
    BY <2>4
<1> HIDE DEF S
<1>6. \A k \in 0 .. j - i : k \in S
  BY <1>3, <1>4, <1>5, UpTo
<1>7. j - i \in S /\ i + (j - i) = j
  BY <1>1, <1>3, <1>6
<1> QED
  BY SMTT(30), <1>1, <1>2, <1>7 DEF S

\* The place of a store says which instruction has it.
LEMMA OnePlace ==
  ASSUME NEW p \in Programs, NEW f, StoresUpTo(p, f), NEW i \in 1 .. Len(p), NEW j \in 1 .. Len(p),
         NEW x \in Int, f[i - 1] < x, x <= f[i], NEW y \in Int, y <= f[j], x <= y
  PROVE  i <= j
<1>1. Len(p) \in Nat
  BY ProgramsAssumption, LenProperties
<1>2. ASSUME j < i  PROVE FALSE
  <2>1. j \in 0 .. Len(p) /\ i - 1 \in j .. Len(p)
    BY <1>1, <1>2
  <2>2. f[j] <= f[i - 1] /\ f[j] \in Nat /\ f[i - 1] \in Nat
    BY <2>1, PlacesGrow
  <2> QED
    BY <2>2
<1> QED
  BY <1>1, <1>2

\* Store k of instruction i has a place above those of the instructions before.
LEMMA PlaceOfStore ==
  ASSUME NEW p \in Programs, NEW f, StoresUpTo(p, f), NEW i \in 1 .. Len(p),
         NEW k \in DOMAIN p[i].stores
  PROVE  /\ k \in Nat /\ k >= 1 /\ f[i - 1] \in Nat /\ f[i] \in Nat
         /\ f[i - 1] < f[i - 1] + k /\ f[i - 1] + k <= f[i]
         /\ f[i] = f[i - 1] + Len(p[i].stores) /\ DOMAIN p[i].stores = 1 .. Len(p[i].stores)
<1>1. Len(p) \in Nat
  BY ProgramsAssumption, LenProperties
<1>2. DOMAIN p[i].stores = 1 .. Len(p[i].stores) /\ Len(p[i].stores) \in Nat
  BY ProgramFacts
<1>3. i - 1 \in 0 .. Len(p) /\ i \in 0 .. Len(p)
  BY <1>1
<1>4. f[i - 1] \in Nat /\ f[i] \in Nat /\ f[i] = f[i - 1] + Len(p[i].stores)
  BY <1>3 DEF StoresUpTo
<1> QED
  BY <1>2, <1>4

\* What a window of w places holds, as a set.
LEMMA WindowCount ==
  ASSUME NEW n \in Nat \ {0}, NEW h \in 0 .. n - 1, NEW w \in 0 .. n
  PROVE  Cardinality({i \in 0 .. n - 1 : Dist(n, h, i) < w}) = w
<1> DEFINE q == [i \in 1 .. w |-> 0]
           r == [at |-> [i \in 0 .. n - 1 |-> IF Dist(n, h, i) < w THEN 0 ELSE Nil],
                 head |-> h, tail |-> Wrap(n, h + w)]
<1>1. q \in Seq(Nat) /\ Len(q) = w
  <2>1. q \in [1 .. w -> Nat] /\ w \in Nat
    OBVIOUS
  <2>2. q \in Seq(Nat)
    BY <2>1, SeqDef
  <2>3. 1 .. Len(q) = 1 .. w /\ Len(q) \in Nat
    BY <2>1, <2>2, LenProperties
  <2> HIDE DEF q
  <2> QED
    BY <2>2, <2>3
<1>2. \A i \in 0 .. n - 1 : Dist(n, h, i) \in 0 .. n - 1
  BY DistIsPlace
<1>3. \A i \in 0 .. n - 1 : Dist(n, h, i) < w => q[Dist(n, h, i) + 1] = 0
  <2> TAKE i \in 0 .. n - 1
  <2>1. PICK d \in 0 .. n - 1 : d = Dist(n, h, i)
    BY <1>2
  <2>2. d < w => d + 1 \in 1 .. w
    OBVIOUS
  <2> QED
    BY <2>1, <2>2
<1>4. Wrap(n, h + w) \in 0 .. n - 1
  BY DEF Wrap
<1>5. r \in [at : [0 .. n - 1 -> Nat \cup {Nil}], head : 0 .. n - 1, tail : 0 .. n - 1]
  BY <1>4
<1>6. /\ r.head = h /\ r.tail = Wrap(n, h + w) /\ DOMAIN r.at = 0 .. n - 1
      /\ \A i \in 0 .. n - 1 : r.at[i] = IF Dist(n, h, i) < w THEN 0 ELSE Nil
  OBVIOUS
<1> HIDE DEF r, q
<1>7. RingHolds(r, n, Nat, q)
  BY <1>1, <1>3, <1>5, <1>6 DEF RingHolds
<1>8. Nil \notin Nat
  BY Sizes
<1>9. Cardinality(Taken(r)) = w
  BY <1>1, <1>7, <1>8, RingIsContiguous
<1>10. Taken(r) = {i \in 0 .. n - 1 : Dist(n, h, i) < w}
  BY <1>6, <1>8 DEF Taken
<1> QED
  BY <1>9, <1>10

\* A window of w places from h on whose head moves m places on, to g.
WindowMoves(n, h, w, m, g) ==
  /\ g \in 0 .. n - 1
  /\ Wrap(n, h + w) = Wrap(n, g + (w - m))
  /\ \A i \in 0 .. n - 1 : IF Dist(n, h, i) < m THEN ~(Dist(n, g, i) < w - m)
                           ELSE Dist(n, g, i) = Dist(n, h, i) - m

\* retire_rob moves the head of the store queue by the number of entries it empties.
LEMMA HeadMovesBy ==
  ASSUME NEW n \in Nat \ {0}, NEW h \in 0 .. n - 1, NEW w \in 0 .. n, NEW m \in 0 .. w,
         NEW g, g = (h + m) % n
  PROVE  WindowMoves(n, h, w, m, g)
<1>1. CASE m = n
  <2>1. (h + n) % n = h
    OBVIOUS
  <2>2. g = h /\ w - m = 0 /\ w = n
    BY <1>1, <2>1
  <2>3. Wrap(n, h + n) = h /\ Wrap(n, h + 0) = h
    BY DEF Wrap
  <2>4. \A i \in 0 .. n - 1 : Dist(n, h, i) \in 0 .. n - 1
    BY DistIsPlace
  <2> QED
    BY <1>1, <2>2, <2>3, <2>4 DEF WindowMoves
<1>2. CASE m # n
  <2>1. m \in 0 .. n - 1
    BY <1>2
  <2>2. g = Wrap(n, h + m)
    BY <2>1, PlaceIsDist
  <2>3. n \in Nat /\ h \in 0 .. n - 1 /\ w \in 0 .. n /\ m \in 0 .. w
    OBVIOUS
  <2>4. g \in 0 .. n - 1 /\ Wrap(n, h + w) = Wrap(n, g + (w - m))
    BY ONLY <2>1, <2>2, <2>3 DEF Wrap
  <2>5. ASSUME NEW i \in 0 .. n - 1
        PROVE  IF Dist(n, h, i) < m THEN ~(Dist(n, g, i) < w - m)
               ELSE Dist(n, g, i) = Dist(n, h, i) - m
    BY ONLY <2>1, <2>2, <2>3, i \in 0 .. n - 1 DEF Wrap, Dist
  <2> QED
    BY <2>4, <2>5 DEF WindowMoves
<1> QED
  BY <1>1, <1>2

-----------------------------------------------------------------------------
(* The stages of a store                                                   *)

\* A store that enters the queue enters the first stage.
LEMMA StagesWithStore ==
  ASSUME NEW q, NEW g, NEW D, StoreStages(q, g, D),
         NEW f \in Sq, q[f].addr = Nil, NEW i, NEW a \in Addr, NEW s, NEW k, NEW r,
         \A m \in Sq : r[m] = IF m = f THEN StoreOf(i, a, s, k) ELSE q[m],
         NEW h, h.RTS0 = Push(g.RTS0, f), h.RTS1 = g.RTS1
  PROVE  StoreStages(r, h, D)
<1> DEFINE e == StoreOf(i, a, s, k)
<1>1. e.addr # Nil /\ e.translated = "NO" /\ e.fetched = "NO"
  BY Sizes DEF StoreOf
<1>2. r[f] = e /\ \A m \in Sq : m # f => r[m] = q[m]
  OBVIOUS
<1> HIDE DEF e
<1>3. /\ InStoreStage(r, "NO", "NO") = InStoreStage(q, "NO", "NO") \cup {f}
      /\ InStoreStage(r, "INFLIGHT", "NO") = InStoreStage(q, "INFLIGHT", "NO")
      /\ InStoreStage(r, "COMPLETED", "NO") = InStoreStage(q, "COMPLETED", "NO")
  BY <1>1, <1>2 DEF InStoreStage
<1>4. f \notin InStoreStage(q, "NO", "NO")
  BY DEF InStoreStage
<1>5. RingOf(Push(g.RTS0, f), SQ_SIZE, InStoreStage(q, "NO", "NO") \cup {f})
  BY <1>4, Sizes, PushToRing DEF StoreStages, Sq
<1> QED
  BY <1>1, <1>2, <1>3, <1>5 DEF StoreStages

\* The stores of K come to a stage.
RestageStore(q, r, K, x, y) ==
  /\ \A f \in Sq \ K : r[f] = q[f]
  /\ \A f \in K : r[f].addr = q[f].addr /\ r[f].translated = x /\ r[f].fetched = y

\* A store goes from RTS0 to the DTLB.
LEMMA StoreStagesTranslate ==
  ASSUME NEW q, NEW g, NEW D, StoreStages(q, g, D),
         NEW f, f = First(g.RTS0), f # Nil,
         NEW r, RestageStore(q, r, {f}, "INFLIGHT", "NO"),
         NEW h, h.RTS0 = Pop(g.RTS0), h.RTS1 = g.RTS1
  PROVE  f \in InStoreStage(q, "NO", "NO") /\ StoreStages(r, h, D \cup {<<"store", f>>})
<1>1. f \in InStoreStage(q, "NO", "NO") /\ RingOf(Pop(g.RTS0), SQ_SIZE, InStoreStage(q, "NO", "NO") \ {f})
  BY Sizes, PopFromRing DEF StoreStages
<1>2. f \in Sq
  BY <1>1 DEF InStoreStage
<1>3. /\ InStoreStage(r, "NO", "NO") = InStoreStage(q, "NO", "NO") \ {f}
      /\ InStoreStage(r, "INFLIGHT", "NO") = InStoreStage(q, "INFLIGHT", "NO") \cup {f}
      /\ InStoreStage(r, "COMPLETED", "NO") = InStoreStage(q, "COMPLETED", "NO")
  BY <1>1, <1>2 DEF InStoreStage, RestageStore
<1>4. {m \in Sq : <<"store", m>> \in D \cup {<<"store", f>>}} = {m \in Sq : <<"store", m>> \in D} \cup {f}
  BY <1>2
<1>5. \A m \in Sq : r[m].addr # Nil =>
       \/ r[m].translated \in {"NO", "INFLIGHT"} /\ r[m].fetched = "NO"
       \/ r[m].translated = "COMPLETED" /\ r[m].fetched \in {"NO", "COMPLETED"}
  BY DEF StoreStages, RestageStore
<1> QED
  BY <1>1, <1>3, <1>4, <1>5 DEF StoreStages

\* A store at the head of RTS1 executes.
LEMMA StoreStagesExecute ==
  ASSUME NEW q, NEW g, NEW D, StoreStages(q, g, D),
         NEW f, f = First(g.RTS1), f # Nil,
         NEW r, RestageStore(q, r, {f}, "COMPLETED", "COMPLETED"),
         NEW h, h.RTS1 = Pop(g.RTS1), h.RTS0 = g.RTS0
  PROVE  f \in InStoreStage(q, "COMPLETED", "NO") /\ StoreStages(r, h, D)
<1>1. f \in InStoreStage(q, "COMPLETED", "NO")
      /\ RingOf(Pop(g.RTS1), SQ_SIZE, InStoreStage(q, "COMPLETED", "NO") \ {f})
  BY Sizes, PopFromRing DEF StoreStages
<1>2. f \in Sq
  BY <1>1 DEF InStoreStage
<1>3. /\ InStoreStage(r, "NO", "NO") = InStoreStage(q, "NO", "NO")
      /\ InStoreStage(r, "INFLIGHT", "NO") = InStoreStage(q, "INFLIGHT", "NO")
      /\ InStoreStage(r, "COMPLETED", "NO") = InStoreStage(q, "COMPLETED", "NO") \ {f}
  BY <1>1, <1>2 DEF InStoreStage, RestageStore
<1>5. \A m \in Sq : r[m].addr # Nil =>
       \/ r[m].translated \in {"NO", "INFLIGHT"} /\ r[m].fetched = "NO"
       \/ r[m].translated = "COMPLETED" /\ r[m].fetched \in {"NO", "COMPLETED"}
  BY DEF StoreStages, RestageStore
<1> QED
  BY <1>1, <1>3, <1>5 DEF StoreStages

\* The stages as the stores of K, which had asked for their translations, have them.
StoresTranslated(q, r, K) ==
  /\ InStoreStage(r, "NO", "NO") = InStoreStage(q, "NO", "NO")
  /\ InStoreStage(r, "INFLIGHT", "NO") = InStoreStage(q, "INFLIGHT", "NO") \ K
  /\ InStoreStage(r, "COMPLETED", "NO") = InStoreStage(q, "COMPLETED", "NO") \cup K
  /\ \A m \in Sq : \/ r[m] = q[m]
                   \/ r[m].translated = "COMPLETED" /\ r[m].fetched = "NO"

\* An answer of the DTLB brings its stores from the second stage to the third.
LEMMA TranslatedStoreStages ==
  ASSUME NEW q, NEW K, K \subseteq InStoreStage(q, "INFLIGHT", "NO"),
         NEW r, RestageStore(q, r, K, "COMPLETED", "NO")
  PROVE  StoresTranslated(q, r, K) /\ K \cap InStoreStage(q, "COMPLETED", "NO") = {} /\ K \subseteq Sq
BY DEF InStoreStage, RestageStore, StoresTranslated

\* They go from the DTLB to RTS1.
LEMMA StoreStagesTranslated ==
  ASSUME NEW q, NEW g, NEW D, StoreStages(q, g, D), NEW C,
         NEW K \in SUBSET Sq, \A f \in Sq : f \in K <=> <<"store", f>> \in C, C \subseteq D,
         NEW r, RestageStore(q, r, K, "COMPLETED", "NO"),
         NEW w, Enumerates(w, K), NEW h, h.RTS0 = g.RTS0, h.RTS1 = PushAll(g.RTS1, w)
  PROVE  StoreStages(r, h, D \ C)
<1>1. K \subseteq InStoreStage(q, "INFLIGHT", "NO")
  BY DEF StoreStages
<1>2. StoresTranslated(q, r, K) /\ K \cap InStoreStage(q, "COMPLETED", "NO") = {} /\ K \subseteq Sq
  BY <1>1, TranslatedStoreStages
<1> DEFINE S == InStoreStage(q, "COMPLETED", "NO")
           x == g.RTS1
<1>3. RingOf(x, SQ_SIZE, S) /\ K \in SUBSET (0 .. SQ_SIZE - 1) /\ S \cap K = {}
  BY <1>2 DEF StoreStages, Sq
<1>4. h.RTS1 = PushAll(x, w)
  OBVIOUS
<1> HIDE DEF S, x
<1>5. RingOf(h.RTS1, SQ_SIZE, S \cup K)
  <2>1. SQ_SIZE \in Nat \ {0}
    BY Sizes
  <2>2. RingOf(PushAll(x, w), SQ_SIZE, S \cup K)
    BY ONLY <1>3, <2>1, Enumerates(w, K), PushSetToRing
  <2> QED
    BY <1>4, <2>2
<1>6. {m \in Sq : <<"store", m>> \in D \ C} = {m \in Sq : <<"store", m>> \in D} \ K
  OBVIOUS
<1> QED
  BY <1>2, <1>5, <1>6 DEF StoreStages, StoresTranslated, S

\* The stores of K leave the array.
WithoutStores(q, r, K) == \A m \in Sq : r[m] = IF m \in K THEN NoStore ELSE q[m]

\* Stores that have executed leave the queue from no stage.
LEMMA StoreStagesRetired ==
  ASSUME NEW q, NEW g, NEW D, StoreStages(q, g, D), NEW K,
         \A f \in K : q[f].fetched = "COMPLETED",
         NEW r, WithoutStores(q, r, K)
  PROVE  StoreStages(r, g, D)
<1> USE DEF WithoutStores
<1>1. NoStore.addr = Nil
  BY DEF NoStore
<1>2. /\ InStoreStage(r, "NO", "NO") = InStoreStage(q, "NO", "NO")
      /\ InStoreStage(r, "INFLIGHT", "NO") = InStoreStage(q, "INFLIGHT", "NO")
      /\ InStoreStage(r, "COMPLETED", "NO") = InStoreStage(q, "COMPLETED", "NO")
  BY <1>1 DEF InStoreStage
<1> QED
  BY <1>1, <1>2 DEF StoreStages

\* Where neither the stores nor their rings and requests change, the stages are the same.
LEMMA StoreStagesKept ==
  ASSUME NEW q, NEW g, NEW D, StoreStages(q, g, D), NEW r, \A f \in Sq : r[f] = q[f],
         NEW h, h.RTS0 = g.RTS0, h.RTS1 = g.RTS1,
         NEW E, \A f \in Sq : <<"store", f>> \in E <=> <<"store", f>> \in D
  PROVE  StoreStages(r, h, E)
<1>1. \A x, y : InStoreStage(r, x, y) = InStoreStage(q, x, y)
  BY DEF InStoreStage
<1> QED
  BY <1>1 DEF StoreStages

-----------------------------------------------------------------------------
(* The stores that are read and not retired                                *)

\* Every entry of the store queue is empty or a store of the instruction in its slot.
LEMMA WindowHolds ==
  ASSUME NEW p, NEW f, NEW b, NEW q, NEW c, NEW a, StoreWindow(p, f, b, q, c, a)
  PROVE  StoresHeld(p, b, q)
BY DEF StoreWindow, StoresHeld, HoldsPlace

\* A store of the queue has an address.
LEMMA StoreHasAddress ==
  ASSUME NEW p \in Programs, NEW b, NEW e, IsStoreOf(p, b, e)
  PROVE  e.addr \in Addr /\ e.addr # Nil /\ e.id # 0 /\ e.id \in 0 .. Len(p)
<1>1. Len(p) \in Nat
  BY ProgramsAssumption, LenProperties
<1>2. e.id # 0 /\ e.id \in 0 .. Len(p)
  BY <1>1 DEF IsStoreOf
<1>3. e.addr \in Addr
  BY <1>2, OperandsOf DEF IsStoreOf
<1> QED
  BY <1>2, <1>3, Sizes

\* How many stores are in the queue, and where.
LEMMA WindowSize ==
  ASSUME NEW p \in Programs, NEW f, NEW b, NEW q, NEW c, NEW a, StoreWindow(p, f, b, q, c, a), q.head \in Sq
  PROVE  /\ \A i \in Sq : q.at[i].addr # Nil <=> Dist(SQ_SIZE, q.head, i) < a - c
         /\ Cardinality({i \in Sq : q.at[i].addr # Nil}) = a - c
<1>1. \A i \in Sq : q.at[i].addr # Nil <=> Dist(SQ_SIZE, q.head, i) < a - c
  <2>1. NoStore.addr = Nil
    BY DEF NoStore
  <2>2. \A i \in Sq : Dist(SQ_SIZE, q.head, i) < a - c => q.at[i].addr # Nil
    BY StoreHasAddress DEF StoreWindow, HoldsPlace
  <2> QED
    BY <2>1, <2>2 DEF StoreWindow
<1>2. {i \in Sq : q.at[i].addr # Nil} = {i \in 0 .. SQ_SIZE - 1 : Dist(SQ_SIZE, q.head, i) < a - c}
  BY <1>1 DEF Sq
<1>3. SQ_SIZE \in Nat \ {0} /\ q.head \in 0 .. SQ_SIZE - 1 /\ a - c \in 0 .. SQ_SIZE
  BY Sizes DEF Sq, StoreWindow
<1> DEFINE w == a - c
<1>4. Cardinality({i \in 0 .. SQ_SIZE - 1 : Dist(SQ_SIZE, q.head, i) < w}) = w
  <2> HIDE DEF w
  <2>1. w \in 0 .. SQ_SIZE
    BY <1>3 DEF w
  <2> QED
    BY <1>3, <2>1, WindowCount
<1> QED
  BY <1>1, <1>2, <1>4

\* What the stores of an instruction rest on is the same in two entries.
SameStores(e, f) == f.id = e.id /\ f.destination_added = e.destination_added /\ f.sq_index = e.sq_index

\* An instruction names the entries of its stores where neither changes what names them.
LEMMA NamesStoresKept ==
  ASSUME NEW p, NEW f, NEW e, NEW g, NEW q, NEW r, NEW a, NamesStores(p, f, e, q, a), SameStores(e, g),
         \A i \in Sq : /\ r.at[i].id = q.at[i].id /\ r.at[i].addr = q.at[i].addr
                       /\ r.at[i].data_index = q.at[i].data_index
  PROVE  NamesStores(p, f, g, r, a)
<1>1. g.destination_added = {k \in DOMAIN p[g.id].stores : f[g.id - 1] + k <= a}
  BY DEF NamesStores, SameStores
<1>2. ASSUME NEW k \in Dst, k \in g.destination_added
      PROVE  /\ g.sq_index[k] \in Sq
             /\ r.at[g.sq_index[k]].addr # Nil
             /\ r.at[g.sq_index[k]].id = g.id
             /\ r.at[g.sq_index[k]].data_index = k
  <2>1. /\ e.sq_index[k] \in Sq /\ q.at[e.sq_index[k]].addr # Nil
        /\ q.at[e.sq_index[k]].id = e.id /\ q.at[e.sq_index[k]].data_index = k
    BY <1>2 DEF NamesStores, SameStores
  <2> QED
    BY <2>1 DEF SameStores
<1>3. ASSUME NEW k \in Dst, k \notin g.destination_added  PROVE g.sq_index[k] = Nil
  BY <1>3 DEF NamesStores, SameStores
<1> QED
  BY <1>1, <1>2, <1>3 DEF NamesStores

\* Two entries of the store queue hold the same store, or none; it may have executed.
SameStore(e, f) ==
  \/ f = e
  \/ /\ e.addr # Nil
     /\ f.id = e.id /\ f.addr = e.addr /\ f.rob_index = e.rob_index /\ f.data_index = e.data_index

\* The stores are where they were, in the stages that r and E have.
LEMMA StoresStay ==
  ASSUME NEW p \in Programs, NEW f, NEW q, NEW r, NEW D, NEW E, NEW n, NEW d, NEW rd, NEW a,
         Stores(p, f, q, D, n, d, rd, a), q.sq.at \in [Sq -> StoreRec],
         \A t \in Slot : SameStores(q.rob.at[t], r.rob.at[t]),
         r.sq.head = q.sq.head, r.sq.tail = q.sq.tail, r.sta = q.sta,
         \A g \in Sq : SameStore(q.sq.at[g], r.sq.at[g]),
         StoreStages(r.sq.at, r.ready, E)
  PROVE  Stores(p, f, r, E, n, d, rd, a)
<1>1. \A g \in Sq : /\ r.sq.at[g].id = q.sq.at[g].id /\ r.sq.at[g].addr = q.sq.at[g].addr
                    /\ r.sq.at[g].rob_index = q.sq.at[g].rob_index /\ q.sq.at[g].rob_index \in Slot
                    /\ r.sq.at[g].data_index = q.sq.at[g].data_index
  BY DEF SameStore, StoreRec
<1>2. \A g \in Sq : q.sq.at[g] = NoStore => r.sq.at[g] = NoStore
  BY DEF SameStore, NoStore
<1>3. ASSUME NEW g \in Sq, NEW x, HoldsPlace(p, f, q.rob, q.sq.at[g], x)
      PROVE  HoldsPlace(p, f, r.rob, r.sq.at[g], x)
  <2>1. /\ r.sq.at[g].id = q.sq.at[g].id /\ r.sq.at[g].addr = q.sq.at[g].addr
        /\ r.sq.at[g].rob_index = q.sq.at[g].rob_index
        /\ r.sq.at[g].data_index = q.sq.at[g].data_index
    BY <1>1
  <2>2. r.rob.at[q.sq.at[g].rob_index].id = q.rob.at[q.sq.at[g].rob_index].id
    BY <1>1 DEF SameStores
  <2> QED
    BY ONLY <1>3, <2>1, <2>2 DEF HoldsPlace, IsStoreOf
<1>4. StoreWindow(p, f, r.rob, r.sq, f[n], a)
  <2>1. StoreWindow(p, f, q.rob, q.sq, f[n], a)
    BY DEF Stores
  <2> QED
    BY <1>2, <1>3, <2>1 DEF StoreWindow
<1>5. StoresNamed(p, f, r.rob, r.sq, a)
  <2>1. SUFFICES ASSUME NEW s \in Slot, r.rob.at[s].id # 0
                 PROVE  NamesStores(p, f, r.rob.at[s], r.sq, a)
    BY DEF StoresNamed
  <2>2. SameStores(q.rob.at[s], r.rob.at[s]) /\ q.rob.at[s].id # 0
    BY <2>1 DEF SameStores
  <2>3. NamesStores(p, f, q.rob.at[s], q.sq, a)
    BY <2>2 DEF Stores, StoresNamed
  <2> QED
    BY <1>1, <2>2, <2>3, NamesStoresKept
<1> QED
  BY <1>4, <1>5 DEF Stores

\* The same where none of them executes.
LEMMA StoresKept ==
  ASSUME NEW p \in Programs, NEW f, NEW q, NEW r, NEW D, NEW E, NEW n, NEW d, NEW rd, NEW a,
         Stores(p, f, q, D, n, d, rd, a), q.sq.at \in [Sq -> StoreRec],
         \A t \in Slot : SameStores(q.rob.at[t], r.rob.at[t]),
         r.sq.head = q.sq.head, r.sq.tail = q.sq.tail, r.sta = q.sta,
         \A g \in Sq : KeepsStore(q.sq.at[g], r.sq.at[g]),
         StoreStages(r.sq.at, r.ready, E)
  PROVE  Stores(p, f, r, E, n, d, rd, a)
<1>1. \A g \in Sq : SameStore(q.sq.at[g], r.sq.at[g])
  BY DEF KeepsStore, SameStore
<1> QED
  BY <1>1, StoresStay

\* An instruction enters the reorder buffer with none of its stores added.
LEMMA StoresWithNew ==
  ASSUME NEW p \in Programs, NEW f, StoresUpTo(p, f), NEW q, NEW r, NEW D,
         NEW n \in 0 .. Len(p), NEW d \in 0 .. Len(p) - 1, NEW rd, NEW a,
         Stores(p, f, q, D, n, d, rd, a), q.sq.at \in [Sq -> StoreRec],
         NEW s \in Slot, q.rob.at[s].id = 0, NEW m, IsNew(r.rob.at[s], d + 1, m),
         \A t \in Slot : t # s => r.rob.at[t] = q.rob.at[t],
         r.sq = q.sq, r.sta = q.sta, r.ready = q.ready
  PROVE  Stores(p, f, r, D, n, d + 1, rd, a)
<1>1. Len(p) \in Nat
  BY ProgramsAssumption, LenProperties
<1>2. d \in 0 .. Len(p) /\ d + 1 \in d .. Len(p) /\ d + 1 - 1 = d /\ d + 1 \in 1 .. Len(p)
  BY <1>1
<1>3. f[d] <= f[d + 1] /\ f[d] \in Nat /\ f[d + 1] \in Nat /\ f[n] \in Nat
  BY <1>2, PlacesGrow DEF StoresUpTo
<1>4. a \in f[n] .. f[d + 1] /\ a \in Int /\ a <= f[d]
  BY <1>3 DEF Stores
<1>5. ASSUME NEW e, IsStoreOf(p, q.rob, e), e.rob_index \in Slot  PROVE IsStoreOf(p, r.rob, e)
  <2>1. e.rob_index # s
    BY <1>1, <1>5 DEF IsStoreOf
  <2> QED
    BY <1>5, <2>1 DEF IsStoreOf
<1>6. StoreWindow(p, f, r.rob, r.sq, f[n], a)
  <2>1. StoreWindow(p, f, q.rob, q.sq, f[n], a)
    BY DEF Stores
  <2>2. \A g \in Sq : q.sq.at[g].rob_index \in Slot
    BY DEF StoreRec
  <2> QED
    BY <1>5, <2>1, <2>2 DEF StoreWindow, HoldsPlace
<1>7. StoresNamed(p, f, r.rob, r.sq, a)
  <2>1. /\ r.rob.at[s].id = d + 1 /\ r.rob.at[s].destination_added = {}
        /\ r.rob.at[s].sq_index = [k \in Dst |-> Nil]
    BY DEF IsNew
  <2>2. {k \in DOMAIN p[d + 1].stores : f[d] + k <= a} = {}
    <3>1. ASSUME NEW k \in DOMAIN p[d + 1].stores  PROVE ~(f[d] + k <= a)
      <4>1. k \in Nat /\ k >= 1
        BY <1>2, PlaceOfStore
      <4> QED
        BY <1>3, <1>4, <4>1
    <3> QED
      BY <3>1
  <2>3. StoresNamed(p, f, q.rob, q.sq, a)
    BY SMTT(30) DEF Stores
  <2>4. NamesStores(p, f, r.rob.at[s], r.sq, a)
    <3>1. r.rob.at[s].destination_added
          = {k \in DOMAIN p[r.rob.at[s].id].stores : f[r.rob.at[s].id - 1] + k <= a}
      BY <1>2, <2>1, <2>2
    <3>2. \A k \in Dst : k \notin r.rob.at[s].destination_added /\ r.rob.at[s].sq_index[k] = Nil
      BY <2>1
    <3> QED
      BY <3>1, <3>2 DEF NamesStores
  <2>5. ASSUME NEW t \in Slot, t # s, r.rob.at[t].id # 0  PROVE NamesStores(p, f, r.rob.at[t], r.sq, a)
    BY <2>3, <2>5 DEF StoresNamed
  <2> QED
    BY <2>4, <2>5 DEF StoresNamed
<1> QED
  BY <1>4, <1>6, <1>7 DEF Stores

\* The stores of the instruction that is read are listed in STA behind the others.
LEMMA StoresWithRead ==
  ASSUME NEW p \in Programs, NEW f, StoresUpTo(p, f), NEW t, NEW a, NEW rd \in 0 .. Len(p) - 1,
         StaHolds(f, t, a, rd), a \in Int, f[rd + 1] - a <= STA_SIZE,
         NEW u, u = PushAll(t, [k \in DOMAIN p[rd + 1].stores |-> rd + 1])
  PROVE  StaHolds(f, u, a, rd + 1)
<1>1. Len(p) \in Nat
  BY ProgramsAssumption, LenProperties
<1>2. rd \in Nat /\ rd + 1 \in 1 .. Len(p) /\ rd \in 0 .. Len(p) /\ rd + 1 - 1 = rd
  BY <1>1
<1> DEFINE m == Len(p[rd + 1].stores)
           v == [k \in DOMAIN p[rd + 1].stores |-> rd + 1]
<1>3. m \in Nat /\ DOMAIN p[rd + 1].stores = 1 .. m
  BY <1>2, ProgramFacts
<1>4. f[rd + 1] = f[rd] + m /\ f[rd] \in Nat /\ f[rd + 1] \in Nat
  BY <1>2, <1>3 DEF StoresUpTo
<1>5. v \in [1 .. m -> Nat] /\ DOMAIN v = 1 .. m /\ \A k \in 1 .. m : v[k] = rd + 1
  BY <1>2, <1>3
<1>6. v \in Seq(Nat) /\ Len(v) = m
  <2> HIDE DEF v, m
  <2>1. v \in Seq(Nat)
    BY <1>3, <1>5, SeqDef
  <2>2. 1 .. Len(v) = 1 .. m /\ Len(v) \in Nat
    BY <1>5, <2>1, LenProperties
  <2> QED
    BY <1>3, <2>1, <2>2
<1>7. PICK w : /\ RingHolds(t, STA_SIZE, Nat, w)
               /\ Len(w) = f[rd] - a
               /\ \A i \in 1 .. Len(w) : w[i] \in 1 .. rd /\ f[w[i] - 1] < a + i /\ a + i <= f[w[i]]
  BY DEF StaHolds
<1>8. w \in Seq(Nat) /\ Len(w) \in Nat
  BY <1>7, LenProperties DEF RingHolds
<1>9. u = PushAll(t, v)
  OBVIOUS
<1> HIDE DEF v, m
<1>10. Len(w \o v) = Len(w) + m /\ w \o v \in Seq(Nat)
  BY <1>6, <1>8, ConcatProperties
<1>11. RingHolds(u, STA_SIZE, Nat, w \o v)
  <2>1. Len(w) + Len(v) <= STA_SIZE /\ STA_SIZE \in Nat \ {0}
    BY <1>3, <1>4, <1>6, <1>7, Sizes
  <2> QED
    BY <1>6, <1>7, <1>9, <2>1, PushAllHolds
<1>12. Len(w \o v) = f[rd + 1] - a
  BY <1>3, <1>4, <1>7, <1>10
<1>13. ASSUME NEW i \in 1 .. Len(w \o v)
       PROVE  /\ (w \o v)[i] \in 1 .. rd + 1
              /\ f[(w \o v)[i] - 1] < a + i /\ a + i <= f[(w \o v)[i]]
  <2>1. CASE i <= Len(w)
    <3>1. i \in 1 .. Len(w)
      BY <1>8, <2>1
    <3>2. (w \o v)[i] = w[i]
      BY <1>6, <1>8, <2>1, <1>10, <3>1, ConcatProperties
    <3> QED
      BY <1>2, <1>7, <3>1, <3>2
  <2>2. CASE ~(i <= Len(w))
    <3>1. i - Len(w) \in 1 .. m /\ i \in Nat
      BY <1>3, <1>8, <1>10, <2>2
    <3>2. (w \o v)[i] = v[i - Len(w)]
      BY <1>6, <1>8, <2>2, <1>10, <3>1, ConcatProperties
    <3>3. (w \o v)[i] = rd + 1
      BY <1>5, <3>1, <3>2
    <3>4. f[rd] < a + i /\ a + i <= f[rd + 1]
      <4> DEFINE x == Len(w)
                 y == f[rd]
                 z == f[rd + 1]
      <4>1. x = y - a /\ i - x \in 1 .. m /\ x \in Nat /\ m \in Nat /\ y \in Nat /\ z = y + m /\ i \in Nat
        BY <1>3, <1>4, <1>7, <1>8, <3>1
      <4>2. a \in Int
        OBVIOUS
      <4> HIDE DEF x, y, z
      <4>3. y < a + i /\ a + i <= z
        BY ONLY <4>1, <4>2
      <4> QED
        BY <4>3 DEF y, z
    <3> QED
      BY <1>2, <3>3, <3>4
  <2> QED
    BY <2>1, <2>2
<1> QED
  BY <1>11, <1>12, <1>13 DEF StaHolds

\* The store at the head of STA is the next of the stream, and leaves STA.
LEMMA StaPopped ==
  ASSUME NEW p \in Programs, NEW f, NEW t, NEW a \in Int, NEW rd \in 0 .. Len(p),
         StoresUpTo(p, f), StaHolds(f, t, a, rd), NEW i \in Int, First(t) = i
  PROVE  StaHolds(f, Pop(t), a + 1, rd) /\ i \in 1 .. rd /\ f[i - 1] < a + 1 /\ a + 1 <= f[i]
<1>1. PICK w : /\ RingHolds(t, STA_SIZE, Nat, w)
               /\ Len(w) = f[rd] - a
               /\ \A m \in 1 .. Len(w) : w[m] \in 1 .. rd /\ f[w[m] - 1] < a + m /\ a + m <= f[w[m]]
  BY DEF StaHolds
<1>2. w \in Seq(Nat) /\ Len(w) \in Nat /\ STA_SIZE \in Nat \ {0} /\ Nil \notin Nat /\ i # Nil
  BY <1>1, Sizes, LenProperties DEF RingHolds
<1>3. w # << >> /\ w[1] = i /\ Len(w) > 0
  BY <1>1, <1>2, FirstOfRing
<1>4. RingHolds(Pop(t), STA_SIZE, Nat, Tail(w))
  BY <1>1, <1>2, <1>3, PopHolds
<1>5. Len(Tail(w)) = Len(w) - 1 /\ \A m \in 1 .. Len(w) - 1 : Tail(w)[m] = w[m + 1]
  BY <1>2, <1>3, HeadTailProperties
<1>6. 1 \in 1 .. Len(w)
  BY <1>2, <1>3
<1>7. i \in 1 .. rd /\ f[i - 1] < a + 1 /\ a + 1 <= f[i]
  BY <1>1, <1>3, <1>6
<1>8. Len(Tail(w)) = f[rd] - (a + 1)
  <2>1. f[rd] \in Nat
    BY DEF StoresUpTo
  <2> DEFINE x == f[rd]
             y == Len(w)
  <2>2. x \in Nat /\ y \in Nat /\ y = x - a
    BY <1>1, <1>2, <2>1
  <2> HIDE DEF x, y
  <2>3. y - 1 = x - (a + 1)
    BY <2>2
  <2> QED
    BY <1>5, <2>3 DEF x, y
<1>9. ASSUME NEW m \in 1 .. Len(Tail(w))
      PROVE  /\ Tail(w)[m] \in 1 .. rd /\ f[Tail(w)[m] - 1] < (a + 1) + m
             /\ (a + 1) + m <= f[Tail(w)[m]]
  <2>1. m \in 1 .. Len(w) - 1 /\ m + 1 \in 1 .. Len(w)
    BY <1>2, <1>5
  <2>2. Tail(w)[m] = w[m + 1]
    BY <1>5, <2>1
  <2>3. a + (m + 1) = (a + 1) + m
    BY <2>1
  <2>4. w[m + 1] \in 1 .. rd /\ f[w[m + 1] - 1] < a + (m + 1) /\ a + (m + 1) <= f[w[m + 1]]
    BY <1>1, <2>1
  <2> QED
    BY <2>2, <2>3, <2>4
<1> QED
  BY <1>4, <1>7, <1>8, <1>9 DEF StaHolds

\* Two arrays of stores agree but for entry y, two buffers but for slot s, and their
\* instructions are the same; the instructions of a buffer are different ones of the trace.
SameStoresBut(q, r, y) == \A m \in Sq : m # y => r.at[m] = q.at[m]
SameSlotsBut(b, c, s) == \A t \in Slot : t # s => c.at[t] = b.at[t]
SameIds(b, c) == \A t \in Slot : c.at[t].id = b.at[t].id
DifferentIds(p, b) ==
  /\ \A t \in Slot : b.at[t].id \in 0 .. Len(p)
  /\ \A t, u \in Slot : b.at[t].id # 0 /\ b.at[t].id = b.at[u].id => t = u

\* A window that is not full takes the next store of the stream at its tail.
TakesNext(p, f, b, c, q, r, x, a) ==
  /\ StoreWindow(p, f, b, q, x, a) /\ a - x # SQ_SIZE
  /\ r.head = q.head /\ r.tail = (q.tail + 1) % SQ_SIZE
  /\ SameStoresBut(q, r, q.tail) /\ SameIds(b, c)
  /\ HoldsPlace(p, f, c, r.at[q.tail], a + 1)

\* The window has the store at its tail as well.
LEMMA StoreWindowGrows ==
  ASSUME NEW p \in Programs, NEW f, NEW b, NEW c, NEW q \in SqRec, NEW r,
         NEW x \in Int, NEW a \in Int, TakesNext(p, f, b, c, q, r, x, a)
  PROVE  StoreWindow(p, f, c, r, x, a + 1) /\ q.at[q.tail].addr = Nil
<1> USE DEF TakesNext, SameStoresBut, SameIds
<1> DEFINE w == a - x
           h == q.head
           y == q.tail
<1>1. w \in 0 .. SQ_SIZE /\ w # SQ_SIZE /\ h \in 0 .. SQ_SIZE - 1 /\ SQ_SIZE \in Nat \ {0} /\ y = Wrap(SQ_SIZE, h + w)
      /\ r.tail = (y + 1) % SQ_SIZE /\ y \in Sq /\ a + 1 - x = w + 1 /\ x + 1 + w = a + 1
  BY Sizes DEF StoreWindow, SqRec, Sq
<1>2. \A m \in Sq : IF Dist(SQ_SIZE, h, m) < w
                    THEN HoldsPlace(p, f, b, q.at[m], x + 1 + Dist(SQ_SIZE, h, m))
                    ELSE q.at[m] = NoStore
  BY DEF StoreWindow
<1>3. \A m \in Sq : q.at[m].rob_index \in Slot
  BY DEF SqRec, StoreRec
<1> HIDE DEF w, h, y
<1>4. WindowGrows(SQ_SIZE, h, w, y, r.tail)
  BY <1>1, AtTail
<1>5. /\ Dist(SQ_SIZE, h, y) = w /\ r.tail = Wrap(SQ_SIZE, h + (w + 1))
      /\ \A m \in Sq : Dist(SQ_SIZE, h, m) < w + 1 <=> m = y \/ Dist(SQ_SIZE, h, m) < w
  BY <1>1, <1>4 DEF WindowGrows, Sq
<1>6. ASSUME NEW m \in Sq, NEW z, HoldsPlace(p, f, b, q.at[m], z)
      PROVE  HoldsPlace(p, f, c, q.at[m], z)
  BY <1>3, <1>6 DEF HoldsPlace, IsStoreOf
<1>7. ASSUME NEW m \in Sq
      PROVE  IF Dist(SQ_SIZE, h, m) < w + 1
             THEN HoldsPlace(p, f, c, r.at[m], x + 1 + Dist(SQ_SIZE, h, m))
             ELSE r.at[m] = NoStore
  <2>1. CASE m = y
    <3>1. HoldsPlace(p, f, c, r.at[m], x + 1 + Dist(SQ_SIZE, h, m))
      BY <1>1, <1>5, <2>1 DEF y
    <3> QED
      BY <1>5, <2>1, <3>1
  <2>2. CASE m # y
    <3>1. r.at[m] = q.at[m]
      BY <2>2 DEF y
    <3> QED
      BY <1>2, <1>5, <1>6, <2>2, <3>1
  <2> QED
    BY <2>1, <2>2
<1>8. a + 1 - x \in 0 .. SQ_SIZE
  BY <1>1
<1>9. q.at[y].addr = Nil
  <2>1. ~(Dist(SQ_SIZE, h, y) < w)
    BY <1>1, <1>5
  <2> QED
    BY <1>1, <1>2, <2>1 DEF NoStore
<1>10. /\ r.tail = Wrap(SQ_SIZE, r.head + (a + 1 - x))
       /\ \A m \in Sq : IF Dist(SQ_SIZE, r.head, m) < a + 1 - x
                        THEN HoldsPlace(p, f, c, r.at[m], x + 1 + Dist(SQ_SIZE, r.head, m))
                        ELSE r.at[m] = NoStore
  BY <1>1, <1>5, <1>7 DEF h
<1> QED
  BY <1>8, <1>9, <1>10 DEF StoreWindow, y

\* The instruction of the store names it, the others name the stores they named.
LEMMA StoresNamedGrow ==
  ASSUME NEW p \in Programs, NEW f, StoresUpTo(p, f), NEW b, NEW c, NEW q, NEW r, NEW a \in Int,
         StoresNamed(p, f, b, q, a), DifferentIds(p, b),
         NEW s \in Slot, NEW i \in 1 .. Len(p), b.at[s].id = i,
         NEW k \in DOMAIN p[i].stores, f[i - 1] + k = a + 1,
         NEW y \in Sq, q.at[y].addr = Nil, SameStoresBut(q, r, y),
         IsStoreAdded(b.at[s], c.at[s], k, y), SameSlotsBut(b, c, s),
         r.at[y].id = i, r.at[y].addr # Nil, r.at[y].data_index = k
  PROVE  StoresNamed(p, f, c, r, a + 1)
<1> USE DEF SameStoresBut, SameSlotsBut, DifferentIds
<1>1. Len(p) \in Nat
  BY ProgramsAssumption, LenProperties
<1>2. /\ k \in Nat /\ f[i - 1] \in Nat /\ f[i] \in Nat /\ f[i - 1] < a + 1 /\ a + 1 <= f[i]
      /\ DOMAIN p[i].stores \subseteq Dst
  BY PlaceOfStore, ProgramFacts
<1>3. NamesStores(p, f, c.at[s], r, a + 1)
  <2>1. /\ c.at[s].id = i /\ c.at[s].destination_added = b.at[s].destination_added \cup {k}
        /\ \A m \in Dst : c.at[s].sq_index[m] = IF m = k THEN y ELSE b.at[s].sq_index[m]
    BY DEF IsStoreAdded, SameRegs
  <2>2. NamesStores(p, f, b.at[s], q, a)
    BY <1>1 DEF StoresNamed
  <2>3. b.at[s].destination_added = {m \in DOMAIN p[i].stores : f[i - 1] + m <= a}
    BY <2>2 DEF NamesStores
  <2>4. c.at[s].destination_added = {m \in DOMAIN p[i].stores : f[i - 1] + m <= a + 1}
    <3>1. ASSUME NEW m \in DOMAIN p[i].stores
          PROVE  f[i - 1] + m <= a + 1 <=> f[i - 1] + m <= a \/ m = k
      <4>1. m \in Nat
        BY PlaceOfStore
      <4> DEFINE z == f[i - 1]
      <4>2. z \in Nat /\ z + k = a + 1
        BY <1>2
      <4> HIDE DEF z
      <4>3. z + m <= a + 1 <=> z + m <= a \/ m = k
        BY <1>2, <4>1, <4>2
      <4> QED
        BY <4>3 DEF z
    <3> QED
      BY <2>1, <2>3, <3>1
  <2>5. ASSUME NEW m \in Dst, m \in c.at[s].destination_added
        PROVE  /\ c.at[s].sq_index[m] \in Sq /\ r.at[c.at[s].sq_index[m]].addr # Nil
               /\ r.at[c.at[s].sq_index[m]].id = c.at[s].id
               /\ r.at[c.at[s].sq_index[m]].data_index = m
    <3>1. CASE m = k
      BY <2>1, <3>1
    <3>2. CASE m # k
      <4>1. m \in b.at[s].destination_added
        BY <2>1, <2>5, <3>2
      <4>2. /\ b.at[s].sq_index[m] \in Sq /\ q.at[b.at[s].sq_index[m]].addr # Nil
            /\ q.at[b.at[s].sq_index[m]].id = b.at[s].id /\ q.at[b.at[s].sq_index[m]].data_index = m
        BY <2>2, <4>1 DEF NamesStores
      <4> DEFINE z == b.at[s].sq_index[m]
      <4>3. c.at[s].sq_index[m] = z
        BY <2>1, <3>2
      <4>4. z # y /\ r.at[z] = q.at[z] /\ z \in Sq
        BY <4>2
      <4>5. q.at[z].addr # Nil /\ q.at[z].id = i /\ q.at[z].data_index = m
        BY <4>2
      <4> HIDE DEF z
      <4> QED
        BY <2>1, <4>3, <4>4, <4>5
    <3> QED
      BY <3>1, <3>2
  <2>6. ASSUME NEW m \in Dst, m \notin c.at[s].destination_added  PROVE c.at[s].sq_index[m] = Nil
    BY <2>1, <2>2, <2>6 DEF NamesStores
  <2> QED
    BY <2>1, <2>4, <2>5, <2>6 DEF NamesStores
<1>4. ASSUME NEW t \in Slot, t # s, b.at[t].id # 0  PROVE NamesStores(p, f, b.at[t], r, a + 1)
  <2> DEFINE j == b.at[t].id
  <2>1. j \in 1 .. Len(p) /\ j # i
    BY <1>1, <1>4
  <2>2. NamesStores(p, f, b.at[t], q, a)
    BY <1>4 DEF StoresNamed
  <2> HIDE DEF j
  <2>3. ASSUME NEW m \in DOMAIN p[j].stores  PROVE f[j - 1] + m <= a + 1 <=> f[j - 1] + m <= a
    <3>1. /\ m \in Nat /\ f[j - 1] \in Nat /\ f[j] \in Nat
          /\ f[j - 1] < f[j - 1] + m /\ f[j - 1] + m <= f[j]
      BY <2>1, PlaceOfStore
    <3>2. f[j - 1] + m # a + 1
      <4>1. SUFFICES ASSUME f[j - 1] + m = a + 1  PROVE FALSE
        OBVIOUS
      <4> DEFINE z == a + 1
      <4>2. z \in Int /\ z <= z /\ f[i - 1] < z /\ z <= f[i] /\ f[j - 1] < z /\ z <= f[j]
        BY <1>2, <3>1, <4>1
      <4> HIDE DEF z
      <4>3. i <= j
        BY <2>1, <4>2, OnePlace
      <4>4. j <= i
        BY <2>1, <4>2, OnePlace
      <4> QED
        BY <1>1, <2>1, <4>3, <4>4
    <3> DEFINE z == f[j - 1]
    <3>3. z \in Nat /\ z + m # a + 1 /\ m \in Nat
      BY <3>1, <3>2
    <3> HIDE DEF z
    <3>4. z + m <= a + 1 <=> z + m <= a
      BY <3>3
    <3> QED
      BY <3>4 DEF z
  <2>4. b.at[t].destination_added = {m \in DOMAIN p[b.at[t].id].stores : f[b.at[t].id - 1] + m <= a + 1}
    BY <2>2, <2>3 DEF NamesStores, j
  <2>5. ASSUME NEW m \in Dst, m \in b.at[t].destination_added
        PROVE  /\ b.at[t].sq_index[m] \in Sq /\ r.at[b.at[t].sq_index[m]].addr # Nil
               /\ r.at[b.at[t].sq_index[m]].id = b.at[t].id
               /\ r.at[b.at[t].sq_index[m]].data_index = m
    <3>1. /\ b.at[t].sq_index[m] \in Sq /\ q.at[b.at[t].sq_index[m]].addr # Nil
          /\ q.at[b.at[t].sq_index[m]].id = b.at[t].id /\ q.at[b.at[t].sq_index[m]].data_index = m
      BY <2>2, <2>5 DEF NamesStores
    <3> QED
      BY <3>1
  <2>6. ASSUME NEW m \in Dst, m \notin b.at[t].destination_added  PROVE b.at[t].sq_index[m] = Nil
    BY <2>2, <2>6 DEF NamesStores
  <2> QED
    BY <2>4, <2>5, <2>6 DEF NamesStores
<1>5. c.at[s].id = b.at[s].id
  BY DEF IsStoreAdded, SameRegs
<1> QED
  BY <1>3, <1>4, <1>5 DEF StoresNamed

\* A store enters the queue: it is the next of the stream.
LEMMA StoresWithStore ==
  ASSUME NEW p \in Programs, NEW f, StoresUpTo(p, f), NEW q \in CoreRec(p), NEW r, NEW D,
         NEW n \in 0 .. Len(p), NEW d \in n .. Len(p), NEW rd \in d .. Len(p), NEW a,
         Stores(p, f, q, D, n, d, rd, a), OneEach(q.rob, d, n),
         NEW s \in Slot, NEW i, i # 0, q.rob.at[s].id = i,
         NEW k \in DOMAIN p[i].stores, k \notin q.rob.at[s].destination_added,
         k = 1 \/ k - 1 \in q.rob.at[s].destination_added,
         First(q.sta) = i, Cardinality({g \in Sq : q.sq.at[g].addr # Nil}) < SQ_SIZE,
         NEW b, b = p[i].stores[k], AddsStore(p, q, r, s, k, i, b)
  PROVE  Stores(p, f, r, D, n, d, rd, a + 1) /\ q.sq.at[q.sq.tail].addr = Nil
<1>1. /\ Len(p) \in Nat /\ n \in Nat /\ d \in Nat /\ rd \in Nat /\ rd \in 0 .. Len(p)
      /\ n <= d /\ d <= rd /\ rd <= Len(p)
  BY ProgramsAssumption, LenProperties
<1>2. /\ i \in n + 1 .. d /\ i \in 1 .. Len(p) /\ i \in Int
      /\ \A t \in Slot : q.rob.at[t].id \in 0 .. Len(p)
      /\ \A t, u \in Slot : q.rob.at[t].id # 0 /\ q.rob.at[t].id = q.rob.at[u].id => t = u
  BY <1>1 DEF OneEach
<1>3. q.sq \in SqRec /\ q.ready \in ReadyRec
  BY CoreFields
<1>4. /\ StoreWindow(p, f, q.rob, q.sq, f[n], a) /\ StoresNamed(p, f, q.rob, q.sq, a)
      /\ StaHolds(f, q.sta, a, rd) /\ StoreStages(q.sq.at, q.ready, D) /\ a \in f[n] .. f[d]
  BY DEF Stores
<1>5. f[n] \in Nat /\ f[d] \in Nat /\ f[i] \in Nat /\ f[i] <= f[d]
  <2>1. i \in 0 .. Len(p) /\ d \in i .. Len(p)
    BY <1>1, <1>2
  <2> QED
    BY <1>1, <2>1, PlacesGrow DEF StoresUpTo
<1>6. a \in Int /\ f[n] <= a
  BY <1>4, <1>5
<1>7. /\ IsStoreAdded(q.rob.at[s], r.rob.at[s], k, q.sq.tail) /\ b \in Addr
      /\ \A t \in Slot : t # s => r.rob.at[t] = q.rob.at[t]
      /\ \A g \in Sq : r.sq.at[g] = IF g = q.sq.tail THEN StoreOf(i, b, s, k) ELSE q.sq.at[g]
      /\ r.sq.head = q.sq.head /\ r.sq.tail = (q.sq.tail + 1) % SQ_SIZE
      /\ r.sta = Pop(q.sta) /\ r.ready = [q.ready EXCEPT !.RTS0 = Push(q.ready.RTS0, q.sq.tail)]
  BY DEF AddsStore
<1>8. StaHolds(f, r.sta, a + 1, rd) /\ f[i - 1] < a + 1 /\ a + 1 <= f[i]
  <2> DEFINE t == q.sta
  <2>1. StaHolds(f, t, a, rd) /\ First(t) = i /\ r.sta = Pop(t)
    BY <1>4, <1>7
  <2>2. a \in Int /\ i \in Int /\ rd \in 0 .. Len(p) /\ p \in Programs /\ StoresUpTo(p, f)
    BY <1>1, <1>2, <1>6
  <2> HIDE DEF t
  <2>3. StaHolds(f, Pop(t), a + 1, rd) /\ f[i - 1] < a + 1 /\ a + 1 <= f[i]
    BY ONLY <2>1, <2>2, StaPopped
  <2> QED
    BY <2>1, <2>3
<1>9. k \in Nat /\ k >= 1 /\ f[i - 1] \in Nat /\ DOMAIN p[i].stores \subseteq Dst
  BY <1>2, PlaceOfStore, ProgramFacts
<1>10. f[i - 1] + k = a + 1
  <2>1. NamesStores(p, f, q.rob.at[s], q.sq, a)
    BY <1>4 DEF StoresNamed
  <2>2. q.rob.at[s].destination_added = {m \in DOMAIN p[i].stores : f[i - 1] + m <= a}
    BY Zenon, <2>1 DEF NamesStores
  <2>3. ~(f[i - 1] + k <= a) /\ (k = 1 \/ f[i - 1] + (k - 1) <= a)
    BY <2>2
  <2> DEFINE z == f[i - 1]
  <2>4. ~(z + k <= a) /\ (k = 1 \/ z + (k - 1) <= a) /\ z < a + 1 /\ z \in Nat
    BY <1>8, <1>9, <2>3
  <2> HIDE DEF z
  <2>5. z + k = a + 1
    BY <1>6, <1>9, <2>4
  <2> QED
    BY <2>5 DEF z
<1> DEFINE y == q.sq.tail
<1>11. y \in Sq /\ y \in 0 .. SQ_SIZE - 1
  BY <1>3 DEF SqRec, Sq
<1>12. /\ r.sq.at[y].id = i /\ r.sq.at[y].addr = b /\ r.sq.at[y].rob_index = s
       /\ r.sq.at[y].data_index = k
  BY <1>7, <1>11 DEF StoreOf
<1>13. \A t \in Slot : r.rob.at[t].id = q.rob.at[t].id
  BY <1>7 DEF IsStoreAdded, SameRegs
<1>14. HoldsPlace(p, f, r.rob, r.sq.at[y], a + 1)
  BY <1>2, <1>10, <1>12, <1>13 DEF HoldsPlace, IsStoreOf
<1>15. a - f[n] # SQ_SIZE
  <2>1. Cardinality({g \in Sq : q.sq.at[g].addr # Nil}) = a - f[n]
    BY <1>3, <1>4, WindowSize DEF SqRec
  <2> QED
    BY <2>1, Sizes
<1>16. StoreWindow(p, f, r.rob, r.sq, f[n], a + 1) /\ q.sq.at[y].addr = Nil
  <2> DEFINE Q == q.sq
             R == r.sq
             B == q.rob
             C == r.rob
             x == f[n]
  <2>1. SameStoresBut(Q, R, Q.tail)
    BY <1>7 DEF SameStoresBut
  <2>2. x \in Int /\ a \in Int /\ Q \in SqRec /\ a - x # SQ_SIZE /\ p \in Programs
    BY <1>3, <1>5, <1>6, <1>15
  <2>3. HoldsPlace(p, f, C, R.at[Q.tail], a + 1) /\ StoreWindow(p, f, B, Q, x, a)
    BY <1>4, <1>14
  <2>4. R.head = Q.head /\ R.tail = (Q.tail + 1) % SQ_SIZE /\ SameIds(B, C)
    BY <1>7, <1>13 DEF SameIds
  <2>5. y = Q.tail
    OBVIOUS
  <2> HIDE DEF Q, R, B, C, x, y
  <2>6. TakesNext(p, f, B, C, Q, R, x, a)
    BY <2>1, <2>2, <2>3, <2>4 DEF TakesNext
  <2>7. StoreWindow(p, f, C, R, x, a + 1) /\ Q.at[Q.tail].addr = Nil
    BY ONLY <2>2, <2>6, StoreWindowGrows
  <2> QED
    BY <2>5, <2>7 DEF Q, R, B, C, x
<1> HIDE DEF y
<1>17. StoresNamed(p, f, r.rob, r.sq, a + 1)
  <2>1. \A m \in Sq : m # y => r.sq.at[m] = q.sq.at[m]
    BY <1>7 DEF y
  <2>2. IsStoreAdded(q.rob.at[s], r.rob.at[s], k, y)
    BY <1>7 DEF y
  <2>3. r.sq.at[y].addr # Nil
    BY <1>7, <1>12, Sizes
  <2> DEFINE Q == q.sq
             R == r.sq
             B == q.rob
             C == r.rob
  <2>4. /\ a \in Int /\ p \in Programs /\ StoresUpTo(p, f) /\ StoresNamed(p, f, B, Q, a)
        /\ i \in 1 .. Len(p) /\ B.at[s].id = i /\ k \in DOMAIN p[i].stores /\ f[i - 1] + k = a + 1
        /\ s \in Slot /\ y \in Sq
    BY <1>2, <1>4, <1>6, <1>10, <1>11
  <2>5. DifferentIds(p, B) /\ SameStoresBut(Q, R, y) /\ SameSlotsBut(B, C, s)
    BY <1>2, <1>7, <2>1 DEF DifferentIds, SameStoresBut, SameSlotsBut
  <2>6. /\ Q.at[y].addr = Nil /\ IsStoreAdded(B.at[s], C.at[s], k, y)
        /\ R.at[y].id = i /\ R.at[y].addr # Nil /\ R.at[y].data_index = k
    BY <1>12, <1>16, <2>2, <2>3
  <2> HIDE DEF Q, R, B, C
  <2>7. StoresNamed(p, f, C, R, a + 1)
    BY ONLY <2>4, <2>5, <2>6, StoresNamedGrow
  <2> QED
    BY <2>7 DEF R, C
<1>18. StoreStages(r.sq.at, r.ready, D)
  <2>1. r.ready.RTS0 = Push(q.ready.RTS0, y) /\ r.ready.RTS1 = q.ready.RTS1
    BY <1>3, <1>7 DEF ReadyRec, y
  <2> DEFINE Q == q.sq.at
             R == r.sq.at
             g == q.ready
             h == r.ready
  <2>2. \A m \in Sq : R[m] = IF m = y THEN StoreOf(i, b, s, k) ELSE Q[m]
    BY <1>7 DEF y
  <2>3. StoreStages(Q, g, D) /\ y \in Sq /\ Q[y].addr = Nil /\ b \in Addr
    BY <1>4, <1>7, <1>11, <1>16
  <2>4. h.RTS0 = Push(g.RTS0, y) /\ h.RTS1 = g.RTS1
    BY <2>1
  <2> HIDE DEF Q, R, g, h
  <2>5. StoreStages(R, h, D)
    BY ONLY <2>2, <2>3, <2>4, StagesWithStore
  <2> QED
    BY <2>5 DEF R, h
<1>19. a + 1 \in f[n] .. f[d]
  BY <1>5, <1>6, <1>8
<1> QED
  BY <1>8, <1>16, <1>17, <1>18, <1>19 DEF Stores, y

\* The entries of the store queue that the instruction with entry e names.
NamedBy(e) == {e.sq_index[k] : k \in Dst} \ {Nil}

\* K are the first m entries of the store queue, stores of instruction i.
FirstStores(q, K, m, i) ==
  /\ K \subseteq Sq
  /\ \A g \in Sq : g \in K <=> Dist(SQ_SIZE, q.head, g) < m
  /\ \A g \in K : q.at[g].id = i /\ q.at[g].addr # Nil

\* The stores that the oldest instruction names are the first of the queue.
LEMMA OldestStores ==
  ASSUME NEW p \in Programs, NEW f, StoresUpTo(p, f), NEW b, NEW q \in SqRec, NEW n \in 0 .. Len(p) - 1,
         NEW a \in Int, StoreWindow(p, f, b, q, f[n], a), f[n] <= a,
         NEW e, e.id = n + 1, NamesStores(p, f, e, q, a), e.destination_added = DOMAIN p[n + 1].stores,
         NEW m, m = Len(p[n + 1].stores)
  PROVE  FirstStores(q, NamedBy(e), m, n + 1) /\ f[n] + m <= a
<1>1. Len(p) \in Nat
  BY ProgramsAssumption, LenProperties
<1>2. n \in Nat /\ n + 1 \in 1 .. Len(p) /\ n + 1 - 1 = n
  BY <1>1
<1> DEFINE c == f[n]
           h == q.head
<1>3. m \in Nat /\ DOMAIN p[n + 1].stores = 1 .. m /\ DOMAIN p[n + 1].stores \subseteq Dst
  BY <1>2, ProgramFacts
<1>4. c \in Nat /\ f[n + 1] \in Nat /\ f[n + 1] = c + m
  BY <1>1, <1>2 DEF StoresUpTo
<1>5. c + m <= a
  <2>1. CASE m = 0
    BY <1>4, <2>1
  <2>2. CASE m # 0
    <3>1. m \in 1 .. m
      BY <1>3, <2>2
    <3>2. m \in {k \in DOMAIN p[n + 1].stores : f[n] + k <= a}
      BY <1>2, <1>3, <3>1 DEF NamesStores
    <3> QED
      BY <3>2
  <2> QED
    BY <2>1, <2>2
<1>6. /\ SQ_SIZE \in Nat \ {0} /\ h \in 0 .. SQ_SIZE - 1 /\ a - c \in 0 .. SQ_SIZE
      /\ \A i \in Sq : Dist(SQ_SIZE, h, i) \in 0 .. SQ_SIZE - 1 /\ i \in 0 .. SQ_SIZE - 1
  BY Sizes, DistIsPlace DEF SqRec, Sq, StoreWindow
<1>7. \A i \in Sq : IF Dist(SQ_SIZE, h, i) < a - c
                    THEN HoldsPlace(p, f, b, q.at[i], c + 1 + Dist(SQ_SIZE, h, i))
                    ELSE q.at[i] = NoStore
  BY DEF StoreWindow
<1>8. \A i \in Sq : q.at[i].addr # Nil => Dist(SQ_SIZE, h, i) < a - c
  BY <1>7 DEF NoStore
<1> HIDE DEF h, c
<1>9. ASSUME NEW g \in Sq, q.at[g].addr # Nil, q.at[g].id = n + 1
      PROVE  Dist(SQ_SIZE, h, g) = q.at[g].data_index - 1 /\ q.at[g].data_index \in 1 .. m
  <2>1. HoldsPlace(p, f, b, q.at[g], c + 1 + Dist(SQ_SIZE, h, g))
    BY <1>7, <1>8, <1>9
  <2>2. q.at[g].data_index \in 1 .. m /\ f[n] + q.at[g].data_index = c + 1 + Dist(SQ_SIZE, h, g)
    BY <1>2, <1>3, <1>9, <2>1 DEF HoldsPlace, IsStoreOf
  <2> DEFINE y == Dist(SQ_SIZE, h, g)
             z == q.at[g].data_index
  <2>3. y \in Int /\ z \in Int /\ c + z = c + 1 + y /\ c \in Int
    BY <1>4, <1>6, <2>2 DEF c
  <2> HIDE DEF y, z
  <2>4. y = z - 1
    BY <2>3
  <2> QED
    BY <2>2, <2>4 DEF y, z
<1>10. ASSUME NEW k \in 1 .. m
       PROVE  /\ e.sq_index[k] \in Sq /\ q.at[e.sq_index[k]].addr # Nil
              /\ q.at[e.sq_index[k]].id = n + 1 /\ Dist(SQ_SIZE, h, e.sq_index[k]) = k - 1
  <2>1. k \in Dst /\ k \in e.destination_added
    BY <1>3
  <2>2. /\ e.sq_index[k] \in Sq /\ q.at[e.sq_index[k]].addr # Nil
        /\ q.at[e.sq_index[k]].id = n + 1 /\ q.at[e.sq_index[k]].data_index = k
    BY <2>1 DEF NamesStores
  <2> QED
    BY <1>9, <2>2
<1>11. ASSUME NEW g \in NamedBy(e)  PROVE \E k \in 1 .. m : g = e.sq_index[k]
  <2>1. PICK k \in Dst : g = e.sq_index[k] /\ g # Nil
    BY <1>11 DEF NamedBy
  <2>2. k \in e.destination_added
    BY <2>1 DEF NamesStores
  <2> QED
    BY <1>3, <2>1, <2>2
<1>12. NamedBy(e) \subseteq Sq /\ \A g \in NamedBy(e) : q.at[g].id = n + 1 /\ q.at[g].addr # Nil
  BY <1>10, <1>11
<1>13. ASSUME NEW g \in NamedBy(e)  PROVE Dist(SQ_SIZE, h, g) < m
  <2>1. PICK k \in 1 .. m : g = e.sq_index[k]
    BY <1>11, <1>13
  <2>2. Dist(SQ_SIZE, h, g) = k - 1
    BY <1>10, <2>1
  <2> QED
    BY <1>3, <2>2
<1>14. ASSUME NEW g \in Sq, Dist(SQ_SIZE, h, g) < m  PROVE g \in NamedBy(e)
  <2> DEFINE k == Dist(SQ_SIZE, h, g) + 1
             j == e.sq_index[k]
  <2>1. k \in 1 .. m
    BY <1>3, <1>6, <1>14
  <2> HIDE DEF k
  <2>2. j \in Sq /\ Dist(SQ_SIZE, h, j) = k - 1
    BY <1>10, <2>1
  <2> HIDE DEF j
  <2>3. Dist(SQ_SIZE, h, j) = Dist(SQ_SIZE, h, g)
    BY <1>6, <2>2 DEF k
  <2>4. j = g
    <3>1. /\ Wrap(SQ_SIZE, h + Dist(SQ_SIZE, h, j)) = j
          /\ Wrap(SQ_SIZE, h + Dist(SQ_SIZE, h, g)) = g
      BY <1>6, <2>2, DistIsPlace
    <3> QED
      BY <2>3, <3>1
  <2>5. j # Nil
    BY <2>2, Sizes DEF Sq
  <2>6. k \in Dst
    BY <1>3, <2>1
  <2> QED
    BY <2>4, <2>5, <2>6 DEF NamedBy, j
<1> QED
  BY <1>5, <1>12, <1>13, <1>14 DEF FirstStores, h, c

\* The window without its first m stores, those of the instruction that retires.
LEMMA StoreWindowRetires ==
  ASSUME NEW p \in Programs, NEW f, StoresUpTo(p, f), NEW b, NEW c, NEW q \in SqRec, NEW r,
         NEW n \in 0 .. Len(p) - 1, NEW a \in Int, StoreWindow(p, f, b, q, f[n], a),
         NEW m, m = Len(p[n + 1].stores), f[n] + m <= a, NEW K, FirstStores(q, K, m, n + 1),
         NEW s, b.at[s].id = n + 1, SameSlotsBut(b, c, s),
         WithoutStores(q.at, r.at, K),
         r.head = (q.head + Cardinality(K)) % SQ_SIZE, r.tail = q.tail
  PROVE  StoreWindow(p, f, c, r, f[n + 1], a)
<1> USE DEF WithoutStores
<1>1. Len(p) \in Nat
  BY ProgramsAssumption, LenProperties
<1>2. n \in Nat /\ n + 1 \in 1 .. Len(p) /\ n + 1 - 1 = n
  BY <1>1
<1>3. m \in Nat /\ DOMAIN p[n + 1].stores = 1 .. m
  BY <1>2, ProgramFacts
<1>4. f[n] \in Nat /\ f[n + 1] \in Nat /\ f[n + 1] = f[n] + m
  BY <1>1, <1>2 DEF StoresUpTo
<1> DEFINE x == f[n]
           w == a - x
           h == q.head
           g == r.head
<1>5. /\ SQ_SIZE \in Nat \ {0} /\ h \in 0 .. SQ_SIZE - 1 /\ w \in 0 .. SQ_SIZE /\ m \in 0 .. w /\ x \in Nat
      /\ a - f[n + 1] = w - m /\ f[n + 1] = x + m /\ w - m \in 0 .. SQ_SIZE
      /\ \A i \in Sq : Dist(SQ_SIZE, h, i) \in 0 .. SQ_SIZE - 1 /\ i \in 0 .. SQ_SIZE - 1
  <2>1. SQ_SIZE \in Nat \ {0} /\ h \in 0 .. SQ_SIZE - 1 /\ w \in 0 .. SQ_SIZE
    BY Sizes DEF SqRec, Sq, StoreWindow
  <2>2. \A i \in Sq : Dist(SQ_SIZE, h, i) \in 0 .. SQ_SIZE - 1 /\ i \in 0 .. SQ_SIZE - 1
    BY <2>1, DistIsPlace DEF Sq
  <2> DEFINE y == f[n + 1]
  <2>3. x \in Nat /\ y = x + m /\ x + m <= a /\ m \in Nat /\ a \in Int
    BY <1>3, <1>4
  <2>4. w = a - x
    OBVIOUS
  <2> HIDE DEF x, y, w, h
  <2>5. m \in 0 .. w /\ a - y = w - m /\ w - m \in 0 .. SQ_SIZE
    BY <2>1, <2>3, <2>4
  <2> QED
    BY <2>1, <2>2, <2>3, <2>5 DEF y
<1>6. /\ q.tail = Wrap(SQ_SIZE, h + w)
      /\ \A i \in Sq : IF Dist(SQ_SIZE, h, i) < w
                       THEN HoldsPlace(p, f, b, q.at[i], x + 1 + Dist(SQ_SIZE, h, i))
                       ELSE q.at[i] = NoStore
  BY DEF StoreWindow
<1>7. \A i \in Sq : i \in K <=> Dist(SQ_SIZE, h, i) < m
  BY DEF FirstStores
<1>8. g = (h + m) % SQ_SIZE
  <2>1. K = {i \in 0 .. SQ_SIZE - 1 : Dist(SQ_SIZE, h, i) < m}
    BY DEF FirstStores, Sq
  <2>2. m \in 0 .. SQ_SIZE
    BY <1>5
  <2> HIDE DEF h
  <2>3. h \in 0 .. SQ_SIZE - 1 /\ SQ_SIZE \in Nat \ {0}
    BY <1>5
  <2>4. Cardinality({i \in 0 .. SQ_SIZE - 1 : Dist(SQ_SIZE, h, i) < m}) = m
    BY ONLY <2>2, <2>3, WindowCount
  <2> QED
    BY <2>1, <2>4 DEF h
<1> HIDE DEF x, w, h, g
<1>9. WindowMoves(SQ_SIZE, h, w, m, g)
  BY <1>5, <1>8, HeadMovesBy
<1>10. ASSUME NEW i \in Sq
       PROVE  IF Dist(SQ_SIZE, g, i) < w - m
              THEN HoldsPlace(p, f, c, r.at[i], x + m + 1 + Dist(SQ_SIZE, g, i))
              ELSE r.at[i] = NoStore
  <2>1. CASE Dist(SQ_SIZE, h, i) < m
    <3>1. ~(Dist(SQ_SIZE, g, i) < w - m)
      BY <1>5, <1>9, <2>1 DEF WindowMoves
    <3> QED
      BY <1>7, <2>1, <3>1
  <2>2. CASE ~(Dist(SQ_SIZE, h, i) < m)
    <3> DEFINE y == Dist(SQ_SIZE, h, i)
               z == Dist(SQ_SIZE, g, i)
    <3>1. z = y - m /\ y \in Nat
      BY <1>5, <1>9, <2>2 DEF WindowMoves
    <3>2. r.at[i] = q.at[i]
      BY <1>7, <2>2
    <3>3. IF y < w THEN HoldsPlace(p, f, b, q.at[i], x + 1 + y) ELSE q.at[i] = NoStore
      BY <1>6
    <3>4. ~(y < m)
      BY <2>2
    <3> HIDE DEF y, z
    <3>5. z < w - m <=> y < w
      BY SMTT(30), <1>3, <1>5, <3>1
    <3>6. x + m + 1 + z = x + 1 + y
      <4>1. x \in Nat /\ m \in Nat
        BY <1>3, <1>5
      <4> QED
        BY ONLY <3>1, <4>1
    <3>7. ASSUME HoldsPlace(p, f, b, q.at[i], x + 1 + y)  PROVE HoldsPlace(p, f, c, q.at[i], x + 1 + y)
      <4>1. q.at[i].rob_index \in Slot
        BY DEF SqRec, StoreRec
      <4>2. q.at[i].id # n + 1
        <5>1. SUFFICES ASSUME q.at[i].id = n + 1  PROVE FALSE
          OBVIOUS
        <5> DEFINE k == q.at[i].data_index
        <5>2. k \in 1 .. m /\ x + k = x + 1 + y
          BY <1>2, <1>3, <3>7, <5>1 DEF HoldsPlace, IsStoreOf, x
        <5> HIDE DEF k
        <5> QED
          BY <1>3, <1>5, <3>1, <3>4, <5>2
      <4>3. q.at[i].rob_index # s
        BY <3>7, <4>2 DEF HoldsPlace, IsStoreOf
      <4>4. c.at[q.at[i].rob_index] = b.at[q.at[i].rob_index]
        BY <4>1, <4>3 DEF SameSlotsBut
      <4> QED
        BY <3>7, <4>4 DEF HoldsPlace, IsStoreOf
    <3>8. IF z < w - m THEN HoldsPlace(p, f, c, r.at[i], x + m + 1 + z) ELSE r.at[i] = NoStore
      BY <3>2, <3>3, <3>5, <3>6, <3>7
    <3> QED
      BY <3>8 DEF z
  <2> QED
    BY <2>1, <2>2
<1>11. r.tail = Wrap(SQ_SIZE, g + (w - m))
  BY <1>6, <1>9 DEF WindowMoves
<1>13. /\ a - f[n + 1] \in 0 .. SQ_SIZE /\ r.tail = Wrap(SQ_SIZE, r.head + (a - f[n + 1]))
       /\ \A i \in Sq : IF Dist(SQ_SIZE, r.head, i) < a - f[n + 1]
                        THEN HoldsPlace(p, f, c, r.at[i], f[n + 1] + 1 + Dist(SQ_SIZE, r.head, i))
                        ELSE r.at[i] = NoStore
  BY <1>5, <1>10, <1>11 DEF g
<1> QED
  BY <1>13 DEF StoreWindow

\* Slot s of the oldest instruction n is emptied, with its stores K.
RetiresWith(p, q, r, n, s, K) ==
  /\ q.rob.at[s].id = n /\ NothingLeft(p, q, s)
  /\ K = NamedBy(q.rob.at[s])
  /\ WithoutStores(q.sq.at, r.sq.at, K)
  /\ r.sq.head = (q.sq.head + Cardinality(K)) % SQ_SIZE /\ r.sq.tail = q.sq.tail
  /\ r.rob.at[s] = NoInstr /\ SameSlotsBut(q.rob, r.rob, s) /\ r.sta = q.sta /\ r.ready = q.ready

\* The stores of K are of slot s.
AreOf(q, K, s) == \A g \in K : q.sq.at[g].rob_index = s

\* The oldest instruction retires with its stores.
LEMMA StoresRetired ==
  ASSUME NEW p \in Programs, NEW f, StoresUpTo(p, f), NEW q \in CoreRec(p), NEW r, NEW D,
         NEW n \in 0 .. Len(p) - 1, NEW d \in n + 1 .. Len(p), NEW rd, NEW a,
         Stores(p, f, q, D, n, d, rd, a), DifferentIds(p, q.rob),
         NEW s \in Slot, NEW i, i = n + 1, NEW K, RetiresWith(p, q, r, i, s, K)
  PROVE  Stores(p, f, r, D, i, d, rd, a) /\ AreOf(q, K, s)
<1> SUFFICES ASSUME q.rob.at[s].id = n + 1, NothingLeft(p, q, s), K = NamedBy(q.rob.at[s]),
                    WithoutStores(q.sq.at, r.sq.at, K),
                    r.sq.head = (q.sq.head + Cardinality(K)) % SQ_SIZE, r.sq.tail = q.sq.tail,
                    r.rob.at[s] = NoInstr, SameSlotsBut(q.rob, r.rob, s), r.sta = q.sta, r.ready = q.ready
             PROVE  Stores(p, f, r, D, n + 1, d, rd, a) /\ \A g \in K : q.sq.at[g].rob_index = s
  BY DEF RetiresWith, AreOf
<1>1. Len(p) \in Nat
  BY ProgramsAssumption, LenProperties
<1>2. n \in Nat /\ n + 1 \in 1 .. Len(p) /\ n \in 0 .. Len(p) /\ d \in Nat /\ d \in 0 .. Len(p) /\ d <= Len(p)
  BY <1>1
<1> DEFINE m == Len(p[n + 1].stores)
<1>3. /\ StoreWindow(p, f, q.rob, q.sq, f[n], a) /\ StoresNamed(p, f, q.rob, q.sq, a)
      /\ StaHolds(f, q.sta, a, rd) /\ StoreStages(q.sq.at, q.ready, D) /\ a \in f[n] .. f[d]
  BY DEF Stores
<1>4. m \in Nat /\ f[n] \in Nat /\ f[n + 1] = f[n] + m /\ f[d] \in Nat /\ f[n + 1] \in Nat
  <2>1. m \in Nat
    BY <1>2, ProgramFacts
  <2> HIDE DEF m
  <2>2. f[n] \in Nat /\ f[n + 1] \in Nat /\ f[d] \in Nat
    BY <1>1, <1>2 DEF StoresUpTo
  <2>3. f[n + 1] = f[n] + m
    BY <1>2 DEF StoresUpTo, m
  <2> QED
    BY <2>1, <2>2, <2>3
<1>5. a \in Int /\ f[n] <= a /\ a <= f[d]
  BY <1>3, <1>4
<1>6. q.sq \in SqRec /\ q.sq.at \in [Sq -> StoreRec]
  BY CoreFields DEF SqRec
<1> DEFINE e == q.rob.at[s]
           Q == q.sq
           R == r.sq
           b == q.rob
           c == r.rob
<1>7. NamesStores(p, f, e, Q, a) /\ e.id = n + 1 /\ e.destination_added = DOMAIN p[n + 1].stores
  BY <1>2, <1>3 DEF StoresNamed, NothingLeft
<1>8. StoreWindow(p, f, b, Q, f[n], a) /\ Q \in SqRec
  BY <1>3, <1>6
<1>9. K = NamedBy(e)
  OBVIOUS
<1>10. WithoutStores(Q.at, R.at, K)
  OBVIOUS
<1>11. /\ R.head = (Q.head + Cardinality(K)) % SQ_SIZE /\ R.tail = Q.tail
       /\ b.at[s].id = n + 1 /\ SameSlotsBut(b, c, s)
  OBVIOUS
<1> HIDE DEF e, Q, R, b, c, m
<1>12. FirstStores(Q, K, m, n + 1) /\ f[n] + m <= a
  <2>1. m = Len(p[n + 1].stores)
    BY DEF m
  <2> QED
    BY ONLY p \in Programs, StoresUpTo(p, f), n \in 0 .. Len(p) - 1, <1>5, <1>7, <1>8, <1>9, <2>1, OldestStores
<1>13. StoreWindow(p, f, c, R, f[n + 1], a)
  <2>1. m = Len(p[n + 1].stores)
    BY DEF m
  <2> QED
    BY ONLY p \in Programs, StoresUpTo(p, f), n \in 0 .. Len(p) - 1,
            <1>5, <1>8, <1>10, <1>11, <1>12, <2>1, StoreWindowRetires
<1>14. a \in f[n + 1] .. f[d]
  BY <1>4, <1>5, <1>12
<1>15. ASSUME NEW g \in K  PROVE q.sq.at[g].rob_index = s /\ q.sq.at[g].fetched = "COMPLETED"
  <2>1. g \in Sq /\ q.sq.at[g].id = n + 1 /\ q.sq.at[g].addr # Nil
    BY <1>12 DEF FirstStores, Q
  <2>2. IsStoreOf(p, q.rob, q.sq.at[g])
    <3>1. StoresHeld(p, q.rob, q.sq)
      BY <1>3, WindowHolds
    <3> QED
      BY <2>1, <3>1 DEF StoresHeld, NoStore
  <2>3. q.sq.at[g].rob_index \in Slot
    BY <1>6, <2>1 DEF StoreRec
  <2>4. q.sq.at[g].rob_index = s
    BY <1>2, <2>1, <2>2, <2>3 DEF IsStoreOf, DifferentIds
  <2> QED
    BY <2>1, <2>4 DEF NothingLeft, InSq
<1>16. StoreStages(r.sq.at, r.ready, D)
  <2>1. StoreStages(r.sq.at, q.ready, D)
    <3> DEFINE x == q.sq.at
               y == r.sq.at
               g == q.ready
    <3>1. StoreStages(x, g, D) /\ (\A h \in K : x[h].fetched = "COMPLETED")
      BY <1>3, <1>15
    <3>2. WithoutStores(x, y, K)
      OBVIOUS
    <3> HIDE DEF x, y, g
    <3>3. StoreStages(y, g, D)
      BY ONLY <3>1, <3>2, StoreStagesRetired
    <3> QED
      BY <3>3 DEF y, g
  <2> QED
    BY <2>1
<1>17. StoresNamed(p, f, r.rob, r.sq, a)
  <2>1. SUFFICES ASSUME NEW t \in Slot, r.rob.at[t].id # 0  PROVE NamesStores(p, f, r.rob.at[t], r.sq, a)
    BY DEF StoresNamed
  <2>2. t # s
    BY <2>1 DEF NoInstr
  <2>3. r.rob.at[t] = q.rob.at[t] /\ q.rob.at[t].id # n + 1
    BY <1>2, <2>2 DEF SameSlotsBut, DifferentIds
  <2>4. NamesStores(p, f, q.rob.at[t], q.sq, a)
    BY <1>3, <2>1, <2>3 DEF StoresNamed
  <2>5. ASSUME NEW h \in Sq, q.sq.at[h].id = q.rob.at[t].id  PROVE r.sq.at[h] = q.sq.at[h]
    <3>1. h \notin K
      BY <1>12, <2>3, <2>5 DEF FirstStores, Q
    <3> QED
      BY <3>1 DEF WithoutStores
  <2> DEFINE u == q.rob.at[t]
  <2>6. NamesStores(p, f, u, q.sq, a) /\ r.rob.at[t] = u /\ \A h \in Sq : q.sq.at[h].id = u.id => r.sq.at[h] = q.sq.at[h]
    BY SMTT(30), <2>3, <2>4, <2>5
  <2> HIDE DEF u
  <2>7. NamesStores(p, f, u, r.sq, a)
    <3>1. ASSUME NEW k \in Dst, k \in u.destination_added
          PROVE  /\ u.sq_index[k] \in Sq /\ r.sq.at[u.sq_index[k]].addr # Nil
                 /\ r.sq.at[u.sq_index[k]].id = u.id /\ r.sq.at[u.sq_index[k]].data_index = k
      <4>1. /\ u.sq_index[k] \in Sq /\ q.sq.at[u.sq_index[k]].addr # Nil
            /\ q.sq.at[u.sq_index[k]].id = u.id /\ q.sq.at[u.sq_index[k]].data_index = k
        BY <2>6, <3>1 DEF NamesStores
      <4>2. r.sq.at[u.sq_index[k]] = q.sq.at[u.sq_index[k]]
        BY <2>6, <4>1
      <4> QED
        BY <4>1, <4>2
    <3> QED
      BY <2>6, <3>1 DEF NamesStores
  <2> QED
    BY <2>6, <2>7
<1> QED
  BY <1>3, <1>13, <1>14, <1>15, <1>16, <1>17 DEF Stores, R, c

-----------------------------------------------------------------------------
(* check_and_add_lsq, turn by turn                                         *)

\* Nothing that stores rest on changes.
SameStoreSide(q, x) ==
  /\ x.sq = q.sq /\ x.sta = q.sta
  /\ x.ready.RTS0 = q.ready.RTS0 /\ x.ready.RTS1 = q.ready.RTS1
  /\ \A t \in Slot : SameStores(q.rob.at[t], x.rob.at[t])

\* The cores slot s can come to as it adds its loads up to load j.
Loaded(s, j) ==
  {x \in Grown(s) : /\ Accounts(program, x)
                    /\ SameStoreSide(Core, x)
                    /\ x.rob.at[s].source_added \subseteq At(s).source_added \cup 1 .. j}

\* The instructions are the ones that were there.
LEMMA GrownIds ==
  ASSUME program \in Programs, rob \in Rob, IdsInTrace, NEW s \in Slot, NEW x \in Grown(s)
  PROVE  /\ x \in CoreRec(program) /\ x.rob \in Rob /\ x.lq \in [Lq -> LoadRec]
         /\ x.sq \in SqRec /\ x.ready \in ReadyRec
         /\ IdsOf(program, x.rob) /\ SameIds(rob, x.rob)
<1>1. x \in CoreRec(program) /\ Grows(rob, x.rob, s)
  BY DEF Grown
<1>2. \A t \in Slot : x.rob.at[t].id = rob.at[t].id
  BY <1>1 DEF Grows, SameRegs
<1> QED
  BY <1>1, <1>2, CoreFields DEF IdsOf, IdsInTrace, At, SameIds

\* An entry that is as it was, or waited for, keeps its operands.
LEMMA WaitedKeeps ==
  ASSUME NEW e, NEW g, g = e \/ \E u : IsWaitedFor(e, g, u)
  PROVE  KeepsOperands(e, g) /\ SameStores(e, g)
BY DEF IsWaitedFor, SameRegs, KeepsOperands, SameStores

\* Load j of the instruction i in slot s takes entry l, and may wait for the store of pr.
WritesLoad(x, r, s, j, l, i, a, pr, tr) ==
  /\ IsLoadAdded(x.rob.at[s], r.rob.at[s], j, l)
  /\ \A t \in Slot : t # s => r.rob.at[t] = x.rob.at[t] \/ \E u : IsWaitedFor(x.rob.at[t], r.rob.at[t], u)
  /\ \A m \in Lq : r.lq[m] = IF m = l THEN LoadOf(i, a, s, j, pr, tr) ELSE x.lq[m]
  /\ r.sq = x.sq /\ r.inflight = x.inflight

\* It is accounted for.
LoadAccounted(x, r, s, j) ==
  /\ Accounts(program, r)
  /\ \A t \in Slot : SameStores(x.rob.at[t], r.rob.at[t])
  /\ r.rob.at[s].source_added = x.rob.at[s].source_added \cup {j}

\* A load that takes an entry of its own, in the buffer it leaves.
LEMMA LoadTaking ==
  ASSUME program \in Programs, NEW x \in CoreRec(program), NEW r, Accounts(program, x),
         IdsOf(program, x.rob),
         NEW s \in Slot, NEW i, x.rob.at[s].id = i, i # 0, NEW j \in DOMAIN program[i].loads,
         j \notin x.rob.at[s].source_added, NEW l \in Lq, x.lq[l].addr = Nil,
         NEW a, a = program[i].loads[j], NEW pr, NEW tr, WritesLoad(x, r, s, j, l, i, a, pr, tr)
  PROVE  LoadAccounted(x, r, s, j)
<1> USE DEF WritesLoad, LoadAccounted
<1>1. x.lq \in [Lq -> LoadRec]
  BY CoreFields
<1>2. \A t \in Slot : t # s => KeepsOperands(x.rob.at[t], r.rob.at[t]) /\ SameStores(x.rob.at[t], r.rob.at[t])
  BY WaitedKeeps
<1>3. TakesEntry(x, r, s, j, l, i, a)
  <2>1. r.lq[l] = LoadOf(i, a, s, j, pr, tr) /\ \A m \in Lq : m # l => r.lq[m] = x.lq[m]
    OBVIOUS
  <2>2. r.lq[l].id = i /\ r.lq[l].addr = a /\ r.lq[l].rob_index = s /\ r.lq[l].data_index = j
    BY <2>1 DEF LoadOf
  <2> QED
    BY <1>2, <2>1, <2>2 DEF TakesEntry
<1>4. Accounts(program, r)
  BY <1>1, <1>3, AccountsWithLoad
<1>5. SameStores(x.rob.at[s], r.rob.at[s]) /\ r.rob.at[s].source_added = x.rob.at[s].source_added \cup {j}
  BY DEF IsLoadAdded, SameRegs, SameStores
<1> QED
  BY <1>2, <1>4, <1>5

\* A turn of the loop over the loads counts its load.
LEMMA LoadTurnLoads ==
  ASSUME NEW s \in Slot, program \in Programs, rob \in Rob, IdsInTrace, InRob(s),
         NEW j \in DOMAIN InstrIn(s).loads, j \in Nat \ {0}, NEW x \in Loaded(s, j - 1)
  PROVE  LoadTurn(x, s, j) \in Loaded(s, j)
<1>1. /\ x \in Grown(s) /\ Accounts(program, x) /\ SameStoreSide(Core, x)
      /\ x.rob.at[s].source_added \subseteq At(s).source_added \cup 1 .. j - 1
  BY DEF Loaded
<1>2. /\ x \in CoreRec(program) /\ x.rob \in Rob /\ x.lq \in [Lq -> LoadRec] /\ x.ready \in ReadyRec
      /\ IdsOf(program, x.rob) /\ SameIds(rob, x.rob)
  BY <1>1, GrownIds
<1>3. LoadTurn(x, s, j) \in Grown(s)
  BY <1>1, LoadGrows
<1>4. CASE ~(j \notin At(s).source_added /\ LqHasRoom(x))
  <2>1. LoadTurn(x, s, j) = x
    BY <1>4 DEF LoadTurn
  <2>2. 1 .. j - 1 \subseteq 1 .. j
    OBVIOUS
  <2> QED
    BY <1>1, <2>1, <2>2 DEF Loaded
<1>5. CASE j \notin At(s).source_added /\ LqHasRoom(x)
  <2> DEFINE r == add_load_queue(x, s, j)
             a == InstrIn(s).loads[j]
             w == NearestStore(s, a)
             l == FreeLoad(x)
             i == At(s).id
  <2>1. LoadGoes(x, r, s, j)
    BY <1>2, <1>5, AddLoadGoes
  <2>2. LoadTurn(x, s, j) = r
    BY <1>5 DEF LoadTurn
  <2>3. l \in Lq /\ x.lq[l].addr = Nil
    BY <1>5, FreeLoadIsFree
  <2>4. /\ x.rob.at[s].id = i /\ i # 0 /\ j \in DOMAIN program[i].loads /\ a = program[i].loads[j]
        /\ j \notin x.rob.at[s].source_added
    <3>1. j \notin 1 .. j - 1
      OBVIOUS
    <3> QED
      BY <1>1, <1>2, <1>5, <3>1 DEF SameIds, At, InRob, InstrIn
  <2> HIDE DEF r, l
  <2>5. SUFFICES Accounts(program, r) /\ SameStoreSide(x, r)
                 /\ r.rob.at[s].source_added = x.rob.at[s].source_added \cup {j}
    <3>1. SameStoreSide(Core, r)
      BY <1>1, <2>5 DEF SameStoreSide, SameStores
    <3>2. r.rob.at[s].source_added \subseteq At(s).source_added \cup 1 .. j
      BY <1>1, <2>5
    <3> QED
      BY <1>3, <2>2, <2>5, <3>1, <3>2 DEF Loaded
  <2>6. CASE OlderStores(s, a) = {}
    <3>1. AddsLoad(program, x, r, s, j, l, i, a)
      BY <2>1, <2>6 DEF LoadGoes, l
    <3>2. /\ IsLoadAdded(x.rob.at[s], r.rob.at[s], j, l)
          /\ \A t \in Slot : t # s => r.rob.at[t] = x.rob.at[t]
          /\ \A m \in Lq : r.lq[m] = IF m = l THEN LoadOf(i, a, s, j, Nil, "NO") ELSE x.lq[m]
          /\ r.sq = x.sq /\ r.sta = x.sta /\ r.inflight = x.inflight
          /\ r.ready.RTS0 = x.ready.RTS0 /\ r.ready.RTS1 = x.ready.RTS1
      BY <1>2, <3>1 DEF AddsLoad, ReadyRec
    <3>4. WritesLoad(x, r, s, j, l, i, a, Nil, "NO")
      BY <3>2 DEF WritesLoad
    <3> HIDE DEF a, i
    <3>5. LoadAccounted(x, r, s, j)
      BY ONLY program \in Programs, s \in Slot, <1>1, <1>2, <2>3, <2>4, <3>4, LoadTaking
    <3>3. /\ Accounts(program, r) /\ \A t \in Slot : SameStores(x.rob.at[t], r.rob.at[t])
          /\ r.rob.at[s].source_added = x.rob.at[s].source_added \cup {j}
      BY <3>5 DEF LoadAccounted
    <3> QED
      BY <3>2, <3>3 DEF SameStoreSide
  <2>7. CASE OlderStores(s, a) # {}
    <3>1. PICK y : /\ AddsWaiting(program, x, y, s, j, l, i, a, w, At(w).id)
                   /\ \/ r = y
                      \/ \E v : IsReleased(program, y, r, {l}, v)
      <4>1. \E y : /\ AddsWaiting(program, x, y, s, j, l, i, a, w, At(w).id)
                   /\ IF Forwarders(x, At(w).id, a) = {} THEN r = y
                      ELSE \E f \in Forwarders(x, At(w).id, a) :
                             IsReleased(program, y, r, {l}, [m \in {l} |-> x.sq.at[f].id])
        BY <2>1, <2>7 DEF LoadGoes, l
      <4> QED
        BY <4>1
    <3> DEFINE i2 == At(w).id
    <3>2. /\ y \in CoreRec(program) /\ IsLoadAdded(x.rob.at[s], y.rob.at[s], j, l)
          /\ \A t \in Slot : t # s => y.rob.at[t] = x.rob.at[t] \/ \E u : IsWaitedFor(x.rob.at[t], y.rob.at[t], u)
          /\ \A m \in Lq : y.lq[m] = IF m = l THEN LoadOf(i, a, s, j, i2, "INFLIGHT") ELSE x.lq[m]
          /\ y.sq = x.sq /\ y.sta = x.sta /\ y.inflight = x.inflight /\ y.ready = x.ready /\ a \in Addr
      BY <3>1 DEF AddsWaiting
    <3>3. y.lq[l].addr = a /\ y.lq[l].rob_index = s
      BY <2>3, <3>2 DEF LoadOf
    <3>7. WritesLoad(x, y, s, j, l, i, a, i2, "INFLIGHT")
      BY <3>2 DEF WritesLoad
    <3> HIDE DEF a, i, i2
    <3>8. LoadAccounted(x, y, s, j)
      BY ONLY program \in Programs, s \in Slot, <1>1, <1>2, <2>3, <2>4, <3>7, LoadTaking
    <3>4. /\ Accounts(program, y) /\ \A t \in Slot : SameStores(x.rob.at[t], y.rob.at[t])
          /\ y.rob.at[s].source_added = x.rob.at[s].source_added \cup {j}
      BY <3>8 DEF LoadAccounted
    <3>5. CASE r = y
      BY <3>2, <3>4, <3>5 DEF SameStoreSide
    <3>6. CASE \E v : IsReleased(program, y, r, {l}, v)
      <4>1. PICK v : IsReleased(program, y, r, {l}, v)
        BY <3>6
      <4> DEFINE L == {l}
      <4>2. L \in SUBSET Lq /\ \A m \in L : y.lq[m].addr # Nil
        BY <2>3, <3>2, <3>3, Sizes
      <4>3. IdsOf(program, y.rob)
        <5>1. \A t \in Slot : y.rob.at[t].id = x.rob.at[t].id
          BY <3>4 DEF SameStores
        <5> QED
          BY <1>2, <5>1 DEF IdsOf
      <4>4. IsReleased(program, y, r, L, v)
        BY <4>1
      <4> HIDE DEF L
      <4>5. Accounts(program, r)
        BY <3>2, <3>4, <4>2, <4>3, <4>4, AccountsReleased
      <4>6. /\ r.sq = y.sq /\ r.sta = y.sta /\ r.ready = y.ready
            /\ \A t \in Slot : SameStores(y.rob.at[t], r.rob.at[t])
            /\ r.rob.at[s].source_added = y.rob.at[s].source_added
        BY <4>4 DEF IsReleased, IsWithoutOps, SameStores, SameRegs
      <4>7. \A t \in Slot : SameStores(x.rob.at[t], r.rob.at[t])
        BY <3>4, <4>6 DEF SameStores
      <4> QED
        BY <3>2, <3>4, <4>5, <4>6, <4>7 DEF SameStoreSide
    <3> QED
      BY <3>1, <3>5, <3>6
  <2> QED
    BY <2>6, <2>7
<1> QED
  BY <1>4, <1>5

\* Some part of the stream of stores is in the queue.
HoldsStores(f, x) == \E a : Stores(program, f, x, dtlb, Len(results), dispatched, read, a)

\* The cores slot s can come to as it adds its stores up to store k: where one has no
\* place, those that follow have none.
Stored(s, f, k) ==
  {x \in Grown(s) : /\ Accounts(program, x)
                    /\ HoldsStores(f, x)
                    /\ At(s).destination_added \subseteq x.rob.at[s].destination_added
                    /\ x.rob.at[s].destination_added \subseteq At(s).destination_added \cup 1 .. k
                    /\ 1 .. k \subseteq x.rob.at[s].destination_added \/ ~MayAddStore(x, s)}

\* The window of the buffer, as its instructions fill it.
LEMMA OneEachKept ==
  ASSUME NEW b, NEW c, NEW d, NEW n, OneEach(b, d, n), \A t \in Slot : SameRegs(b.at[t], c.at[t])
  PROVE  OneEach(c, d, n)
<1>1. \A t \in Slot : c.at[t].id = b.at[t].id
  BY DEF SameRegs
<1>2. \A t \in Slot : Empty(b.at[t]) => Empty(c.at[t])
  BY DEF SameRegs, Empty
<1> QED
  BY <1>1, <1>2 DEF OneEach

\* A turn of the loop over the stores takes the next of the stream.
LEMMA StoreTurnStores ==
  ASSUME NEW s \in Slot, program \in Programs, rob \in Rob, IdsInTrace, InRob(s),
         InTrace(program, read, dispatched, Len(results)), OneEach(rob, dispatched, Len(results)),
         NEW f, StoresUpTo(program, f),
         NEW k \in DOMAIN InstrIn(s).stores, k \in Nat \ {0}, NEW x \in Stored(s, f, k - 1)
  PROVE  StoreTurn(x, s, k) \in Stored(s, f, k)
<1>1. /\ x \in Grown(s) /\ Accounts(program, x) /\ HoldsStores(f, x)
      /\ At(s).destination_added \subseteq x.rob.at[s].destination_added
      /\ x.rob.at[s].destination_added \subseteq At(s).destination_added \cup 1 .. k - 1
      /\ 1 .. k - 1 \subseteq x.rob.at[s].destination_added \/ ~MayAddStore(x, s)
  BY DEF Stored
<1>2. /\ x \in CoreRec(program) /\ x.rob \in Rob /\ IdsOf(program, x.rob) /\ SameIds(rob, x.rob)
  BY <1>1, GrownIds
<1>3. StoreTurn(x, s, k) \in Grown(s)
  BY <1>1, StoreGrows
<1>4. CASE ~(k \notin At(s).destination_added /\ MayAddStore(x, s))
  <2>1. StoreTurn(x, s, k) = x
    BY <1>4 DEF StoreTurn
  <2>2. 1 .. k = (1 .. k - 1) \cup {k}
    OBVIOUS
  <2>3. 1 .. k \subseteq x.rob.at[s].destination_added \/ ~MayAddStore(x, s)
    BY <1>1, <1>4, <2>2
  <2> QED
    BY <1>1, <2>1, <2>2, <2>3 DEF Stored
<1>5. CASE k \notin At(s).destination_added /\ MayAddStore(x, s)
  <2> DEFINE r == add_store_queue(x, s, k)
             i == At(s).id
             b == program[i].stores[k]
  <2>1. AddsStore(program, x, r, s, k, i, b)
    <3>1. StoreGoes(x, r, s, k)
      BY <1>2, AddStoreGoes
    <3> QED
      BY <3>1 DEF StoreGoes, InstrIn
  <2>2. StoreTurn(x, s, k) = r
    BY <1>5 DEF StoreTurn
  <2>3. /\ x.rob.at[s].id = i /\ i # 0 /\ k \in DOMAIN program[i].stores
        /\ k \notin x.rob.at[s].destination_added /\ 1 .. k - 1 \subseteq x.rob.at[s].destination_added
        /\ First(x.sta) = i /\ Cardinality({g \in Sq : x.sq.at[g].addr # Nil}) < SQ_SIZE
    <3>1. k \notin 1 .. k - 1
      OBVIOUS
    <3> QED
      BY <1>1, <1>2, <1>5, <3>1 DEF SameIds, At, InRob, InstrIn, MayAddStore
  <2>4. k = 1 \/ k - 1 \in x.rob.at[s].destination_added
    <3>1. k = 1 \/ k - 1 \in 1 .. k - 1
      OBVIOUS
    <3> QED
      BY <2>3, <3>1
  <2>5. OneEach(x.rob, dispatched, Len(results))
    <3>1. \A t \in Slot : SameRegs(rob.at[t], x.rob.at[t])
      BY <1>1 DEF Grown, Grows
    <3> QED
      BY <3>1, OneEachKept
  <2> DEFINE n == Len(results)
  <2>6. n \in 0 .. Len(program) /\ dispatched \in n .. Len(program) /\ read \in dispatched .. Len(program)
    <3>1. Len(program) \in Nat
      BY ProgramsAssumption, LenProperties
    <3> QED
      BY <3>1 DEF InTrace
  <2>7. PICK a : Stores(program, f, x, dtlb, n, dispatched, read, a)
    BY <1>1 DEF HoldsStores
  <2>8. b = program[i].stores[k]
    OBVIOUS
  <2> HIDE DEF r, i, b, n
  <2>9. Stores(program, f, r, dtlb, n, dispatched, read, a + 1) /\ x.sq.at[x.sq.tail].addr = Nil
    <3>1. OneEach(x.rob, dispatched, n)
      BY <2>5 DEF n
    <3> QED
      BY ONLY program \in Programs, StoresUpTo(program, f), s \in Slot,
              <1>2, <2>1, <2>3, <2>4, <2>6, <2>7, <2>8, <3>1, StoresWithStore
  <2>10. Accounts(program, r)
    BY ONLY program \in Programs, s \in Slot, <1>1, <1>2, <2>1, <2>3, <2>9, AccountsWithStore
  <2>11. r.rob.at[s].destination_added = x.rob.at[s].destination_added \cup {k}
    BY <2>1 DEF AddsStore, IsStoreAdded
  <2>12. 1 .. k = (1 .. k - 1) \cup {k}
    OBVIOUS
  <2>13. HoldsStores(f, r)
    BY <2>9 DEF HoldsStores, n
  <2> QED
    BY <1>1, <1>3, <2>2, <2>3, <2>10, <2>11, <2>12, <2>13 DEF Stored
<1> QED
  BY <1>4, <1>5

\* check_and_add_lsq accounts for every operand it adds.
LEMMA AllAccounted ==
  ASSUME NEW s \in Slot, program \in Programs, Core \in CoreRec(program), IdsInTrace, InRob(s), Indexed(rob),
         LoadStages(lq, ready, dtlb, l1d), Accounts(program, Core),
         InTrace(program, read, dispatched, Len(results)), OneEach(rob, dispatched, Len(results)),
         NEW f, StoresUpTo(program, f), HoldsStores(f, Core)
  PROVE  LET q == check_and_add_lsq(s)
         IN q \in Grown(s) /\ Accounts(program, q) /\ HoldsStores(f, q)
<1> DEFINE n == Len(InstrIn(s).loads)
           m == Len(InstrIn(s).stores)
<1>1. /\ Core.rob = rob /\ Core.ready = ready /\ Core.lq = lq /\ Core.sq = sq /\ rob \in Rob
      /\ Core.sq \in SqRec
  BY CoreFields DEF Core
<1>2. /\ n \in Nat /\ DOMAIN InstrIn(s).loads = 1 .. n
      /\ m \in Nat /\ DOMAIN InstrIn(s).stores = 1 .. m
  <2>1. Len(program) \in Nat /\ At(s).id \in 1 .. Len(program)
    BY ProgramsAssumption, LenProperties DEF IdsInTrace, InRob
  <2> QED
    BY <2>1, ProgramFacts DEF InstrIn
<1>3. Core \in Loaded(s, 0)
  <2>1. Core \in Grown(s)
    BY <1>1 DEF Grown, Grows, SameRTE, SameRegs
  <2>2. SameStoreSide(Core, Core)
    BY DEF SameStoreSide, SameStores
  <2> QED
    BY <1>1, <2>1, <2>2 DEF Loaded, At
<1> HIDE DEF n, m
<1> DEFINE q == AddLoads(Core, s)
<1>4. q \in Loaded(s, n)
  <2> DEFINE V == [i \in 0 .. n |-> Loaded(s, i)]
  <2>1. \A i \in 0 .. n : V[i] = Loaded(s, i)
    OBVIOUS
  <2>2. \A j \in 1 .. n : j - 1 \in 0 .. n /\ j \in 0 .. n /\ j \in Nat \ {0}
    BY <1>2
  <2>3. 0 \in 0 .. n /\ n \in 0 .. n
    BY <1>2
  <2> HIDE DEF V
  <2>4. ASSUME NEW j \in 1 .. n, NEW x \in V[j - 1]  PROVE LoadTurn(x, s, j) \in V[j]
    <3>1. V[j - 1] = Loaded(s, j - 1) /\ V[j] = Loaded(s, j)
      BY <2>1, <2>2
    <3>2. j \in DOMAIN InstrIn(s).loads /\ j \in Nat \ {0} /\ x \in Loaded(s, j - 1)
      BY <1>2, <2>2, <3>1
    <3>3. LoadTurn(x, s, j) \in Loaded(s, j)
      BY <1>1, <3>2, LoadTurnLoads
    <3> QED
      BY <3>1, <3>3
  <2>5. AddLoads(Core, s) \in V[n]
    BY <1>2, <1>3, <2>1, <2>3, <2>4, LoadsByTurns DEF n
  <2> QED
    BY <2>1, <2>3, <2>5
<1>5. q \in Stored(s, f, 0)
  <2>1. q \in Grown(s) /\ Accounts(program, q) /\ SameStoreSide(Core, q)
    BY <1>4 DEF Loaded
  <2>2. HoldsStores(f, q)
    <3> DEFINE N == Len(results)
               C == Core
    <3>1. PICK a : Stores(program, f, C, dtlb, N, dispatched, read, a)
      BY DEF HoldsStores
    <3>2. /\ C.sq.at \in [Sq -> StoreRec] /\ \A t \in Slot : SameStores(C.rob.at[t], q.rob.at[t])
          /\ q.sq = C.sq /\ q.sta = C.sta
          /\ q.ready.RTS0 = C.ready.RTS0 /\ q.ready.RTS1 = C.ready.RTS1
      BY <1>1, <2>1 DEF SameStoreSide, SqRec
    <3> HIDE DEF C, q, N
    <3>3. \A g \in Sq : KeepsStore(C.sq.at[g], q.sq.at[g])
      BY <3>2 DEF KeepsStore
    <3>4. StoreStages(q.sq.at, q.ready, dtlb)
      BY <3>1, <3>2 DEF Stores, StoreStages
    <3>5. Stores(program, f, q, dtlb, N, dispatched, read, a)
      BY <3>1, <3>2, <3>3, <3>4, StoresKept
    <3> QED
      BY <3>5 DEF HoldsStores, N
  <2>3. q.rob.at[s].destination_added = At(s).destination_added
    BY <1>1, <2>1 DEF SameStoreSide, SameStores, At
  <2>4. 1 .. 0 = {}
    OBVIOUS
  <2> QED
    BY <2>1, <2>2, <2>3, <2>4 DEF Stored
<1> HIDE DEF q
<1>6. AddStores(q, s) \in Stored(s, f, m)
  <2> DEFINE V == [i \in 0 .. m |-> Stored(s, f, i)]
  <2>1. \A i \in 0 .. m : V[i] = Stored(s, f, i)
    OBVIOUS
  <2>2. \A j \in 1 .. m : j - 1 \in 0 .. m /\ j \in 0 .. m /\ j \in Nat \ {0}
    BY <1>2
  <2>3. 0 \in 0 .. m /\ m \in 0 .. m
    BY <1>2
  <2> HIDE DEF V
  <2>4. \A j \in 1 .. m : \A x \in V[j - 1] : StoreTurn(x, s, j) \in V[j]
    <3>1. ASSUME NEW j \in 1 .. m, NEW x \in Stored(s, f, j - 1)
          PROVE  StoreTurn(x, s, j) \in Stored(s, f, j)
      <4>1. j \in DOMAIN InstrIn(s).stores /\ j \in Nat \ {0} /\ rob \in Rob
        BY <1>1, <1>2
      <4> QED
        BY <3>1, <4>1, StoreTurnStores
    <3> QED
      BY <2>1, <2>2, <3>1
  <2>5. q \in V[0]
    BY <1>5, <2>1, <2>3
  <2>6. AddStores(q, s) \in V[m]
    BY <1>2, <2>4, <2>5, StoresByTurns DEF m
  <2> QED
    BY <2>1, <2>3, <2>6
<1> QED
  BY <1>6 DEF check_and_add_lsq, Stored, q

-----------------------------------------------------------------------------
(* The invariant of the queues                                             *)

\* Every operand is accounted for, what has added its operands is issued, and some part
\* of the stream of stores is in the queue.
LsqInv(p, q, D, n, d, r) ==
  /\ Accounts(p, q)
  /\ AddedIsIssued(p, q.rob)
  /\ \E f, a : StoresUpTo(p, f) /\ Stores(p, f, q, D, n, d, r, a)

Lsq ==
  /\ LsqInv(program, Core, dtlb, Len(results), dispatched, read)
  /\ l1dWQ \in 0 .. L1D_WQ_SIZE

\* STA has room for the stores of the instructions that are read and not retired, wherever
\* in the trace they are.
StaSuffices ==
  \A p \in Programs : \A f : StoresUpTo(p, f) =>
    \A i \in 0 .. Len(p) : \A j \in i .. Len(p) :
      j - i <= ROB_SIZE + FRONT_SIZE => f[j] - f[i] <= STA_SIZE

\* What says that an instruction has added all its operands is the same in two entries.
SameAdded(e, f) ==
  /\ f.id = e.id /\ f.executed = e.executed
  /\ f.source_added = e.source_added /\ f.destination_added = e.destination_added

\* What was waiting to be issued waits as it did.
LEMMA AddedKept ==
  ASSUME NEW p, NEW b, NEW c, AddedIsIssued(p, b),
         \A t \in Slot : c.at[t].id = 0 \/ c.at[t].executed # "NO" \/ SameAdded(b.at[t], c.at[t])
  PROVE  AddedIsIssued(p, c)
<1> SUFFICES ASSUME NEW s \in Slot, c.at[s].id # 0, Accesses(p, c.at[s]), c.at[s].executed = "NO",
                    AllAdded(c.at[s], p[c.at[s].id])
             PROVE  FALSE
  BY DEF AddedIsIssued
<1>1. SameAdded(b.at[s], c.at[s])
  OBVIOUS
<1>2. b.at[s].id # 0 /\ Accesses(p, b.at[s]) /\ b.at[s].executed = "NO" /\ AllAdded(b.at[s], p[b.at[s].id])
  BY <1>1 DEF SameAdded, Accesses, AllAdded
<1> QED
  BY <1>2 DEF AddedIsIssued

\* Nothing that the queues rest on changes.
KeepsCore(q, r) ==
  /\ r.inflight = q.inflight /\ r.sta = q.sta
  /\ r.sq.head = q.sq.head /\ r.sq.tail = q.sq.tail
  /\ \A t \in Slot : KeepsOperands(q.rob.at[t], r.rob.at[t])
  /\ \A l \in Lq : KeepsLoad(q.lq[l], r.lq[l])
  /\ \A g \in Sq : KeepsStore(q.sq.at[g], r.sq.at[g])

\* The stores may come to other stages.
LEMMA LsqKept ==
  ASSUME NEW p \in Programs, NEW q \in CoreRec(p), NEW r, NEW D, NEW E, NEW n, NEW d, NEW rd,
         LsqInv(p, q, D, n, d, rd), KeepsCore(q, r), StoreStages(r.sq.at, r.ready, E)
  PROVE  LsqInv(p, r, E, n, d, rd)
<1>1. q.lq \in [Lq -> LoadRec] /\ q.sq.at \in [Sq -> StoreRec]
  BY CoreFields DEF SqRec
<1>2. \A l \in Lq : q.lq[l].rob_index \in Slot
  BY <1>1 DEF LoadRec
<1>3. Accounts(p, r)
  BY <1>2, AccountsKept DEF LsqInv, KeepsCore
<1>4. AddedIsIssued(p, r.rob)
  <2>1. \A t \in Slot : SameAdded(q.rob.at[t], r.rob.at[t])
    BY DEF KeepsCore, KeepsOperands, SameAdded
  <2> QED
    BY <2>1, AddedKept DEF LsqInv
<1>5. PICK f, a : StoresUpTo(p, f) /\ Stores(p, f, q, D, n, d, rd, a)
  BY DEF LsqInv
<1>6. \A t \in Slot : SameStores(q.rob.at[t], r.rob.at[t])
  BY DEF KeepsCore, KeepsOperands, SameStores
<1>7. Stores(p, f, r, E, n, d, rd, a)
  BY <1>1, <1>5, <1>6, StoresKept DEF KeepsCore
<1> QED
  BY <1>3, <1>4, <1>5, <1>7 DEF LsqInv

\* The types of the parts, with what the invariant says of the trace.
LEMMA LsqFacts ==
  ASSUME Machine, Registers, Lsq
  PROVE  /\ program \in Programs /\ Core \in CoreRec(program)
         /\ InTrace(program, read, dispatched, Len(results))
         /\ IdsInTrace /\ OneEach(rob, dispatched, Len(results)) /\ IdsOf(program, rob)
         /\ LsqInv(program, Core, dtlb, Len(results), dispatched, read)
<1>1. IdsInTrace /\ OneEach(rob, dispatched, Len(results))
  BY IdsAreInTrace
<1>2. IdsOf(program, rob)
  BY <1>1 DEF IdsInTrace, IdsOf, At
<1> QED
  BY <1>1, <1>2, TraceFacts, CoreTyped DEF Lsq, Machine

\* The queues are empty at first.
LEMMA LsqInitially ==
  ASSUME Init
  PROVE  Lsq
<1> DEFINE q == Core
           p == program
<1>1. /\ p \in Programs /\ read = 0 /\ dispatched = 0 /\ Len(results) = 0 /\ dtlb = {} /\ l1dWQ = 0
      /\ \A s \in Slot : q.rob.at[s] = NoInstr
      /\ \A l \in Lq : q.lq[l] = NoLoad
      /\ \A f \in Sq : q.sq.at[f] = NoStore
      /\ q.sq.head = 0 /\ q.sq.tail = 0 /\ q.sta = EmptyRing(STA_SIZE)
      /\ q.ready.RTS0 = EmptyRing(SQ_SIZE) /\ q.ready.RTS1 = EmptyRing(SQ_SIZE)
      /\ q.inflight.reg = 0 /\ q.inflight.mem = 0
  BY DEF Init, Core
<1>2. NoInstr.id = 0 /\ NoInstr.num_mem_ops = 0 /\ NoStore.addr = Nil
  BY DEF NoInstr, NoStore
<1> HIDE DEF q, p
<1>3. Accounts(p, q)
  <2>1. Executing(p, q.rob) = {} /\ HaveData(p, q.rob) = {}
    BY <1>1, <1>2 DEF Executing, HaveData
  <2>2. Cardinality({}) = 0
    BY FS_EmptySet
  <2>3. InflightCounted(p, q)
    BY <1>1, <1>2, <2>1, <2>2 DEF InflightCounted
  <2>4. LoadsNamed(p, q) /\ OperandsCounted(p, q)
    BY <1>1, <1>2 DEF LoadsNamed, OperandsCounted
  <2> QED
    BY <2>3, <2>4 DEF Accounts
<1>4. AddedIsIssued(p, q.rob)
  BY <1>1, <1>2 DEF AddedIsIssued
<1>5. PICK f : StoresUpTo(p, f)
  BY <1>1, StreamExists
<1>6. f[0] = 0
  BY <1>5 DEF StoresUpTo
<1>7. StoreWindow(p, f, q.rob, q.sq, 0, 0)
  <2>1. \A i \in Sq : Dist(SQ_SIZE, 0, i) \in 0 .. SQ_SIZE - 1
    BY Sizes, DistIsPlace DEF Sq
  <2>2. 0 - 0 \in 0 .. SQ_SIZE /\ 0 = Wrap(SQ_SIZE, 0 + (0 - 0))
    BY Sizes DEF Wrap
  <2>3. \A i \in Sq : ~(Dist(SQ_SIZE, 0, i) < 0 - 0)
    BY <2>1, Sizes
  <2> QED
    BY <1>1, <2>2, <2>3 DEF StoreWindow
<1>8. StoresNamed(p, f, q.rob, q.sq, 0)
  BY <1>1, <1>2 DEF StoresNamed
<1>9. StaHolds(f, q.sta, 0, 0)
  <2>1. RingHolds(q.sta, STA_SIZE, Nat, << >>)
    BY <1>1, Sizes, EmptyHoldsNothing
  <2>2. Len(<< >>) = 0 /\ f[0] - 0 = 0
    BY <1>6
  <2>3. 1 .. Len(<< >>) = {}
    OBVIOUS
  <2> QED
    BY <2>1, <2>2, <2>3 DEF StaHolds
<1>10. StoreStages(q.sq.at, q.ready, {})
  <2>1. \A x, y : InStoreStage(q.sq.at, x, y) = {}
    BY <1>1, <1>2 DEF InStoreStage
  <2>2. RingOf(q.ready.RTS0, SQ_SIZE, {}) /\ RingOf(q.ready.RTS1, SQ_SIZE, {})
    BY <1>1, Sizes, EmptyIsRing
  <2> QED
    BY <1>1, <1>2, <2>1, <2>2 DEF StoreStages
<1>11. Stores(p, f, q, {}, 0, 0, 0, 0)
  <2>1. 0 \in f[0] .. f[0]
    BY <1>6
  <2> QED
    BY <1>6, <1>7, <1>8, <1>9, <1>10, <2>1 DEF Stores
<1>12. LsqInv(p, q, {}, 0, 0, 0)
  BY <1>3, <1>4, <1>5, <1>11 DEF LsqInv
<1>13. l1dWQ \in 0 .. L1D_WQ_SIZE
  BY <1>1, Sizes
<1> QED
  BY <1>1, <1>12, <1>13 DEF Lsq, p, q

-----------------------------------------------------------------------------
(* Each action keeps the invariant of the queues                           *)

\* The stores of the instruction that is read fit into STA.
LEMMA ReadFits ==
  ASSUME StaSuffices, Machine, Registers, read < Len(program), read - dispatched < FRONT_SIZE,
         NEW f, StoresUpTo(program, f)
  PROVE  f[read + 1] - f[Len(results)] <= STA_SIZE
<1> DEFINE n == Len(results)
           r == read + 1
           d == dispatched
<1>1. program \in Programs /\ Len(program) \in Nat /\ n \in Nat /\ d \in Nat /\ read \in Nat
      /\ n <= d /\ d <= read
  BY TraceFacts
<1>2. d - n <= ROB_SIZE
  BY DEF Registers, RegInv, InWindow
<1>3. ROB_SIZE \in Int /\ FRONT_SIZE \in Int
  BY Sizes, SizesAssumption
<1> HIDE DEF n, d
<1>4. n \in 0 .. Len(program) /\ r \in n .. Len(program) /\ r - n <= ROB_SIZE + FRONT_SIZE
  BY <1>1, <1>2, <1>3 DEF d
<1> HIDE DEF r
<1>5. f[r] - f[n] <= STA_SIZE
  BY <1>1, <1>4 DEF StaSuffices
<1> QED
  BY <1>5 DEF r, n

\* read_from_trace keeps it,
LEMMA ReadKeepsLsq ==
  ASSUME StaSuffices, Machine, Registers, Lsq, read_from_trace
  PROVE  Lsq'
<1> DEFINE q == Core
           r == Core'
           p == program
           n == Len(results)
           d == dispatched
           rd == read
           t == sta'
<1>1. /\ rd < Len(p) /\ rd - d < FRONT_SIZE /\ read' = rd + 1 /\ t = StaPush(sta, rd + 1)
      /\ UNCHANGED <<program, dispatched, rob, lq, sq, ready, inflight, got, dtlb, l1d, l1dWQ, memory, results>>
  BY DEF read_from_trace, outside, history
<1>2. /\ r.rob = q.rob /\ r.lq = q.lq /\ r.sq = q.sq /\ r.ready = q.ready /\ r.inflight = q.inflight
      /\ q.sta = sta /\ r.sta = t
  BY <1>1 DEF Core
<1>3. p \in Programs /\ q \in CoreRec(p) /\ LsqInv(p, q, dtlb, n, d, rd)
  BY LsqFacts
<1>4. PICK f, a : StoresUpTo(p, f) /\ Stores(p, f, q, dtlb, n, d, rd, a)
  BY <1>3 DEF LsqInv
<1>5. rd \in 0 .. Len(p) - 1 /\ n \in 0 .. Len(p) /\ d \in n .. Len(p) /\ rd + 1 \in 0 .. Len(p)
  BY <1>1, TraceFacts
<1>6. f[rd + 1] - f[n] <= STA_SIZE
  BY <1>1, <1>4, ReadFits
<1> HIDE DEF q, r, p, n, d, rd, t
<1>7. StaHolds(f, q.sta, a, rd) /\ a \in f[n] .. f[d]
  BY <1>4 DEF Stores
<1>8. f[n] \in Nat /\ f[d] \in Nat /\ f[rd + 1] \in Nat
  <2>1. d \in 0 .. Len(p)
    BY <1>5
  <2>2. f \in [0 .. Len(p) -> Nat]
    BY <1>4 DEF StoresUpTo
  <2> QED
    BY <1>5, <2>1, <2>2
<1>9. a \in Int /\ f[rd + 1] - a <= STA_SIZE
  BY <1>6, <1>7, <1>8, Sizes
<1>10. t = PushAll(sta, [k \in DOMAIN p[rd + 1].stores |-> rd + 1])
  BY <1>1 DEF StaPush, p
<1>11. StaHolds(f, r.sta, a, rd + 1)
  BY <1>2, <1>3, <1>4, <1>5, <1>7, <1>9, <1>10, StoresWithRead
<1>12. Stores(p, f, r, dtlb, n, d, rd + 1, a)
  BY <1>2, <1>4, <1>11 DEF Stores
<1>13. Accounts(p, r)
  <2>1. q.lq \in [Lq -> LoadRec]
    BY <1>3, CoreFields
  <2>2. \A l \in Lq : KeepsLoad(q.lq[l], r.lq[l]) /\ q.lq[l].rob_index \in Slot
    BY <1>2, <2>1 DEF KeepsLoad, LoadRec
  <2>3. \A s \in Slot : KeepsOperands(q.rob.at[s], r.rob.at[s])
    BY <1>2 DEF KeepsOperands
  <2>4. \A g \in Sq : KeepsStore(q.sq.at[g], r.sq.at[g])
    BY <1>2 DEF KeepsStore
  <2>5. Accounts(p, q)
    BY <1>3 DEF LsqInv
  <2> QED
    BY <1>2, <2>2, <2>3, <2>4, <2>5, AccountsKept
<1>14. LsqInv(p, r, dtlb, n, d, rd + 1)
  BY <1>2, <1>3, <1>4, <1>12, <1>13 DEF LsqInv
<1> QED
  BY <1>1, <1>14 DEF Lsq, r, p, n, d, rd

\* add_to_rob,
LEMMA AddKeepsLsq ==
  ASSUME Machine, Registers, Lsq, add_to_rob
  PROVE  Lsq'
<1> DEFINE q == Core
           r == Core'
           p == program
           n == Len(results)
           d == dispatched
           rd == read
           s == rob.tail
           m == MemOps(program[d + 1])
           b == rob'
<1>1. /\ d < rd /\ ~InRob(s) /\ dispatched' = d + 1
      /\ UNCHANGED <<program, read, lq, sq, sta, ready, inflight, got, dtlb, l1d, l1dWQ, memory, results>>
  BY DEF add_to_rob, outside, history
<1>2. d \in Nat /\ d \in 0 .. Len(p) - 1 /\ d + 1 \in 1 .. Len(p) /\ n \in 0 .. Len(p) /\ rob \in Rob /\ s \in Slot
  BY <1>1, TraceFacts DEF Machine, Rob
<1>3. m \in Int
  <2> HIDE DEF d
  <2> QED
    BY <1>2, TraceFacts, ProgramFacts
<1>4. /\ \A t \in Slot : t # s => b.at[t] = rob.at[t]
      /\ IsNew(b.at[s], d + 1, m)
  BY <1>2, <1>3, AddedToRob
<1>5. /\ r.rob = b /\ q.rob = rob /\ r.lq = q.lq /\ r.sq = q.sq /\ r.ready = q.ready
      /\ r.inflight = q.inflight /\ r.sta = q.sta
  BY <1>1 DEF Core
<1>6. p \in Programs /\ q \in CoreRec(p) /\ LsqInv(p, q, dtlb, n, d, rd)
  BY LsqFacts
<1>7. q.rob.at[s].id = 0
  BY <1>1, <1>5 DEF InRob, At
<1>8. m = MemOps(p[d + 1])
  OBVIOUS
<1> HIDE DEF q, r, p, n, d, rd, s, m, b
<1>9. PICK f, a : StoresUpTo(p, f) /\ Stores(p, f, q, dtlb, n, d, rd, a)
  BY <1>6 DEF LsqInv
<1>10. q.sq.at \in [Sq -> StoreRec]
  BY <1>6, CoreFields DEF SqRec
<1>11. /\ IsNew(r.rob.at[s], d + 1, m)
       /\ \A t \in Slot : t # s => r.rob.at[t] = q.rob.at[t]
  BY <1>4, <1>5
<1>12. Stores(p, f, r, dtlb, n, d + 1, rd, a)
  BY <1>2, <1>5, <1>6, <1>7, <1>9, <1>10, <1>11, StoresWithNew
<1>13. StoresHeld(p, q.rob, q.sq)
  BY <1>9, WindowHolds DEF Stores
<1>14. Accounts(p, r)
  BY <1>2, <1>5, <1>6, <1>7, <1>8, <1>11, <1>13, AccountsNew DEF LsqInv
<1>15. AddedIsIssued(p, r.rob)
  <2> SUFFICES ASSUME NEW t \in Slot, r.rob.at[t].id # 0, Accesses(p, r.rob.at[t]), r.rob.at[t].executed = "NO",
                      AllAdded(r.rob.at[t], p[r.rob.at[t].id])
               PROVE  FALSE
    BY DEF AddedIsIssued
  <2>1. AddedIsIssued(p, q.rob)
    BY <1>6 DEF LsqInv
  <2>2. CASE t # s
    BY <1>11, <2>1, <2>2 DEF AddedIsIssued
  <2>3. CASE t = s
    <3>1. DOMAIN p[d + 1].loads = {} /\ DOMAIN p[d + 1].stores = {}
      BY <1>11, <2>3 DEF AllAdded, IsNew
    <3>2. /\ DOMAIN p[d + 1].loads = 1 .. Len(p[d + 1].loads) /\ Len(p[d + 1].loads) \in Nat
          /\ DOMAIN p[d + 1].stores = 1 .. Len(p[d + 1].stores) /\ Len(p[d + 1].stores) \in Nat
      BY <1>2, <1>6, ProgramFacts
    <3>3. Len(p[d + 1].loads) = 0 /\ Len(p[d + 1].stores) = 0
      <4> DEFINE k == Len(p[d + 1].loads)
                 l == Len(p[d + 1].stores)
      <4>1. k \in Nat /\ l \in Nat /\ 1 .. k = {} /\ 1 .. l = {}
        BY <3>1, <3>2
      <4> HIDE DEF k, l
      <4>2. k = 0 /\ l = 0
        BY <4>1
      <4> QED
        BY <4>2 DEF k, l
    <3>4. MemOps(p[d + 1]) > 0
      BY <1>11, <2>3 DEF IsNew, Accesses
    <3> QED
      BY <3>3, <3>4 DEF MemOps
  <2> QED
    BY <2>2, <2>3
<1>16. LsqInv(p, r, dtlb, n, d + 1, rd)
  BY <1>9, <1>12, <1>14, <1>15 DEF LsqInv
<1> QED
  BY <1>1, <1>16 DEF Lsq, r, p, n, d, rd

\* A step that leaves the load and the store queue alone, with their rings and requests.
LEMMA SameQueuesKeep ==
  ASSUME NEW p \in Programs, NEW q \in CoreRec(p), NEW r, NEW D, NEW n, NEW d, NEW rd,
         LsqInv(p, q, D, n, d, rd),
         \A t \in Slot : KeepsOperands(q.rob.at[t], r.rob.at[t]),
         r.inflight = q.inflight, r.sta = q.sta, r.lq = q.lq, r.sq = q.sq,
         r.ready.RTS0 = q.ready.RTS0, r.ready.RTS1 = q.ready.RTS1
  PROVE  LsqInv(p, r, D, n, d, rd)
<1>1. KeepsCore(q, r)
  BY DEF KeepsCore, KeepsLoad, KeepsStore
<1>2. StoreStages(q.sq.at, q.ready, D)
  BY DEF LsqInv, Stores
<1>3. StoreStages(r.sq.at, r.ready, D)
  BY <1>2 DEF StoreStages
<1> QED
  BY <1>1, <1>3, LsqKept

\* do_scheduling,
LEMMA ScheduleKeepsLsq ==
  ASSUME Machine, Registers, Lsq, NEW s \in Slot, do_scheduling(s)
  PROVE  Lsq'
<1> DEFINE q == Core
           r == Core'
           p == program
           n == Len(results)
           d == dispatched
           rd == read
           b == rob'
           deps == Dependencies(s)
<1>1. /\ InRob(s)
      /\ ready' = IF ~IsMemory(s) /\ deps = {} THEN [ready EXCEPT !.RTE1 = Push(@, s)] ELSE ready
      /\ UNCHANGED <<program, read, dispatched, lq, sq, sta, inflight, got, dtlb, l1d, l1dWQ, memory, results>>
  BY DEF do_scheduling, MaySchedule, trace, outside, history
<1>2. Cardinality(deps) \in Int /\ rob \in Rob /\ ready \in ReadyRec
  BY <1>1, ProducersAreLast DEF Machine
<1>3. /\ IsScheduled(program, rob.at[s], b.at[s], deps)
      /\ \A t \in Slot : t # s => IsRecording(rob.at[t], b.at[t], s, {j \in deps : Producer(s, j) = t})
  BY <1>2, ScheduledEntries
<1>4. \A t \in Slot : KeepsOperands(rob.at[t], b.at[t])
  <2> HIDE DEF b, deps
  <2>1. KeepsOperands(rob.at[s], b.at[s])
    BY <1>3 DEF IsScheduled, SameOperands, KeepsOperands
  <2>2. \A t \in Slot : t # s => KeepsOperands(rob.at[t], b.at[t])
    BY <1>3 DEF IsRecording, SameOperands, KeepsOperands
  <2> QED
    BY <2>1, <2>2
<1>5. ready'.RTS0 = ready.RTS0 /\ ready'.RTS1 = ready.RTS1
  BY <1>1, <1>2 DEF ReadyRec
<1>6. /\ r.rob = b /\ q.rob = rob /\ r.lq = q.lq /\ r.sq = q.sq /\ r.ready = ready' /\ q.ready = ready
      /\ r.inflight = q.inflight /\ r.sta = q.sta
  BY <1>1 DEF Core
<1>7. p \in Programs /\ q \in CoreRec(p) /\ LsqInv(p, q, dtlb, n, d, rd)
  BY LsqFacts
<1> HIDE DEF q, r, p, n, d, rd, b
<1>8. LsqInv(p, r, dtlb, n, d, rd)
  BY <1>4, <1>5, <1>6, <1>7, SameQueuesKeep
<1> QED
  BY <1>1, <1>8 DEF Lsq, r, p, n, d, rd

\* Executions that start or end leave the stores alone.
LEMMA ExecutionKeepsStores ==
  ASSUME NEW p \in Programs, NEW q \in CoreRec(p), NEW r, NEW D, NEW n, NEW d, NEW rd,
         LsqInv(p, q, D, n, d, rd), Accounts(p, r), AddedIsIssued(p, r.rob),
         \A t \in Slot : SameStores(q.rob.at[t], r.rob.at[t]),
         r.sta = q.sta, r.sq = q.sq,
         r.ready.RTS0 = q.ready.RTS0, r.ready.RTS1 = q.ready.RTS1
  PROVE  LsqInv(p, r, D, n, d, rd)
<1>1. PICK f, a : StoresUpTo(p, f) /\ Stores(p, f, q, D, n, d, rd, a)
  BY DEF LsqInv
<1>2. StoreStages(q.sq.at, q.ready, D)
  BY <1>1 DEF Stores
<1>3. StoreStages(r.sq.at, r.ready, D)
  BY <1>2 DEF StoreStages
<1>4. q.sq.at \in [Sq -> StoreRec]
  BY CoreFields DEF SqRec
<1>5. \A g \in Sq : KeepsStore(q.sq.at[g], r.sq.at[g])
  BY DEF KeepsStore
<1>6. Stores(p, f, r, D, n, d, rd, a)
  BY <1>1, <1>3, <1>4, <1>5, StoresKept
<1> QED
  BY <1>1, <1>6 DEF LsqInv

\* do_execution,
LEMMA ExecuteKeepsLsq ==
  ASSUME Machine, Registers, Lsq, NEW ring, do_execution(ring)
  PROVE  Lsq'
<1> DEFINE q == Core
           r == Core'
           p == program
           n == Len(results)
           d == dispatched
           rd == read
           b == rob'
           s == First(ready[ring])
<1>1. /\ ring \in {"RTE0", "RTE1"} /\ s # Nil
      /\ ready' = [ready EXCEPT ![ring] = Pop(@)]
      /\ inflight' = [inflight EXCEPT !.reg = @ + 1]
      /\ UNCHANGED <<program, read, dispatched, lq, sq, sta, got, dtlb, l1d, l1dWQ, memory, results>>
  BY DEF do_execution, trace, outside, history
<1>2. PICK S0, S1 : /\ RingOf(ready.RTE0, ROB_SIZE, S0)
                    /\ RingOf(ready.RTE1, ROB_SIZE, S1)
                    /\ S0 \cup S1 = ReadyToExecute(program, rob)
  BY DEF Registers, Queued
<1>3. s \in ReadyToExecute(program, rob)
  BY <1>1, <1>2, Sizes, FirstIsInRing
<1>4. s \in Slot /\ rob.at[s].id # 0 /\ ~Accesses(program, rob.at[s]) /\ rob.at[s].executed = "NO"
  BY <1>3 DEF ReadyToExecute
<1>5. rob \in Rob /\ ready \in ReadyRec /\ inflight \in InflightRec
  BY DEF Machine
<1>6. IsExecuting(rob, b, s, "INFLIGHT")
  BY <1>4, <1>5, ExecutingEntry
<1>7. ready'.RTS0 = ready.RTS0 /\ ready'.RTS1 = ready.RTS1
  BY <1>1, <1>5 DEF ReadyRec
<1>8. inflight'.reg = inflight.reg + 1 /\ inflight'.mem = inflight.mem
  BY <1>1, <1>5 DEF InflightRec
<1>9. /\ r.rob = b /\ q.rob = rob /\ r.lq = q.lq /\ r.sq = q.sq /\ r.ready = ready' /\ q.ready = ready
      /\ r.inflight = inflight' /\ q.inflight = inflight /\ r.sta = q.sta
  BY <1>1 DEF Core
<1>10. p \in Programs /\ q \in CoreRec(p) /\ LsqInv(p, q, dtlb, n, d, rd)
  BY LsqFacts
<1>11. q.rob.at[s].id # 0 /\ ~Accesses(p, q.rob.at[s]) /\ q.rob.at[s].executed = "NO"
  BY <1>4, <1>9
<1> HIDE DEF q, r, p, n, d, rd, b, s
<1>12. /\ ExecutionIs(q.rob.at[s], r.rob.at[s], "INFLIGHT")
       /\ \A t \in Slot : t # s => r.rob.at[t] = q.rob.at[t]
  BY <1>6, <1>9 DEF IsExecuting, SameOperands, ExecutionIs
<1>13. Accounts(p, r)
  <2>1. Accounts(p, q)
    BY <1>10 DEF LsqInv
  <2>2. r.inflight.reg = q.inflight.reg + 1 /\ r.inflight.mem = q.inflight.mem
    BY <1>8, <1>9
  <2> QED
    BY <1>4, <1>9, <1>10, <1>11, <1>12, <2>1, <2>2, AccountsStarted
<1>14. AddedIsIssued(p, r.rob)
  <2>1. AddedIsIssued(p, q.rob)
    BY <1>10 DEF LsqInv
  <2>2. \A t \in Slot : r.rob.at[t].id = 0 \/ r.rob.at[t].executed # "NO" \/ SameAdded(q.rob.at[t], r.rob.at[t])
    BY <1>12 DEF ExecutionIs, SameAdded
  <2> QED
    BY <2>1, <2>2, AddedKept
<1>15. \A t \in Slot : SameStores(q.rob.at[t], r.rob.at[t])
  BY <1>12 DEF ExecutionIs, SameStores
<1>16. LsqInv(p, r, dtlb, n, d, rd)
  BY <1>7, <1>9, <1>10, <1>13, <1>14, <1>15, ExecutionKeepsStores
<1> QED
  BY <1>1, <1>16 DEF Lsq, r, p, n, d, rd

\* complete_execution,
LEMMA CompleteKeepsLsq ==
  ASSUME Machine, Registers, Lsq, NEW s \in Slot, complete_execution(s)
  PROVE  Lsq'
<1> DEFINE q == Core
           r == Core'
           p == program
           n == Len(results)
           d == dispatched
           rd == read
           b == rob'
<1>1. /\ InRob(s) /\ At(s).executed = "INFLIGHT"
      /\ IsMemory(s) => At(s).num_mem_ops = 0
      /\ ready' = [ready EXCEPT !.RTE0 = PushAll(@, Woken(s))]
      /\ inflight' = IF IsMemory(s) THEN [inflight EXCEPT !.mem = @ - 1] ELSE [inflight EXCEPT !.reg = @ - 1]
      /\ UNCHANGED <<program, read, dispatched, lq, sq, sta, got, dtlb, l1d, l1dWQ, memory, results>>
  BY DEF complete_execution, trace, outside, history
<1>2. rob \in Rob /\ ready \in ReadyRec /\ inflight \in InflightRec
  BY DEF Machine
<1>3. \A t \in Slot : Cardinality(WaitsFor(s, t)) \in Int
  <2> TAKE t \in Slot
  <2>1. WaitsFor(s, t) \subseteq 1 .. NUM_INSTR_SOURCES
    BY DEF WaitsFor, Src
  <2>2. IsFiniteSet(1 .. NUM_INSTR_SOURCES)
    BY Sizes, FS_Interval
  <2>3. IsFiniteSet(WaitsFor(s, t))
    BY <2>1, <2>2, FS_Subset
  <2> QED
    BY <2>3, FS_CardinalityType
<1>4. /\ b.at[s] = [rob.at[s] EXCEPT !.executed = "COMPLETED"]
      /\ \A t \in Slot : t # s =>
           IsWithoutSource(program, rob.at[t], b.at[t], Cardinality(WaitsFor(s, t)), t \in Released(s))
  BY <1>2, <1>3, CompletedEntries
<1>5. ExecutionIs(rob.at[s], b.at[s], "COMPLETED")
  <2>1. rob.at[s] \in Entry
    BY <1>2 DEF Rob
  <2> QED
    BY <1>4, <2>1, EntryExecutes DEF Progress, SameOperands, ExecutionIs
<1>6. \A t \in Slot : t # s => KeepsOperands(rob.at[t], b.at[t])
  <2> HIDE DEF b
  <2> QED
    BY <1>4 DEF IsWithoutSource, SameOperands, KeepsOperands
<1>7. ready'.RTS0 = ready.RTS0 /\ ready'.RTS1 = ready.RTS1
  BY <1>1, <1>2 DEF ReadyRec
<1>8. IsMemory(s) = Accesses(program, rob.at[s])
  BY DEF Accesses, IsMemory, InstrIn, At
<1>9. /\ inflight'.mem = inflight.mem - (IF Accesses(program, rob.at[s]) THEN 1 ELSE 0)
      /\ inflight'.reg = inflight.reg - (IF Accesses(program, rob.at[s]) THEN 0 ELSE 1)
  <2>1. inflight.mem \in Int /\ inflight.reg \in Int
    BY <1>2 DEF InflightRec
  <2>2. CASE IsMemory(s)
    BY <1>1, <1>2, <1>8, <2>1, <2>2 DEF InflightRec
  <2>3. CASE ~IsMemory(s)
    BY <1>1, <1>2, <1>8, <2>1, <2>3 DEF InflightRec
  <2> QED
    BY <2>2, <2>3
<1>10. /\ r.rob = b /\ q.rob = rob /\ r.lq = q.lq /\ r.sq = q.sq /\ r.ready = ready' /\ q.ready = ready
       /\ r.inflight = inflight' /\ q.inflight = inflight /\ r.sta = q.sta
  BY <1>1 DEF Core
<1>11. p \in Programs /\ q \in CoreRec(p) /\ LsqInv(p, q, dtlb, n, d, rd)
  BY LsqFacts
<1>12. /\ q.rob.at[s].id # 0 /\ q.rob.at[s].executed = "INFLIGHT"
       /\ Accesses(p, q.rob.at[s]) => q.rob.at[s].num_mem_ops = 0
  BY <1>1, <1>8, <1>10 DEF InRob, At
<1>13. /\ r.inflight.mem = q.inflight.mem - (IF Accesses(p, q.rob.at[s]) THEN 1 ELSE 0)
       /\ r.inflight.reg = q.inflight.reg - (IF Accesses(p, q.rob.at[s]) THEN 0 ELSE 1)
  BY <1>9, <1>10
<1> HIDE DEF q, r, p, n, d, rd, b
<1>14. /\ ExecutionIs(q.rob.at[s], r.rob.at[s], "COMPLETED")
       /\ \A t \in Slot : t # s => KeepsOperands(q.rob.at[t], r.rob.at[t])
  BY <1>5, <1>6, <1>10
<1>15. Accounts(p, r)
  <2>1. Accounts(p, q)
    BY <1>11 DEF LsqInv
  <2> QED
    BY <1>10, <1>11, <1>12, <1>13, <1>14, <2>1, AccountsCompleted
<1>16. AddedIsIssued(p, r.rob)
  <2>1. AddedIsIssued(p, q.rob)
    BY <1>11 DEF LsqInv
  <2>2. \A t \in Slot : r.rob.at[t].id = 0 \/ r.rob.at[t].executed # "NO" \/ SameAdded(q.rob.at[t], r.rob.at[t])
    BY <1>14 DEF ExecutionIs, KeepsOperands, SameAdded
  <2> QED
    BY <2>1, <2>2, AddedKept
<1>17. \A t \in Slot : SameStores(q.rob.at[t], r.rob.at[t])
  BY <1>14 DEF ExecutionIs, KeepsOperands, SameStores
<1>18. LsqInv(p, r, dtlb, n, d, rd)
  BY <1>7, <1>10, <1>11, <1>15, <1>16, <1>17, ExecutionKeepsStores
<1> QED
  BY <1>1, <1>18 DEF Lsq, r, p, n, d, rd

\* The core becomes what a handler of the queues passes on.
LEMMA BecomesCore ==
  ASSUME NEW p, NEW x \in CoreRec(p), Become(x)
  PROVE  Core' = x
<1>1. Core' = [rob |-> x.rob, lq |-> x.lq, sq |-> x.sq, sta |-> x.sta, ready |-> x.ready,
               inflight |-> x.inflight, got |-> x.got]
  BY DEF Become, Core
<1>2. x = [rob |-> x.rob, lq |-> x.lq, sq |-> x.sq, sta |-> x.sta, ready |-> x.ready,
           inflight |-> x.inflight, got |-> x.got]
  BY DEF CoreRec
<1> QED
  BY <1>1, <1>2

\* The core x, which is q but for the entry of slot s once all operands are in.
IssuesAll(p, q, x, s, all) ==
  /\ x.lq = q.lq /\ x.sq = q.sq /\ x.sta = q.sta /\ x.ready = q.ready /\ x.inflight = q.inflight
  /\ \A t \in Slot : t # s => x.rob.at[t] = q.rob.at[t]
  /\ IF all THEN ExecutionIs(q.rob.at[s], x.rob.at[s], "INFLIGHT")
     ELSE x.rob.at[s] = q.rob.at[s]

\* What do_memory_scheduling makes of the core after check_and_add_lsq.
LEMMA IssuesWhenAll ==
  ASSUME NEW p, NEW q \in CoreRec(p), NEW s \in Slot, NEW all \in BOOLEAN,
         NEW x, x = IF all THEN [q EXCEPT !.rob.at[s] = Issued(@)] ELSE q
  PROVE  x \in CoreRec(p) /\ IssuesAll(p, q, x, s, all)
<1> DEFINE b == q.rob
           e == b.at[s]
           f == Issued(e)
           c == [b EXCEPT !.at[s] = f]
<1>1. b \in Rob /\ e \in Entry
  BY CoreFields DEF Rob
<1>2. IsIssued(e, f)
  BY <1>1, IssuedEntry
<1>3. CASE all
  <2>1. f \in Entry /\ ExecutionIs(e, f, "INFLIGHT")
    BY <1>2 DEF IsIssued, SameOperands, ExecutionIs
  <2>2. x = [q EXCEPT !.rob = c]
    BY <1>3 DEF CoreRec
  <2> HIDE DEF f
  <2>3. Replaces(b, c, s, f)
    <3> HIDE DEF b
    <3> QED
      BY <1>1, <2>1, ReplacedSlot
  <2> HIDE DEF c
  <2>4. c \in Rob
    BY <2>3 DEF Replaces
  <2>5. x \in CoreRec(p) /\ x.rob = c /\ x.lq = q.lq /\ x.sq = q.sq /\ x.sta = q.sta /\ x.ready = q.ready
        /\ x.inflight = q.inflight
    BY <2>2, <2>4 DEF CoreRec
  <2> QED
    BY <1>3, <2>1, <2>3, <2>5 DEF IssuesAll, Replaces
<1>4. CASE ~all
  BY <1>4 DEF IssuesAll
<1> QED
  BY <1>3, <1>4

\* do_memory_scheduling,
LEMMA MemoryKeepsLsq ==
  ASSUME Machine, Registers, Lsq, NEW s \in Slot, do_memory_scheduling(s)
  PROVE  Lsq'
<1> DEFINE q == check_and_add_lsq(s)
           p == program
           n == Len(results)
           d == dispatched
           rd == read
           D == dtlb
           all == AllAdded(q.rob.at[s], InstrIn(s))
           x == IF all THEN [q EXCEPT !.rob.at[s] = Issued(@)] ELSE q
           b == rob
           i == InstrIn(s)
<1>1. /\ InRob(s) /\ IsMemory(s) /\ At(s).scheduled = "INFLIGHT"
      /\ Become(x)
      /\ UNCHANGED <<program, read, dispatched, dtlb, l1d, l1dWQ, memory, results>>
  BY DEF do_memory_scheduling, MayAdd, trace, outside, history
<1>2. /\ p \in Programs /\ Core \in CoreRec(p) /\ IdsInTrace /\ InTrace(p, rd, d, n) /\ OneEach(rob, d, n)
      /\ LsqInv(p, Core, D, n, d, rd)
  BY LsqFacts
<1>3. Indexed(rob) /\ LoadStages(lq, ready, dtlb, l1d)
  BY DEF Machine
<1>4. PICK f, a : StoresUpTo(p, f) /\ Stores(p, f, Core, D, n, d, rd, a)
  BY <1>2 DEF LsqInv
<1>5. HoldsStores(f, Core) /\ Accounts(p, Core) /\ AddedIsIssued(p, b)
  <2>1. Core.rob = rob
    BY DEF Core
  <2> QED
    BY <1>2, <1>4, <2>1 DEF HoldsStores, LsqInv
<1>6. q \in Grown(s) /\ Accounts(p, q) /\ HoldsStores(f, q)
  BY <1>1, <1>2, <1>3, <1>4, <1>5, AllAccounted
<1>7. all \in BOOLEAN
  BY DEF AllAdded
<1> HIDE DEF q, all
<1>8. q \in CoreRec(p) /\ Grows(b, q.rob, s)
  BY <1>6 DEF Grown
<1>9. x \in CoreRec(p) /\ IssuesAll(p, q, x, s, all)
  BY <1>7, <1>8, IssuesWhenAll
<1> HIDE DEF x
<1>10. Core' = x
  BY <1>1, <1>9, BecomesCore
<1>11. b.at[s].id # 0 /\ Accesses(p, b.at[s]) /\ b.at[s].executed = "NO" /\ p[b.at[s].id] = i
  <2>1. b.at[s].id # 0 /\ b.at[s].scheduled = "INFLIGHT" /\ Accesses(p, b.at[s]) /\ p[b.at[s].id] = i
    BY <1>1 DEF InRob, At, IsMemory, InstrIn, Accesses
  <2>2. IssuedWhenReady(p, b)
    BY DEF Registers, RegInv
  <2> QED
    BY <2>1, <2>2 DEF IssuedWhenReady
<1>12. SameRegs(b.at[s], q.rob.at[s])
  BY <1>8 DEF Grows
<1>13. all <=> AllAdded(q.rob.at[s], i)
  BY DEF all
<1>14. PICK y : Stores(p, f, q, D, n, d, rd, y)
  BY <1>6 DEF HoldsStores
<1> HIDE DEF p, n, d, rd, D, b, i
<1>15. q.rob.at[s].executed = "NO" /\ Accesses(p, q.rob.at[s]) /\ q.rob.at[s].id = b.at[s].id
  BY <1>11, <1>12 DEF SameRegs, Accesses
<1>16. q.lq \in [Lq -> LoadRec] /\ q.sq.at \in [Sq -> StoreRec]
  BY <1>8, CoreFields DEF SqRec
<1>17. /\ x.lq = q.lq /\ x.sq = q.sq /\ x.sta = q.sta /\ x.ready = q.ready /\ x.inflight = q.inflight
       /\ \A t \in Slot : t # s => x.rob.at[t] = q.rob.at[t]
  BY <1>9 DEF IssuesAll
<1>18. Accounts(p, x)
  <2>1. CASE all
    <3>1. ExecutionIs(q.rob.at[s], x.rob.at[s], "INFLIGHT")
      BY <1>9, <2>1 DEF IssuesAll
    <3> QED
      BY <1>2, <1>6, <1>8, <1>15, <1>17, <3>1, AccountsIssued
  <2>2. CASE ~all
    <3>1. \A t \in Slot : x.rob.at[t] = q.rob.at[t]
      BY <1>9, <2>2 DEF IssuesAll
    <3>2. \A t \in Slot : KeepsOperands(q.rob.at[t], x.rob.at[t])
      BY <3>1 DEF KeepsOperands
    <3>3. \A l \in Lq : KeepsLoad(q.lq[l], x.lq[l]) /\ q.lq[l].rob_index \in Slot
      BY <1>16, <1>17 DEF KeepsLoad, LoadRec
    <3>4. \A g \in Sq : KeepsStore(q.sq.at[g], x.sq.at[g])
      BY <1>17 DEF KeepsStore
    <3> QED
      BY <1>6, <1>17, <3>2, <3>3, <3>4, AccountsKept
  <2> QED
    BY <2>1, <2>2
<1>19. AddedIsIssued(p, x.rob)
  <2> SUFFICES ASSUME NEW t \in Slot, x.rob.at[t].id # 0, Accesses(p, x.rob.at[t]), x.rob.at[t].executed = "NO",
                      AllAdded(x.rob.at[t], p[x.rob.at[t].id])
               PROVE  FALSE
    BY DEF AddedIsIssued
  <2>1. CASE t = s
    <3>1. CASE all
      BY <1>9, <2>1, <3>1 DEF IssuesAll, ExecutionIs
    <3>2. CASE ~all
      <4>1. x.rob.at[s] = q.rob.at[s]
        BY <1>9, <3>2 DEF IssuesAll
      <4> QED
        BY <1>11, <1>13, <1>15, <2>1, <3>2, <4>1
    <3> QED
      BY <3>1, <3>2
  <2>2. CASE t # s
    <3>1. x.rob.at[t] = q.rob.at[t]
      BY <1>17, <2>2
    <3>2. SameAdded(b.at[t], x.rob.at[t])
      BY <1>8, <2>2, <3>1 DEF Grows, SameRegs, SameAdded
    <3>3. b.at[t].id # 0 /\ Accesses(p, b.at[t]) /\ b.at[t].executed = "NO" /\ AllAdded(b.at[t], p[b.at[t].id])
      BY <3>2 DEF SameAdded, Accesses, AllAdded
    <3> QED
      BY <1>5, <3>3 DEF AddedIsIssued
  <2> QED
    BY <2>1, <2>2
<1>20. Stores(p, f, x, D, n, d, rd, y)
  <2>1. \A t \in Slot : SameStores(q.rob.at[t], x.rob.at[t])
    <3> SUFFICES ASSUME NEW t \in Slot PROVE SameStores(q.rob.at[t], x.rob.at[t])
      OBVIOUS
    <3>1. CASE t = s
      BY <1>9, <3>1 DEF IssuesAll, ExecutionIs, SameStores
    <3>2. CASE t # s
      BY <1>17, <3>2 DEF SameStores
    <3> QED
      BY <3>1, <3>2
  <2>2. \A g \in Sq : KeepsStore(q.sq.at[g], x.sq.at[g])
    BY <1>17 DEF KeepsStore
  <2>3. StoreStages(x.sq.at, x.ready, D)
    BY <1>14, <1>17 DEF Stores
  <2> QED
    BY <1>2, <1>14, <1>16, <1>17, <2>1, <2>2, <2>3, StoresKept
<1>21. LsqInv(p, x, D, n, d, rd)
  BY <1>4, <1>18, <1>19, <1>20 DEF LsqInv
<1> QED
  BY <1>1, <1>10, <1>21 DEF Lsq, p, n, d, rd, D

\* A load or a store that comes to another stage is the same operand.
LEMMA StagedLoad ==
  ASSUME NEW e \in LoadRec, e.addr # Nil, NEW x
  PROVE  KeepsLoad(e, [e EXCEPT !.translated = x]) /\ KeepsLoad(e, [e EXCEPT !.fetched = x])
BY DEF LoadRec, KeepsLoad

\* So is a store.
LEMMA StagedStore ==
  ASSUME NEW e \in StoreRec, e.addr # Nil, e.fetched = "NO", NEW x, NEW f, f = [e EXCEPT !.translated = x]
  PROVE  KeepsStore(e, f) /\ f.addr = e.addr /\ f.translated = x /\ f.fetched = "NO"
BY DEF StoreRec, KeepsStore

\* A step of a load, with the stores and their requests as they were.
LEMMA LoadStepKeeps ==
  ASSUME NEW p \in Programs, NEW q \in CoreRec(p), NEW r, NEW D, NEW E, NEW n, NEW d, NEW rd,
         LsqInv(p, q, D, n, d, rd),
         r.rob = q.rob, r.inflight = q.inflight, r.sta = q.sta, r.sq = q.sq,
         \A l \in Lq : KeepsLoad(q.lq[l], r.lq[l]),
         r.ready.RTS0 = q.ready.RTS0, r.ready.RTS1 = q.ready.RTS1,
         \A f \in Sq : <<"store", f>> \in E <=> <<"store", f>> \in D
  PROVE  LsqInv(p, r, E, n, d, rd)
<1>1. KeepsCore(q, r)
  BY DEF KeepsCore, KeepsOperands, KeepsStore
<1>2. StoreStages(q.sq.at, q.ready, D)
  BY DEF LsqInv, Stores
<1>3. \A f \in Sq : r.sq.at[f] = q.sq.at[f]
  OBVIOUS
<1>4. StoreStages(r.sq.at, r.ready, E)
  BY <1>2, <1>3, StoreStagesKept
<1> QED
  BY <1>1, <1>4, LsqKept

\* TranslateLoad,
LEMMA TranslateLoadKeepsLsq ==
  ASSUME Machine, Registers, Lsq, TranslateLoad
  PROVE  Lsq'
<1> DEFINE q == Core
           r == Core'
           p == program
           n == Len(results)
           d == dispatched
           rd == read
           D == dtlb
           E == dtlb'
           l == First(ready.RTL0)
<1>1. /\ l # Nil /\ E = D \cup {<<"load", l>>}
      /\ lq' = [lq EXCEPT ![l] = [lq[l] EXCEPT !.translated = "INFLIGHT"]]
      /\ ready' = [ready EXCEPT !.RTL0 = Pop(ready.RTL0)]
      /\ UNCHANGED <<program, read, dispatched, rob, sq, sta, inflight, got, l1d, l1dWQ, memory, results>>
  BY DEF TranslateLoad, trace, history
<1>2. ready \in ReadyRec /\ lq \in [Lq -> LoadRec] /\ LoadStages(lq, ready, dtlb, l1d)
  BY DEF Machine
<1>3. l \in InStage(lq, "NO", "NO")
  BY <1>1, <1>2, Sizes, FirstIsInRing DEF LoadStages
<1>4. l \in Lq /\ lq[l].addr # Nil
  BY <1>3 DEF InStage
<1>5. ready'.RTS0 = ready.RTS0 /\ ready'.RTS1 = ready.RTS1
  BY <1>1, <1>2 DEF ReadyRec
<1>6. /\ r.rob = q.rob /\ r.sq = q.sq /\ r.sta = q.sta /\ r.inflight = q.inflight
      /\ q.lq = lq /\ r.lq = lq' /\ q.ready = ready /\ r.ready = ready'
  BY <1>1 DEF Core
<1>7. p \in Programs /\ q \in CoreRec(p) /\ LsqInv(p, q, D, n, d, rd)
  BY LsqFacts
<1> HIDE DEF q, r, p, n, d, rd, D, E, l
<1>8. \A m \in Lq : KeepsLoad(q.lq[m], r.lq[m])
  <2>1. KeepsLoad(lq[l], [lq[l] EXCEPT !.translated = "INFLIGHT"])
    BY <1>2, <1>4, StagedLoad
  <2>2. \A m \in Lq : lq'[m] = IF m = l THEN [lq[l] EXCEPT !.translated = "INFLIGHT"] ELSE lq[m]
    BY <1>1, <1>2
  <2> QED
    BY <1>6, <2>1, <2>2 DEF KeepsLoad
<1>9. \A f \in Sq : <<"store", f>> \in E <=> <<"store", f>> \in D
  BY <1>1
<1>10. LsqInv(p, r, E, n, d, rd)
  BY <1>5, <1>6, <1>7, <1>8, <1>9, LoadStepKeeps
<1> QED
  BY <1>1, <1>10 DEF Lsq, r, p, n, d, rd, E

\* execute_load,
LEMMA ExecuteLoadKeepsLsq ==
  ASSUME Machine, Registers, Lsq, execute_load
  PROVE  Lsq'
<1> DEFINE q == Core
           r == Core'
           p == program
           n == Len(results)
           d == dispatched
           rd == read
           D == dtlb
           l == First(ready.RTL1)
<1>1. /\ l # Nil
      /\ lq' = [lq EXCEPT ![l] = [lq[l] EXCEPT !.fetched = "INFLIGHT"]]
      /\ ready' = [ready EXCEPT !.RTL1 = Pop(ready.RTL1)]
      /\ UNCHANGED <<program, read, dispatched, rob, sq, sta, inflight, got, dtlb, l1dWQ, memory, results>>
  BY DEF execute_load, trace, history
<1>2. ready \in ReadyRec /\ lq \in [Lq -> LoadRec] /\ LoadStages(lq, ready, dtlb, l1d)
  BY DEF Machine
<1>3. l \in InStage(lq, "COMPLETED", "NO")
  BY <1>1, <1>2, Sizes, FirstIsInRing DEF LoadStages
<1>4. l \in Lq /\ lq[l].addr # Nil
  BY <1>3 DEF InStage
<1>5. ready'.RTS0 = ready.RTS0 /\ ready'.RTS1 = ready.RTS1
  BY <1>1, <1>2 DEF ReadyRec
<1>6. /\ r.rob = q.rob /\ r.sq = q.sq /\ r.sta = q.sta /\ r.inflight = q.inflight
      /\ q.lq = lq /\ r.lq = lq' /\ q.ready = ready /\ r.ready = ready'
  BY <1>1 DEF Core
<1>7. p \in Programs /\ q \in CoreRec(p) /\ LsqInv(p, q, D, n, d, rd)
  BY LsqFacts
<1> HIDE DEF q, r, p, n, d, rd, D, l
<1>8. \A m \in Lq : KeepsLoad(q.lq[m], r.lq[m])
  <2>1. KeepsLoad(lq[l], [lq[l] EXCEPT !.fetched = "INFLIGHT"])
    BY <1>2, <1>4, StagedLoad
  <2>2. \A m \in Lq : lq'[m] = IF m = l THEN [lq[l] EXCEPT !.fetched = "INFLIGHT"] ELSE lq[m]
    BY <1>1, <1>2
  <2> QED
    BY <1>6, <2>1, <2>2 DEF KeepsLoad
<1>9. LsqInv(p, r, D, n, d, rd)
  BY <1>5, <1>6, <1>7, <1>8, LoadStepKeeps
<1> QED
  BY <1>1, <1>9 DEF Lsq, r, p, n, d, rd, D

\* TranslateStore,
LEMMA TranslateStoreKeepsLsq ==
  ASSUME Machine, Registers, Lsq, TranslateStore
  PROVE  Lsq'
<1> DEFINE q == Core
           r == Core'
           p == program
           n == Len(results)
           d == dispatched
           rd == read
           D == dtlb
           E == dtlb'
           g == ready
           h == ready'
           f == First(g.RTS0)
           e == sq.at[f]
           x == [e EXCEPT !.translated = "INFLIGHT"]
<1>1. /\ f # Nil /\ E = D \cup {<<"store", f>>}
      /\ sq' = [sq EXCEPT !.at[f] = x]
      /\ h = [g EXCEPT !.RTS0 = Pop(g.RTS0)]
      /\ UNCHANGED <<program, read, dispatched, rob, lq, sta, inflight, got, l1d, l1dWQ, memory, results>>
  BY DEF TranslateStore, trace, history
<1>2. g \in ReadyRec /\ sq \in SqRec
  BY DEF Machine
<1>3. h.RTS0 = Pop(g.RTS0) /\ h.RTS1 = g.RTS1
  BY <1>1, <1>2 DEF ReadyRec
<1>4. /\ r.rob = q.rob /\ r.lq = q.lq /\ r.sta = q.sta /\ r.inflight = q.inflight
      /\ q.sq = sq /\ r.sq = sq' /\ q.ready = g /\ r.ready = h
  BY <1>1 DEF Core
<1>5. p \in Programs /\ q \in CoreRec(p) /\ LsqInv(p, q, D, n, d, rd)
  BY LsqFacts
<1>6. f = First(g.RTS0) /\ e = sq.at[f] /\ x = [e EXCEPT !.translated = "INFLIGHT"]
  OBVIOUS
<1> DEFINE u == sq.at
           v == sq'.at
<1>7. u = q.sq.at /\ v = r.sq.at /\ u \in [Sq -> StoreRec]
  BY <1>2, <1>4 DEF SqRec
<1> HIDE DEF q, r, p, n, d, rd, D, E, g, h, f, e, x
<1>8. StoreStages(u, g, D)
  BY <1>4, <1>5 DEF LsqInv, Stores
<1>9. f \in InStoreStage(u, "NO", "NO")
  BY <1>1, <1>6, <1>8, Sizes, FirstIsInRing DEF StoreStages
<1>10. f \in Sq /\ e.addr # Nil /\ e.fetched = "NO" /\ e \in StoreRec
  BY <1>6, <1>7, <1>9 DEF InStoreStage
<1>11. KeepsStore(e, x) /\ x.addr = e.addr /\ x.translated = "INFLIGHT" /\ x.fetched = "NO"
  BY <1>6, <1>10, StagedStore
<1>12. sq'.head = sq.head /\ sq'.tail = sq.tail /\ \A m \in Sq : v[m] = IF m = f THEN x ELSE u[m]
  BY <1>1, <1>2, <1>10 DEF SqRec
<1> HIDE DEF u, v
<1>13. u[f] = e
  BY <1>6 DEF u
<1>14. RestageStore(u, v, {f}, "INFLIGHT", "NO")
  BY <1>10, <1>11, <1>12, <1>13 DEF RestageStore
<1>15. StoreStages(v, h, E)
  BY <1>1, <1>3, <1>6, <1>8, <1>14, StoreStagesTranslate
<1>16. KeepsCore(q, r)
  <2>1. \A m \in Sq : KeepsStore(u[m], v[m])
    BY <1>11, <1>12, <1>13 DEF KeepsStore
  <2> QED
    BY <1>4, <1>7, <1>12, <2>1 DEF KeepsCore, KeepsOperands, KeepsLoad
<1>17. LsqInv(p, r, E, n, d, rd)
  BY <1>4, <1>5, <1>7, <1>15, <1>16, LsqKept
<1> QED
  BY <1>1, <1>17 DEF Lsq, r, p, n, d, rd, E

\* the answers of the DTLB,
LEMMA TranslationKeepsLsq ==
  ASSUME Machine, Registers, Lsq, NEW own, NEW packet, TranslationDone(own, packet)
  PROVE  Lsq'
<1> DEFINE q == Core
           r == Core'
           p == program
           n == Len(results)
           d == dispatched
           rd == read
           D == dtlb
           E == dtlb'
           g == ready
           h == ready'
           u == sq.at
           v == sq'.at
<1>1. PICK K, M, y, w : PacketGoes(packet, K, M, y, w)
  BY TranslationGoes
<1>2. UNCHANGED <<program, read, dispatched, rob, sta, inflight, got, l1d, l1dWQ, memory, results>>
  BY DEF TranslationDone, trace, history
<1>3. g \in ReadyRec /\ sq \in SqRec /\ lq \in [Lq -> LoadRec] /\ LoadStages(lq, ready, dtlb, l1d)
  BY DEF Machine
<1>4. /\ E = D \ packet /\ packet \subseteq D
      /\ K \in SUBSET Lq /\ \A l \in Lq : l \in K <=> <<"load", l>> \in packet
      /\ M \in SUBSET Sq /\ \A f \in Sq : f \in M <=> <<"store", f>> \in packet
      /\ Enumerates(y, M)
  BY <1>1 DEF PacketGoes
<1>5. h.RTS0 = g.RTS0 /\ h.RTS1 = PushAll(g.RTS1, y)
  BY <1>1, <1>3 DEF PacketGoes, ReadyRec
<1>6. /\ r.rob = q.rob /\ r.sta = q.sta /\ r.inflight = q.inflight
      /\ q.lq = lq /\ r.lq = lq' /\ q.sq = sq /\ r.sq = sq' /\ q.ready = g /\ r.ready = h
  BY <1>2 DEF Core
<1>7. p \in Programs /\ q \in CoreRec(p) /\ LsqInv(p, q, D, n, d, rd)
  BY LsqFacts
<1>8. u = q.sq.at /\ v = r.sq.at /\ u \in [Sq -> StoreRec]
  BY <1>3, <1>6 DEF SqRec
<1>9. sq'.head = sq.head /\ sq'.tail = sq.tail
      /\ \A f \in Sq : v[f] = IF f \in M THEN [u[f] EXCEPT !.translated = "COMPLETED"] ELSE u[f]
  BY <1>1, <1>3 DEF PacketGoes, SqRec
<1>10. \A l \in Lq : lq'[l] = IF l \in K THEN [lq[l] EXCEPT !.translated = "COMPLETED"] ELSE lq[l]
  BY <1>1 DEF PacketGoes
<1>11. \A l \in K : lq[l].addr # Nil
  <2>1. K \subseteq {l \in Lq : <<"load", l>> \in dtlb}
    BY <1>4
  <2> QED
    BY <1>3, <2>1 DEF LoadStages, InStage
<1> HIDE DEF q, r, p, n, d, rd, D, E, g, h, u, v
<1>12. \A l \in Lq : KeepsLoad(q.lq[l], r.lq[l])
  <2> SUFFICES ASSUME NEW l \in Lq PROVE KeepsLoad(lq[l], lq'[l])
    BY <1>6
  <2>1. CASE l \in K
    <3>1. lq[l] \in LoadRec /\ lq[l].addr # Nil
      BY <1>3, <1>11, <2>1
    <3>2. KeepsLoad(lq[l], [lq[l] EXCEPT !.translated = "COMPLETED"])
      BY <3>1, StagedLoad
    <3> QED
      BY <1>10, <2>1, <3>2
  <2>2. CASE l \notin K
    BY <1>10, <2>2 DEF KeepsLoad
  <2> QED
    BY <2>1, <2>2
<1>13. StoreStages(u, g, D)
  BY <1>6, <1>7, <1>8 DEF LsqInv, Stores
<1>14. \A f \in M : u[f].addr # Nil /\ u[f].fetched = "NO" /\ u[f] \in StoreRec
  <2>1. M \subseteq {f \in Sq : <<"store", f>> \in D}
    BY <1>4
  <2> QED
    BY <1>8, <1>13, <2>1 DEF StoreStages, InStoreStage
<1>15. /\ RestageStore(u, v, M, "COMPLETED", "NO")
       /\ \A f \in Sq : KeepsStore(u[f], v[f])
  <2>1. \A f \in M : /\ KeepsStore(u[f], v[f]) /\ v[f].addr = u[f].addr
                     /\ v[f].translated = "COMPLETED" /\ v[f].fetched = "NO"
    <3> SUFFICES ASSUME NEW f \in M
                 PROVE  /\ KeepsStore(u[f], v[f]) /\ v[f].addr = u[f].addr
                        /\ v[f].translated = "COMPLETED" /\ v[f].fetched = "NO"
      OBVIOUS
    <3>1. v[f] = [u[f] EXCEPT !.translated = "COMPLETED"]
      BY <1>4, <1>9
    <3> QED
      BY <1>14, <3>1, StagedStore
  <2>2. \A f \in Sq \ M : v[f] = u[f]
    BY <1>9
  <2> QED
    BY <2>1, <2>2 DEF RestageStore, KeepsStore
<1>16. StoreStages(v, h, D \ packet)
  BY <1>4, <1>5, <1>13, <1>15, StoreStagesTranslated
<1>17. StoreStages(r.sq.at, r.ready, E)
  BY <1>4, <1>6, <1>8, <1>16
<1>18. KeepsCore(q, r)
  BY <1>6, <1>8, <1>9, <1>12, <1>15 DEF KeepsCore, KeepsOperands
<1>19. LsqInv(p, r, E, n, d, rd)
  BY <1>7, <1>17, <1>18, LsqKept
<1> QED
  BY <1>2, <1>19 DEF Lsq, r, p, n, d, rd, E

\* Operations that are done and loads that leave the queue keep the stores of each slot.
LEMMA DoneKeepsStores ==
  ASSUME NEW b, NEW c, NEW n, \A t \in Slot : IsWithoutOps(b.at[t], c.at[t], n[t])
  PROVE  \A t \in Slot : SameStores(b.at[t], c.at[t]) /\ SameAdded(b.at[t], c.at[t])
BY DEF IsWithoutOps, SameRegs, SameStores, SameAdded

\* Loads that get their data leave the queue with the stores as they were.
LEMMA ReleaseKeepsLsq ==
  ASSUME NEW p \in Programs, NEW q \in CoreRec(p), NEW r, NEW D, NEW n, NEW d, NEW rd,
         LsqInv(p, q, D, n, d, rd), IdsOf(p, q.rob),
         NEW L \in SUBSET Lq, \A l \in L : q.lq[l].addr # Nil,
         NEW v, IsReleased(p, q, r, L, v)
  PROVE  LsqInv(p, r, D, n, d, rd)
<1>1. Accounts(p, r)
  BY AccountsReleased DEF LsqInv
<1>2. r.sq = q.sq /\ r.sta = q.sta /\ r.ready = q.ready
  BY DEF IsReleased
<1> DEFINE k == [t \in Slot |-> Cardinality(InLoads(q, L, t))]
<1>3. \A t \in Slot : IsWithoutOps(q.rob.at[t], r.rob.at[t], k[t])
  BY DEF IsReleased
<1> HIDE DEF k
<1> DEFINE b == q.rob
           c == r.rob
<1>4. \A t \in Slot : SameStores(b.at[t], c.at[t]) /\ SameAdded(b.at[t], c.at[t])
  BY <1>3, DoneKeepsStores
<1>5. AddedIsIssued(p, r.rob)
  BY <1>4, AddedKept DEF LsqInv
<1> QED
  BY <1>1, <1>2, <1>4, <1>5, ExecutionKeepsStores

\* the answers of the L1D,
LEMMA DataDoneKeepsLsq ==
  ASSUME Machine, Registers, Lsq, NEW packet, DataDone(packet)
  PROVE  Lsq'
<1> DEFINE q == Core
           p == program
           n == Len(results)
           d == dispatched
           rd == read
           D == dtlb
<1>1. PICK r, v : /\ Become(r) /\ packet \in SUBSET l1d /\ l1d \in SUBSET Lq
                  /\ IsReleased(p, q, r, packet, v)
                  /\ UNCHANGED <<program, read, dispatched, dtlb, memory, results>>
  BY DataDoneGoes
<1>2. /\ p \in Programs /\ q \in CoreRec(p) /\ LsqInv(p, q, D, n, d, rd) /\ IdsOf(p, rob)
      /\ q.rob = rob /\ q.lq = lq
  BY LsqFacts DEF Core
<1>3. \A l \in packet : lq[l].addr # Nil
  BY <1>1 DEF Machine, LoadStages, InStage
<1>4. Core' = r
  BY <1>1, BecomesCore DEF IsReleased
<1>5. l1dWQ' = l1dWQ
  BY DEF DataDone
<1> HIDE DEF q, p, n, d, rd, D
<1>6. LsqInv(p, r, D, n, d, rd)
  <2>1. packet \in SUBSET Lq /\ \A l \in packet : q.lq[l].addr # Nil
    BY <1>1, <1>2, <1>3
  <2>2. IdsOf(p, q.rob)
    BY <1>2
  <2> QED
    BY <1>1, <1>2, <2>1, <2>2, ReleaseKeepsLsq
<1> QED
  BY <1>1, <1>4, <1>5, <1>6 DEF Lsq, p, n, d, rd, D

\* The store f of slot s executes; the loads it forwards to are still in the queue.
LEMMA ExecutesKeepsLsq ==
  ASSUME program \in Programs, NEW q \in CoreRec(program), NEW x, NEW r, NEW D, NEW n, NEW d, NEW rd,
         LsqInv(program, q, D, n, d, rd), IdsOf(program, q.rob),
         NEW f \in Sq, f = First(q.ready.RTS1), f # Nil, NEW s \in Slot, s = q.sq.at[f].rob_index,
         Executes(q, x, f), NEW k, k = [t \in Slot |-> IF t = s THEN 1 ELSE 0],
         IsOpsDone(program, x, r, k)
  PROVE  LsqInv(program, r, D, n, d, rd)
<1> DEFINE p == program
           e == q.sq.at[f]
           u == q.sq.at
           v == x.sq.at
<1>1. PICK g, a : StoresUpTo(p, g) /\ Stores(p, g, q, D, n, d, rd, a)
  BY DEF LsqInv
<1>2. q.sq \in SqRec /\ u \in [Sq -> StoreRec] /\ e \in StoreRec
  BY CoreFields DEF SqRec
<1>3. StoreStages(u, q.ready, D)
  BY <1>1 DEF Stores
<1>4. f \in InStoreStage(u, "COMPLETED", "NO")
  BY <1>3, Sizes, FirstIsInRing DEF StoreStages
<1>5. e.addr # Nil /\ e.translated = "COMPLETED" /\ e.fetched = "NO"
  BY <1>4 DEF InStoreStage
<1>6. f \in InSq(q, s)
  BY <1>5 DEF InSq
<1>7. IsStoreOf(p, q.rob, e)
  <2>1. StoresHeld(p, q.rob, q.sq)
    BY <1>1, WindowHolds DEF Stores
  <2>2. e # NoStore
    BY <1>5 DEF NoStore
  <2> QED
    BY <2>1, <2>2 DEF StoresHeld
<1>8. q.rob.at[s].id # 0 /\ Accesses(p, q.rob.at[s])
  <2> DEFINE i == q.rob.at[s].id
  <2>1. i = e.id /\ e.id \in 1 .. Len(p) /\ e.data_index \in DOMAIN p[e.id].stores
    BY ZenonT(60), <1>7 DEF IsStoreOf
  <2>2. i \in 1 .. Len(p) /\ DOMAIN p[i].stores # {}
    BY Zenon, <2>1
  <2> HIDE DEF i
  <2>3. DOMAIN p[i].stores = 1 .. Len(p[i].stores) /\ Len(p[i].stores) \in Nat /\ Len(p[i].loads) \in Nat
    BY <2>2, ProgramFacts
  <2>4. i # 0 /\ Len(p[i].stores) > 0
    BY <2>2, <2>3
  <2>5. MemOps(p[i]) > 0
    <3> DEFINE c == Len(p[i].stores)
               m == Len(p[i].loads)
    <3>1. MemOps(p[i]) = m + c
      BY DEF MemOps
    <3>2. c \in Nat /\ m \in Nat /\ c > 0
      BY <2>3, <2>4
    <3> HIDE DEF c, m
    <3> QED
      BY <3>1, <3>2
  <2> QED
    BY ZenonT(60), <2>4, <2>5 DEF Accesses, i
<1>9. Accounts(p, r)
  <2>1. Accounts(p, q)
    BY DEF LsqInv
  <2> QED
    BY Zenon, <1>6, <1>8, <2>1, AccountsExecuted
<1>10. /\ x.rob = q.rob /\ x.sta = q.sta /\ x.sq.head = q.sq.head /\ x.sq.tail = q.sq.tail
       /\ x.ready.RTS0 = q.ready.RTS0 /\ x.ready.RTS1 = Pop(q.ready.RTS1)
       /\ \A m \in Sq : v[m] = IF m = f THEN [u[f] EXCEPT !.fetched = "COMPLETED"] ELSE u[m]
  BY SMTT(30) DEF Executes
<1>11. /\ r.sq = x.sq /\ r.sta = x.sta /\ r.ready = x.ready
       /\ \A t \in Slot : IsWithoutOps(x.rob.at[t], r.rob.at[t], k[t])
  BY DEF IsOpsDone
<1>12. \A t \in Slot : SameStores(q.rob.at[t], r.rob.at[t]) /\ SameAdded(q.rob.at[t], r.rob.at[t])
  <2> DEFINE b == q.rob
             c == r.rob
  <2>1. \A t \in Slot : IsWithoutOps(b.at[t], c.at[t], k[t])
    BY <1>10, <1>11
  <2> HIDE DEF b, c
  <2>2. \A t \in Slot : SameStores(b.at[t], c.at[t]) /\ SameAdded(b.at[t], c.at[t])
    BY <2>1, DoneKeepsStores
  <2> QED
    BY <2>2 DEF b, c
<1>13. AddedIsIssued(p, r.rob)
  BY <1>12, AddedKept DEF LsqInv
<1> DEFINE z == [u[f] EXCEPT !.fetched = "COMPLETED"]
<1>14. z.addr = e.addr /\ z.translated = "COMPLETED" /\ z.fetched = "COMPLETED"
       /\ z.id = e.id /\ z.rob_index = e.rob_index /\ z.data_index = e.data_index
  BY <1>2, <1>5 DEF StoreRec
<1> HIDE DEF z
<1>15. \A m \in Sq : v[m] = IF m = f THEN z ELSE u[m]
  BY <1>10 DEF z
<1>16. StoreStages(v, x.ready, D)
  <2> DEFINE K == {f}
             h == x.ready
             g0 == q.ready
  <2>1. RestageStore(u, v, {f}, "COMPLETED", "COMPLETED")
    BY <1>14, <1>15 DEF RestageStore
  <2>2. f = First(g0.RTS1) /\ h.RTS1 = Pop(g0.RTS1) /\ h.RTS0 = g0.RTS0
    BY <1>10
  <2> HIDE DEF h, g0
  <2>3. StoreStages(u, g0, D)
    BY <1>3 DEF g0
  <2>4. StoreStages(v, h, D)
    BY SMTT(30), <2>1, <2>2, <2>3, StoreStagesExecute
  <2> QED
    BY SMTT(30), <2>4 DEF h
<1>17. \A m \in Sq : SameStore(u[m], r.sq.at[m])
  BY <1>5, <1>11, <1>14, <1>15 DEF SameStore
<1>18. StoreStages(r.sq.at, r.ready, D)
  BY <1>11, <1>16
<1>19. r.sq.head = q.sq.head /\ r.sq.tail = q.sq.tail /\ r.sta = q.sta
  BY <1>10, <1>11
<1> HIDE DEF u, v, e
<1>20. Stores(p, g, r, D, n, d, rd, a)
  <2>1. \A m \in Sq : SameStore(q.sq.at[m], r.sq.at[m])
    BY <1>17 DEF u
  <2>2. p \in Programs /\ q.sq.at \in [Sq -> StoreRec]
    BY <1>2 DEF u
  <2>3. Stores(p, g, q, D, n, d, rd, a)
    BY <1>1
  <2> HIDE DEF p
  <2> QED
    BY <1>12, <1>18, <1>19, <2>1, <2>2, <2>3, StoresStay
<1> QED
  BY <1>1, <1>9, <1>13, <1>20 DEF LsqInv

\* The store at the head of RTS1 has executed, which is y, and hands the values v to the loads L
\* that wait for it, which is r.
Forwards(y, r, L, v) ==
  /\ y \in CoreRec(program) /\ y.lq = lq /\ y.got = got
  /\ \E n : \A t \in Slot : IsWithoutOps(rob.at[t], y.rob.at[t], n[t])
  /\ IdsOf(program, y.rob) /\ LsqInv(program, y, dtlb, Len(results), dispatched, read)
  /\ L \in SUBSET Lq /\ \A l \in L : lq[l].addr # Nil /\ lq[l].producer_id = v[l] /\ v[l] # Nil
  /\ IsReleased(program, y, r, L, v)

\* The loads it forwards to are still in the queue.
LEMMA StoreForwards ==
  ASSUME Machine, Registers, Lsq, execute_store
  PROVE  \E y, r, L, v : /\ Forwards(y, r, L, v) /\ Become(r)
                         /\ UNCHANGED <<program, read, dispatched, dtlb, l1dWQ, memory, results>>
<1> DEFINE q == Core
           p == program
           n == Len(results)
           d == dispatched
           rd == read
           D == dtlb
           f == First(ready.RTS1)
           s == sq.at[f].rob_index
           L == ForwardTo(f)
           k == [t \in Slot |-> IF t = s THEN 1 ELSE 0]
           w == [l \in Lq |-> sq.at[f].id]
<1>1. PICK r : /\ Become(r) /\ StoreGoesOn(r)
               /\ UNCHANGED <<program, read, dispatched, dtlb, l1d, memory, results>>
  BY ExecuteStoreGoes
<1>2. /\ f \in Sq /\ s \in Slot /\ L \in SUBSET Lq
      /\ \A l \in L : lq[l].producer_id = sq.at[f].id
  BY <1>1 DEF StoreGoesOn
<1>3. PICK x, y : /\ Executes(q, x, f) /\ IsOpsDone(program, x, y, k)
                  /\ IsReleased(program, y, r, L, w)
  BY <1>1 DEF StoreGoesOn
<1>4. l1dWQ' = l1dWQ
  BY DEF execute_store, outside
<1>5. f # Nil
  BY DEF execute_store
<1>6. /\ p \in Programs /\ q \in CoreRec(p) /\ LsqInv(p, q, D, n, d, rd) /\ IdsOf(p, rob)
      /\ q.rob = rob /\ q.lq = lq /\ q.sq = sq /\ q.ready = ready /\ q.got = got
  BY LsqFacts DEF Core
<1>7. \A l \in L : lq[l].addr # Nil /\ lq[l].producer_id = w[l] /\ w[l] # Nil
  <2>1. TAKE l \in L
  <2>2. sq.at[f].id \in Nat /\ Nil \notin Int
    BY <1>2, Sizes DEF Machine, SqRec, StoreRec
  <2>3. lq[l].producer_id # Nil /\ w[l] # Nil /\ lq[l].producer_id = w[l]
    BY <1>2, <2>2
  <2>4. lq[l] # NoLoad
    BY <2>3 DEF NoLoad
  <2>5. LoadsNamed(p, q)
    BY <1>6 DEF LsqInv, Accounts
  <2>6. lq[l].addr \in Addr
    BY <1>2, <1>6, <2>4, <2>5 DEF LoadsNamed, IsLoadOf
  <2> QED
    BY <2>3, <2>6, Sizes
<1>8. x.rob = q.rob /\ y.lq = q.lq /\ y.got = q.got /\ y \in CoreRec(p) /\ x \in CoreRec(p)
  BY <1>3 DEF Executes, IsOpsDone
<1>9. \A t \in Slot : IsWithoutOps(rob.at[t], y.rob.at[t], k[t])
  <2> HIDE DEF k, q
  <2> QED
    BY <1>3, <1>6, <1>8 DEF IsOpsDone
<1>10. IdsOf(p, y.rob)
  <2> HIDE DEF k, q, p
  <2>1. \A t \in Slot : y.rob.at[t].id = rob.at[t].id
    BY <1>9 DEF IsWithoutOps, SameRegs
  <2> QED
    BY <1>6, <2>1 DEF IdsOf
<1>11. LsqInv(program, y, D, n, d, rd)
  <2>1. f = First(q.ready.RTS1) /\ s = q.sq.at[f].rob_index /\ IdsOf(program, q.rob) /\ program \in Programs
        /\ q \in CoreRec(program) /\ LsqInv(program, q, D, n, d, rd)
    BY <1>6
  <2>2. k = [t \in Slot |-> IF t = s THEN 1 ELSE 0]
    OBVIOUS
  <2> HIDE DEF q, f, s, k, D, n, d, rd
  <2> QED
    BY <1>2, <1>3, <1>5, <2>1, <2>2, ExecutesKeepsLsq
<1> HIDE DEF q, f, s, k, L, w
<1>12. Forwards(y, r, L, w)
  BY <1>2, <1>3, <1>6, <1>7, <1>8, <1>9, <1>10, <1>11 DEF Forwards
<1> QED
  BY <1>1, <1>4, <1>12

\* execute_store,
LEMMA ExecuteStoreKeepsLsq ==
  ASSUME Machine, Registers, Lsq, execute_store
  PROVE  Lsq'
<1> DEFINE p == program
           n == Len(results)
           d == dispatched
           rd == read
           D == dtlb
<1>1. PICK y, r, L, v : /\ Forwards(y, r, L, v) /\ Become(r)
                        /\ UNCHANGED <<program, read, dispatched, dtlb, l1dWQ, memory, results>>
  BY StoreForwards
<1>2. Core' = r
  BY <1>1, BecomesCore DEF Forwards, IsReleased
<1>3. p \in Programs
  BY LsqFacts
<1>4. /\ y \in CoreRec(p) /\ LsqInv(p, y, D, n, d, rd) /\ IdsOf(p, y.rob)
      /\ L \in SUBSET Lq /\ IsReleased(p, y, r, L, v)
      /\ \A l \in L : y.lq[l].addr # Nil
  BY <1>1 DEF Forwards
<1> HIDE DEF p, n, d, rd, D
<1>5. LsqInv(p, r, D, n, d, rd)
  BY <1>3, <1>4, ReleaseKeepsLsq
<1> QED
  BY <1>1, <1>2, <1>5 DEF Lsq, p, n, d, rd, D

\* retire_rob,
LEMMA RetireKeepsLsq ==
  ASSUME Machine, Registers, Lsq, retire_rob
  PROVE  Lsq'
<1> DEFINE q == Core
           r == Core'
           p == program
           n == Len(results)
           d == dispatched
           rd == read
           D == dtlb
           s == rob.head
           b == rob'
           K == StoreEntries(s)
           c == Len(InstrIn(s).stores)
<1>1. /\ InRob(s) /\ At(s).executed = "COMPLETED"
      /\ l1dWQ + c \leq L1D_WQ_SIZE /\ l1dWQ' = l1dWQ + c
      /\ sq' = [sq EXCEPT !.at = [f \in Sq |-> IF f \in K THEN NoStore ELSE sq.at[f]],
                          !.head = (sq.head + Cardinality(K)) % SQ_SIZE]
      /\ results' = Append(results, got[At(s).id])
      /\ UNCHANGED <<program, read, dispatched, lq, sta, ready, inflight, got, dtlb, l1d>>
  BY DEF retire_rob, trace
<1>2. /\ rob \in Rob /\ s \in Slot /\ RegInv(p, rob, d, n) /\ InTrace(p, rd, d, n) /\ sq \in SqRec
  BY DEF Machine, Registers, Rob
<1>3. /\ b \in Rob /\ b.tail = rob.tail /\ b.head = (s + 1) % ROB_SIZE /\ b.at[s] = NoInstr
      /\ \A t \in Slot : t # s => b.at[t] = rob.at[t]
  BY <1>2, RetiredEntry
<1>4. rob.at[s].id # 0 /\ rob.at[s].executed = "COMPLETED"
  BY <1>1 DEF InRob, At
<1>5. rob.at[s].id = n + 1 /\ n < d
  <2> HIDE DEF b, n, p, d, rd
  <2> QED
    BY <1>2, <1>3, <1>4, RegsWithoutRetired
<1>6. Len(results') = n + 1
  BY <1>1, AppendProperties DEF Machine
<1>7. /\ p \in Programs /\ q \in CoreRec(p) /\ LsqInv(p, q, D, n, d, rd) /\ IdsOf(p, rob)
      /\ OneEach(rob, d, n)
  BY LsqFacts
<1>8. /\ r.rob = b /\ q.rob = rob /\ r.lq = q.lq /\ r.sq = sq' /\ q.sq = sq /\ r.ready = q.ready
      /\ r.inflight = q.inflight /\ r.sta = q.sta
  BY <1>1 DEF Core
<1>9. K = NamedBy(rob.at[s])
  BY DEF StoreEntries, NamedBy, At
<1>10. c \in Nat
  <2>1. rob.at[s].id \in 1 .. Len(p)
    <3> HIDE DEF s, p
    <3>1. rob.at[s].id \in 0 .. Len(p) /\ rob.at[s].id # 0
      BY <1>2, <1>4, <1>7 DEF IdsOf
    <3>2. Len(p) \in Nat
      BY <1>2, TraceFacts
    <3> QED
      BY <3>1, <3>2
  <2> QED
    BY <1>7, <2>1, ProgramFacts DEF InstrIn, At
<1>11. n \in 0 .. Len(p) - 1 /\ d \in n + 1 .. Len(p)
  <2> HIDE DEF n, d, p, rd
  <2>1. Len(p) \in Nat
    BY <1>2, TraceFacts
  <2> QED
    BY <1>2, <1>5, <2>1 DEF InTrace
<1>12. l1dWQ' \in 0 .. L1D_WQ_SIZE
  <2> HIDE DEF c
  <2> QED
    BY <1>1, <1>10, Sizes DEF Lsq
<1> HIDE DEF q, r, p, n, d, rd, D, s, b, K, c
<1>13. PICK f, a : StoresUpTo(p, f) /\ Stores(p, f, q, D, n, d, rd, a)
  BY <1>7 DEF LsqInv
<1>14. StoresHeld(p, q.rob, q.sq)
  BY <1>13, WindowHolds DEF Stores
<1>15. Accounts(p, q)
  BY <1>7 DEF LsqInv
<1>16. NothingLeft(p, q, s)
  BY <1>2, <1>4, <1>7, <1>8, <1>14, <1>15, CompleteHasNothingLeft
<1>17. DifferentIds(p, q.rob)
  BY <1>7, <1>8 DEF OneEach, IdsOf, DifferentIds
<1>18. /\ r.sq.head = (q.sq.head + Cardinality(K)) % SQ_SIZE /\ r.sq.tail = q.sq.tail
       /\ \A g \in Sq : r.sq.at[g] = IF g \in K THEN NoStore ELSE q.sq.at[g]
  BY <1>1, <1>2, <1>8 DEF SqRec
<1>19. WithoutStores(q.sq.at, r.sq.at, K) /\ SameSlotsBut(q.rob, r.rob, s) /\ r.rob.at[s] = NoInstr
  BY <1>3, <1>8, <1>18 DEF WithoutStores, SameSlotsBut
<1>20. Stores(p, f, r, D, n + 1, d, rd, a) /\ \A g \in K : q.sq.at[g].rob_index = s
  <2> DEFINE i == n + 1
  <2>1. q.rob.at[s].id = i /\ K = NamedBy(q.rob.at[s])
    BY <1>5, <1>8, <1>9
  <2>2. RetiresWith(p, q, r, i, s, K)
    BY <1>8, <1>16, <1>18, <1>19, <2>1 DEF RetiresWith
  <2>3. i = n + 1
    OBVIOUS
  <2> HIDE DEF i
  <2>5. p \in Programs /\ q \in CoreRec(p) /\ s \in Slot
    BY <1>2, <1>7
  <2>6. DifferentIds(p, q.rob)
    BY <1>17
  <2>7. n \in 0 .. Len(p) - 1
    BY <1>11
  <2>8. d \in n + 1 .. Len(p)
    BY <1>11
  <2>9. Stores(p, f, q, D, n, d, rd, a) /\ StoresUpTo(p, f)
    BY <1>13
  <2>4. Stores(p, f, r, D, i, d, rd, a) /\ AreOf(q, K, s)
    BY ONLY <2>2, <2>3, <2>5, <2>6, <2>7, <2>8, <2>9, StoresRetired
  <2> QED
    BY <2>3, <2>4 DEF AreOf
<1>21. \A t \in Slot : t # s => r.rob.at[t] = q.rob.at[t]
  BY <1>3, <1>8
<1>22. Accounts(p, r)
  BY <1>2, <1>4, <1>7, <1>8, <1>15, <1>16, <1>18, <1>19, <1>20, <1>21, AccountsRetired
<1>23. AddedIsIssued(p, r.rob)
  <2>1. r.rob.at[s].id = 0
    BY <1>19 DEF NoInstr
  <2>2. \A t \in Slot : r.rob.at[t].id = 0 \/ r.rob.at[t].executed # "NO" \/ SameAdded(q.rob.at[t], r.rob.at[t])
    BY <1>21, <2>1 DEF SameAdded
  <2>3. AddedIsIssued(p, q.rob)
    BY <1>7 DEF LsqInv
  <2> QED
    BY <2>2, <2>3, AddedKept
<1>24. LsqInv(p, r, D, n + 1, d, rd)
  BY <1>13, <1>20, <1>22, <1>23 DEF LsqInv
<1> QED
  BY <1>1, <1>6, <1>12, <1>24 DEF Lsq, r, p, n, d, rd, D

\* and the L1D as it takes a store out of its write queue.
LEMMA L1DWritesKeepsLsq ==
  ASSUME Lsq, L1DWrites
  PROVE  Lsq'
<1>1. /\ l1dWQ > 0 /\ l1dWQ' = l1dWQ - 1
      /\ UNCHANGED <<program, read, dispatched, rob, lq, sq, sta, ready, inflight, got, dtlb, results>>
  BY DEF L1DWrites, trace, core, history
<1>2. Core' = Core
  BY <1>1 DEF Core
<1>3. l1dWQ' \in 0 .. L1D_WQ_SIZE
  BY <1>1, Sizes DEF Lsq
<1> QED
  BY <1>1, <1>2, <1>3 DEF Lsq

\* Every step keeps it.
LEMMA LsqStep ==
  ASSUME StaSuffices, Machine, Registers, Lsq, [Next]_vars
  PROVE  Lsq'
<1>1. CASE read_from_trace
  BY <1>1, ReadKeepsLsq
<1>2. CASE add_to_rob
  BY <1>2, AddKeepsLsq
<1>3. ASSUME NEW s \in Slot, do_scheduling(s)  PROVE Lsq'
  BY <1>3, ScheduleKeepsLsq
<1>4. ASSUME NEW ring \in {"RTE0", "RTE1"}, do_execution(ring)  PROVE Lsq'
  BY <1>4, ExecuteKeepsLsq
<1>5. ASSUME NEW s \in Slot, complete_execution(s)  PROVE Lsq'
  BY <1>5, CompleteKeepsLsq
<1>6. ASSUME NEW s \in Slot, do_memory_scheduling(s)  PROVE Lsq'
  BY <1>6, MemoryKeepsLsq
<1>7. CASE TranslateStore
  BY <1>7, TranslateStoreKeepsLsq
<1>8. CASE TranslateLoad
  BY <1>8, TranslateLoadKeepsLsq
<1>9. CASE execute_store
  BY <1>9, ExecuteStoreKeepsLsq
<1>10. CASE execute_load
  BY <1>10, ExecuteLoadKeepsLsq
<1>11. ASSUME NEW packet, NEW own, TranslationDone(own, packet)  PROVE Lsq'
  BY <1>11, TranslationKeepsLsq
<1>12. ASSUME NEW packet, DataDone(packet)  PROVE Lsq'
  BY <1>12, DataDoneKeepsLsq
<1>13. CASE L1DWrites
  BY <1>13, L1DWritesKeepsLsq
<1>14. CASE retire_rob
  BY <1>14, RetireKeepsLsq
<1>15. CASE UNCHANGED vars
  <2>1. UNCHANGED <<program, read, dispatched, rob, lq, sq, sta, ready, inflight, got, dtlb, l1dWQ, results>>
    BY <1>15 DEF vars, trace, core, outside, history
  <2>2. Core' = Core
    BY <2>1 DEF Core
  <2> QED
    BY <2>1, <2>2 DEF Lsq
<1>16. CASE Work
  BY <1>1, <1>2, <1>3, <1>4, <1>5, <1>6, <1>7, <1>8, <1>9, <1>10, <1>11, <1>12, <1>13, <1>14, <1>16
  DEF Work
<1> QED
  BY <1>15, <1>16 DEF Next, Done

\* The operands of the instructions are counted, their stores are in program order from STA
\* to retirement, and no step disturbs that, where STA has room for the stores of what is
\* read and not retired (check_and_add_lsq, operate_lsq, complete_data_fetch, retire_rob).
THEOREM LsqIsKept == StaSuffices => (Spec => []Lsq)
<1> SUFFICES ASSUME StaSuffices  PROVE Spec => []Lsq
  OBVIOUS
<1>1. Init => Lsq
  BY LsqInitially
<1>2. Machine /\ Registers /\ Lsq /\ [Next]_vars => Lsq'
  BY LsqStep
<1> QED
  BY <1>1, <1>2, MachineIsKept, PTL DEF Spec

-----------------------------------------------------------------------------
(* What the invariant says of the properties                               *)

\* Multiples grow with their multipliers.
LEMMA TimesGrow ==
  ASSUME NEW a \in Nat, NEW b \in Nat, NEW n \in Nat, a <= b
  PROVE  a * n <= b * n
<1> DEFINE c == b - a
<1>1. c \in Nat /\ b = a + c
  OBVIOUS
<1> HIDE DEF c
<1>2. c * n \in Nat /\ a * n \in Nat
  BY <1>1
<1>3. (a + c) * n = a * n + c * n
  BY <1>1
<1> QED
  BY <1>1, <1>2, <1>3

\* STA is large enough where it has NUM_INSTR_DESTINATIONS places for each instruction that
\* may be read and not retired: STA_SIZE is ROB_SIZE * NUM_INSTR_DESTINATIONS_SPARC
\* (inc/ooo_cpu.h:28), twice what an instruction of the plain trace format can store.
THEOREM StaIsEnough == STA_SIZE >= (ROB_SIZE + FRONT_SIZE) * NUM_INSTR_DESTINATIONS => StaSuffices
<1> DEFINE N == NUM_INSTR_DESTINATIONS
           R == ROB_SIZE + FRONT_SIZE
<1>1. SUFFICES ASSUME STA_SIZE >= R * N, NEW p \in Programs, NEW f, StoresUpTo(p, f),
                      NEW i \in 0 .. Len(p), NEW j \in i .. Len(p), j - i <= R
               PROVE  f[j] - f[i] <= STA_SIZE
  BY DEF StaSuffices
<1>2. Len(p) \in Nat /\ N \in Nat /\ R \in Nat /\ STA_SIZE \in Nat
  BY ProgramsAssumption, LenProperties, Sizes, SizesAssumption
<1> HIDE DEF N, R
<1>3. f \in [0 .. Len(p) -> Nat] /\ \A n \in 1 .. Len(p) : f[n] = f[n - 1] + Len(p[n].stores)
  BY <1>1 DEF StoresUpTo
<1> DEFINE S == {k \in 0 .. j - i : f[i + k] <= f[i] + k * N}
<1>4. j - i \in Nat
  BY <1>2
<1>5. 0 \in S
  BY <1>2, <1>3, <1>4
<1>6. ASSUME NEW k \in 1 .. j - i, k - 1 \in S  PROVE k \in S
  <2>1. i + k \in 1 .. Len(p) /\ i + k - 1 = i + (k - 1) /\ i + (k - 1) \in 0 .. Len(p) /\ k - 1 \in Nat
    BY <1>2, <1>4
  <2>2. f[i + k] = f[i + (k - 1)] + Len(p[i + k].stores) /\ Len(p[i + k].stores) \in Nat
    BY <1>3, <2>1, ProgramFacts
  <2>3. Len(p[i + k].stores) <= N
    BY <2>1, ProgramsAssumption DEF N
  <2>4. f[i + (k - 1)] <= f[i] + (k - 1) * N /\ f[i] \in Nat /\ f[i + (k - 1)] \in Nat
    BY <1>3, <1>6, <2>1
  <2>5. (k - 1) * N + N = k * N /\ (k - 1) * N \in Nat
    BY <1>2, <2>1
  <2>6. f[i + k] <= f[i] + k * N
    <3> DEFINE x == f[i + k]
               y == f[i + (k - 1)]
               z == f[i]
               a == (k - 1) * N
               b == k * N
               c == Len(p[i + k].stores)
    <3>1. x = y + c /\ c \in Nat /\ c <= N /\ y <= z + a /\ z \in Nat /\ y \in Nat /\ a + N = b /\ a \in Nat
      BY <2>2, <2>3, <2>4, <2>5
    <3> HIDE DEF x, y, z, a, b, c
    <3>2. x <= z + b
      BY <1>2, <3>1
    <3> QED
      BY <3>2 DEF x, z, b
  <2> QED
    BY <2>6
<1> HIDE DEF S
<1>7. \A k \in 0 .. j - i : k \in S
  BY <1>4, <1>5, <1>6, UpTo
<1>8. f[j] <= f[i] + (j - i) * N
  <2>1. j - i \in S /\ i + (j - i) = j
    BY <1>2, <1>4, <1>7
  <2> QED
    BY <2>1 DEF S
<1>9. (j - i) * N <= R * N
  <2> DEFINE k == j - i
  <2>1. k \in Nat /\ k <= R
    BY <1>1, <1>4
  <2> HIDE DEF k
  <2>2. k * N <= R * N
    BY <1>2, <2>1, TimesGrow
  <2> QED
    BY <2>2 DEF k
<1> QED
  <2> DEFINE x == f[j]
             z == f[i]
             a == (j - i) * N
             b == R * N
  <2>1. x \in Nat /\ z \in Nat
    BY SMTT(30), <1>2, <1>3
  <2>2. a \in Nat /\ b \in Nat
    BY <1>2, <1>4
  <2>3. x <= z + a /\ a <= b /\ b <= STA_SIZE
    BY <1>1, <1>2, <1>8, <1>9
  <2> HIDE DEF x, z, a, b
  <2>4. x - z <= STA_SIZE
    BY <1>2, <2>1, <2>2, <2>3
  <2> QED
    BY <2>4 DEF x, z

\* The counts are those of the slots of the buffer.
LEMMA CountedOperands ==
  ASSUME Machine, Registers, Lsq
  PROVE  OperandsAccountedFor
<1> DEFINE q == Core
           p == program
<1>1. /\ p \in Programs /\ q \in CoreRec(p) /\ IdsOf(p, rob) /\ Accounts(p, q) /\ AddedIsIssued(p, rob)
      /\ q.rob = rob /\ q.lq = lq /\ q.sq = sq /\ q.inflight = inflight /\ rob \in Rob
  <2>1. LsqInv(p, q, dtlb, Len(results), dispatched, read)
    BY LsqFacts
  <2> QED
    BY <2>1, LsqFacts DEF LsqInv, Core, Machine
<1> HIDE DEF q, p
<1>2. ASSUME NEW s \in Slot, InRob(s)
      PROVE  At(s).num_mem_ops =
         Cardinality(DOMAIN InstrIn(s).loads \ At(s).source_added)
         + Cardinality(DOMAIN InstrIn(s).stores \ At(s).destination_added)
         + Cardinality({l \in Lq : lq[l].addr # Nil /\ lq[l].rob_index = s})
         + Cardinality({f \in Sq : /\ sq.at[f].addr # Nil
                                   /\ sq.at[f].rob_index = s
                                   /\ sq.at[f].fetched # "COMPLETED"})
  <2>1. Counts(p, q, s)
    BY <1>1, <1>2 DEF Accounts, OperandsCounted, InRob, At
  <2>2. InLq(q, s) = {l \in Lq : lq[l].addr # Nil /\ lq[l].rob_index = s}
    BY <1>1 DEF InLq
  <2>3. InSq(q, s) = {f \in Sq : /\ sq.at[f].addr # Nil
                                 /\ sq.at[f].rob_index = s
                                 /\ sq.at[f].fetched # "COMPLETED"}
    BY <1>1 DEF InSq
  <2>4. At(s) = q.rob.at[s] /\ InstrIn(s) = p[q.rob.at[s].id]
    BY <1>1 DEF At, InstrIn, p
  <2> QED
    BY <2>1, <2>2, <2>3, <2>4 DEF Counts
<1>3. inflight.reg = Cardinality({s \in Slot : InRob(s) /\ ~IsMemory(s) /\ At(s).executed = "INFLIGHT"})
  <2>1. Executing(p, rob) = {s \in Slot : InRob(s) /\ ~IsMemory(s) /\ At(s).executed = "INFLIGHT"}
    BY DEF Executing, InRob, IsMemory, InstrIn, At, Accesses, p
  <2> QED
    BY <1>1, <2>1 DEF Accounts, InflightCounted
<1>4. inflight.mem = Cardinality({s \in Slot : InRob(s) /\ IsMemory(s) /\ At(s).executed = "INFLIGHT"
                                              /\ At(s).num_mem_ops = 0})
  <2>1. ASSUME NEW s \in Slot, InRob(s), IsMemory(s), At(s).executed = "NO", At(s).num_mem_ops = 0
        PROVE  FALSE
    <3> DEFINE e == q.rob.at[s]
               x == p[e.id].loads
               y == p[e.id].stores
    <3>1. e.id # 0 /\ Accesses(p, e) /\ e.executed = "NO" /\ e.num_mem_ops = 0
      BY <1>1, <2>1 DEF InRob, IsMemory, InstrIn, At, Accesses, p
    <3>2. Counts(p, q, s) /\ IdsOf(p, q.rob)
      BY <1>1, <3>1 DEF Accounts, OperandsCounted
    <3>3. PICK a, b, c, d \in Nat : CountsAre(p, q, s, a, b, c, d)
      BY <1>1, <3>1, <3>2, CountedNumbers
    <3>4. e.num_mem_ops = a + b + c + d
      BY Zenon, <3>3 DEF CountsAre
    <3>5. a = 0 /\ b = 0
      <4> HIDE DEF e
      <4> QED
        BY <3>1, <3>4
    <3>6. /\ a = Cardinality(DOMAIN x \ e.source_added) /\ IsFiniteSet(DOMAIN x \ e.source_added)
          /\ b = Cardinality(DOMAIN y \ e.destination_added) /\ IsFiniteSet(DOMAIN y \ e.destination_added)
          /\ e.source_added \subseteq DOMAIN x /\ e.destination_added \subseteq DOMAIN y
      BY Zenon, <3>3 DEF CountsAre
    <3>7. e.source_added = DOMAIN x /\ e.destination_added = DOMAIN y
      <4> HIDE DEF x, y, e
      <4>1. DOMAIN x \ e.source_added = {} /\ DOMAIN y \ e.destination_added = {}
        BY <3>5, <3>6, FS_EmptySet
      <4> QED
        BY <3>6, <4>1
    <3>8. AllAdded(e, p[e.id])
      BY <3>7 DEF AllAdded
    <3> QED
      BY <1>1, <3>1, <3>8 DEF AddedIsIssued
  <2>2. ASSUME NEW s \in Slot  PROVE At(s).executed \in {"NO", "INFLIGHT", "COMPLETED"}
    BY <1>1 DEF Rob, Entry, Progress, At
  <2>3. HaveData(p, rob) = {s \in Slot : InRob(s) /\ IsMemory(s) /\ At(s).executed = "INFLIGHT"
                                         /\ At(s).num_mem_ops = 0}
    BY <2>1, <2>2 DEF HaveData, InRob, IsMemory, InstrIn, At, Accesses, p
  <2> QED
    BY <1>1, <2>3 DEF Accounts, InflightCounted
<1> QED
  BY <1>2, <1>3, <1>4 DEF OperandsAccountedFor

\* num_mem_ops counts the operands that have no data, and the in-flight counters are exact,
\* so that neither is ever below zero (check_and_add_lsq, execute_store, release_load_queue,
\* complete_execution).
THEOREM OperandsAreCounted == StaSuffices => (Spec => []OperandsAccountedFor)
<1> SUFFICES ASSUME StaSuffices  PROVE Spec => []OperandsAccountedFor
  OBVIOUS
<1>1. Machine /\ Registers /\ Lsq => OperandsAccountedFor
  BY CountedOperands
<1>2. Spec => []Lsq
  BY LsqIsKept
<1> QED
  BY <1>1, <1>2, MachineIsKept, PTL


\* Stores are in the order of their places.
LEMMA StoresByPlace ==
  ASSUME NEW p \in Programs, NEW f, StoresUpTo(p, f), NEW b, NEW e, NEW g, NEW x \in Int, NEW y \in Int,
         HoldsPlace(p, f, b, e, x), HoldsPlace(p, f, b, g, y), x <= y
  PROVE  e.id <= g.id
<1> DEFINE i == e.id
           k == e.data_index
           j == g.id
           m == g.data_index
<1>1. /\ i \in 1 .. Len(p) /\ k \in DOMAIN p[i].stores /\ f[i - 1] + k = x
      /\ j \in 1 .. Len(p) /\ m \in DOMAIN p[j].stores /\ f[j - 1] + m = y
  BY DEF HoldsPlace, IsStoreOf
<1> HIDE DEF i, j, k, m
<1>2. f[i - 1] < x /\ x <= f[i]
  BY <1>1, PlaceOfStore
<1>3. y <= f[j]
  BY <1>1, PlaceOfStore
<1> QED
  <2>1. i <= j
    BY <1>1, <1>2, <1>3, OnePlace
  <2> QED
    BY <2>1 DEF i, j

\* What follows the stores up to place a has a place of its own, above theirs.
LEMMA StoresBeforeSta ==
  ASSUME NEW p \in Programs, NEW f, StoresUpTo(p, f), NEW b, NEW e, NEW x \in Int, NEW a \in Int, x <= a,
         HoldsPlace(p, f, b, e, x), NEW t, NEW rd \in 0 .. Len(p), StaHolds(f, t, a, rd),
         NEW j \in Int, First(t) = j
  PROVE  e.id <= j
<1> DEFINE i == e.id
           k == e.data_index
<1>1. i \in 1 .. Len(p) /\ k \in DOMAIN p[i].stores /\ f[i - 1] + k = x
  BY DEF HoldsPlace, IsStoreOf
<1> HIDE DEF i, k
<1>2. f[i - 1] < x /\ x <= f[i]
  BY <1>1, PlaceOfStore
<1>3. j \in 1 .. rd /\ f[j - 1] < a + 1 /\ a + 1 <= f[j]
  BY StaPopped
<1>4. j \in 1 .. Len(p) /\ x <= a + 1 /\ a + 1 \in Int
  BY <1>3, ProgramsAssumption, LenProperties
<1> QED
  <2>1. i <= j
    BY <1>1, <1>2, <1>3, <1>4, OnePlace
  <2> QED
    BY <2>1 DEF i

\* The entries from the head on are those of the window.
LEMMA OrderedStores ==
  ASSUME Machine, Registers, Lsq
  PROVE  StoreQueueInProgramOrder
<1> DEFINE p == program
           n == Len(results)
           b == rob
           h == sq.head
           place(i) == (h + i) % SQ_SIZE
<1>1. PICK f, a : StoresUpTo(p, f) /\ Stores(p, f, Core, dtlb, n, dispatched, read, a)
  BY LsqFacts DEF LsqInv
<1>2. /\ p \in Programs /\ sq \in SqRec /\ h \in Sq /\ n \in 0 .. Len(p) /\ dispatched \in 0 .. Len(p)
      /\ read \in 0 .. Len(p)
  BY TraceFacts DEF Machine, SqRec
<1>3. /\ a \in f[n] .. f[dispatched] /\ StoreWindow(p, f, b, sq, f[n], a) /\ StaHolds(f, sta, a, read)
  BY <1>1 DEF Stores, Core
<1>4. f[n] \in Nat /\ f[dispatched] \in Nat
  BY <1>1, <1>2 DEF StoresUpTo
<1> DEFINE c == f[n]
           w == a - c
<1>5. a \in Int /\ c \in Nat /\ w \in 0 .. SQ_SIZE /\ SQ_SIZE \in Nat \ {0}
  BY <1>3, <1>4, Sizes DEF StoreWindow
<1>6. SqOccupancy = w /\ \A i \in Sq : sq.at[i].addr # Nil <=> Dist(SQ_SIZE, h, i) < w
  BY <1>2, <1>3, WindowSize DEF SqOccupancy
<1>7. ASSUME NEW i \in 0 .. SQ_SIZE - 1
      PROVE  place(i) \in Sq /\ Dist(SQ_SIZE, h, place(i)) = i
  <2> HIDE DEF h
  <2>1. h \in 0 .. SQ_SIZE - 1 /\ SQ_SIZE \in Nat \ {0}
    BY <1>2, <1>5 DEF Sq
  <2>2. Wrap(SQ_SIZE, h + i) \in 0 .. SQ_SIZE - 1 /\ place(i) = Wrap(SQ_SIZE, h + i)
        /\ Dist(SQ_SIZE, h, Wrap(SQ_SIZE, h + i)) = i
    BY ONLY i \in 0 .. SQ_SIZE - 1, <2>1, PlaceIsDist
  <2> QED
    BY <2>2 DEF Sq
<1>8. ASSUME NEW i \in 0 .. w - 1
      PROVE  i \in 0 .. SQ_SIZE - 1 /\ HoldsPlace(p, f, b, sq.at[place(i)], c + 1 + i)
  <2> HIDE DEF w, place
  <2>1. i \in 0 .. SQ_SIZE - 1 /\ i < w
    BY <1>5
  <2>2. place(i) \in Sq /\ Dist(SQ_SIZE, h, place(i)) = i
    BY <1>7, <2>1
  <2> QED
    BY <1>3, <2>1, <2>2 DEF StoreWindow, w
<1> HIDE DEF p, n, b, h, place, c, w
<1>9. \A i \in 0 .. SQ_SIZE - 1 : sq.at[place(i)].addr # Nil <=> i < w
  BY <1>6, <1>7
<1>10. ASSUME NEW i \in 0 .. w - 1, NEW j \in 0 .. w - 1, i < j
       PROVE  sq.at[place(i)].id <= sq.at[place(j)].id
  <2> DEFINE x == c + 1 + i
             y == c + 1 + j
  <2>1. x \in Int /\ y \in Int /\ x <= y
    BY <1>5, <1>10
  <2>2. HoldsPlace(p, f, b, sq.at[place(i)], x) /\ HoldsPlace(p, f, b, sq.at[place(j)], y)
    BY <1>8
  <2> HIDE DEF x, y
  <2> QED
    BY <1>1, <1>2, <2>1, <2>2, StoresByPlace
<1>11. ASSUME First(sta) # Nil, NEW i \in 0 .. w - 1
       PROVE  sq.at[place(i)].id <= First(sta)
  <2> DEFINE x == c + 1 + i
             j == First(sta)
  <2>1. j \in Int
    BY <1>11, Sizes DEF Machine, RingRec, First
  <2>2. x \in Int /\ x <= a
    BY <1>5 DEF w
  <2>3. HoldsPlace(p, f, b, sq.at[place(i)], x) /\ First(sta) = j
    BY <1>8
  <2>4. StaHolds(f, sta, a, read) /\ StoresUpTo(p, f)
    BY <1>1, <1>3
  <2> HIDE DEF x, j
  <2>5. sq.at[place(i)].id <= j
    BY <1>2, <1>5, <2>1, <2>2, <2>3, <2>4, StoresBeforeSta
  <2> QED
    BY <2>5 DEF j
<1> QED
  BY <1>6, <1>9, <1>10, <1>11 DEF StoreQueueInProgramOrder, place, h

\* The store queue holds the stores in program order, from its head on, and STA the stores that
\* follow them, so that retire_rob releases the entries its instruction names.
THEOREM StoresStayInProgramOrder == StaSuffices => (Spec => []StoreQueueInProgramOrder)
<1> SUFFICES ASSUME StaSuffices  PROVE Spec => []StoreQueueInProgramOrder
  OBVIOUS
<1>1. Machine /\ Registers /\ Lsq => StoreQueueInProgramOrder
  BY OrderedStores
<1>2. Spec => []Lsq
  BY LsqIsKept
<1> QED
  BY <1>1, <1>2, MachineIsKept, PTL


\* A set that has one member or none, by whether b holds.
LEMMA CountOne ==
  ASSUME NEW S, NEW b, b => \E i : S = {i}, ~b => S = {}
  PROVE  Cardinality(S) = IF b THEN 1 ELSE 0
<1>1. CASE b
  BY <1>1, FS_Singleton
<1>2. CASE ~b
  BY <1>2, FS_EmptySet
<1> QED
  BY <1>1, <1>2

\* How often an index is in a ring.
LEMMA CountInRing ==
  ASSUME NEW n \in Nat \ {0}, NEW S, NEW r, RingOf(r, n, S), NEW v \in 0 .. n - 1
  PROVE  Cardinality({i \in 0 .. n - 1 : r.at[i] = v}) = IF v \in S THEN 1 ELSE 0
<1> DEFINE T == {i \in 0 .. n - 1 : r.at[i] = v}
<1>1. (v \in S => \E i : T = {i}) /\ (v \notin S => T = {})
  <2>1. Nil \notin Int
    BY Sizes
  <2>2. /\ v \in S => \E i \in 0 .. n - 1 : {j \in 0 .. n - 1 : r.at[j] = v} = {i}
        /\ v \notin S => {j \in 0 .. n - 1 : r.at[j] = v} = {}
    BY <2>1, InRingOnce
  <2>3. T = {j \in 0 .. n - 1 : r.at[j] = v}
    OBVIOUS
  <2> QED
    BY <2>2, <2>3
<1> HIDE DEF T
<1>2. Cardinality(T) = IF v \in S THEN 1 ELSE 0
  BY <1>1, CountOne
<1> QED
  BY <1>2 DEF T

\* How often a request is among those made.
LEMMA CountRequest ==
  ASSUME NEW D, NEW x
  PROVE  Cardinality({r \in D : r = x}) = IF x \in D THEN 1 ELSE 0
<1> DEFINE T == {r \in D : r = x}
<1>1. (x \in D => T = {x}) /\ (x \notin D => T = {})
  OBVIOUS
<1> HIDE DEF T
<1>2. Cardinality(T) = IF x \in D THEN 1 ELSE 0
  BY <1>1, CountOne
<1> QED
  BY <1>2 DEF T

\* A load is in one stage, or it waits for a store.
LEMMA LoadsInOnePlace ==
  ASSUME Machine, Registers, Lsq, NEW l \in Lq
  PROVE  LoadPlaces(l) = IF lq[l].addr # Nil THEN 1 ELSE 0
<1> DEFINE Is(x, y) == l \in InStage(lq, x, y)
           e == lq[l]
<1>1. LoadStages(lq, ready, dtlb, l1d) /\ Accounts(program, Core) /\ Core.lq = lq
  BY LsqFacts DEF Machine, LsqInv, Core
<1>2. LQ_SIZE \in Nat \ {0} /\ l \in 0 .. LQ_SIZE - 1
  BY Sizes DEF Lq
<1>3. Cardinality({i \in Lq : ready.RTL0.at[i] = l}) = IF Is("NO", "NO") THEN 1 ELSE 0
  <2> DEFINE S == InStage(lq, "NO", "NO")
  <2>1. RingOf(ready.RTL0, LQ_SIZE, S)
    BY <1>1 DEF LoadStages
  <2> HIDE DEF S
  <2>2. Cardinality({i \in 0 .. LQ_SIZE - 1 : ready.RTL0.at[i] = l}) = IF l \in S THEN 1 ELSE 0
    BY <1>2, <2>1, CountInRing
  <2> QED
    BY <2>2 DEF Lq, S
<1>4. Cardinality({i \in Lq : ready.RTL1.at[i] = l}) = IF Is("COMPLETED", "NO") THEN 1 ELSE 0
  <2> DEFINE S == InStage(lq, "COMPLETED", "NO")
  <2>1. RingOf(ready.RTL1, LQ_SIZE, S)
    BY <1>1 DEF LoadStages
  <2> HIDE DEF S
  <2>2. Cardinality({i \in 0 .. LQ_SIZE - 1 : ready.RTL1.at[i] = l}) = IF l \in S THEN 1 ELSE 0
    BY <1>2, <2>1, CountInRing
  <2> QED
    BY <2>2 DEF Lq, S
<1>5. Cardinality({r \in dtlb : r = <<"load", l>>}) = IF Is("INFLIGHT", "NO") THEN 1 ELSE 0
  <2>1. <<"load", l>> \in dtlb <=> Is("INFLIGHT", "NO")
    BY <1>1 DEF LoadStages
  <2> QED
    BY <2>1, CountRequest
<1>6. Cardinality({r \in l1d : r = l}) = IF Is("COMPLETED", "INFLIGHT") THEN 1 ELSE 0
  <2>1. l \in l1d <=> Is("COMPLETED", "INFLIGHT")
    BY <1>1 DEF LoadStages
  <2> QED
    BY <2>1, CountRequest
<1>7. \A x, y : Is(x, y) <=> e.addr # Nil /\ e.producer_id = Nil /\ e.translated = x /\ e.fetched = y
  BY DEF InStage
<1>8. e.addr # Nil => \/ e.producer_id # Nil
                      \/ e.translated \in {"NO", "INFLIGHT"} /\ e.fetched = "NO"
                      \/ e.translated = "COMPLETED" /\ e.fetched \in {"NO", "INFLIGHT"}
  BY <1>1 DEF LoadStages
<1>9. e.addr = Nil => e.producer_id = Nil
  <2>1. e = NoLoad \/ IsLoadOf(program, Core.rob, e, l)
    BY <1>1 DEF Accounts, LoadsNamed
  <2> QED
    BY <2>1, Sizes DEF IsLoadOf, NoLoad
<1> HIDE DEF Is
<1>10. LoadPlaces(l) = (IF Is("NO", "NO") THEN 1 ELSE 0) + (IF Is("COMPLETED", "NO") THEN 1 ELSE 0)
                       + (IF Is("INFLIGHT", "NO") THEN 1 ELSE 0)
                       + (IF Is("COMPLETED", "INFLIGHT") THEN 1 ELSE 0)
                       + (IF e.producer_id # Nil THEN 1 ELSE 0)
  BY <1>3, <1>4, <1>5, <1>6 DEF LoadPlaces
<1> HIDE DEF e
<1>11. CASE e.addr = Nil
  BY <1>7, <1>9, <1>10, <1>11 DEF e
<1>12. CASE e.addr # Nil
  BY <1>7, <1>8, <1>10, <1>12 DEF e
<1> QED
  BY <1>11, <1>12

\* So is a store, until it has executed.
LEMMA StoresInOnePlace ==
  ASSUME Machine, Registers, Lsq, NEW f \in Sq
  PROVE  StorePlaces(f) = IF sq.at[f].addr # Nil THEN 1 ELSE 0
<1> DEFINE Is(x, y) == f \in InStoreStage(sq.at, x, y)
           e == sq.at[f]
<1>1. StoreStages(sq.at, ready, dtlb) /\ StoresHeld(program, rob, sq)
  <2>1. LsqInv(program, Core, dtlb, Len(results), dispatched, read)
    BY LsqFacts
  <2>2. Core.sq = sq /\ Core.rob = rob /\ Core.ready = ready
    BY DEF Core
  <2>3. PICK h, a : Stores(program, h, Core, dtlb, Len(results), dispatched, read, a)
    BY <2>1 DEF LsqInv
  <2> QED
    BY <2>2, <2>3, WindowHolds DEF Stores
<1>2. SQ_SIZE \in Nat \ {0} /\ f \in 0 .. SQ_SIZE - 1
  BY Sizes DEF Sq
<1>3. Cardinality({i \in Sq : ready.RTS0.at[i] = f}) = IF Is("NO", "NO") THEN 1 ELSE 0
  <2> DEFINE S == InStoreStage(sq.at, "NO", "NO")
  <2>1. RingOf(ready.RTS0, SQ_SIZE, S)
    BY <1>1 DEF StoreStages
  <2> HIDE DEF S
  <2>2. Cardinality({i \in 0 .. SQ_SIZE - 1 : ready.RTS0.at[i] = f}) = IF f \in S THEN 1 ELSE 0
    BY <1>2, <2>1, CountInRing
  <2> QED
    BY <2>2 DEF Sq, S
<1>4. Cardinality({i \in Sq : ready.RTS1.at[i] = f}) = IF Is("COMPLETED", "NO") THEN 1 ELSE 0
  <2> DEFINE S == InStoreStage(sq.at, "COMPLETED", "NO")
  <2>1. RingOf(ready.RTS1, SQ_SIZE, S)
    BY <1>1 DEF StoreStages
  <2> HIDE DEF S
  <2>2. Cardinality({i \in 0 .. SQ_SIZE - 1 : ready.RTS1.at[i] = f}) = IF f \in S THEN 1 ELSE 0
    BY <1>2, <2>1, CountInRing
  <2> QED
    BY <2>2 DEF Sq, S
<1>5. Cardinality({r \in dtlb : r = <<"store", f>>}) = IF Is("INFLIGHT", "NO") THEN 1 ELSE 0
  <2>1. <<"store", f>> \in dtlb <=> Is("INFLIGHT", "NO")
    BY <1>1 DEF StoreStages
  <2> QED
    BY <2>1, CountRequest
<1>6. \A x, y : Is(x, y) <=> e.addr # Nil /\ e.translated = x /\ e.fetched = y
  BY DEF InStoreStage
<1>7. e.addr # Nil => \/ e.translated \in {"NO", "INFLIGHT"} /\ e.fetched = "NO"
                      \/ e.translated = "COMPLETED" /\ e.fetched \in {"NO", "COMPLETED"}
  BY <1>1 DEF StoreStages
<1>8. e.addr = Nil => e.fetched = "NO"
  <2>1. e = NoStore \/ IsStoreOf(program, rob, e)
    BY <1>1 DEF StoresHeld
  <2>2. IsStoreOf(program, rob, e) => e.addr # Nil
    BY TraceFacts, StoreHasAddress
  <2> QED
    BY <2>1, <2>2 DEF NoStore
<1> HIDE DEF Is
<1>9. StorePlaces(f) = (IF Is("NO", "NO") THEN 1 ELSE 0) + (IF Is("COMPLETED", "NO") THEN 1 ELSE 0)
                       + (IF Is("INFLIGHT", "NO") THEN 1 ELSE 0)
                       + (IF e.fetched = "COMPLETED" THEN 1 ELSE 0)
  BY <1>3, <1>4, <1>5 DEF StorePlaces
<1> HIDE DEF e
<1>10. CASE e.addr = Nil
  BY <1>6, <1>8, <1>9, <1>10 DEF e
<1>11. CASE e.addr # Nil
  BY <1>6, <1>7, <1>9, <1>11 DEF e
<1> QED
  BY <1>10, <1>11

\* A ring of indices is contiguous.
LEMMA RingOfIsContiguous ==
  ASSUME NEW n \in Nat \ {0}, NEW S, NEW r, RingOf(r, n, S)
  PROVE  Contiguous(r)
<1> DEFINE V == 0 .. n - 1
<1>1. PICK q : RingHolds(r, n, V, q)
  BY DEF RingOf
<1>2. Nil \notin V
  BY Sizes
<1> HIDE DEF V
<1> QED
  BY <1>1, <1>2, RingIsContiguous

\* So are the rings of the core and STA.
LEMMA IntactRings ==
  ASSUME Machine, Registers, Lsq
  PROVE  RingsAreIntact
<1>1. LsqInv(program, Core, dtlb, Len(results), dispatched, read)
  BY LsqFacts
<1>2. Core.sq = sq /\ Core.ready = ready /\ Core.sta = sta
  BY DEF Core
<1>3. PICK f, a : Stores(program, f, Core, dtlb, Len(results), dispatched, read, a)
  BY <1>1 DEF LsqInv
<1>4. StoreStages(sq.at, ready, dtlb) /\ StaHolds(f, sta, a, read)
  BY <1>2, <1>3 DEF Stores
<1>5. LoadStages(lq, ready, dtlb, l1d) /\ ready \in ReadyRec /\ Queued(program, rob, ready)
  BY DEF Machine, Registers
<1>6. Contiguous(ready.RTE0) /\ Contiguous(ready.RTE1)
  BY <1>5, Sizes, RingOfIsContiguous DEF Queued
<1>7. Contiguous(ready.RTL0) /\ Contiguous(ready.RTL1)
  BY <1>5, Sizes, RingOfIsContiguous DEF LoadStages
<1>8. Contiguous(ready.RTS0) /\ Contiguous(ready.RTS1)
  BY <1>4, Sizes, RingOfIsContiguous DEF StoreStages
<1>9. Contiguous(sta)
  <2>1. PICK w : RingHolds(sta, STA_SIZE, Nat, w)
    BY <1>4 DEF StaHolds
  <2>2. Nil \notin Nat
    BY Sizes
  <2> QED
    BY <2>1, <2>2, Sizes, RingIsContiguous
<1>10. DOMAIN ready = {"RTE0", "RTE1", "RTL0", "RTL1", "RTS0", "RTS1"}
  BY <1>5 DEF ReadyRec
<1> QED
  BY <1>6, <1>7, <1>8, <1>9, <1>10 DEF RingsAreIntact

\* What is ready to execute is in one of the two rings.
LEMMA QueuedOnce ==
  ASSUME Machine, Registers
  PROVE  EveryReadyInstructionIsQueuedOnce
<1> SUFFICES ASSUME NEW s \in Slot
             PROVE  Cardinality({x \in {"RTE0", "RTE1"} \X Slot : ready[x[1]].at[x[2]] = s})
                    = IF /\ InRob(s)
                         /\ ~IsMemory(s)
                         /\ At(s).scheduled = "COMPLETED"
                         /\ At(s).reg_ready
                         /\ At(s).executed = "NO"
                      THEN 1 ELSE 0
  BY DEF EveryReadyInstructionIsQueuedOnce
<1> DEFINE T == {x \in {"RTE0", "RTE1"} \X Slot : ready[x[1]].at[x[2]] = s}
           T0 == {j \in 0 .. ROB_SIZE - 1 : ready.RTE0.at[j] = s}
           T1 == {j \in 0 .. ROB_SIZE - 1 : ready.RTE1.at[j] = s}
           e == rob.at[s]
<1>1. PICK S0, S1 : /\ RingOf(ready.RTE0, ROB_SIZE, S0)
                    /\ RingOf(ready.RTE1, ROB_SIZE, S1)
                    /\ S0 \cap S1 = {}
                    /\ S0 \cup S1 = ReadyToExecute(program, rob)
  BY DEF Registers, Queued
<1>2. ROB_SIZE \in Nat \ {0} /\ s \in 0 .. ROB_SIZE - 1 /\ Nil \notin Int
  BY Sizes DEF Slot
<1>3. (s \in S0 => \E i \in Slot : T0 = {i}) /\ (s \notin S0 => T0 = {})
  BY <1>1, <1>2, InRingOnce DEF Slot
<1>4. (s \in S1 => \E i \in Slot : T1 = {i}) /\ (s \notin S1 => T1 = {})
  BY <1>1, <1>2, InRingOnce DEF Slot
<1>5. ready["RTE0"] = ready.RTE0 /\ ready["RTE1"] = ready.RTE1
  OBVIOUS
<1>6. T = ({"RTE0"} \X T0) \cup ({"RTE1"} \X T1)
  BY <1>5 DEF Slot
<1> HIDE DEF T, T0, T1
<1>7. s \in S0 \cup S1 => \E x : T = {x}
  <2>1. CASE s \in S0
    <3>1. PICK i \in Slot : T0 = {i}
      BY <1>3, <2>1
    <3>2. T1 = {}
      BY <1>1, <1>4, <2>1
    <3>3. T = {<<"RTE0", i>>}
      BY <1>6, <3>1, <3>2
    <3> QED
      BY <3>3
  <2>2. CASE s \in S1
    <3>1. PICK i \in Slot : T1 = {i}
      BY <1>4, <2>2
    <3>2. T0 = {}
      BY <1>1, <1>3, <2>2
    <3>3. T = {<<"RTE1", i>>}
      BY <1>6, <3>1, <3>2
    <3> QED
      BY <3>3
  <2> QED
    BY <2>1, <2>2
<1>8. s \notin S0 \cup S1 => T = {}
  BY <1>3, <1>4, <1>6
<1> DEFINE b == s \in S0 \cup S1
<1>9. Cardinality(T) = IF b THEN 1 ELSE 0
  <2>1. (b => \E x : T = {x}) /\ (~b => T = {})
    BY <1>7, <1>8
  <2> HIDE DEF b
  <2> QED
    BY <2>1, CountOne
<1>10. b <=> e.id # 0 /\ ~Accesses(program, e) /\ e.reg_ready /\ e.executed = "NO"
  BY <1>1 DEF ReadyToExecute
<1>11. e.id # 0 /\ e.reg_ready /\ ~Accesses(program, e) => e.scheduled = "COMPLETED"
  <2>1. SourcesCounted(rob) /\ IssuedWhenReady(program, rob)
    BY DEF Registers, RegInv
  <2>2. e.reg_ready => e.scheduled # "NO"
    BY <2>1 DEF SourcesCounted
  <2>3. e.id # 0 /\ e.scheduled # "NO" =>
          e.scheduled = IF Accesses(program, e) /\ e.executed = "NO" THEN "INFLIGHT" ELSE "COMPLETED"
    BY <2>1 DEF IssuedWhenReady
  <2> QED
    BY <2>2, <2>3
<1> HIDE DEF b
<1>12. b <=> /\ InRob(s) /\ ~IsMemory(s) /\ At(s).scheduled = "COMPLETED"
             /\ At(s).reg_ready /\ At(s).executed = "NO"
  BY <1>10, <1>11 DEF InRob, IsMemory, InstrIn, At, Accesses
<1> QED
  BY <1>9, <1>12 DEF T

\* Every index that is handed on is in one place, from the queue it enters to the stage that
\* ends it: what a push would overwrite, a pop lose, or a released entry leave behind
\* (RTE0, RTE1, RTL0, RTL1, RTS0, RTS1, STA and the requests to the DTLB and the L1D).
THEOREM NothingIsLostOnTheWay == StaSuffices => (Spec => []HandoversAreExact)
<1> SUFFICES ASSUME StaSuffices  PROVE Spec => []HandoversAreExact
  OBVIOUS
<1>1. ASSUME Machine, Registers, Lsq  PROVE HandoversAreExact
  <2>1. EveryOperandIsInOnePlace
    BY <1>1, LoadsInOnePlace, StoresInOnePlace DEF EveryOperandIsInOnePlace
  <2> QED
    BY <1>1, <2>1, IntactRings, QueuedOnce DEF HandoversAreExact
<1>2. Spec => []Lsq
  BY LsqIsKept
<1> QED
  BY <1>1, <1>2, MachineIsKept, PTL


\* The counts of an entry of the reorder buffer are never below zero.
LEMMA EntryCounts ==
  ASSUME Machine, Registers, Lsq, NEW s \in Slot
  PROVE  /\ rob.at[s].id \in 0 .. Len(program)
         /\ rob.at[s].num_reg_dependent \in Nat
         /\ rob.at[s].num_mem_ops \in Nat
<1> DEFINE p == program
           q == Core
           e == q.rob.at[s]
<1>1. p \in Programs /\ IdsOf(p, q.rob) /\ OperandsCounted(p, q) /\ q.rob = rob
  BY LsqFacts DEF LsqInv, Accounts, Core
<1>2. e.id \in 0 .. Len(p)
  BY <1>1 DEF IdsOf
<1>3. e.num_reg_dependent \in Nat
  <2>1. Waiting(rob, s) \subseteq Src
    BY DEF Waiting
  <2>2. Cardinality(Waiting(rob, s)) \in Nat
    BY <2>1, OperandsFinite
  <2> QED
    BY <1>1, <2>2 DEF Registers, RegInv, SourcesCounted
<1>4. e.num_mem_ops \in Nat
  <2>1. CASE e.id = 0
    BY <1>1, <2>1 DEF OperandsCounted
  <2>2. CASE e.id # 0
    <3>1. Counts(p, q, s)
      BY <1>1, <2>2 DEF OperandsCounted
    <3> HIDE DEF p, q
    <3>2. PICK a, b, c, d \in Nat : CountsAre(p, q, s, a, b, c, d)
      BY <1>1, <2>2, <3>1, CountedNumbers
    <3>3. e.num_mem_ops = a + b + c + d
      BY Zenon, <3>2 DEF CountsAre
    <3> HIDE DEF e
    <3> QED
      BY <3>3
  <2> QED
    BY <2>1, <2>2
<1> QED
  BY <1>1, <1>2, <1>3, <1>4

\* The records of TypeOK.
EntryOf(p) ==
  [id : 0 .. Len(p), scheduled : Progress, executed : Progress, reg_ready : BOOLEAN,
   num_reg_dependent : Nat, num_mem_ops : Nat, source_added : SUBSET Src,
   destination_added : SUBSET Dst, registers_depend_on_me : [Src -> SUBSET Slot],
   memory_depend_on_me : SUBSET Slot, lq_index : [Src -> Lq \cup {Nil}],
   sq_index : [Dst -> Sq \cup {Nil}]]
LoadIn(p) ==
  [id : 0 .. Len(p), addr : Addr \cup {Nil}, rob_index : Slot,
   data_index : 0 .. NUM_INSTR_SOURCES, producer_id : Nat \cup {Nil},
   translated : Progress, fetched : Progress]
StoreIn(p) ==
  [id : 0 .. Len(p), addr : Addr \cup {Nil}, rob_index : Slot,
   data_index : 0 .. NUM_INSTR_DESTINATIONS, translated : Progress, fetched : Progress]

\* An entry of the reorder buffer that is of the trace and counts numbers,
LEMMA EntryIsTyped ==
  ASSUME NEW p, NEW e \in Entry, e.id \in 0 .. Len(p), e.num_reg_dependent \in Nat, e.num_mem_ops \in Nat
  PROVE  e \in EntryOf(p)
BY DEF Entry, EntryOf

\* an entry of the load queue that names a source of an instruction of the trace,
LEMMA LoadIsTyped ==
  ASSUME NEW p, NEW e \in LoadRec, e.id \in 0 .. Len(p), e.data_index \in 0 .. NUM_INSTR_SOURCES
  PROVE  e \in LoadIn(p)
BY DEF LoadRec, LoadIn

\* and one of the store queue that names a destination.
LEMMA StoreIsTyped ==
  ASSUME NEW p, NEW e \in StoreRec, e.id \in 0 .. Len(p), e.data_index \in 0 .. NUM_INSTR_DESTINATIONS
  PROVE  e \in StoreIn(p)
BY DEF StoreRec, StoreIn

\* What is in the load queue is of the trace,
LEMMA LoadTypes ==
  ASSUME Machine, Registers, Lsq, NEW l \in Lq
  PROVE  lq[l] \in LoadIn(program)
<1> DEFINE e == lq[l]
           p == program
<1>1. p \in Programs /\ Len(p) \in Nat /\ IdsOf(p, rob) /\ e \in LoadRec
  BY LsqFacts, TraceFacts DEF Machine
<1>2. e = NoLoad \/ IsLoadOf(p, rob, e, l)
  BY LsqFacts DEF LsqInv, Accounts, LoadsNamed, Core
<1> HIDE DEF e, p
<1>3. CASE e = NoLoad
  <2>1. e.id = 0 /\ e.data_index = 0
    BY <1>3 DEF NoLoad
  <2>2. e.id \in 0 .. Len(p) /\ e.data_index \in 0 .. NUM_INSTR_SOURCES
    BY <1>1, <2>1, Sizes
  <2>3. e \in LoadIn(p)
    BY <1>1, <2>2, LoadIsTyped
  <2> QED
    BY <2>3 DEF e, p
<1>4. CASE IsLoadOf(p, rob, e, l)
  <2>1. e.rob_index \in Slot
    BY <1>1 DEF LoadRec
  <2>2. e.id \in 0 .. Len(p) /\ e.id # 0 /\ e.data_index \in DOMAIN p[e.id].loads
    BY <1>1, <1>4, <2>1 DEF IsLoadOf, IdsOf
  <2>3. e.data_index \in Src
    BY <1>1, <2>2, OperandsOf
  <2>4. e.data_index \in 0 .. NUM_INSTR_SOURCES
    BY <2>3, Sizes DEF Src
  <2>5. e \in LoadIn(p)
    BY <1>1, <2>2, <2>4, LoadIsTyped
  <2> QED
    BY <2>5 DEF e, p
<1> QED
  BY <1>2, <1>3, <1>4

\* and so is what is in the store queue.
LEMMA StoreTypes ==
  ASSUME Machine, Registers, Lsq, NEW f \in Sq
  PROVE  sq.at[f] \in StoreIn(program)
<1> DEFINE e == sq.at[f]
           p == program
<1>1. p \in Programs /\ Len(p) \in Nat /\ e \in StoreRec
  BY LsqFacts, TraceFacts DEF Machine, SqRec
<1>2. e = NoStore \/ IsStoreOf(p, rob, e)
  <2>1. LsqInv(program, Core, dtlb, Len(results), dispatched, read)
    BY LsqFacts
  <2>2. Core.sq = sq /\ Core.rob = rob
    BY DEF Core
  <2>3. PICK h, a : Stores(program, h, Core, dtlb, Len(results), dispatched, read, a)
    BY <2>1 DEF LsqInv
  <2>4. StoresHeld(program, rob, sq)
    BY <2>2, <2>3, WindowHolds DEF Stores
  <2> QED
    BY <2>4 DEF StoresHeld
<1> HIDE DEF e, p
<1>3. CASE e = NoStore
  <2>1. e.id = 0 /\ e.data_index = 0
    BY <1>3 DEF NoStore
  <2>2. e.id \in 0 .. Len(p) /\ e.data_index \in 0 .. NUM_INSTR_DESTINATIONS
    BY <1>1, <2>1, Sizes
  <2>3. e \in StoreIn(p)
    BY <1>1, <2>2, StoreIsTyped
  <2> QED
    BY <2>3 DEF e, p
<1>4. CASE IsStoreOf(p, rob, e)
  <2>1. e.id \in 0 .. Len(p) /\ e.id # 0 /\ e.data_index \in DOMAIN p[e.id].stores
    BY <1>1, <1>4, StoreHasAddress DEF IsStoreOf
  <2>2. e.data_index \in Dst
    BY <1>1, <2>1, OperandsOf
  <2>3. e.data_index \in 0 .. NUM_INSTR_DESTINATIONS
    BY <2>2, Sizes DEF Dst
  <2>4. e \in StoreIn(p)
    BY <1>1, <2>1, <2>3, StoreIsTyped
  <2> QED
    BY <2>4 DEF e, p
<1> QED
  BY <1>2, <1>3, <1>4

\* TypeOK, part by part.
LEMMA CoreIsTyped ==
  ASSUME Machine, Registers, Lsq
  PROVE  TypeOK
<1>1. read \in 0 .. Len(program) /\ dispatched \in 0 .. read
  BY DEF Machine, InTrace
<1>2. rob \in Rob /\ sq \in SqRec /\ lq \in [Lq -> LoadRec]
  BY DEF Machine
<1>3. rob.at \in [Slot -> EntryOf(program)]
  <2>1. ASSUME NEW s \in Slot  PROVE rob.at[s] \in EntryOf(program)
    <3> DEFINE e == rob.at[s]
    <3>1. e \in Entry
      BY <1>2 DEF Rob
    <3>2. e.id \in 0 .. Len(program) /\ e.num_reg_dependent \in Nat /\ e.num_mem_ops \in Nat
      BY EntryCounts
    <3> HIDE DEF e
    <3>3. e \in EntryOf(program)
      BY <3>1, <3>2, EntryIsTyped
    <3> QED
      BY <3>3 DEF e
  <2>2. rob.at \in [Slot -> Entry]
    BY <1>2 DEF Rob
  <2> QED
    BY <2>1, <2>2
<1>4. lq \in [Lq -> LoadIn(program)]
  BY <1>2, LoadTypes
<1>5. sq.at \in [Sq -> StoreIn(program)]
  <2>1. sq.at \in [Sq -> StoreRec]
    BY <1>2 DEF SqRec
  <2> QED
    BY <2>1, StoreTypes
<1>6. rob.head \in Slot /\ rob.tail \in Slot /\ sq.head \in Sq /\ sq.tail \in Sq
  BY <1>2 DEF Rob, SqRec
<1>7. inflight \in [reg : Nat, mem : Nat]
  <2>1. /\ inflight \in InflightRec
        /\ inflight.reg = Cardinality(Executing(program, rob))
        /\ inflight.mem = Cardinality(HaveData(program, rob))
    BY LsqFacts DEF LsqInv, Accounts, InflightCounted, Core, Machine
  <2>2. inflight.reg \in Nat /\ inflight.mem \in Nat
    BY <2>1, InflightFinite
  <2> QED
    BY <2>1, <2>2 DEF InflightRec
<1>8. dtlb \subseteq Request /\ l1d \subseteq Lq /\ l1dWQ \in 0 .. L1D_WQ_SIZE
  <2>1. l1d = InStage(lq, "COMPLETED", "INFLIGHT")
    BY DEF Machine, LoadStages
  <2>2. l1d \subseteq Lq
    BY <2>1 DEF InStage
  <2> QED
    BY <2>2 DEF Machine, Lsq
<1> QED
  BY <1>1, <1>3, <1>4, <1>5, <1>6, <1>7, <1>8 DEF TypeOK, EntryOf, LoadIn, StoreIn

\* The state of the core keeps its types: no count of operands or of executions is below
\* zero, and what an entry of the queues names is in the trace.
THEOREM TypesAreKept == StaSuffices => (Spec => []TypeOK)
<1> SUFFICES ASSUME StaSuffices  PROVE Spec => []TypeOK
  OBVIOUS
<1>1. Machine /\ Registers /\ Lsq => TypeOK
  BY CoreIsTyped
<1>2. Spec => []Lsq
  BY LsqIsKept
<1> QED
  BY <1>1, <1>2, MachineIsKept, PTL


-----------------------------------------------------------------------------
(* What the loads return                                                   *)

\* A load of the queue waits for the last store before it to its address, or that store has
\* retired.
FindsItsStore(p, e, n) ==
  \E m \in 0 .. e.id - 1 : /\ IsLastStore(p, e.id, e.addr, m)
                           /\ e.producer_id = m \/ (e.producer_id = Nil /\ m <= n)
LoadsFind(p, q, n) == \A l \in Lq : q[l].addr # Nil => FindsItsStore(p, q[l], n)

\* Load j of the instruction with entry e is in the queue, or it has got its value.
IsInQueue(q, e, j) ==
  /\ e.lq_index[j] \in Lq
  /\ q[e.lq_index[j]].addr # Nil
  /\ q[e.lq_index[j]].id = e.id
  /\ q[e.lq_index[j]].data_index = j
HasValue(p, g, i, j) == IsLastStore(p, i, p[i].loads[j], g[i][j])
IsServed(p, q, e) == \A j \in e.source_added : IsInQueue(q.lq, e, j) \/ HasValue(p, q.got, e.id, j)
LoadsServed(p, q) == \A s \in Slot : q.rob.at[s].id # 0 => IsServed(p, q, q.rob.at[s])

\* Memory holds the stores of the first n instructions.
MemoryHolds(p, m, n) == \A a \in Addr : IsLastStore(p, n + 1, a, m[a])

ValuesInv(p, q, n) == LoadsFind(p, q.lq, n) /\ LoadsServed(p, q)
Values == ValuesInv(program, Core, Len(results)) /\ MemoryHolds(program, memory, Len(results))

\* There is one such store.
LEMMA OneLastStore ==
  ASSUME NEW p, NEW i \in Nat, NEW a, NEW m, NEW o, IsLastStore(p, i, a, m), IsLastStore(p, i, a, o)
  PROVE  m = o
<1>1. m \in Int /\ o \in Int /\ 0 <= m /\ 0 <= o /\ m <= i - 1 /\ o <= i - 1
  BY DEF IsLastStore
<1>2. CASE m < o
  <2>1. o \in m + 1 .. i - 1 /\ o # 0
    BY <1>1, <1>2
  <2> QED
    BY <2>1 DEF IsLastStore
<1>3. CASE o < m
  <2>1. m \in o + 1 .. i - 1 /\ m # 0
    BY <1>1, <1>3
  <2> QED
    BY <2>1 DEF IsLastStore
<1> QED
  BY <1>1, <1>2, <1>3

\* The last store before i is the last before j where none is from j on,
LEMMA LastStoreLater ==
  ASSUME NEW p, NEW i \in Nat, NEW j \in 1 .. i, NEW a, NEW m, IsLastStore(p, j, a, m),
         \A k \in j .. i - 1 : a \notin StoresOf(p[k])
  PROVE  IsLastStore(p, i, a, m)
<1>1. m \in 0 .. i - 1
  BY DEF IsLastStore
<1>2. ASSUME NEW k \in m + 1 .. i - 1  PROVE k \in m + 1 .. j - 1 \/ k \in j .. i - 1
  BY <1>1, <1>2
<1> QED
  BY <1>1, <1>2 DEF IsLastStore

\* and where it is of an instruction before j.
LEMMA LastStoreEarlier ==
  ASSUME NEW p, NEW i \in Nat, NEW j \in 1 .. i, NEW a, NEW m, IsLastStore(p, i, a, m), m <= j - 1
  PROVE  IsLastStore(p, j, a, m)
<1>1. m \in 0 .. i - 1
  BY DEF IsLastStore
<1>2. m \in 0 .. j - 1
  BY <1>1
<1>3. ASSUME NEW k \in m + 1 .. j - 1  PROVE k \in m + 1 .. i - 1
  BY <1>1, <1>3
<1> QED
  BY <1>2, <1>3 DEF IsLastStore

\* The stores of the next instruction are in memory.
LEMMA MemoryWithNext ==
  ASSUME NEW p, NEW n \in Nat, NEW m, MemoryHolds(p, m, n), NEW w,
         \A a \in Addr : w[a] = IF a \in StoresOf(p[n + 1]) THEN n + 1 ELSE m[a]
  PROVE  MemoryHolds(p, w, n + 1)
<1>1. SUFFICES ASSUME NEW a \in Addr  PROVE IsLastStore(p, n + 2, a, w[a])
  BY DEF MemoryHolds
<1>2. IsLastStore(p, n + 1, a, m[a])
  BY <1>1 DEF MemoryHolds
<1>3. CASE a \in StoresOf(p[n + 1])
  <2>1. w[a] = n + 1 /\ n + 1 \in 0 .. n + 2 - 1 /\ (n + 1) + 1 .. (n + 2) - 1 = {}
    BY <1>1, <1>3
  <2> QED
    BY <1>3, <2>1 DEF IsLastStore
<1>4. CASE a \notin StoresOf(p[n + 1])
  <2>1. \A k \in n + 1 .. (n + 2) - 1 : k = n + 1
    OBVIOUS
  <2>2. w[a] = m[a] /\ n + 2 \in Nat /\ n + 1 \in 1 .. n + 2
    BY <1>1, <1>4
  <2> QED
    BY <1>2, <1>4, <2>1, <2>2, LastStoreLater
<1> QED
  BY <1>3, <1>4

\* Two entries of the load queue are the same load, which waits for the same store, or none.
SameLoad(e, f) ==
  f.addr = e.addr /\ f.id = e.id /\ f.data_index = e.data_index /\ f.producer_id = e.producer_id

\* Two entries of the reorder buffer name the same loads.
SameSources(e, f) == f.id = e.id /\ f.source_added = e.source_added /\ f.lq_index = e.lq_index

\* Loads that stay in the queue find their stores, and instructions their loads.
LEMMA ValuesKept ==
  ASSUME NEW p, NEW q, NEW r, NEW n, ValuesInv(p, q, n), r.got = q.got,
         \A l \in Lq : SameLoad(q.lq[l], r.lq[l]),
         \A t \in Slot : r.rob.at[t].id = 0 \/ r.rob.at[t].source_added = {}
                         \/ SameSources(q.rob.at[t], r.rob.at[t])
  PROVE  ValuesInv(p, r, n)
<1>1. LoadsFind(p, r.lq, n)
  BY DEF ValuesInv, LoadsFind, FindsItsStore, SameLoad
<1>2. ASSUME NEW t \in Slot, r.rob.at[t].id # 0  PROVE IsServed(p, r, r.rob.at[t])
  <2>1. CASE r.rob.at[t].source_added = {}
    BY <2>1 DEF IsServed
  <2>2. CASE SameSources(q.rob.at[t], r.rob.at[t])
    <3>1. IsServed(p, q, q.rob.at[t])
      BY <1>2, <2>2 DEF ValuesInv, LoadsServed, SameSources
    <3> DEFINE e == q.rob.at[t]
               f == r.rob.at[t]
    <3>2. f.id = e.id /\ f.source_added = e.source_added /\ f.lq_index = e.lq_index
      BY <2>2 DEF SameSources
    <3>3. IsServed(p, q, e)
      BY <3>1
    <3> HIDE DEF e, f
    <3>4. ASSUME NEW j \in f.source_added  PROVE IsInQueue(r.lq, f, j) \/ HasValue(p, r.got, f.id, j)
      <4>1. CASE IsInQueue(q.lq, e, j)
        <5>1. f.lq_index[j] \in Lq /\ SameLoad(q.lq[f.lq_index[j]], r.lq[f.lq_index[j]])
          BY <3>2, <4>1 DEF IsInQueue
        <5> QED
          BY <3>2, <4>1, <5>1 DEF IsInQueue, SameLoad
      <4>2. CASE HasValue(p, q.got, e.id, j)
        BY <3>2, <4>2 DEF HasValue
      <4> QED
        BY <3>2, <3>3, <3>4, <4>1, <4>2 DEF IsServed
    <3>5. IsServed(p, r, f)
      BY <3>4 DEF IsServed
    <3> QED
      BY <3>5 DEF f
  <2> QED
    BY <1>2, <2>1, <2>2
<1> QED
  BY <1>1, <1>2 DEF ValuesInv, LoadsServed

\* Loads of L leave the queue with the values of their last stores.
LEMMA ValuesReleased ==
  ASSUME NEW p \in Programs, NEW q \in CoreRec(p), NEW r, NEW n, ValuesInv(p, q, n), Accounts(p, q), IdsOf(p, q.rob),
         NEW L \in SUBSET Lq, NEW v, IsReleased(p, q, r, L, v),
         \A l \in L : q.lq[l].addr # Nil /\ IsLastStore(p, q.lq[l].id, q.lq[l].addr, v[l])
  PROVE  ValuesInv(p, r, n)
<1>1. LoadsFind(p, r.lq, n)
  <2>1. SUFFICES ASSUME NEW l \in Lq, r.lq[l].addr # Nil  PROVE FindsItsStore(p, r.lq[l], n)
    BY DEF LoadsFind
  <2>2. r.lq[l] = q.lq[l]
    BY <2>1 DEF IsReleased, NoLoad
  <2> QED
    BY <2>1, <2>2 DEF ValuesInv, LoadsFind
<1>2. ASSUME NEW s \in Slot, r.rob.at[s].id # 0, NEW j \in r.rob.at[s].source_added
      PROVE  IsInQueue(r.lq, r.rob.at[s], j) \/ HasValue(p, r.got, r.rob.at[s].id, j)
  <2> DEFINE e == q.rob.at[s]
             f == r.rob.at[s]
             i == e.id
  <2>1. f.id = i /\ f.source_added = e.source_added /\ f.lq_index = e.lq_index
    BY DEF IsReleased, IsWithoutOps, SameRegs
  <2>2. IsServed(p, q, e) /\ Counts(p, q, s)
    BY SMTT(30), <1>2, <2>1 DEF ValuesInv, LoadsServed, Accounts, OperandsCounted
  <2>3. i \in 1 .. Len(p) /\ j \in e.source_added /\ j \in DOMAIN p[i].loads
    <3>1. i \in 0 .. Len(p) /\ i # 0
      BY <1>2, <2>1 DEF IdsOf
    <3>2. Len(p) \in Nat
      BY ProgramsAssumption, LenProperties
    <3>3. i \in 1 .. Len(p)
      <4> HIDE DEF i
      <4> QED
        BY SMTT(30), <3>1, <3>2
    <3> QED
      BY <1>2, <2>1, <2>2, <3>3 DEF Counts
  <2>4. CASE \E l \in L : q.lq[l].id = i /\ q.lq[l].data_index = j /\ r.got[i][j] = v[l]
    <3>1. PICK l \in L : q.lq[l].id = i /\ q.lq[l].data_index = j /\ r.got[i][j] = v[l]
      BY <2>4
    <3>2. q.lq[l].addr = p[i].loads[j] /\ IsLastStore(p, i, q.lq[l].addr, v[l])
      <4> DEFINE g == q.lq[l]
      <4>1. g.addr # Nil /\ IsLastStore(p, g.id, g.addr, v[l]) /\ g.id = i /\ g.data_index = j
        BY <3>1
      <4>2. g = NoLoad \/ IsLoadOf(p, q.rob, g, l)
        BY DEF Accounts, LoadsNamed
      <4> HIDE DEF g, i
      <4>3. g.addr = p[g.id].loads[g.data_index]
        BY <4>1, <4>2 DEF IsLoadOf, NoLoad
      <4> QED
        BY <4>1, <4>3 DEF g
    <3> QED
      BY <2>1, <3>1, <3>2 DEF HasValue
  <2>5. CASE (\A l \in L : ~(q.lq[l].id = i /\ q.lq[l].data_index = j)) /\ r.got[i][j] = q.got[i][j]
    <3>1. CASE IsInQueue(q.lq, e, j)
      <4>1. e.lq_index[j] \in Lq \ L
        BY <2>5, <3>1 DEF IsInQueue
      <4>2. r.lq[e.lq_index[j]] = q.lq[e.lq_index[j]]
        BY SMTT(30), <4>1 DEF IsReleased
      <4> QED
        BY <2>1, <3>1, <4>2 DEF IsInQueue
    <3>2. CASE HasValue(p, q.got, i, j)
      BY Zenon, <2>1, <2>5, <3>2 DEF HasValue
    <3> QED
      BY SMTT(30), <2>2, <2>3, <3>1, <3>2 DEF IsServed
  <2> QED
    BY <2>3, <2>4, <2>5 DEF IsReleased
<1> QED
  BY <1>1, <1>2 DEF ValuesInv, LoadsServed, IsServed

\* A load enters the queue that finds its store.
LEMMA ValuesWithLoad ==
  ASSUME NEW p, NEW q \in CoreRec(p), NEW r, NEW n, ValuesInv(p, q, n), r.got = q.got,
         NEW s \in Slot, NEW j \in Src, NEW l \in Lq, q.lq[l].addr = Nil,
         NEW i, q.rob.at[s].id = i, NEW a, a # Nil, NEW pr, NEW tr, WritesLoad(q, r, s, j, l, i, a, pr, tr),
         FindsItsStore(p, LoadOf(i, a, s, j, pr, tr), n)
  PROVE  ValuesInv(p, r, n)
<1>1. \A m \in Lq : r.lq[m] = IF m = l THEN LoadOf(i, a, s, j, pr, tr) ELSE q.lq[m]
  BY DEF WritesLoad
<1>2. LoadsFind(p, r.lq, n)
  BY <1>1 DEF ValuesInv, LoadsFind
<1>3. ASSUME NEW t \in Slot, r.rob.at[t].id # 0, NEW k \in r.rob.at[t].source_added
      PROVE  IsInQueue(r.lq, r.rob.at[t], k) \/ HasValue(p, r.got, r.rob.at[t].id, k)
  <2> DEFINE e == q.rob.at[t]
             f == r.rob.at[t]
  <2>1. CASE t = s /\ k = j
    <3>1. f.id = i /\ f.lq_index[j] = l
      BY <2>1 DEF WritesLoad, IsLoadAdded, SameRegs
    <3>2. r.lq[l].addr = a /\ r.lq[l].id = i /\ r.lq[l].data_index = j
      BY <1>1 DEF LoadOf
    <3> QED
      BY <2>1, <3>1, <3>2 DEF IsInQueue
  <2>2. CASE ~(t = s /\ k = j)
    <3>1. f.id = e.id /\ k \in e.source_added /\ (k \in Src => f.lq_index[k] = e.lq_index[k])
      BY <1>3, <2>2 DEF WritesLoad, IsLoadAdded, IsWaitedFor, SameRegs
    <3>2. k \in Src
      <4>1. q.rob \in Rob
        BY CoreFields
      <4> QED
        BY <3>1, <4>1 DEF Rob, Entry
    <3>3. IsServed(p, q, e)
      BY SMTT(30), <1>3, <3>1 DEF ValuesInv, LoadsServed
    <3>4. CASE IsInQueue(q.lq, e, k)
      <4>1. e.lq_index[k] # l /\ e.lq_index[k] \in Lq
        BY <3>4 DEF IsInQueue
      <4>2. r.lq[e.lq_index[k]] = q.lq[e.lq_index[k]]
        BY SMTT(30), <1>1, <4>1
      <4> QED
        BY <3>1, <3>2, <3>4, <4>2 DEF IsInQueue
    <3>5. CASE HasValue(p, q.got, e.id, k)
      BY <3>1, <3>5 DEF HasValue
    <3> QED
      BY <3>1, <3>3, <3>4, <3>5 DEF IsServed
  <2> QED
    BY <2>1, <2>2
<1> QED
  BY <1>2, <1>3 DEF ValuesInv, LoadsServed, IsServed

\* A load that finds no older store in the buffer finds its value in memory,
LEMMA NoOlderStore ==
  ASSUME program \in Programs, NEW n \in Nat, NEW d, OneEach(rob, d, n), d \in Nat,
         MemoryHolds(program, memory, n), NEW s \in Slot, InRob(s), NEW a \in Addr, OlderStores(s, a) = {}
  PROVE  memory[a] <= n /\ IsLastStore(program, At(s).id, a, memory[a])
<1> DEFINE i == At(s).id
<1>1. i \in n + 1 .. d
  BY DEF OneEach, InRob, At
<1>2. IsLastStore(program, n + 1, a, memory[a])
  BY DEF MemoryHolds
<1>3. memory[a] <= n
  BY <1>2 DEF IsLastStore
<1>4. ASSUME NEW k \in n + 1 .. i - 1, a \in StoresOf(program[k])  PROVE FALSE
  <2>1. k \in n + 1 .. d /\ k < i /\ k # 0
    <3> HIDE DEF i
    <3> QED
      BY <1>1
  <2>2. PICK t \in Slot : rob.at[t].id = k
    BY <2>1 DEF OneEach
  <2>3. t \in OlderStores(s, a)
    BY <1>4, <2>1, <2>2 DEF OlderStores, Older, InRob, InstrIn, At
  <2> QED
    BY <2>3
<1>5. i \in Nat /\ n + 1 \in 1 .. i
  <2> HIDE DEF i
  <2> QED
    BY <1>1
<1> HIDE DEF i
<1>6. IsLastStore(program, i, a, memory[a])
  BY <1>2, <1>4, <1>5, LastStoreLater
<1> QED
  BY <1>3, <1>6 DEF i

\* and one that finds some waits for the last.
LEMMA NearestIsLast ==
  ASSUME program \in Programs, IdsInTrace, NEW n \in Nat, NEW d, OneEach(rob, d, n), d \in Nat,
         NEW s \in Slot, InRob(s), NEW a, OlderStores(s, a) # {}
  PROVE  IsLastStore(program, At(s).id, a, At(NearestStore(s, a)).id)
<1> DEFINE i == At(s).id
           S == OlderStores(s, a)
           m == At(Youngest(S)).id
<1>1. Youngest(S) \in S /\ \A t \in S : At(t).id <= m
  <2>1. S \in SUBSET Slot
    BY DEF OlderStores
  <2>2. Len(program) \in Nat
    BY ProgramsAssumption, LenProperties
  <2> QED
    BY <2>1, <2>2, YoungestIsLast
<1>2. m # 0 /\ m < i /\ m \in n + 1 .. d /\ i \in n + 1 .. d /\ a \in StoresOf(program[m])
  BY Zenon, <1>1 DEF OlderStores, Older, OneEach, InRob, InstrIn, At
<1>3. ASSUME NEW k \in m + 1 .. i - 1, a \in StoresOf(program[k])  PROVE FALSE
  <2>1. k \in n + 1 .. d /\ k < i /\ k # 0 /\ ~(k <= m)
    <3> HIDE DEF i, m
    <3> QED
      BY <1>2
  <2>2. PICK t \in Slot : rob.at[t].id = k
    BY <2>1 DEF OneEach
  <2>3. t \in S
    BY <1>3, <2>1, <2>2 DEF OlderStores, Older, InRob, InstrIn, At
  <2>4. At(t).id = k
    BY <2>2 DEF At
  <2> QED
    BY <1>1, <2>1, <2>3, <2>4
<1>4. m \in 0 .. i - 1
  <2> HIDE DEF i, m
  <2> QED
    BY <1>2
<1>5. IsLastStore(program, i, a, m)
  BY <1>2, <1>3, <1>4 DEF IsLastStore
<1> QED
  BY <1>5 DEF NearestStore

\* What the loads of the handlers that add operands rest on.
LoadsMayEnter(s) ==
  /\ program \in Programs /\ rob \in Rob /\ IdsInTrace /\ InRob(s)
  /\ Len(results) \in Nat /\ dispatched \in Nat /\ OneEach(rob, dispatched, Len(results))
  /\ MemoryHolds(program, memory, Len(results))

\* The cores slot s can come to as it adds its loads up to load j, each with its store.
Valued(s, j) == {x \in Loaded(s, j) : ValuesInv(program, x, Len(results))}

\* A turn of the loop over the loads finds the store of its load.
LEMMA LoadTurnValues ==
  ASSUME NEW s \in Slot, LoadsMayEnter(s),
         NEW j \in DOMAIN InstrIn(s).loads, j \in Nat \ {0}, NEW x \in Valued(s, j - 1)
  PROVE  LoadTurn(x, s, j) \in Valued(s, j)
<1> DEFINE n == Len(results)
<1>1. /\ program \in Programs /\ rob \in Rob /\ IdsInTrace /\ InRob(s)
      /\ n \in Nat /\ dispatched \in Nat /\ OneEach(rob, dispatched, n) /\ MemoryHolds(program, memory, n)
      /\ x \in Loaded(s, j - 1) /\ ValuesInv(program, x, n)
  BY DEF LoadsMayEnter, Valued
<1> HIDE DEF n
<1>2. LoadTurn(x, s, j) \in Loaded(s, j)
  BY <1>1, LoadTurnLoads
<1>3. SUFFICES ValuesInv(program, LoadTurn(x, s, j), n)
  BY <1>2, <1>3 DEF Valued, n
<1>4. CASE ~(j \notin At(s).source_added /\ LqHasRoom(x))
  BY <1>1, <1>4 DEF LoadTurn
<1>5. CASE j \notin At(s).source_added /\ LqHasRoom(x)
  <2> DEFINE r == add_load_queue(x, s, j)
             a == InstrIn(s).loads[j]
             w == NearestStore(s, a)
             l == FreeLoad(x)
             i == At(s).id
             i2 == At(w).id
  <2>1. /\ x \in Grown(s) /\ Accounts(program, x)
        /\ x.rob.at[s].source_added \subseteq At(s).source_added \cup 1 .. j - 1
    BY <1>1 DEF Loaded
  <2>2. x \in CoreRec(program) /\ IdsOf(program, x.rob) /\ SameIds(rob, x.rob)
    BY <1>1, <2>1, GrownIds
  <2>3. LoadGoes(x, r, s, j)
    BY <1>1, <1>5, <2>2, AddLoadGoes
  <2>4. LoadTurn(x, s, j) = r
    BY <1>5 DEF LoadTurn
  <2>5. l \in Lq /\ x.lq[l].addr = Nil
    BY <1>5, FreeLoadIsFree
  <2>6. /\ x.rob.at[s].id = i /\ i # 0 /\ j \in DOMAIN program[i].loads /\ a = program[i].loads[j]
        /\ j \notin x.rob.at[s].source_added
    <3>1. j \notin 1 .. j - 1
      OBVIOUS
    <3> QED
      BY <1>1, <1>5, <2>1, <2>2, <3>1 DEF SameIds, At, InRob, InstrIn
  <2>7. j \in Src /\ a # Nil /\ a \in Addr
    <3>1. i \in 0 .. Len(program)
      BY <1>1 DEF IdsInTrace
    <3> HIDE DEF i
    <3> QED
      BY <1>1, <2>6, <3>1, OperandsOf, Sizes
  <2> HIDE DEF r, l
  <2>8. SUFFICES ValuesInv(program, r, n)
    BY <2>4, <2>8
  <2>9. CASE OlderStores(s, a) = {}
    <3>1. AddsLoad(program, x, r, s, j, l, i, a)
      BY <2>3, <2>9 DEF LoadGoes, l
    <3>2. WritesLoad(x, r, s, j, l, i, a, Nil, "NO") /\ r.got = x.got
      BY <3>1 DEF AddsLoad, WritesLoad
    <3>3. memory[a] <= n /\ IsLastStore(program, i, a, memory[a])
      <4> HIDE DEF a
      <4> QED
        BY <1>1, <2>7, <2>9, NoOlderStore
    <3> HIDE DEF a, i
    <3>4. FindsItsStore(program, LoadOf(i, a, s, j, Nil, "NO"), n)
      BY <3>3 DEF FindsItsStore, LoadOf, IsLastStore
    <3> QED
      BY ONLY s \in Slot, <1>1, <2>2, <2>5, <2>6, <2>7, <3>2, <3>4, ValuesWithLoad
  <2>10. CASE OlderStores(s, a) # {}
    <3>1. PICK y : /\ AddsWaiting(program, x, y, s, j, l, i, a, w, i2)
                   /\ \/ r = y
                      \/ \E v : v[l] = i2 /\ IsReleased(program, y, r, {l}, v)
      <4>1. \E y : /\ AddsWaiting(program, x, y, s, j, l, i, a, w, i2)
                   /\ IF Forwarders(x, i2, a) = {} THEN r = y
                      ELSE \E f \in Forwarders(x, i2, a) :
                             IsReleased(program, y, r, {l}, [m \in {l} |-> x.sq.at[f].id])
        BY <2>3, <2>10 DEF LoadGoes, l
      <4>2. ASSUME NEW f \in Forwarders(x, i2, a)  PROVE [m \in {l} |-> x.sq.at[f].id][l] = i2
        BY DEF Forwarders
      <4> QED
        BY <4>1, <4>2
    <3>2. WritesLoad(x, y, s, j, l, i, a, i2, "INFLIGHT") /\ y.got = x.got /\ y \in CoreRec(program)
      BY <3>1 DEF AddsWaiting, WritesLoad
    <3>3. IsLastStore(program, i, a, i2)
      <4> HIDE DEF a
      <4> QED
        BY <1>1, <2>10, NearestIsLast
    <3> HIDE DEF a, i, i2
    <3>4. FindsItsStore(program, LoadOf(i, a, s, j, i2, "INFLIGHT"), n)
      BY <3>3 DEF FindsItsStore, LoadOf, IsLastStore
    <3>5. ValuesInv(program, y, n)
      BY ONLY s \in Slot, <1>1, <2>2, <2>5, <2>6, <2>7, <3>2, <3>4, ValuesWithLoad
    <3>6. LoadAccounted(x, y, s, j)
      BY ONLY s \in Slot, <1>1, <2>1, <2>2, <2>5, <2>6, <3>2, LoadTaking
    <3>7. CASE \E v : v[l] = i2 /\ IsReleased(program, y, r, {l}, v)
      <4>1. PICK v : v[l] = i2 /\ IsReleased(program, y, r, {l}, v)
        BY <3>7
      <4>2. y.lq[l] = LoadOf(i, a, s, j, i2, "INFLIGHT")
        BY <2>5, <3>2 DEF WritesLoad
      <4>3. y.lq[l].id = i /\ y.lq[l].addr = a
        BY <4>2 DEF LoadOf
      <4> DEFINE L == {l}
      <4>4. /\ L \in SUBSET Lq /\ IsReleased(program, y, r, L, v)
            /\ \A k \in L : y.lq[k].addr # Nil /\ IsLastStore(program, y.lq[k].id, y.lq[k].addr, v[k])
        BY <2>5, <2>7, <3>3, <4>1, <4>3
      <4>5. Accounts(program, y) /\ IdsOf(program, y.rob)
        <5>1. \A t \in Slot : y.rob.at[t].id = x.rob.at[t].id
          BY <3>6 DEF LoadAccounted, SameStores
        <5> QED
          BY <2>2, <3>6, <5>1 DEF IdsOf, LoadAccounted
      <4> HIDE DEF L
      <4> QED
        BY ONLY <1>1, <3>2, <3>5, <4>4, <4>5, ValuesReleased
    <3> QED
      BY <3>1, <3>5, <3>7
  <2> QED
    BY <2>9, <2>10
<1> QED
  BY <1>4, <1>5

\* The cores slot s can come to, each load with its store.
Sound(s) == {x \in Grown(s) : ValuesInv(program, x, Len(results))}

\* A turn of the loop over the stores leaves the loads alone.
LEMMA StoreTurnValues ==
  ASSUME NEW s \in Slot, LoadsMayEnter(s),
         NEW k \in DOMAIN InstrIn(s).stores, NEW x \in Sound(s)
  PROVE  StoreTurn(x, s, k) \in Sound(s)
<1> DEFINE n == Len(results)
<1>1. /\ program \in Programs /\ rob \in Rob /\ IdsInTrace /\ InRob(s)
      /\ x \in Grown(s) /\ ValuesInv(program, x, n)
  BY DEF LoadsMayEnter, Sound
<1> HIDE DEF n
<1>2. StoreTurn(x, s, k) \in Grown(s)
  BY <1>1, StoreGrows
<1>3. SUFFICES ValuesInv(program, StoreTurn(x, s, k), n)
  BY <1>2, <1>3 DEF Sound, n
<1>4. CASE ~(k \notin At(s).destination_added /\ MayAddStore(x, s))
  BY <1>1, <1>4 DEF StoreTurn
<1>5. CASE k \notin At(s).destination_added /\ MayAddStore(x, s)
  <2> DEFINE r == add_store_queue(x, s, k)
  <2>1. StoreTurn(x, s, k) = r
    BY <1>5 DEF StoreTurn
  <2>2. x \in CoreRec(program)
    BY <1>1 DEF Grown
  <2>3. StoreGoes(x, r, s, k)
    BY <1>1, <2>2, AddStoreGoes
  <2> HIDE DEF r
  <2>4. /\ r.lq = x.lq /\ r.got = x.got
        /\ \A t \in Slot : SameSources(x.rob.at[t], r.rob.at[t])
    BY <2>3 DEF StoreGoes, AddsStore, IsStoreAdded, SameRegs, SameSources
  <2>5. \A l \in Lq : SameLoad(x.lq[l], r.lq[l])
    BY <2>4 DEF SameLoad
  <2>6. ValuesInv(program, r, n)
    BY <1>1, <2>4, <2>5, ValuesKept
  <2> QED
    BY <2>1, <2>6
<1> QED
  BY <1>4, <1>5

\* check_and_add_lsq finds the store of every load it adds.
LEMMA AllValued ==
  ASSUME NEW s \in Slot, LoadsMayEnter(s), Core \in CoreRec(program), Indexed(rob),
         LoadStages(lq, ready, dtlb, l1d), Accounts(program, Core),
         ValuesInv(program, Core, Len(results))
  PROVE  check_and_add_lsq(s) \in Sound(s)
<1> DEFINE n == Len(InstrIn(s).loads)
           m == Len(InstrIn(s).stores)
<1>1. /\ Core.rob = rob /\ Core.ready = ready /\ Core.lq = lq /\ Core.sq = sq /\ rob \in Rob
      /\ program \in Programs /\ IdsInTrace /\ InRob(s)
  BY CoreFields DEF Core, LoadsMayEnter
<1>2. /\ n \in Nat /\ DOMAIN InstrIn(s).loads = 1 .. n
      /\ m \in Nat /\ DOMAIN InstrIn(s).stores = 1 .. m
  <2>1. Len(program) \in Nat /\ At(s).id \in 1 .. Len(program)
    BY <1>1, ProgramsAssumption, LenProperties DEF IdsInTrace, InRob
  <2> QED
    BY <1>1, <2>1, ProgramFacts DEF InstrIn
<1>3. Core \in Valued(s, 0)
  <2>1. Core \in Grown(s)
    BY <1>1 DEF Grown, Grows, SameRTE, SameRegs
  <2>2. SameStoreSide(Core, Core)
    BY DEF SameStoreSide, SameStores
  <2> QED
    BY <1>1, <2>1, <2>2 DEF Valued, Loaded, At
<1> HIDE DEF n, m
<1> DEFINE q == AddLoads(Core, s)
<1>4. q \in Valued(s, n)
  <2> DEFINE V == [i \in 0 .. n |-> Valued(s, i)]
  <2>1. \A i \in 0 .. n : V[i] = Valued(s, i)
    OBVIOUS
  <2>2. \A j \in 1 .. n : j - 1 \in 0 .. n /\ j \in 0 .. n /\ j \in Nat \ {0}
    BY <1>2
  <2>3. 0 \in 0 .. n /\ n \in 0 .. n
    BY <1>2
  <2> HIDE DEF V
  <2>4. ASSUME NEW j \in 1 .. n, NEW x \in V[j - 1]  PROVE LoadTurn(x, s, j) \in V[j]
    <3>1. V[j - 1] = Valued(s, j - 1) /\ V[j] = Valued(s, j)
      BY <2>1, <2>2
    <3>2. j \in DOMAIN InstrIn(s).loads /\ j \in Nat \ {0} /\ x \in Valued(s, j - 1)
      BY <1>2, <2>2, <3>1
    <3>3. LoadTurn(x, s, j) \in Valued(s, j)
      BY <3>2, LoadTurnValues
    <3> QED
      BY <3>1, <3>3
  <2>5. AddLoads(Core, s) \in V[n]
    BY <1>2, <1>3, <2>1, <2>3, <2>4, LoadsByTurns DEF n
  <2> QED
    BY <2>1, <2>3, <2>5
<1>5. q \in Sound(s)
  BY <1>4 DEF Valued, Loaded, Sound
<1> HIDE DEF q
<1>6. AddStores(q, s) \in Sound(s)
  <2> DEFINE V == [i \in 0 .. m |-> Sound(s)]
  <2>1. \A i \in 0 .. m : V[i] = Sound(s)
    OBVIOUS
  <2>2. \A j \in 1 .. m : j - 1 \in 0 .. m /\ j \in 0 .. m
    BY <1>2
  <2>3. 0 \in 0 .. m /\ m \in 0 .. m
    BY <1>2
  <2> HIDE DEF V
  <2>4. \A j \in 1 .. m : \A x \in V[j - 1] : StoreTurn(x, s, j) \in V[j]
    BY <1>2, <2>1, <2>2, StoreTurnValues
  <2>5. AddStores(q, s) \in V[m]
    BY <1>2, <1>5, <2>1, <2>3, <2>4, StoresByTurns DEF m
  <2> QED
    BY <2>1, <2>3, <2>5
<1> QED
  BY <1>6 DEF check_and_add_lsq, q

\* Nothing of the loads changes but their stages, and nothing retires.
LEMMA ValuesStay ==
  ASSUME Values, UNCHANGED <<program, memory, results, got>>,
         \A l \in Lq : SameLoad(lq[l], lq'[l]),
         \A t \in Slot : rob'.at[t].source_added = {} \/ SameSources(rob.at[t], rob'.at[t])
  PROVE  Values'
<1> DEFINE q == Core
           r == Core'
           p == program
           n == Len(results)
           m == memory
<1>1. q.rob = rob /\ r.rob = rob' /\ q.lq = lq /\ r.lq = lq' /\ r.got = q.got
  BY DEF Core
<1>2. ValuesInv(p, q, n) /\ MemoryHolds(p, m, n)
  BY DEF Values
<1>3. /\ \A l \in Lq : SameLoad(q.lq[l], r.lq[l])
      /\ \A t \in Slot : r.rob.at[t].source_added = {} \/ SameSources(q.rob.at[t], r.rob.at[t])
  BY <1>1
<1> HIDE DEF q, r, p, n, m
<1>4. ValuesInv(p, r, n)
  BY <1>1, <1>2, <1>3, ValuesKept
<1> QED
  BY <1>2, <1>4 DEF Values, r, p, n, m

\* So it is as instructions are read, enter the buffer, are scheduled,
LEMMA FrontKeepsValues ==
  ASSUME Machine, Registers, Lsq, Values,
         read_from_trace \/ add_to_rob \/ \E s \in Slot : do_scheduling(s)
  PROVE  Values'
<1>1. CASE read_from_trace
  <2>1. UNCHANGED <<program, memory, results, got, lq, rob>>
    BY <1>1 DEF read_from_trace, outside, history
  <2> QED
    BY <2>1, ValuesStay DEF SameLoad, SameSources
<1>2. CASE add_to_rob
  <2>1. UNCHANGED <<program, memory, results, got, lq>>
    BY <1>2 DEF add_to_rob, outside, history
  <2>2. rob \in Rob /\ dispatched \in Nat /\ MemOps(program[dispatched + 1]) \in Int
    <3>1. rob \in Rob /\ dispatched \in 0 .. Len(program) /\ Len(program) \in Nat /\ dispatched < read /\ read <= Len(program)
          /\ program \in Programs /\ dispatched \in Nat /\ read \in Nat
      BY <1>2, TraceFacts DEF Machine, add_to_rob
    <3>2. dispatched + 1 \in 1 .. Len(program)
      BY <3>1
    <3> QED
      BY <3>1, <3>2, ProgramFacts
  <2>3. \A t \in Slot : rob'.at[t].source_added = {} \/ rob'.at[t] = rob.at[t]
    BY <1>2, <2>2, AddedToRob DEF IsNew
  <2> QED
    BY <2>1, <2>3, ValuesStay DEF SameLoad, SameSources
<1>3. ASSUME NEW s \in Slot, do_scheduling(s)  PROVE Values'
  <2> DEFINE deps == Dependencies(s)
             b == rob'
  <2>1. InRob(s) /\ UNCHANGED <<program, memory, results, got, lq>>
    BY <1>3 DEF do_scheduling, MaySchedule, trace, outside, history
  <2>2. Cardinality(deps) \in Int /\ rob \in Rob
    BY <2>1, ProducersAreLast DEF Machine
  <2>3. /\ IsScheduled(program, rob.at[s], b.at[s], deps)
        /\ \A t \in Slot : t # s => IsRecording(rob.at[t], b.at[t], s, {j \in deps : Producer(s, j) = t})
    BY <1>3, <2>2, ScheduledEntries
  <2> HIDE DEF deps, b
  <2>4. \A t \in Slot : SameSources(rob.at[t], b.at[t])
    BY <2>3 DEF IsScheduled, IsRecording, SameOperands, SameSources
  <2> QED
    BY <2>1, <2>4, ValuesStay DEF SameLoad, b
<1> QED
  BY <1>1, <1>2, <1>3

\* execute,
LEMMA ExecutionKeepsValues ==
  ASSUME Machine, Registers, Values,
         (\E ring \in {"RTE0", "RTE1"} : do_execution(ring)) \/ \E s \in Slot : complete_execution(s)
  PROVE  Values'
<1>1. rob \in Rob
  BY DEF Machine
<1> SUFFICES UNCHANGED <<program, memory, results, got, lq>> /\ \A t \in Slot : SameSources(rob.at[t], rob'.at[t])
  BY ValuesStay DEF SameLoad
<1>2. CASE \E ring \in {"RTE0", "RTE1"} : do_execution(ring)
  <2>1. PICK ring \in {"RTE0", "RTE1"} : do_execution(ring)
    BY <1>2
  <2> DEFINE s == First(ready[ring])
             b == rob'
  <2>2. s # Nil /\ UNCHANGED <<program, memory, results, got, lq>>
    BY <2>1 DEF do_execution, trace, outside, history
  <2>3. s \in Slot
    <3>1. PICK S0, S1 : /\ RingOf(ready.RTE0, ROB_SIZE, S0)
                        /\ RingOf(ready.RTE1, ROB_SIZE, S1)
                        /\ S0 \cup S1 = ReadyToExecute(program, rob)
      BY DEF Registers, Queued
    <3>2. s \in ReadyToExecute(program, rob)
      BY <2>2, <3>1, Sizes, FirstIsInRing
    <3> QED
      BY <3>2 DEF ReadyToExecute
  <2>4. IsExecuting(rob, b, s, "INFLIGHT")
    BY <1>1, <2>1, <2>3, ExecutingEntry
  <2> HIDE DEF b, s
  <2>5. \A t \in Slot : SameSources(rob.at[t], b.at[t])
    BY <2>4 DEF IsExecuting, SameOperands, SameSources
  <2> QED
    BY <2>2, <2>5 DEF b
<1>3. CASE \E s \in Slot : complete_execution(s)
  <2>1. PICK s \in Slot : complete_execution(s)
    BY <1>3
  <2> DEFINE b == rob'
  <2>2. UNCHANGED <<program, memory, results, got, lq>>
    BY <2>1 DEF complete_execution, trace, outside, history
  <2>3. \A t \in Slot : Cardinality(WaitsFor(s, t)) \in Int
    <3> TAKE t \in Slot
    <3>1. WaitsFor(s, t) \subseteq Src
      BY DEF WaitsFor
    <3> QED
      BY <3>1, OperandsFinite
  <2>4. /\ b.at[s] = [rob.at[s] EXCEPT !.executed = "COMPLETED"]
        /\ \A t \in Slot : t # s =>
             IsWithoutSource(program, rob.at[t], b.at[t], Cardinality(WaitsFor(s, t)), t \in Released(s))
    BY <1>1, <2>1, <2>3, CompletedEntries
  <2> HIDE DEF b
  <2>5. \A t \in Slot : t # s => SameSources(rob.at[t], b.at[t])
    BY <2>4 DEF IsWithoutSource, SameOperands, SameSources
  <2>6. SameSources(rob.at[s], b.at[s])
    BY <1>1, <2>4 DEF Rob, Entry, SameSources
  <2> QED
    BY <2>2, <2>5, <2>6 DEF b
<1> QED
  BY <1>2, <1>3

\* as operands come to other stages,
LEMMA StagesKeepValues ==
  ASSUME Machine, Values,
         \/ TranslateStore \/ TranslateLoad \/ execute_load
         \/ \E own, packet : TranslationDone(own, packet)
  PROVE  Values'
<1>1. lq \in [Lq -> LoadRec]
  BY DEF Machine
<1> SUFFICES UNCHANGED <<program, memory, results, got, rob>> /\ \A l \in Lq : SameLoad(lq[l], lq'[l])
  BY ValuesStay DEF SameSources
<1>2. CASE TranslateStore
  BY <1>2 DEF TranslateStore, trace, history, SameLoad
<1>3. CASE TranslateLoad
  <2>1. /\ lq' = [lq EXCEPT ![First(ready.RTL0)].translated = "INFLIGHT"]
        /\ UNCHANGED <<program, memory, results, got, rob>>
    BY <1>3 DEF TranslateLoad, trace, history
  <2> QED
    BY <1>1, <2>1 DEF SameLoad, LoadRec
<1>4. CASE execute_load
  <2>1. /\ lq' = [lq EXCEPT ![First(ready.RTL1)].fetched = "INFLIGHT"]
        /\ UNCHANGED <<program, memory, results, got, rob>>
    BY <1>4 DEF execute_load, trace, history
  <2> QED
    BY <1>1, <2>1 DEF SameLoad, LoadRec
<1>5. CASE \E own, packet : TranslationDone(own, packet)
  <2>1. PICK own, packet : TranslationDone(own, packet)
    BY <1>5
  <2>2. PICK K, M, y, w : PacketGoes(packet, K, M, y, w)
    BY <2>1, TranslationGoes
  <2>3. UNCHANGED <<program, memory, results, got, rob>>
    BY Zenon, <2>1 DEF TranslationDone, trace, history
  <2>4. lq' = [l \in Lq |-> IF l \in K THEN [lq[l] EXCEPT !.translated = "COMPLETED"] ELSE lq[l]]
    BY <2>2 DEF PacketGoes
  <2> QED
    BY <1>1, <2>3, <2>4 DEF SameLoad, LoadRec
<1> QED
  BY <1>2, <1>3, <1>4, <1>5

\* Issuing an instruction leaves what the loads have returned.
LEMMA IssueKeepsGot ==
  ASSUME NEW p, NEW q \in CoreRec(p), NEW s \in Slot, NEW all \in BOOLEAN,
         NEW x, x = IF all THEN [q EXCEPT !.rob.at[s] = Issued(@)] ELSE q
  PROVE  x.got = q.got
<1> DEFINE c == [q.rob EXCEPT !.at[s] = Issued(q.rob.at[s])]
<1>1. CASE all
  <2>1. x = [q EXCEPT !.rob = c]
    BY <1>1 DEF CoreRec
  <2> HIDE DEF c
  <2> QED
    BY <2>1 DEF CoreRec
<1>2. CASE ~all
  BY <1>2
<1> QED
  BY <1>1, <1>2

\* What the handlers that add operands rest on holds of the machine.
LEMMA LoadsMayEnterHere ==
  ASSUME Machine, Registers, Lsq, Values, NEW s \in Slot, InRob(s)
  PROVE  LoadsMayEnter(s)
<1>1. program \in Programs /\ IdsInTrace /\ OneEach(rob, dispatched, Len(results))
  BY LsqFacts
<1>2. Len(results) \in Nat /\ dispatched \in Nat
  BY TraceFacts
<1> QED
  BY <1>1, <1>2 DEF LoadsMayEnter, Machine, Values

\* as operands enter the queues,
LEMMA MemoryKeepsValues ==
  ASSUME Machine, Registers, Lsq, Values, NEW s \in Slot, do_memory_scheduling(s)
  PROVE  Values'
<1> DEFINE q == check_and_add_lsq(s)
           p == program
           n == Len(results)
           m == memory
           all == AllAdded(q.rob.at[s], InstrIn(s))
           x == IF all THEN [q EXCEPT !.rob.at[s] = Issued(@)] ELSE q
<1>1. InRob(s) /\ Become(x) /\ UNCHANGED <<program, memory, results>>
  BY DEF do_memory_scheduling, MayAdd, trace, outside, history
<1>2. q \in CoreRec(p) /\ ValuesInv(p, q, n)
  <2>1. Core \in CoreRec(program) /\ Accounts(program, Core)
    BY LsqFacts DEF LsqInv
  <2>2. LoadsMayEnter(s)
    BY <1>1, LoadsMayEnterHere
  <2>3. check_and_add_lsq(s) \in Sound(s)
    BY <2>1, <2>2, AllValued DEF Machine, Values
  <2> QED
    BY <2>3 DEF Sound, Grown
<1>3. all \in BOOLEAN
  BY DEF AllAdded
<1> HIDE DEF q, all
<1>4. x \in CoreRec(p) /\ IssuesAll(p, q, x, s, all) /\ x.got = q.got
  BY <1>2, <1>3, IssuesWhenAll, IssueKeepsGot
<1> HIDE DEF x
<1>5. Core' = x
  BY <1>1, <1>4, BecomesCore
<1>6. MemoryHolds(p, m, n)
  BY DEF Values
<1> HIDE DEF p, n, m
<1>7. \A l \in Lq : SameLoad(q.lq[l], x.lq[l])
  BY <1>4 DEF IssuesAll, SameLoad
<1>8. \A t \in Slot : SameSources(q.rob.at[t], x.rob.at[t])
  <2> SUFFICES ASSUME NEW t \in Slot PROVE SameSources(q.rob.at[t], x.rob.at[t])
    OBVIOUS
  <2>1. CASE t = s
    BY <1>4, <2>1 DEF IssuesAll, ExecutionIs, SameSources
  <2>2. CASE t # s
    BY <1>4, <2>2 DEF IssuesAll, SameSources
  <2> QED
    BY <2>1, <2>2
<1>9. ValuesInv(p, x, n)
  BY <1>2, <1>4, <1>7, <1>8, ValuesKept
<1> QED
  BY <1>1, <1>5, <1>6, <1>9 DEF Values, p, n, m

\* A load that waits for no store finds the last one in memory.
LEMMA MemoryIsLast ==
  ASSUME Machine, Registers, Lsq, Values, NEW l \in Lq, lq[l].addr # Nil, lq[l].producer_id = Nil
  PROVE  IsLastStore(program, lq[l].id, lq[l].addr, memory[lq[l].addr])
<1> DEFINE n == Len(results)
           p == program
           d == dispatched
           i == lq[l].id
           a == lq[l].addr
           e == rob.at[lq[l].rob_index]
<1>1. Core.rob = rob /\ Core.lq = lq
  BY DEF Core
<1>2. IsLoadOf(p, rob, lq[l], l)
  BY LsqFacts, <1>1 DEF LsqInv, Accounts, LoadsNamed, NoLoad
<1>3. a \in Addr /\ i # 0 /\ e.id = i
  BY <1>2 DEF IsLoadOf
<1>4. lq[l].rob_index \in Slot
  BY DEF Machine, LoadRec
<1>5. i \in n + 1 .. d
  BY <1>3, <1>4, LsqFacts DEF OneEach
<1>6. n \in Nat /\ d \in Nat
  BY TraceFacts
<1>7. PICK m \in 0 .. i - 1 : IsLastStore(p, i, a, m) /\ (lq[l].producer_id = m \/ m <= n)
  BY <1>1 DEF Values, ValuesInv, LoadsFind, FindsItsStore
<1>8. MemoryHolds(p, memory, n)
  BY DEF Values
<1> HIDE DEF n, p, d, i, a, e
<1>9. m <= n
  <2>1. m # Nil
    BY <1>7, Sizes
  <2> QED
    BY <1>7, <2>1
<1>10. n + 1 \in 1 .. i /\ i \in Nat /\ m <= (n + 1) - 1 /\ n + 1 \in Nat
  BY <1>5, <1>6, <1>9
<1>11. IsLastStore(p, n + 1, a, m)
  BY <1>7, <1>10, LastStoreEarlier
<1>12. IsLastStore(p, n + 1, a, memory[a])
  BY <1>3, <1>8 DEF MemoryHolds
<1>13. memory[a] = m
  BY <1>10, <1>11, <1>12, OneLastStore
<1> QED
  BY <1>7, <1>13 DEF p, i, a

\* as the L1D answers,
LEMMA DataDoneKeepsValues ==
  ASSUME Machine, Registers, Lsq, Values, NEW packet, DataDone(packet)
  PROVE  Values'
<1> DEFINE q == Core
           p == program
           n == Len(results)
           m == memory
           v == [l \in packet |-> memory[lq[l].addr]]
<1>1. PICK r : /\ Become(r) /\ packet \in SUBSET l1d /\ l1d \in SUBSET Lq
               /\ IsReleased(p, q, r, packet, v)
               /\ UNCHANGED <<program, read, dispatched, dtlb, memory, results>>
  BY DataDoneGoes
<1>2. p \in Programs /\ q \in CoreRec(p) /\ Accounts(p, q) /\ IdsOf(p, rob) /\ q.rob = rob /\ q.lq = lq
  BY LsqFacts DEF Core, LsqInv
<1>3. \A l \in packet : /\ l \in Lq /\ lq[l].addr # Nil
                        /\ IsLastStore(p, lq[l].id, lq[l].addr, v[l])
  <2> SUFFICES ASSUME NEW l \in packet
               PROVE  l \in Lq /\ lq[l].addr # Nil /\ IsLastStore(p, lq[l].id, lq[l].addr, v[l])
    OBVIOUS
  <2>1. l \in Lq /\ lq[l].addr # Nil /\ lq[l].producer_id = Nil
    BY <1>1 DEF Machine, LoadStages, InStage
  <2>2. IsLastStore(program, lq[l].id, lq[l].addr, memory[lq[l].addr])
    BY <2>1, MemoryIsLast
  <2> QED
    BY <2>1, <2>2
<1>4. Core' = r
  BY <1>1, BecomesCore DEF IsReleased
<1>5. ValuesInv(p, q, n) /\ MemoryHolds(p, m, n)
  BY DEF Values
<1> HIDE DEF q, p, n, m, v
<1>6. ValuesInv(p, r, n)
  <2>1. packet \in SUBSET Lq /\ IdsOf(p, q.rob)
    BY <1>1, <1>2
  <2>2. \A l \in packet : q.lq[l].addr # Nil /\ IsLastStore(p, q.lq[l].id, q.lq[l].addr, v[l])
    BY <1>2, <1>3
  <2> QED
    BY ONLY <1>1, <1>2, <1>5, <2>1, <2>2, ValuesReleased
<1> QED
  BY <1>1, <1>4, <1>5, <1>6 DEF Values, p, n, m

\* as a store forwards,
LEMMA ForwardKeepsValues ==
  ASSUME Machine, Registers, Lsq, Values, execute_store
  PROVE  Values'
<1> DEFINE q == Core
           p == program
           n == Len(results)
           m == memory
<1>1. PICK y, r, L, v : /\ Forwards(y, r, L, v) /\ Become(r)
                        /\ UNCHANGED <<program, read, dispatched, dtlb, l1dWQ, memory, results>>
  BY StoreForwards
<1>2. Core' = r
  BY <1>1, BecomesCore DEF Forwards, IsReleased
<1>3. p \in Programs
  BY LsqFacts
<1>4. /\ y \in CoreRec(p) /\ Accounts(p, y) /\ IdsOf(p, y.rob)
      /\ L \in SUBSET Lq /\ IsReleased(p, y, r, L, v)
      /\ \A l \in L : y.lq[l].addr # Nil /\ y.lq[l].producer_id = v[l] /\ v[l] # Nil
  BY <1>1 DEF Forwards, LsqInv
<1>5. y.lq = q.lq /\ y.got = q.got /\ q.rob = rob
  BY <1>1 DEF Forwards, Core
<1>6. PICK k : \A t \in Slot : IsWithoutOps(rob.at[t], y.rob.at[t], k[t])
  BY <1>1 DEF Forwards
<1>7. ValuesInv(p, q, n) /\ MemoryHolds(p, m, n)
  BY DEF Values
<1> HIDE DEF q, p, n, m
<1>8. \A l \in Lq : SameLoad(q.lq[l], y.lq[l])
  BY <1>5 DEF SameLoad
<1>9. \A t \in Slot : SameSources(q.rob.at[t], y.rob.at[t])
  BY <1>5, <1>6 DEF IsWithoutOps, SameRegs, SameSources
<1>10. ValuesInv(p, y, n)
  BY <1>5, <1>7, <1>8, <1>9, ValuesKept
<1>11. \A l \in L : y.lq[l].addr # Nil /\ IsLastStore(p, y.lq[l].id, y.lq[l].addr, v[l])
  <2> SUFFICES ASSUME NEW l \in L PROVE IsLastStore(p, y.lq[l].id, y.lq[l].addr, v[l])
    BY <1>4
  <2>1. FindsItsStore(p, y.lq[l], n)
    BY <1>4, <1>10 DEF ValuesInv, LoadsFind
  <2> QED
    BY <1>4, <2>1 DEF FindsItsStore
<1>12. ValuesInv(p, r, n)
  BY ONLY <1>3, <1>4, <1>10, <1>11, ValuesReleased
<1> QED
  BY <1>1, <1>2, <1>7, <1>12 DEF Values, p, n, m

\* and as the L1D takes a store out of its write queue.
LEMMA L1DWritesKeepsValues ==
  ASSUME Values, L1DWrites
  PROVE  Values'
<1>1. UNCHANGED <<program, rob, lq, sq, sta, ready, inflight, got, memory, results>>
  BY DEF L1DWrites, trace, core, history
<1>2. Core' = Core
  BY <1>1 DEF Core
<1> QED
  BY <1>1, <1>2 DEF Values

\* The oldest instruction, in slot s, retires with what its loads have returned.
RetiresFrom(s, i) ==
  /\ i = Len(results) + 1 /\ i \in 1 .. Len(program) /\ rob.at[s].id = i
  /\ NothingLeft(program, Core, s)
  /\ rob'.at[s] = NoInstr /\ SameSlotsBut(rob, rob', s)
  /\ UNCHANGED <<program, lq, got>>
  /\ results' = Append(results, got[i])
  /\ memory' = [a \in Addr |-> IF a \in StoresOf(program[i]) THEN i ELSE memory[a]]

LEMMA RetirementGoes ==
  ASSUME Machine, Registers, Lsq, retire_rob
  PROVE  \E s \in Slot : \E i : RetiresFrom(s, i)
<1> DEFINE q == Core
           p == program
           n == Len(results)
           d == dispatched
           rd == read
           s == rob.head
           b == rob'
<1>1. /\ InRob(s) /\ At(s).executed = "COMPLETED"
      /\ results' = Append(results, got[At(s).id])
      /\ memory' = [a \in Addr |-> IF a \in StoresOf(program[At(s).id]) THEN At(s).id ELSE memory[a]]
      /\ UNCHANGED <<program, lq, got>>
  BY DEF retire_rob, trace, InstrIn
<1>2. /\ rob \in Rob /\ s \in Slot /\ RegInv(p, rob, d, n) /\ InTrace(p, rd, d, n)
  BY DEF Machine, Registers, Rob
<1>3. /\ b \in Rob /\ b.tail = rob.tail /\ b.head = (s + 1) % ROB_SIZE /\ b.at[s] = NoInstr
      /\ \A t \in Slot : t # s => b.at[t] = rob.at[t]
  <2>1. rob' = [rob EXCEPT !.at[s] = NoInstr, !.head = (@ + 1) % ROB_SIZE]
    BY DEF retire_rob
  <2> QED
    BY <1>2, <2>1, RetiredEntry
<1>4. rob.at[s].id # 0 /\ rob.at[s].executed = "COMPLETED"
  BY <1>1 DEF InRob, At
<1>5. rob.at[s].id = n + 1 /\ n < d
  <2> HIDE DEF b, n, p, d, rd
  <2> QED
    BY <1>2, <1>3, <1>4, RegsWithoutRetired
<1>6. /\ p \in Programs /\ q \in CoreRec(p) /\ LsqInv(p, q, dtlb, n, d, rd) /\ IdsOf(p, rob) /\ q.rob = rob
  BY LsqFacts DEF Core
<1>7. PICK f, a : StoresUpTo(p, f) /\ Stores(p, f, q, dtlb, n, d, rd, a)
  BY <1>6 DEF LsqInv
<1>8. NothingLeft(p, q, s)
  <2>1. Accounts(p, q) /\ StoresHeld(p, q.rob, q.sq)
    BY <1>6, <1>7, WindowHolds DEF LsqInv, Stores
  <2> HIDE DEF p, q, s, n
  <2> QED
    BY <1>2, <1>4, <1>6, <2>1, CompleteHasNothingLeft
<1>9. n + 1 \in 1 .. Len(p)
  <2>1. Len(p) \in Nat /\ n \in Nat /\ d \in Nat /\ d <= Len(p)
    BY TraceFacts
  <2> HIDE DEF n, d, p
  <2> QED
    BY <1>5, <2>1
<1>10. SameSlotsBut(rob, b, s)
  BY <1>3 DEF SameSlotsBut
<1>11. At(s).id = n + 1
  BY <1>5 DEF At
<1> DEFINE i == n + 1
<1>12. RetiresFrom(s, i)
  BY <1>1, <1>3, <1>5, <1>8, <1>9, <1>10, <1>11 DEF RetiresFrom
<1> QED
  BY <1>2, <1>12

\* Each of its loads has returned what memory holds now.
LEMMA OldestHasValues ==
  ASSUME Machine, Registers, Lsq, Values, NEW s \in Slot, NEW i, RetiresFrom(s, i)
  PROVE  got[i] = [j \in DOMAIN program[i].loads |-> memory[program[i].loads[j]]]
<1> DEFINE p == program
           n == Len(results)
           m == memory
           e == rob.at[s]
<1>1. Core.rob = rob /\ Core.lq = lq /\ Core.got = got
  BY DEF Core
<1>2. /\ i = n + 1 /\ i \in 1 .. Len(p) /\ e.id = i /\ i # 0 /\ n \in Nat /\ Len(p) \in Nat
      /\ InLq(Core, s) = {} /\ e.source_added = DOMAIN p[i].loads
  BY <1>1, TraceFacts DEF RetiresFrom, NothingLeft
<1>3. p \in Programs /\ LoadsNamed(p, Core) /\ OneEach(rob, dispatched, n)
  BY LsqFacts DEF LsqInv, Accounts
<1>4. IsServed(p, Core, e)
  BY <1>1, <1>2 DEF Values, ValuesInv, LoadsServed
<1>5. MemoryHolds(p, m, n)
  BY DEF Values
<1>6. ASSUME NEW j \in DOMAIN p[i].loads  PROVE got[i][j] = m[p[i].loads[j]]
  <2>1. ~IsInQueue(lq, e, j)
    <3> SUFFICES ASSUME IsInQueue(lq, e, j) PROVE FALSE
      OBVIOUS
    <3> DEFINE l == e.lq_index[j]
    <3>1. l \in Lq /\ lq[l].addr # Nil /\ lq[l].id = i
      BY <1>2 DEF IsInQueue
    <3>2. IsLoadOf(p, rob, lq[l], l)
      BY <1>1, <1>3, <3>1 DEF LoadsNamed, NoLoad
    <3>3. lq[l].rob_index \in Slot
      BY <3>1 DEF Machine, LoadRec
    <3> DEFINE t == lq[l].rob_index
    <3>4. t = s
      <4>1. rob.at[t].id = i /\ t \in Slot
        BY Zenon, <3>1, <3>2, <3>3 DEF IsLoadOf
      <4>2. \A u, x \in Slot : rob.at[u].id # 0 /\ rob.at[u].id = rob.at[x].id => u = x
        BY <1>3 DEF OneEach
      <4>3. rob.at[s].id = i /\ i # 0
        BY <1>2
      <4> HIDE DEF t
      <4> QED
        BY ONLY s \in Slot, <4>1, <4>2, <4>3
    <3>5. l \in InLq(Core, s)
      BY <1>1, <3>1, <3>4 DEF InLq
    <3> QED
      BY <1>2, <3>5
  <2>2. HasValue(p, got, i, j)
    BY <1>1, <1>2, <1>4, <2>1 DEF IsServed
  <2>3. p[i].loads[j] \in Addr
    BY <1>2, <1>3, OperandsOf
  <2> DEFINE a == p[i].loads[j]
  <2>4. IsLastStore(p, n + 1, a, got[i][j]) /\ IsLastStore(p, n + 1, a, m[a])
    BY <1>2, <1>5, <2>2, <2>3 DEF HasValue, MemoryHolds
  <2> HIDE DEF a, n
  <2>5. n + 1 \in Nat
    BY <1>2
  <2> QED
    BY <2>4, <2>5, OneLastStore DEF a
<1>7. got \in GotRec(p)
  BY DEF Machine
<1>8. got[i] \in Row /\ DOMAIN got[i] = DOMAIN p[i].loads
  BY <1>2, <1>7 DEF GotRec
<1>9. got[i] = [j \in DOMAIN got[i] |-> got[i][j]]
  BY <1>8 DEF Row
<1> QED
  BY <1>6, <1>8, <1>9

\* A store that has retired stays retired.
LEMMA ValuesLater ==
  ASSUME NEW p, NEW q, NEW n \in Nat, ValuesInv(p, q, n)
  PROVE  ValuesInv(p, q, n + 1)
<1>1. ASSUME NEW e, FindsItsStore(p, e, n)  PROVE FindsItsStore(p, e, n + 1)
  <2>1. PICK m \in 0 .. e.id - 1 : /\ IsLastStore(p, e.id, e.addr, m)
                                   /\ e.producer_id = m \/ (e.producer_id = Nil /\ m <= n)
    BY <1>1 DEF FindsItsStore
  <2>2. m <= n => m <= n + 1
    OBVIOUS
  <2> QED
    BY <2>1, <2>2 DEF FindsItsStore
<1>2. LoadsFind(p, q.lq, n + 1)
  BY <1>1 DEF ValuesInv, LoadsFind
<1> QED
  BY <1>2 DEF ValuesInv

\* The next instruction retires, as the in-order machine executes it.
LEMMA RetireKeepsValues ==
  ASSUME Machine, Registers, Lsq, Values, retire_rob
  PROVE  Values' /\ IO!ExecuteNext
<1> DEFINE q == Core
           r == Core'
           p == program
           n == Len(results)
           m == memory
           w == memory'
<1> PICK s \in Slot : \E i : RetiresFrom(s, i)
  BY RetirementGoes
<1>1. PICK i : RetiresFrom(s, i)
  OBVIOUS
<1>2. /\ i = n + 1 /\ i \in 1 .. Len(p) /\ n \in Nat /\ Len(p) \in Nat
      /\ rob'.at[s] = NoInstr /\ SameSlotsBut(rob, rob', s)
      /\ UNCHANGED <<program, lq, got>> /\ results' = Append(results, got[i])
      /\ w = [a \in Addr |-> IF a \in StoresOf(p[i]) THEN i ELSE m[a]]
  BY <1>1, TraceFacts DEF RetiresFrom
<1>3. Len(results') = n + 1
  BY <1>2, AppendProperties DEF Machine
<1>4. got[i] = [j \in DOMAIN p[i].loads |-> m[p[i].loads[j]]]
  BY <1>1, OldestHasValues
<1>5. IO!ExecuteNext
  BY <1>2, <1>4 DEF IO!ExecuteNext, IO!StoresTo, StoresOf
<1>6. q.rob = rob /\ q.lq = lq /\ q.got = got /\ r.rob = rob' /\ r.lq = lq' /\ r.got = got'
  BY DEF Core
<1>7. ValuesInv(p, q, n) /\ MemoryHolds(p, m, n)
  BY DEF Values
<1> HIDE DEF q, r, p, n, m, w
<1>8. ValuesInv(p, r, n)
  <2>1. \A l \in Lq : SameLoad(q.lq[l], r.lq[l])
    BY <1>2, <1>6 DEF SameLoad
  <2>2. r.rob.at[s].id = 0
    BY <1>2, <1>6 DEF NoInstr
  <2>3. \A t \in Slot : r.rob.at[t].id = 0 \/ SameSources(q.rob.at[t], r.rob.at[t])
    BY <1>2, <1>6, <2>2 DEF SameSlotsBut, SameSources
  <2>4. r.got = q.got
    BY <1>2, <1>6
  <2> QED
    BY <1>7, <2>1, <2>3, <2>4, ValuesKept
<1>9. ValuesInv(p, r, n + 1)
  BY <1>2, <1>8, ValuesLater
<1>10. MemoryHolds(p, w, n + 1)
  <2>1. \A a \in Addr : w[a] = IF a \in StoresOf(p[n + 1]) THEN n + 1 ELSE m[a]
    BY <1>2
  <2> QED
    BY <1>2, <1>7, <2>1, MemoryWithNext
<1>11. Values'
  BY <1>2, <1>3, <1>9, <1>10 DEF Values, r, p, n, w
<1> QED
  BY <1>5, <1>11

\* At first nothing is in the queues, and memory holds its initial contents.
LEMMA ValuesInitially ==
  ASSUME Init
  PROVE  Values /\ IO!OrderedInit
<1>1. /\ program \in Programs /\ memory = [a \in Addr |-> 0] /\ results = <<>>
      /\ lq = [l \in Lq |-> NoLoad] /\ rob.at = [s \in Slot |-> NoInstr]
      /\ Core.lq = lq /\ Core.rob = rob
  BY DEF Init, Core
<1>2. Len(results) = 0
  BY <1>1
<1>3. LoadsFind(program, Core.lq, 0)
  BY <1>1 DEF LoadsFind, NoLoad
<1>4. LoadsServed(program, Core)
  BY <1>1 DEF LoadsServed, NoInstr
<1>5. MemoryHolds(program, memory, 0)
  BY <1>1 DEF MemoryHolds, IsLastStore
<1> QED
  BY <1>1, <1>2, <1>3, <1>4, <1>5 DEF Values, ValuesInv, IO!OrderedInit

\* A step that is not a retirement is none of the in-order machine.
LEMMA OthersAreHidden ==
  ASSUME Machine, Registers, Lsq,
         \/ read_from_trace \/ add_to_rob \/ \E s \in Slot : do_scheduling(s)
         \/ \E ring \in {"RTE0", "RTE1"} : do_execution(ring)
         \/ \E s \in Slot : complete_execution(s) \/ do_memory_scheduling(s)
         \/ TranslateStore \/ TranslateLoad \/ execute_store \/ execute_load
         \/ \E own, packet : TranslationDone(own, packet)
         \/ \E packet : DataDone(packet)
         \/ L1DWrites
         \/ UNCHANGED vars
  PROVE  UNCHANGED IO!InOrderVars
<1> SUFFICES UNCHANGED <<program, memory, results>>
  BY DEF IO!InOrderVars
<1>1. CASE read_from_trace \/ add_to_rob \/ (\E s \in Slot : do_scheduling(s))
           \/ (\E ring \in {"RTE0", "RTE1"} : do_execution(ring)) \/ \E s \in Slot : complete_execution(s)
  BY <1>1 DEF read_from_trace, add_to_rob, do_scheduling, do_execution, complete_execution, trace, outside, history
<1>2. CASE \E s \in Slot : do_memory_scheduling(s)
  BY <1>2 DEF do_memory_scheduling, MayAdd, trace, history
<1>3. CASE TranslateStore \/ TranslateLoad \/ execute_store \/ execute_load
  BY <1>3 DEF TranslateStore, TranslateLoad, execute_store, execute_load, trace, history
<1>4. CASE (\E own, packet : TranslationDone(own, packet)) \/ (\E packet : DataDone(packet)) \/ L1DWrites
  BY Zenon, <1>4 DEF TranslationDone, DataDone, L1DWrites, trace, history
<1>5. CASE UNCHANGED vars
  BY <1>5 DEF vars, trace, history
<1> QED
  BY <1>1, <1>2, <1>3, <1>4, <1>5

\* Every step keeps the values, and is one of the in-order machine or none.
LEMMA ValuesStep ==
  ASSUME Machine, Registers, Lsq, Values, [Next]_vars
  PROVE  Values' /\ [IO!ExecuteNext]_(IO!InOrderVars)
<1> DEFINE P == Values' /\ [IO!ExecuteNext]_(IO!InOrderVars)
<1>1. CASE read_from_trace \/ add_to_rob \/ \E s \in Slot : do_scheduling(s)
  BY <1>1, FrontKeepsValues, OthersAreHidden
<1>2. CASE (\E ring \in {"RTE0", "RTE1"} : do_execution(ring)) \/ \E s \in Slot : complete_execution(s)
  BY <1>2, ExecutionKeepsValues, OthersAreHidden
<1>3. ASSUME NEW s \in Slot, do_memory_scheduling(s)  PROVE P
  BY <1>3, MemoryKeepsValues, OthersAreHidden
<1>4. CASE TranslateStore \/ TranslateLoad \/ execute_load
  BY <1>4, StagesKeepValues, OthersAreHidden
<1>5. ASSUME NEW packet, NEW own, TranslationDone(own, packet)  PROVE P
  BY <1>5, StagesKeepValues, OthersAreHidden
<1>6. CASE execute_store
  BY <1>6, ForwardKeepsValues, OthersAreHidden
<1>7. ASSUME NEW packet, DataDone(packet)  PROVE P
  BY <1>7, DataDoneKeepsValues, OthersAreHidden
<1>8. CASE L1DWrites
  BY <1>8, L1DWritesKeepsValues, OthersAreHidden
<1>9. CASE retire_rob
  BY <1>9, RetireKeepsValues
<1>10. CASE UNCHANGED vars
  <2>1. UNCHANGED <<program, memory, results, rob, lq, sq, sta, ready, inflight, got>>
    BY <1>10 DEF vars, trace, core, history
  <2>2. Core' = Core
    BY <2>1 DEF Core
  <2> QED
    BY <1>10, <2>1, <2>2, OthersAreHidden DEF Values
<1>11. CASE Work
  BY <1>1, <1>2, <1>3, <1>4, <1>5, <1>6, <1>7, <1>8, <1>9, <1>11 DEF Work
<1> QED
  BY <1>10, <1>11 DEF Next, Done

\* Each load that has its data has the value of the last store before it in the program, a
\* load that waits for a store waits for that one, and memory holds the stores that have
\* retired (add_load_queue, mem_RAW_dependency, execute_store, release_load_queue, retire_rob).
THEOREM LoadsReturnLastStores == StaSuffices => (Spec => []Values)
<1> SUFFICES ASSUME StaSuffices  PROVE Spec => []Values
  OBVIOUS
<1>1. Init => Values
  BY ValuesInitially
<1>2. Machine /\ Registers /\ Lsq /\ Values /\ [Next]_vars => Values'
  BY ValuesStep
<1>3. Spec => []Lsq
  BY LsqIsKept
<1> QED
  BY <1>1, <1>2, <1>3, MachineIsKept, PTL DEF Spec

\* The out-of-order core implements the in-order machine: retire_rob is its one step, and
\* what the loads of the instruction returned, from memory, from a store they waited for or
\* from one that had executed, is what the program order says.
THEOREM CoreImplementsInOrder == StaSuffices => (Spec => ImplementsInOrder)
<1> SUFFICES ASSUME StaSuffices  PROVE Spec => ImplementsInOrder
  OBVIOUS
<1>1. Init => IO!OrderedInit
  BY ValuesInitially
<1>2. Machine /\ Registers /\ Lsq /\ Values /\ [Next]_vars => [IO!ExecuteNext]_(IO!InOrderVars)
  BY ValuesStep
<1>3. Spec => []Lsq /\ []Values
  BY LsqIsKept, LoadsReturnLastStores
<1> QED
  BY <1>1, <1>2, <1>3, MachineIsKept, PTL DEF Spec, ImplementsInOrder, IO!InOrderSpec

-----------------------------------------------------------------------------
(* The assert of execute_store                                             *)

\* The store of instruction m to a has executed, or retired with the first n instructions.
HasStored(x, n, m, a) ==
  m <= n \/ \E f \in Sq : x.at[f].id = m /\ x.at[f].addr = a /\ x.at[f].fetched = "COMPLETED"

\* So has the last store before instruction i to a.
LastHasStored(p, x, n, i, a) == \E m \in 0 .. i - 1 : IsLastStore(p, i, a, m) /\ HasStored(x, n, m, a)

\* A load stays in the queue until its store has executed.
StaysForStore(p, q, n, e) ==
  \A j \in e.source_added : IsInQueue(q.lq, e, j) \/ LastHasStored(p, q.sq, n, e.id, p[e.id].loads[j])
LoadsStay(p, q, n) == \A s \in Slot : q.rob.at[s].id # 0 => StaysForStore(p, q, n, q.rob.at[s])

\* An instruction that waits for instruction i, in slot t, has a load for which i stores last.
Awaits(p, b, i, t) ==
  /\ b.at[t].id # 0
  /\ \E j \in DOMAIN p[b.at[t].id].loads : IsLastStore(p, b.at[t].id, p[b.at[t].id].loads[j], i)
WaitersLoad(p, b) ==
  \A s \in Slot : b.at[s].id # 0 => \A t \in b.at[s].memory_depend_on_me : Awaits(p, b, b.at[s].id, t)

WaitInv(p, q, n) == WaitersLoad(p, q.rob) /\ LoadsStay(p, q, n)
Waits == WaitInv(program, Core, Len(results))

\* Stores that have executed stay so.
KeepsStored(x, y) ==
  \A f \in Sq : x.at[f].fetched = "COMPLETED" =>
    y.at[f].id = x.at[f].id /\ y.at[f].addr = x.at[f].addr /\ y.at[f].fetched = "COMPLETED"

\* Two entries of the reorder buffer have the same waiters, and one that enters has none.
SameWaiters(e, f) == f.id = e.id /\ f.memory_depend_on_me = e.memory_depend_on_me
Enters(e, f) == e.id = 0 /\ f.source_added = {} /\ f.memory_depend_on_me = {}

\* What a last store has done is done where stores that have executed stay so.
LEMMA StoredKept ==
  ASSUME NEW p, NEW x, NEW y, KeepsStored(x, y), NEW n, NEW i, NEW a, LastHasStored(p, x, n, i, a)
  PROVE  LastHasStored(p, y, n, i, a)
BY DEF LastHasStored, HasStored, KeepsStored

\* An instruction that waits stays in the buffer.
LEMMA AwaitsKept ==
  ASSUME NEW p, NEW b, NEW c, NEW i, NEW t, Awaits(p, b, i, t), c.at[t].id = b.at[t].id
  PROVE  Awaits(p, c, i, t)
BY DEF Awaits

LEMMA WaitersKept ==
  ASSUME NEW p, NEW b \in Rob, NEW c, WaitersLoad(p, b),
         \A t \in Slot : Enters(b.at[t], c.at[t]) \/ SameWaiters(b.at[t], c.at[t])
  PROVE  WaitersLoad(p, c)
<1> SUFFICES ASSUME NEW s \in Slot, c.at[s].id # 0, NEW t \in c.at[s].memory_depend_on_me
             PROVE  Awaits(p, c, c.at[s].id, t)
  BY DEF WaitersLoad
<1>1. SameWaiters(b.at[s], c.at[s])
  BY DEF Enters
<1>2. Awaits(p, b, b.at[s].id, t) /\ c.at[s].id = b.at[s].id /\ t \in b.at[s].memory_depend_on_me
  BY <1>1 DEF SameWaiters, WaitersLoad
<1>3. t \in Slot
  BY <1>2 DEF Rob, Entry
<1>4. b.at[t].id # 0
  BY <1>2 DEF Awaits
<1>5. c.at[t].id = b.at[t].id
  BY <1>3, <1>4 DEF Enters, SameWaiters
<1> QED
  BY <1>2, <1>5, AwaitsKept

\* A load of the queue stays there as long as its entry says whose it is,
LEMMA InQueueKept ==
  ASSUME NEW q, NEW r, NEW e, NEW f, NEW j, IsInQueue(q, e, j),
         f.id = e.id, f.lq_index[j] = e.lq_index[j], SameLoad(q[e.lq_index[j]], r[e.lq_index[j]])
  PROVE  IsInQueue(r, f, j)
BY DEF IsInQueue, SameLoad

\* so that neither loads nor waiters are lost where no load leaves.
LEMMA WaitsKept ==
  ASSUME NEW p, NEW q, q.rob \in Rob, NEW r, NEW n, WaitInv(p, q, n), KeepsStored(q.sq, r.sq),
         \A l \in Lq : SameLoad(q.lq[l], r.lq[l]),
         \A t \in Slot : \/ Enters(q.rob.at[t], r.rob.at[t])
                         \/ SameSources(q.rob.at[t], r.rob.at[t]) /\ SameWaiters(q.rob.at[t], r.rob.at[t])
  PROVE  WaitInv(p, r, n)
<1>1. WaitersLoad(p, r.rob)
  BY WaitersKept DEF WaitInv
<1>2. ASSUME NEW t \in Slot, r.rob.at[t].id # 0  PROVE StaysForStore(p, r, n, r.rob.at[t])
  <2> DEFINE e == q.rob.at[t]
             f == r.rob.at[t]
  <2>1. CASE Enters(e, f)
    BY <2>1 DEF Enters, StaysForStore
  <2>2. CASE SameSources(e, f)
    <3>1. f.id = e.id /\ f.source_added = e.source_added /\ f.lq_index = e.lq_index
      BY <2>2 DEF SameSources
    <3>2. StaysForStore(p, q, n, e)
      BY <1>2, <3>1 DEF WaitInv, LoadsStay
    <3> HIDE DEF e, f
    <3>3. ASSUME NEW j \in f.source_added
          PROVE  IsInQueue(r.lq, f, j) \/ LastHasStored(p, r.sq, n, f.id, p[f.id].loads[j])
      <4>1. CASE IsInQueue(q.lq, e, j)
        <5>1. SameLoad(q.lq[e.lq_index[j]], r.lq[e.lq_index[j]])
          BY <4>1 DEF IsInQueue
        <5> QED
          BY <3>1, <4>1, <5>1, InQueueKept
      <4>2. CASE LastHasStored(p, q.sq, n, e.id, p[e.id].loads[j])
        BY <3>1, <4>2, StoredKept
      <4> QED
        BY <3>1, <3>2, <3>3, <4>1, <4>2 DEF StaysForStore
    <3>4. StaysForStore(p, r, n, f)
      BY <3>3 DEF StaysForStore
    <3> QED
      BY <3>4 DEF f
  <2> QED
    BY <2>1, <2>2
<1> QED
  BY <1>1, <1>2 DEF WaitInv, LoadsStay

\* Loads of L leave the queue as their last stores have executed.
LEMMA WaitsReleased ==
  ASSUME NEW p \in Programs, NEW q \in CoreRec(p), NEW r, NEW n, WaitInv(p, q, n), Accounts(p, q),
         NEW L \in SUBSET Lq, NEW v, IsReleased(p, q, r, L, v),
         \A l \in L : q.lq[l].addr # Nil /\ LastHasStored(p, q.sq, n, q.lq[l].id, q.lq[l].addr)
  PROVE  WaitInv(p, r, n)
<1>1. \A t \in Slot : /\ SameSources(q.rob.at[t], r.rob.at[t])
                      /\ SameWaiters(q.rob.at[t], r.rob.at[t])
  BY DEF IsReleased, IsWithoutOps, SameRegs, SameSources, SameWaiters
<1>2. q.rob \in Rob
  BY CoreFields
<1>3. WaitersLoad(p, r.rob)
  BY <1>1, <1>2, WaitersKept DEF WaitInv
<1>4. r.sq = q.sq /\ \A l \in Lq : r.lq[l] = IF l \in L THEN NoLoad ELSE q.lq[l]
  BY DEF IsReleased
<1>5. ASSUME NEW t \in Slot, r.rob.at[t].id # 0  PROVE StaysForStore(p, r, n, r.rob.at[t])
  <2> DEFINE e == q.rob.at[t]
             f == r.rob.at[t]
  <2>1. f.id = e.id /\ f.source_added = e.source_added /\ f.lq_index = e.lq_index
    BY <1>1 DEF SameSources
  <2>2. StaysForStore(p, q, n, e)
    BY <1>5, <2>1 DEF WaitInv, LoadsStay
  <2> HIDE DEF e, f
  <2>3. ASSUME NEW j \in f.source_added
        PROVE  IsInQueue(r.lq, f, j) \/ LastHasStored(p, r.sq, n, f.id, p[f.id].loads[j])
    <3> DEFINE l == e.lq_index[j]
    <3>1. CASE IsInQueue(q.lq, e, j) /\ l \in L
      <4> DEFINE g == q.lq[l]
      <4>1. g.addr # Nil /\ g.id = e.id /\ g.data_index = j /\ l \in Lq
        BY <3>1 DEF IsInQueue
      <4>2. g = NoLoad \/ IsLoadOf(p, q.rob, g, l)
        BY <4>1 DEF Accounts, LoadsNamed
      <4>3. LastHasStored(p, q.sq, n, g.id, g.addr)
        BY <3>1
      <4> HIDE DEF g, l
      <4>4. g.addr = p[e.id].loads[j]
        BY <4>1, <4>2 DEF IsLoadOf, NoLoad
      <4> QED
        BY <1>4, <2>1, <4>1, <4>3, <4>4
    <3>2. CASE IsInQueue(q.lq, e, j) /\ l \notin L
      <4>1. r.lq[l] = q.lq[l]
        BY <1>4, <3>2 DEF IsInQueue
      <4> QED
        BY <2>1, <3>2, <4>1, InQueueKept DEF SameLoad
    <3>3. CASE LastHasStored(p, q.sq, n, e.id, p[e.id].loads[j])
      BY <1>4, <2>1, <3>3
    <3> QED
      BY <2>1, <2>2, <2>3, <3>1, <3>2, <3>3 DEF StaysForStore
  <2>4. StaysForStore(p, r, n, f)
    BY <2>3 DEF StaysForStore
  <2> QED
    BY <2>4 DEF f
<1> QED
  BY <1>3, <1>5 DEF WaitInv, LoadsStay

\* A load that enters the queue is there, and waits for the store that is its last.
LEMMA WaitsWithLoad ==
  ASSUME NEW p, NEW q \in CoreRec(p), NEW r, NEW n, WaitInv(p, q, n),
         NEW s \in Slot, NEW j \in Src, NEW l \in Lq, q.lq[l].addr = Nil,
         NEW i, q.rob.at[s].id = i, NEW a, a # Nil, NEW pr, NEW tr, WritesLoad(q, r, s, j, l, i, a, pr, tr),
         \A t \in Slot : q.rob.at[t].id # 0 => \A u \in r.rob.at[t].memory_depend_on_me :
           u \in q.rob.at[t].memory_depend_on_me \/ Awaits(p, q.rob, q.rob.at[t].id, u)
  PROVE  WaitInv(p, r, n)
<1>1. \A m \in Lq : r.lq[m] = IF m = l THEN LoadOf(i, a, s, j, pr, tr) ELSE q.lq[m]
  BY DEF WritesLoad
<1>2. q.rob \in Rob /\ r.sq = q.sq
  BY CoreFields DEF WritesLoad
<1>3. \A t \in Slot : r.rob.at[t].id = q.rob.at[t].id /\ r.rob.at[t] \in Entry
  BY <1>2 DEF WritesLoad, IsLoadAdded, IsWaitedFor, SameRegs, Rob
<1>4. WaitersLoad(p, r.rob)
  <2> SUFFICES ASSUME NEW t \in Slot, r.rob.at[t].id # 0, NEW u \in r.rob.at[t].memory_depend_on_me
               PROVE  Awaits(p, r.rob, r.rob.at[t].id, u)
    BY DEF WaitersLoad
  <2>1. q.rob.at[t].id # 0 /\ r.rob.at[t].id = q.rob.at[t].id
    BY <1>3
  <2>2. Awaits(p, q.rob, q.rob.at[t].id, u)
    BY <2>1 DEF WaitInv, WaitersLoad
  <2>3. u \in Slot
    BY <1>3 DEF Entry
  <2> QED
    BY <1>3, <2>1, <2>2, <2>3, AwaitsKept
<1>5. ASSUME NEW t \in Slot, r.rob.at[t].id # 0, NEW k \in r.rob.at[t].source_added
      PROVE  IsInQueue(r.lq, r.rob.at[t], k)
             \/ LastHasStored(p, r.sq, n, r.rob.at[t].id, p[r.rob.at[t].id].loads[k])
  <2> DEFINE e == q.rob.at[t]
             f == r.rob.at[t]
  <2>1. CASE t = s /\ k = j
    <3>1. f.id = i /\ f.lq_index[j] = l
      BY <2>1 DEF WritesLoad, IsLoadAdded, SameRegs
    <3>2. r.lq[l].addr = a /\ r.lq[l].id = i /\ r.lq[l].data_index = j
      BY <1>1 DEF LoadOf
    <3> QED
      BY <2>1, <3>1, <3>2 DEF IsInQueue
  <2>2. CASE ~(t = s /\ k = j)
    <3>1. f.id = e.id /\ k \in e.source_added /\ (k \in Src => f.lq_index[k] = e.lq_index[k])
      <4>1. CASE t = s
        <5>1. IsLoadAdded(e, f, j, l) /\ k # j /\ k \in f.source_added
          BY <1>5, <2>2, <4>1 DEF WritesLoad
        <5> HIDE DEF e, f
        <5> QED
          BY <5>1 DEF IsLoadAdded, SameRegs
      <4>2. CASE t # s
        <5>1. (f = e \/ \E u : IsWaitedFor(e, f, u)) /\ k \in f.source_added
          BY <1>5, <4>2 DEF WritesLoad
        <5> HIDE DEF e, f
        <5> QED
          BY <5>1 DEF IsWaitedFor, SameRegs
      <4> QED
        BY <4>1, <4>2
    <3>2. k \in Src
      BY <1>2, <3>1 DEF Rob, Entry
    <3>3. StaysForStore(p, q, n, e)
      BY SMTT(30), <1>5, <3>1 DEF WaitInv, LoadsStay
    <3>4. CASE IsInQueue(q.lq, e, k)
      <4>1. e.lq_index[k] # l /\ e.lq_index[k] \in Lq
        BY <3>4 DEF IsInQueue
      <4>2. r.lq[e.lq_index[k]] = q.lq[e.lq_index[k]]
        BY SMTT(30), <1>1, <4>1
      <4> QED
        BY <3>1, <3>2, <3>4, <4>2 DEF IsInQueue
    <3>5. CASE LastHasStored(p, q.sq, n, e.id, p[e.id].loads[k])
      <4> HIDE DEF e, f
      <4>1. LastHasStored(p, r.sq, n, f.id, p[f.id].loads[k])
        BY <1>2, <3>1, <3>5
      <4> QED
        BY <4>1 DEF f
    <3> QED
      BY <3>1, <3>3, <3>4, <3>5 DEF StaysForStore
  <2> QED
    BY <2>1, <2>2
<1> QED
  BY <1>4, <1>5 DEF WaitInv, LoadsStay, StaysForStore

\* The cores slot s can come to as it adds its loads up to load j, with those that wait.
LoadsWaiting(s, j) == {x \in Loaded(s, j) : WaitInv(program, x, Len(results))}

\* A turn of the loop over the loads lets the load wait for the store that is its last, or
\* takes it out again as that store has executed.
LEMMA LoadTurnWaits ==
  ASSUME NEW s \in Slot, LoadsMayEnter(s),
         NEW j \in DOMAIN InstrIn(s).loads, j \in Nat \ {0}, NEW x \in LoadsWaiting(s, j - 1)
  PROVE  LoadTurn(x, s, j) \in LoadsWaiting(s, j)
<1> DEFINE n == Len(results)
<1>1. /\ program \in Programs /\ rob \in Rob /\ IdsInTrace /\ InRob(s)
      /\ n \in Nat /\ dispatched \in Nat /\ OneEach(rob, dispatched, n)
      /\ x \in Loaded(s, j - 1) /\ WaitInv(program, x, n)
  BY DEF LoadsMayEnter, LoadsWaiting
<1> HIDE DEF n
<1>2. LoadTurn(x, s, j) \in Loaded(s, j)
  BY <1>1, LoadTurnLoads
<1>3. SUFFICES WaitInv(program, LoadTurn(x, s, j), n)
  BY <1>2, <1>3 DEF LoadsWaiting, n
<1>4. CASE ~(j \notin At(s).source_added /\ LqHasRoom(x))
  BY <1>1, <1>4 DEF LoadTurn
<1>5. CASE j \notin At(s).source_added /\ LqHasRoom(x)
  <2> DEFINE r == add_load_queue(x, s, j)
             a == InstrIn(s).loads[j]
             w == NearestStore(s, a)
             l == FreeLoad(x)
             i == At(s).id
             i2 == At(w).id
  <2>1. /\ x \in Grown(s) /\ Accounts(program, x)
        /\ x.rob.at[s].source_added \subseteq At(s).source_added \cup 1 .. j - 1
    BY <1>1 DEF Loaded
  <2>2. x \in CoreRec(program) /\ IdsOf(program, x.rob) /\ SameIds(rob, x.rob)
    BY <1>1, <2>1, GrownIds
  <2>3. LoadGoes(x, r, s, j)
    BY <1>1, <1>5, <2>2, AddLoadGoes
  <2>4. LoadTurn(x, s, j) = r
    BY <1>5 DEF LoadTurn
  <2>5. l \in Lq /\ x.lq[l].addr = Nil
    BY <1>5, FreeLoadIsFree
  <2>6. /\ x.rob.at[s].id = i /\ i # 0 /\ j \in DOMAIN program[i].loads /\ a = program[i].loads[j]
        /\ j \notin x.rob.at[s].source_added
    <3>1. j \notin 1 .. j - 1
      OBVIOUS
    <3> QED
      BY <1>1, <1>5, <2>1, <2>2, <3>1 DEF SameIds, At, InRob, InstrIn
  <2>7. j \in Src /\ a # Nil /\ a \in Addr
    <3>1. i \in 0 .. Len(program)
      BY <1>1 DEF IdsInTrace
    <3> HIDE DEF i
    <3> QED
      BY <1>1, <2>6, <3>1, OperandsOf, Sizes
  <2> HIDE DEF r, l
  <2>8. SUFFICES WaitInv(program, r, n)
    BY <2>4, <2>8
  <2>9. CASE OlderStores(s, a) = {}
    <3>1. AddsLoad(program, x, r, s, j, l, i, a)
      BY <2>3, <2>9 DEF LoadGoes, l
    <3>2. WritesLoad(x, r, s, j, l, i, a, Nil, "NO")
      BY <3>1 DEF AddsLoad, WritesLoad
    <3>3. \A t \in Slot : r.rob.at[t].memory_depend_on_me = x.rob.at[t].memory_depend_on_me
      BY <3>1 DEF AddsLoad, IsLoadAdded
    <3> HIDE DEF a, i
    <3> QED
      BY ONLY s \in Slot, <1>1, <2>2, <2>5, <2>6, <2>7, <3>2, <3>3, WaitsWithLoad
  <2>10. CASE OlderStores(s, a) # {}
    <3>1. PICK y : /\ AddsWaiting(program, x, y, s, j, l, i, a, w, i2)
                   /\ \/ r = y
                      \/ \E f \in Forwarders(x, i2, a) : \E v : IsReleased(program, y, r, {l}, v)
      BY <2>3, <2>10 DEF LoadGoes, l
    <3>2. WritesLoad(x, y, s, j, l, i, a, i2, "INFLIGHT") /\ y \in CoreRec(program) /\ y.sq = x.sq
      BY <3>1 DEF AddsWaiting, WritesLoad
    <3>3. IsLastStore(program, i, a, i2)
      <4> HIDE DEF a
      <4> QED
        BY <1>1, <2>10, NearestIsLast
    <3>4. w \in Slot /\ x.rob.at[w].id = i2
      BY <2>2, <3>1 DEF AddsWaiting, SameIds, At
    <3> HIDE DEF a, i, i2, w
    <3>5. Awaits(program, x.rob, i2, s)
      BY <2>6, <3>3 DEF Awaits
    <3>6. ASSUME NEW t \in Slot, NEW u \in y.rob.at[t].memory_depend_on_me
          PROVE  u \in x.rob.at[t].memory_depend_on_me \/ Awaits(program, x.rob, x.rob.at[t].id, u)
      <4>1. t = w \/ y.rob.at[t].memory_depend_on_me = x.rob.at[t].memory_depend_on_me
        BY <3>1 DEF AddsWaiting, IsLoadAdded
      <4>2. y.rob.at[w].memory_depend_on_me = x.rob.at[w].memory_depend_on_me \cup {s}
        BY <3>1 DEF AddsWaiting, IsWaitedFor
      <4> QED
        BY <3>4, <3>5, <3>6, <4>1, <4>2
    <3>7. WaitInv(program, y, n)
      BY ONLY s \in Slot, <1>1, <2>2, <2>5, <2>6, <2>7, <3>2, <3>6, WaitsWithLoad
    <3>8. LoadAccounted(x, y, s, j)
      <4>1. WritesLoad(x, y, s, j, l, i, a, i2, "INFLIGHT")
        BY <3>2
      <4>2. program \in Programs /\ Accounts(program, x)
        BY <1>1, <2>1
      <4> QED
        BY ONLY s \in Slot, <2>2, <2>5, <2>6, <4>1, <4>2, LoadTaking
    <3>9. CASE \E f \in Forwarders(x, i2, a) : \E v : IsReleased(program, y, r, {l}, v)
      <4>1. PICK f, v : f \in Forwarders(x, i2, a) /\ IsReleased(program, y, r, {l}, v)
        BY <3>9
      <4>2. y.lq[l] = LoadOf(i, a, s, j, i2, "INFLIGHT")
        BY <2>5, <3>2 DEF WritesLoad
      <4>3. y.lq[l].id = i /\ y.lq[l].addr = a
        BY <4>2 DEF LoadOf
      <4>4. LastHasStored(program, y.sq, n, i, a)
        <5>1. HasStored(y.sq, n, i2, a)
          <6>1. y.sq = x.sq
            BY <3>2
          <6>2. f \in Sq /\ x.sq.at[f].id = i2 /\ x.sq.at[f].addr = a /\ x.sq.at[f].fetched = "COMPLETED"
            BY <4>1 DEF Forwarders
          <6> QED
            BY <6>1, <6>2 DEF HasStored
        <5> QED
          BY <3>3, <5>1 DEF LastHasStored, IsLastStore
      <4> DEFINE L == {l}
      <4>5. /\ L \in SUBSET Lq /\ IsReleased(program, y, r, L, v)
            /\ \A k \in L : y.lq[k].addr # Nil /\ LastHasStored(program, y.sq, n, y.lq[k].id, y.lq[k].addr)
        BY <2>5, <2>7, <4>1, <4>3, <4>4
      <4>6. Accounts(program, y)
        BY <3>8 DEF LoadAccounted
      <4> HIDE DEF L
      <4> QED
        BY ONLY <1>1, <3>2, <3>7, <4>5, <4>6, WaitsReleased
    <3> QED
      BY <3>1, <3>7, <3>9
  <2> QED
    BY <2>9, <2>10
<1> QED
  BY <1>4, <1>5

\* The entry at the tail of a store queue that is not full is empty.
LEMMA TailIsFree ==
  ASSUME NEW p \in Programs, NEW f, NEW b, NEW q \in SqRec, NEW c, NEW a, StoreWindow(p, f, b, q, c, a),
         Cardinality({g \in Sq : q.at[g].addr # Nil}) < SQ_SIZE
  PROVE  q.tail \in Sq /\ q.at[q.tail] = NoStore
<1> DEFINE w == a - c
           h == q.head
<1>1. h \in Sq /\ Sq = 0 .. SQ_SIZE - 1 /\ SQ_SIZE \in Nat \ {0} /\ w \in 0 .. SQ_SIZE /\ q.tail = Wrap(SQ_SIZE, h + w)
  <2>1. h \in Sq /\ w \in 0 .. SQ_SIZE /\ q.tail = Wrap(SQ_SIZE, h + w)
    BY DEF SqRec, StoreWindow
  <2> HIDE DEF w, h
  <2> QED
    BY <2>1, Sizes DEF Sq
<1>2. Cardinality({g \in Sq : q.at[g].addr # Nil}) = w
  BY <1>1, WindowSize
<1>3. \A i \in Sq : ~(Dist(SQ_SIZE, h, i) < w) => q.at[i] = NoStore
  BY DEF StoreWindow
<1> HIDE DEF w, h
<1>4. w \in 0 .. SQ_SIZE - 1
  BY <1>1, <1>2
<1>5. q.tail \in Sq /\ Dist(SQ_SIZE, h, q.tail) = w
  <2>1. SQ_SIZE \in Nat \ {0} /\ h \in 0 .. SQ_SIZE - 1
    BY <1>1
  <2>2. Wrap(SQ_SIZE, h + w) \in 0 .. SQ_SIZE - 1 /\ Dist(SQ_SIZE, h, Wrap(SQ_SIZE, h + w)) = w
    BY <1>4, <2>1, PlaceIsDist
  <2> QED
    BY <1>1, <2>2
<1>6. ~(w < w)
  BY <1>4
<1> QED
  BY <1>3, <1>5, <1>6

\* The cores slot s can come to as it adds its stores up to store k, with those that wait.
StoresWaiting(s, f, k) == {x \in Stored(s, f, k) : WaitInv(program, x, Len(results))}

\* A turn of the loop over the stores takes an empty entry.
LEMMA StoreTurnWaits ==
  ASSUME NEW s \in Slot, program \in Programs, rob \in Rob, IdsInTrace, InRob(s),
         InTrace(program, read, dispatched, Len(results)), OneEach(rob, dispatched, Len(results)),
         NEW f, StoresUpTo(program, f),
         NEW k \in DOMAIN InstrIn(s).stores, k \in Nat \ {0}, NEW x \in StoresWaiting(s, f, k - 1)
  PROVE  StoreTurn(x, s, k) \in StoresWaiting(s, f, k)
<1> DEFINE n == Len(results)
<1>1. x \in Stored(s, f, k - 1) /\ WaitInv(program, x, n) /\ x \in Grown(s) /\ HoldsStores(f, x)
  BY DEF StoresWaiting, Stored
<1>2. StoreTurn(x, s, k) \in Stored(s, f, k)
  BY <1>1, StoreTurnStores
<1> HIDE DEF n
<1>3. SUFFICES WaitInv(program, StoreTurn(x, s, k), n)
  BY <1>2, <1>3 DEF StoresWaiting, n
<1>4. CASE ~(k \notin At(s).destination_added /\ MayAddStore(x, s))
  BY <1>1, <1>4 DEF StoreTurn
<1>5. CASE k \notin At(s).destination_added /\ MayAddStore(x, s)
  <2> DEFINE r == add_store_queue(x, s, k)
  <2>1. StoreTurn(x, s, k) = r
    BY <1>5 DEF StoreTurn
  <2>2. x \in CoreRec(program) /\ x.sq \in SqRec /\ x.rob \in Rob
    BY <1>1, CoreFields DEF Grown
  <2>3. StoreGoes(x, r, s, k)
    BY <2>2, AddStoreGoes
  <2> HIDE DEF r
  <2>4. /\ r.lq = x.lq
        /\ \A t \in Slot : SameSources(x.rob.at[t], r.rob.at[t]) /\ SameWaiters(x.rob.at[t], r.rob.at[t])
        /\ \A g \in Sq : g # x.sq.tail => r.sq.at[g] = x.sq.at[g]
    BY <2>3 DEF StoreGoes, AddsStore, IsStoreAdded, SameRegs, SameSources, SameWaiters
  <2>5. x.sq.at[x.sq.tail] = NoStore
    <3>1. PICK a : Stores(program, f, x, dtlb, Len(results), dispatched, read, a)
      BY <1>1 DEF HoldsStores
    <3>2. StoreWindow(program, f, x.rob, x.sq, f[Len(results)], a)
      BY <3>1 DEF Stores
    <3>3. Cardinality({g \in Sq : x.sq.at[g].addr # Nil}) < SQ_SIZE
      BY <1>5 DEF MayAddStore
    <3> QED
      BY <2>2, <3>2, <3>3, TailIsFree
  <2>6. KeepsStored(x.sq, r.sq)
    BY <2>4, <2>5 DEF KeepsStored, NoStore
  <2>7. \A l \in Lq : SameLoad(x.lq[l], r.lq[l])
    BY <2>4 DEF SameLoad
  <2>8. WaitInv(program, r, n)
    BY <1>1, <2>2, <2>4, <2>6, <2>7, WaitsKept
  <2> QED
    BY <2>1, <2>8
<1> QED
  BY <1>4, <1>5

\* The loads that slot s has added leave the stores of the queue to it.
LEMMA LoadedHoldsStores ==
  ASSUME NEW s \in Slot, program \in Programs, Core \in CoreRec(program),
         NEW f, HoldsStores(f, Core), NEW j, NEW q \in Loaded(s, j)
  PROVE  q \in Stored(s, f, 0)
<1>1. q \in Grown(s) /\ Accounts(program, q) /\ SameStoreSide(Core, q)
  BY DEF Loaded
<1>2. Core.sq \in SqRec /\ Core.rob = rob
  BY CoreFields DEF Core
<1>3. HoldsStores(f, q)
  <2> DEFINE N == Len(results)
             C == Core
  <2>1. PICK a : Stores(program, f, C, dtlb, N, dispatched, read, a)
    BY DEF HoldsStores
  <2>2. /\ C.sq.at \in [Sq -> StoreRec] /\ \A t \in Slot : SameStores(C.rob.at[t], q.rob.at[t])
        /\ q.sq = C.sq /\ q.sta = C.sta
        /\ q.ready.RTS0 = C.ready.RTS0 /\ q.ready.RTS1 = C.ready.RTS1
    BY <1>1, <1>2 DEF SameStoreSide, SqRec
  <2> HIDE DEF C, N
  <2>3. \A g \in Sq : KeepsStore(C.sq.at[g], q.sq.at[g])
    BY <2>2 DEF KeepsStore
  <2>4. StoreStages(q.sq.at, q.ready, dtlb)
    BY <2>1, <2>2 DEF Stores, StoreStages
  <2>5. Stores(program, f, q, dtlb, N, dispatched, read, a)
    BY <2>1, <2>2, <2>3, <2>4, StoresKept
  <2> QED
    BY <2>5 DEF HoldsStores, N
<1>4. q.rob.at[s].destination_added = At(s).destination_added
  BY <1>1, <1>2 DEF SameStoreSide, SameStores, At
<1>5. 1 .. 0 = {}
  OBVIOUS
<1> QED
  BY <1>1, <1>3, <1>4, <1>5 DEF Stored

\* check_and_add_lsq loses no load and no waiter.
LEMMA AllWait ==
  ASSUME NEW s \in Slot, LoadsMayEnter(s), Core \in CoreRec(program), Indexed(rob),
         LoadStages(lq, ready, dtlb, l1d), Accounts(program, Core),
         InTrace(program, read, dispatched, Len(results)),
         NEW f, StoresUpTo(program, f), HoldsStores(f, Core), WaitInv(program, Core, Len(results))
  PROVE  WaitInv(program, check_and_add_lsq(s), Len(results))
<1> DEFINE n == Len(InstrIn(s).loads)
           m == Len(InstrIn(s).stores)
<1>1. /\ Core.rob = rob /\ Core.ready = ready /\ Core.lq = lq /\ Core.sq = sq /\ rob \in Rob
      /\ program \in Programs /\ IdsInTrace /\ InRob(s) /\ OneEach(rob, dispatched, Len(results))
  BY CoreFields DEF Core, LoadsMayEnter
<1>2. /\ n \in Nat /\ DOMAIN InstrIn(s).loads = 1 .. n
      /\ m \in Nat /\ DOMAIN InstrIn(s).stores = 1 .. m
  <2>1. Len(program) \in Nat /\ At(s).id \in 1 .. Len(program)
    BY <1>1, ProgramsAssumption, LenProperties DEF IdsInTrace, InRob
  <2> QED
    BY <1>1, <2>1, ProgramFacts DEF InstrIn
<1>3. Core \in LoadsWaiting(s, 0)
  <2>1. Core \in Grown(s)
    BY <1>1 DEF Grown, Grows, SameRTE, SameRegs
  <2>2. SameStoreSide(Core, Core)
    BY DEF SameStoreSide, SameStores
  <2> QED
    BY <1>1, <2>1, <2>2 DEF LoadsWaiting, Loaded, At
<1> HIDE DEF n, m
<1> DEFINE q == AddLoads(Core, s)
<1>4. q \in LoadsWaiting(s, n)
  <2> DEFINE V == [i \in 0 .. n |-> LoadsWaiting(s, i)]
  <2>1. \A i \in 0 .. n : V[i] = LoadsWaiting(s, i)
    OBVIOUS
  <2>2. \A j \in 1 .. n : j - 1 \in 0 .. n /\ j \in 0 .. n /\ j \in Nat \ {0}
    BY <1>2
  <2>3. 0 \in 0 .. n /\ n \in 0 .. n
    BY <1>2
  <2> HIDE DEF V
  <2>4. ASSUME NEW j \in 1 .. n, NEW x \in V[j - 1]  PROVE LoadTurn(x, s, j) \in V[j]
    <3>1. V[j - 1] = LoadsWaiting(s, j - 1) /\ V[j] = LoadsWaiting(s, j)
      BY <2>1, <2>2
    <3>2. j \in DOMAIN InstrIn(s).loads /\ j \in Nat \ {0} /\ x \in LoadsWaiting(s, j - 1)
      BY <1>2, <2>2, <3>1
    <3>3. LoadTurn(x, s, j) \in LoadsWaiting(s, j)
      BY <3>2, LoadTurnWaits
    <3> QED
      BY <3>1, <3>3
  <2>5. AddLoads(Core, s) \in V[n]
    BY <1>2, <1>3, <2>1, <2>3, <2>4, LoadsByTurns DEF n
  <2> QED
    BY <2>1, <2>3, <2>5
<1> HIDE DEF q
<1>5. q \in StoresWaiting(s, f, 0)
  <2>1. q \in Loaded(s, n) /\ WaitInv(program, q, Len(results))
    BY <1>4 DEF LoadsWaiting
  <2>2. q \in Stored(s, f, 0)
    BY <1>1, <2>1, LoadedHoldsStores
  <2> QED
    BY <2>1, <2>2 DEF StoresWaiting
<1>6. AddStores(q, s) \in StoresWaiting(s, f, m)
  <2> DEFINE V == [i \in 0 .. m |-> StoresWaiting(s, f, i)]
  <2>1. \A i \in 0 .. m : V[i] = StoresWaiting(s, f, i)
    OBVIOUS
  <2>2. \A j \in 1 .. m : j - 1 \in 0 .. m /\ j \in 0 .. m /\ j \in Nat \ {0}
    BY <1>2
  <2>3. 0 \in 0 .. m /\ m \in 0 .. m
    BY <1>2
  <2> HIDE DEF V
  <2>4. \A j \in 1 .. m : \A x \in V[j - 1] : StoreTurn(x, s, j) \in V[j]
    <3>1. ASSUME NEW j \in 1 .. m, NEW x \in StoresWaiting(s, f, j - 1)
          PROVE  StoreTurn(x, s, j) \in StoresWaiting(s, f, j)
      <4>1. j \in DOMAIN InstrIn(s).stores /\ j \in Nat \ {0}
        BY <1>2, <2>2
      <4> QED
        BY <1>1, <3>1, <4>1, StoreTurnWaits
    <3> QED
      BY <2>1, <2>2, <3>1
  <2>5. q \in V[0]
    BY <1>5, <2>1, <2>3
  <2>6. AddStores(q, s) \in V[m]
    BY <1>2, <2>4, <2>5, StoresByTurns DEF m
  <2> QED
    BY <2>1, <2>3, <2>6
<1> QED
  BY <1>6 DEF check_and_add_lsq, StoresWaiting, q

\* Nothing of the loads changes but their stages, nothing of the stores that have executed, and
\* nothing retires.
LEMMA WaitsStay ==
  ASSUME Machine, Waits, UNCHANGED <<program, results>>,
         \A l \in Lq : SameLoad(lq[l], lq'[l]), KeepsStored(sq, sq'),
         \A t \in Slot : \/ Enters(rob.at[t], rob'.at[t])
                         \/ SameSources(rob.at[t], rob'.at[t]) /\ SameWaiters(rob.at[t], rob'.at[t])
  PROVE  Waits'
<1> DEFINE q == Core
           r == Core'
           p == program
           n == Len(results)
<1>1. q.rob = rob /\ r.rob = rob' /\ q.lq = lq /\ r.lq = lq' /\ q.sq = sq /\ r.sq = sq' /\ q.rob \in Rob
  BY DEF Core, Machine
<1>2. WaitInv(p, q, n)
  BY DEF Waits
<1>3. /\ \A l \in Lq : SameLoad(q.lq[l], r.lq[l])
      /\ KeepsStored(q.sq, r.sq)
      /\ \A t \in Slot : \/ Enters(q.rob.at[t], r.rob.at[t])
                         \/ SameSources(q.rob.at[t], r.rob.at[t]) /\ SameWaiters(q.rob.at[t], r.rob.at[t])
  BY <1>1
<1> HIDE DEF q, r, p, n
<1>4. WaitInv(p, r, n)
  BY <1>1, <1>2, <1>3, WaitsKept
<1> QED
  BY <1>4 DEF Waits, r, p, n

\* So it is as instructions are read, enter the buffer, are scheduled,
LEMMA FrontKeepsWaits ==
  ASSUME Machine, Registers, Lsq, Waits,
         read_from_trace \/ add_to_rob \/ \E s \in Slot : do_scheduling(s)
  PROVE  Waits'
<1>1. CASE read_from_trace
  <2>1. UNCHANGED <<program, results, lq, sq, rob>>
    BY <1>1 DEF read_from_trace, outside, history
  <2> QED
    BY <2>1, WaitsStay DEF SameLoad, SameSources, SameWaiters, KeepsStored
<1>2. CASE add_to_rob
  <2>1. ~InRob(rob.tail) /\ UNCHANGED <<program, results, lq, sq>>
    BY <1>2 DEF add_to_rob, outside, history
  <2>2. rob \in Rob /\ dispatched \in Nat /\ MemOps(program[dispatched + 1]) \in Int
    <3>1. rob \in Rob /\ dispatched \in 0 .. Len(program) /\ Len(program) \in Nat /\ dispatched < read /\ read <= Len(program)
          /\ program \in Programs /\ dispatched \in Nat /\ read \in Nat
      BY <1>2, TraceFacts DEF Machine, add_to_rob
    <3>2. dispatched + 1 \in 1 .. Len(program)
      BY <3>1
    <3> QED
      BY <3>1, <3>2, ProgramFacts
  <2>3. \A t \in Slot : Enters(rob.at[t], rob'.at[t]) \/ rob'.at[t] = rob.at[t]
    <3>1. rob.at[rob.tail].id = 0
      BY <2>1 DEF InRob, At
    <3> QED
      BY <1>2, <2>2, <3>1, AddedToRob DEF IsNew, Enters
  <2> QED
    BY <2>1, <2>3, WaitsStay DEF SameLoad, SameSources, SameWaiters, KeepsStored
<1>3. ASSUME NEW s \in Slot, do_scheduling(s)  PROVE Waits'
  <2> DEFINE deps == Dependencies(s)
             b == rob'
  <2>1. InRob(s) /\ UNCHANGED <<program, results, lq, sq>>
    BY <1>3 DEF do_scheduling, MaySchedule, trace, outside, history
  <2>2. Cardinality(deps) \in Int /\ rob \in Rob
    BY <2>1, ProducersAreLast DEF Machine
  <2>3. /\ IsScheduled(program, rob.at[s], b.at[s], deps)
        /\ \A t \in Slot : t # s => IsRecording(rob.at[t], b.at[t], s, {j \in deps : Producer(s, j) = t})
    BY <1>3, <2>2, ScheduledEntries
  <2> HIDE DEF deps, b
  <2>4. \A t \in Slot : SameSources(rob.at[t], b.at[t]) /\ SameWaiters(rob.at[t], b.at[t])
    BY <2>3 DEF IsScheduled, IsRecording, SameOperands, SameSources, SameWaiters
  <2> QED
    BY <2>1, <2>4, WaitsStay DEF SameLoad, KeepsStored, b
<1> QED
  BY <1>1, <1>2, <1>3

\* execute,
LEMMA ExecutionKeepsWaits ==
  ASSUME Machine, Registers, Waits,
         (\E ring \in {"RTE0", "RTE1"} : do_execution(ring)) \/ \E s \in Slot : complete_execution(s)
  PROVE  Waits'
<1>1. rob \in Rob
  BY DEF Machine
<1> SUFFICES /\ UNCHANGED <<program, results, lq, sq>>
             /\ \A t \in Slot : SameOperands(rob.at[t], rob'.at[t])
  BY WaitsStay DEF SameLoad, KeepsStored, SameOperands, SameSources, SameWaiters
<1>2. CASE \E ring \in {"RTE0", "RTE1"} : do_execution(ring)
  <2>1. PICK ring \in {"RTE0", "RTE1"} : do_execution(ring)
    BY <1>2
  <2> DEFINE s == First(ready[ring])
             b == rob'
  <2>2. s # Nil /\ UNCHANGED <<program, results, lq, sq>>
    BY <2>1 DEF do_execution, trace, outside, history
  <2>3. s \in Slot
    <3>1. PICK S0, S1 : /\ RingOf(ready.RTE0, ROB_SIZE, S0)
                        /\ RingOf(ready.RTE1, ROB_SIZE, S1)
                        /\ S0 \cup S1 = ReadyToExecute(program, rob)
      BY DEF Registers, Queued
    <3>2. s \in ReadyToExecute(program, rob)
      BY <2>2, <3>1, Sizes, FirstIsInRing
    <3> QED
      BY <3>2 DEF ReadyToExecute
  <2>4. IsExecuting(rob, b, s, "INFLIGHT")
    BY <1>1, <2>1, <2>3, ExecutingEntry
  <2> HIDE DEF b, s
  <2>5. \A t \in Slot : SameOperands(rob.at[t], b.at[t])
    BY <2>4 DEF IsExecuting, SameOperands
  <2> QED
    BY <2>2, <2>5 DEF b
<1>3. CASE \E s \in Slot : complete_execution(s)
  <2>1. PICK s \in Slot : complete_execution(s)
    BY <1>3
  <2> DEFINE b == rob'
  <2>2. UNCHANGED <<program, results, lq, sq>>
    BY <2>1 DEF complete_execution, trace, outside, history
  <2>3. \A t \in Slot : Cardinality(WaitsFor(s, t)) \in Int
    <3> TAKE t \in Slot
    <3>1. WaitsFor(s, t) \subseteq Src
      BY DEF WaitsFor
    <3> QED
      BY <3>1, OperandsFinite
  <2>4. /\ b.at[s] = [rob.at[s] EXCEPT !.executed = "COMPLETED"]
        /\ \A t \in Slot : t # s =>
             IsWithoutSource(program, rob.at[t], b.at[t], Cardinality(WaitsFor(s, t)), t \in Released(s))
    BY <1>1, <2>1, <2>3, CompletedEntries
  <2> HIDE DEF b
  <2>5. \A t \in Slot : t # s => SameOperands(rob.at[t], b.at[t])
    BY <2>4 DEF IsWithoutSource
  <2>6. SameOperands(rob.at[s], b.at[s])
    BY <1>1, <2>4 DEF Rob, Entry, SameOperands
  <2> QED
    BY <2>2, <2>5, <2>6 DEF b
<1> QED
  BY <1>2, <1>3

\* as operands come to other stages,
LEMMA StagesKeepWaits ==
  ASSUME Machine, Waits,
         \/ TranslateStore \/ TranslateLoad \/ execute_load
         \/ \E own, packet : TranslationDone(own, packet)
  PROVE  Waits'
<1>1. lq \in [Lq -> LoadRec] /\ sq \in SqRec /\ sq.at \in [Sq -> StoreRec]
  BY DEF Machine, SqRec
<1> SUFFICES /\ UNCHANGED <<program, results, rob>>
             /\ \A l \in Lq : SameLoad(lq[l], lq'[l])
             /\ KeepsStored(sq, sq')
  BY WaitsStay DEF SameSources, SameWaiters
<1>2. CASE TranslateStore
  <2> DEFINE f == First(ready.RTS0)
             v == sq'
  <2>1. /\ v = [sq EXCEPT !.at = [sq.at EXCEPT ![f].translated = "INFLIGHT"]]
        /\ UNCHANGED <<program, results, rob, lq>>
    BY <1>2 DEF TranslateStore, trace, history
  <2>2. v.at = [sq.at EXCEPT ![f].translated = "INFLIGHT"]
    BY <1>1, <2>1 DEF SqRec
  <2> HIDE DEF v
  <2>3. \A g \in Sq : /\ v.at[g].id = sq.at[g].id /\ v.at[g].addr = sq.at[g].addr
                      /\ v.at[g].fetched = sq.at[g].fetched
    BY <1>1, <2>2 DEF StoreRec
  <2>4. KeepsStored(sq, v)
    BY <2>3 DEF KeepsStored
  <2> QED
    BY <2>1, <2>4 DEF v, SameLoad
<1>3. CASE TranslateLoad
  <2>1. /\ lq' = [lq EXCEPT ![First(ready.RTL0)].translated = "INFLIGHT"]
        /\ UNCHANGED <<program, results, rob, sq>>
    BY <1>3 DEF TranslateLoad, trace, history
  <2>2. KeepsStored(sq, sq')
    BY <2>1 DEF KeepsStored
  <2> QED
    BY <1>1, <2>1, <2>2 DEF SameLoad, LoadRec
<1>4. CASE execute_load
  <2>1. /\ lq' = [lq EXCEPT ![First(ready.RTL1)].fetched = "INFLIGHT"]
        /\ UNCHANGED <<program, results, rob, sq>>
    BY <1>4 DEF execute_load, trace, history
  <2>2. KeepsStored(sq, sq')
    BY <2>1 DEF KeepsStored
  <2> QED
    BY <1>1, <2>1, <2>2 DEF SameLoad, LoadRec
<1>5. CASE \E own, packet : TranslationDone(own, packet)
  <2>1. PICK own, packet : TranslationDone(own, packet)
    BY <1>5
  <2>2. PICK K, M, y, w : PacketGoes(packet, K, M, y, w)
    BY <2>1, TranslationGoes
  <2>3. UNCHANGED <<program, results, rob>>
    BY Zenon, <2>1 DEF TranslationDone, trace, history
  <2>4. lq' = [l \in Lq |-> IF l \in K THEN [lq[l] EXCEPT !.translated = "COMPLETED"] ELSE lq[l]]
    BY <2>2 DEF PacketGoes
  <2> DEFINE v == sq'
  <2>5. v.at = [f \in Sq |-> IF f \in M THEN [sq.at[f] EXCEPT !.translated = "COMPLETED"] ELSE sq.at[f]]
    BY <1>1, <2>2 DEF PacketGoes, SqRec
  <2> HIDE DEF v
  <2>6. \A g \in Sq : /\ v.at[g].id = sq.at[g].id /\ v.at[g].addr = sq.at[g].addr
                      /\ v.at[g].fetched = sq.at[g].fetched
    BY <1>1, <2>5 DEF StoreRec
  <2>7. KeepsStored(sq, v)
    BY <2>6 DEF KeepsStored
  <2>8. \A l \in Lq : SameLoad(lq[l], lq'[l])
    BY <1>1, <2>4 DEF SameLoad, LoadRec
  <2> QED
    BY <2>3, <2>7, <2>8 DEF v
<1> QED
  BY <1>2, <1>3, <1>4, <1>5

\* The instructions that wait are the same after all operands are in.
LEMMA IssueKeepsWaiters ==
  ASSUME NEW p, NEW q \in CoreRec(p), NEW s \in Slot, NEW all \in BOOLEAN,
         NEW x, x = IF all THEN [q EXCEPT !.rob.at[s] = Issued(@)] ELSE q
  PROVE  \A t \in Slot : /\ SameSources(q.rob.at[t], x.rob.at[t])
                         /\ SameWaiters(q.rob.at[t], x.rob.at[t])
<1> DEFINE f == Issued(q.rob.at[s])
           c == [q.rob EXCEPT !.at[s] = f]
<1>1. q.rob \in Rob /\ q.rob.at[s] \in Entry
  BY CoreFields DEF Rob
<1>2. SameOperands(q.rob.at[s], f)
  BY <1>1, IssuedEntry DEF IsIssued
<1>3. CASE all
  <2>1. x = [q EXCEPT !.rob = c]
    BY <1>3 DEF CoreRec
  <2> HIDE DEF c
  <2>2. x.rob = c
    BY <2>1 DEF CoreRec
  <2> HIDE DEF f
  <2>3. \A t \in Slot : c.at[t] = IF t = s THEN f ELSE q.rob.at[t]
    BY <1>1 DEF c, Rob
  <2> QED
    BY <1>2, <2>2, <2>3 DEF SameOperands, SameSources, SameWaiters
<1>4. CASE ~all
  BY <1>4 DEF SameSources, SameWaiters
<1> QED
  BY <1>3, <1>4

\* as operands enter the queues,
LEMMA MemoryKeepsWaits ==
  ASSUME Machine, Registers, Lsq, Values, Waits, NEW s \in Slot, do_memory_scheduling(s)
  PROVE  Waits'
<1> DEFINE q == check_and_add_lsq(s)
           p == program
           n == Len(results)
           all == AllAdded(q.rob.at[s], InstrIn(s))
           x == IF all THEN [q EXCEPT !.rob.at[s] = Issued(@)] ELSE q
<1>1. InRob(s) /\ Become(x) /\ UNCHANGED <<program, results>>
  BY DEF do_memory_scheduling, MayAdd, trace, outside, history
<1>2. q \in CoreRec(p) /\ WaitInv(p, q, n)
  <2>1. /\ Core \in CoreRec(program) /\ Accounts(program, Core)
        /\ InTrace(program, read, dispatched, Len(results))
    BY LsqFacts DEF LsqInv
  <2>2. LoadsMayEnter(s)
    BY <1>1, LoadsMayEnterHere
  <2>3. PICK f : StoresUpTo(program, f) /\ HoldsStores(f, Core)
    BY LsqFacts DEF LsqInv, HoldsStores
  <2>4. WaitInv(program, check_and_add_lsq(s), Len(results))
    BY <2>1, <2>2, <2>3, AllWait DEF Machine, Waits
  <2>5. check_and_add_lsq(s) \in Sound(s)
    BY <2>1, <2>2, AllValued DEF Machine, Values
  <2> QED
    BY <2>4, <2>5 DEF Sound, Grown
<1>3. all \in BOOLEAN
  BY DEF AllAdded
<1> HIDE DEF q, all
<1>4. /\ x \in CoreRec(p) /\ IssuesAll(p, q, x, s, all)
      /\ \A t \in Slot : SameSources(q.rob.at[t], x.rob.at[t]) /\ SameWaiters(q.rob.at[t], x.rob.at[t])
  BY <1>2, <1>3, IssuesWhenAll, IssueKeepsWaiters
<1> HIDE DEF x
<1>5. Core' = x
  BY <1>1, <1>4, BecomesCore
<1> HIDE DEF p, n
<1>6. x.lq = q.lq /\ x.sq = q.sq /\ q.rob \in Rob
  BY <1>2, <1>4, CoreFields DEF IssuesAll
<1>7. (\A l \in Lq : SameLoad(q.lq[l], x.lq[l])) /\ KeepsStored(q.sq, x.sq)
  BY <1>6 DEF SameLoad, KeepsStored
<1>8. WaitInv(p, x, n)
  BY <1>2, <1>4, <1>6, <1>7, WaitsKept
<1> QED
  BY <1>1, <1>5, <1>8 DEF Waits, p, n

\* as the L1D answers a load that waits for no store,
LEMMA DataDoneKeepsWaits ==
  ASSUME Machine, Registers, Lsq, Values, Waits, NEW packet, DataDone(packet)
  PROVE  Waits'
<1> DEFINE q == Core
           p == program
           n == Len(results)
           v == [l \in packet |-> memory[lq[l].addr]]
<1>1. PICK r : /\ Become(r) /\ packet \in SUBSET l1d /\ l1d \in SUBSET Lq
               /\ IsReleased(p, q, r, packet, v)
               /\ UNCHANGED <<program, read, dispatched, dtlb, memory, results>>
  BY DataDoneGoes
<1>2. p \in Programs /\ q \in CoreRec(p) /\ Accounts(p, q) /\ q.lq = lq
  BY LsqFacts DEF Core, LsqInv
<1>3. Core' = r
  BY <1>1, BecomesCore DEF IsReleased
<1>4. WaitInv(p, q, n) /\ LoadsFind(p, q.lq, n)
  BY DEF Waits, Values, ValuesInv
<1>5. \A l \in packet : l \in Lq /\ lq[l].addr # Nil /\ lq[l].producer_id = Nil
  BY <1>1 DEF Machine, LoadStages, InStage
<1> HIDE DEF q, p, n, v
<1>6. ASSUME NEW l \in packet
      PROVE  q.lq[l].addr # Nil /\ LastHasStored(p, q.sq, n, q.lq[l].id, q.lq[l].addr)
  <2> DEFINE e == q.lq[l]
  <2>1. l \in Lq /\ e.addr # Nil /\ e.producer_id = Nil
    BY <1>2, <1>5, <1>6
  <2>2. FindsItsStore(p, e, n)
    BY <1>4, <2>1 DEF LoadsFind
  <2> HIDE DEF e
  <2>3. PICK m \in 0 .. e.id - 1 : /\ IsLastStore(p, e.id, e.addr, m)
                                   /\ e.producer_id = m \/ (e.producer_id = Nil /\ m <= n)
    BY <2>2 DEF FindsItsStore
  <2>4. m <= n
    BY <2>1, <2>3, Sizes
  <2>5. LastHasStored(p, q.sq, n, e.id, e.addr)
    BY <2>3, <2>4 DEF LastHasStored, HasStored
  <2> QED
    BY <2>1, <2>5 DEF e
<1>7. WaitInv(p, r, n)
  <2>1. packet \in SUBSET Lq /\ IsReleased(p, q, r, packet, v)
    BY <1>1
  <2> QED
    BY ONLY <1>2, <1>4, <1>6, <2>1, WaitsReleased
<1> QED
  BY <1>1, <1>3, <1>7 DEF Waits, p, n

\* and as the L1D takes a store out of its write queue.
LEMMA L1DWritesKeepsWaits ==
  ASSUME Waits, L1DWrites
  PROVE  Waits'
<1>1. UNCHANGED <<program, rob, lq, sq, sta, ready, inflight, got, results>>
  BY DEF L1DWrites, trace, core, history
<1>2. Core' = Core
  BY <1>1 DEF Core
<1> QED
  BY <1>1, <1>2 DEF Waits

\* One entry of the queue is the store of an instruction to an address.
LEMMA OneStore ==
  ASSUME NEW p \in Programs, StoresAreDistinct(p), NEW g, StoresUpTo(p, g), NEW b, NEW q \in SqRec,
         NEW c \in Int, NEW a, StoreWindow(p, g, b, q, c, a),
         NEW f \in Sq, NEW h \in Sq, q.at[f].addr # Nil, q.at[h].addr = q.at[f].addr, q.at[h].id = q.at[f].id
  PROVE  f = h
<1> DEFINE D(i) == Dist(SQ_SIZE, q.head, i)
           x == q.at[f]
           y == q.at[h]
<1>1. HoldsPlace(p, g, b, x, c + 1 + D(f)) /\ HoldsPlace(p, g, b, y, c + 1 + D(h))
  <2>1. x # NoStore /\ y # NoStore
    BY DEF NoStore
  <2> QED
    BY <2>1 DEF StoreWindow
<1>2. x.addr = y.addr /\ x.id = y.id
  OBVIOUS
<1>3. SQ_SIZE \in Nat \ {0} /\ Sq = 0 .. SQ_SIZE - 1 /\ q.head \in 0 .. SQ_SIZE - 1
  BY Sizes DEF Sq, SqRec
<1>4. D(f) \in 0 .. SQ_SIZE - 1 /\ D(h) \in 0 .. SQ_SIZE - 1
      /\ Wrap(SQ_SIZE, q.head + D(f)) = f /\ Wrap(SQ_SIZE, q.head + D(h)) = h
  <2>1. SQ_SIZE \in Nat \ {0} /\ q.head \in 0 .. SQ_SIZE - 1 /\ f \in 0 .. SQ_SIZE - 1 /\ h \in 0 .. SQ_SIZE - 1
    BY <1>3
  <2> QED
    BY <2>1, DistIsPlace
<1> HIDE DEF D, x, y
<1>5. x.data_index = y.data_index
  <2>1. /\ x.id \in 1 .. Len(p) /\ x.data_index \in DOMAIN p[x.id].stores /\ x.addr = p[x.id].stores[x.data_index]
        /\ y.data_index \in DOMAIN p[x.id].stores /\ y.addr = p[x.id].stores[y.data_index]
    BY <1>1, <1>2 DEF HoldsPlace, IsStoreOf
  <2>2. x.id \in DOMAIN p
    BY <2>1, ProgramsAssumption, LenProperties
  <2> QED
    BY <1>2, <2>1, <2>2 DEF StoresAreDistinct
<1>6. c + 1 + D(f) = c + 1 + D(h)
  BY <1>1, <1>2, <1>5 DEF HoldsPlace
<1>7. D(f) = D(h)
  BY SMTT(30), <1>4, <1>6
<1> QED
  BY <1>4, <1>7

\* Load j of the instruction in slot t is at the address of the store of entry f, which has no
\* data yet and for whose instruction it waits.
WouldForward(p, q, f, t, j) ==
  /\ q.sq.at[f].addr # Nil /\ q.sq.at[f].fetched = "NO"
  /\ t \in q.rob.at[q.sq.at[f].rob_index].memory_depend_on_me
  /\ j \in q.rob.at[t].source_added
  /\ p[q.rob.at[t].id].loads[j] = q.sq.at[f].addr

\* The last store before an instruction is of an instruction before it, or none.
LEMMA LastIsBefore ==
  ASSUME NEW p, NEW i, NEW a, NEW m, IsLastStore(p, i, a, m)  PROVE m \in 0 .. i - 1
  BY DEF IsLastStore

\* This store is the last before the load,
LEMMA WouldForwardLast ==
  ASSUME NEW p \in Programs, NoneOverwritten(p), NEW q \in CoreRec(p),
         NEW n \in Nat, NEW d \in Nat, OneEach(q.rob, d, n), IdsOf(p, q.rob),
         Accounts(p, q), StoresHeld(p, q.rob, q.sq), WaitersLoad(p, q.rob),
         NEW f \in Sq, NEW t \in Slot, NEW j, WouldForward(p, q, f, t, j)
  PROVE  /\ q.rob.at[t].id # 0 /\ q.rob.at[t].id \in Nat /\ q.sq.at[f].id > n
         /\ IsLastStore(p, q.rob.at[t].id, q.sq.at[f].addr, q.sq.at[f].id)
<1>1. PICK e, u, s, i, a :
        /\ e = q.sq.at[f] /\ s = e.rob_index /\ i = e.id /\ a = e.addr
        /\ u = q.rob.at[t] /\ t \in q.rob.at[s].memory_depend_on_me
        /\ j \in u.source_added /\ p[u.id].loads[j] = a
  BY DEF WouldForward
<1>2. q.sq \in SqRec /\ e \in StoreRec /\ Len(p) \in Nat
  BY <1>1, CoreFields, ProgramsAssumption, LenProperties DEF SqRec
<1>3. IsStoreOf(p, q.rob, e)
  <2>1. e # NoStore
    BY <1>1 DEF WouldForward, NoStore
  <2> QED
    BY <1>1, <2>1 DEF StoresHeld
<1>4. s \in Slot /\ i \in 1 .. Len(p) /\ q.rob.at[s].id = i /\ a \in StoresOf(p[i])
  <2>1. s \in Slot
    <3>1. e.rob_index \in Slot
      BY ONLY <1>2 DEF StoreRec
    <3> QED
      BY Zenon, <1>1, <3>1
  <2>2. i \in 1 .. Len(p) /\ q.rob.at[s].id = i /\ a \in StoresOf(p[i])
    BY Zenon, <1>1, <1>3 DEF IsStoreOf, StoresOf
  <2> QED
    BY <2>1, <2>2
<1>5. i # 0
  BY <1>2, <1>4
<1>6. i \in n + 1 .. d
  BY <1>4, <1>5 DEF OneEach
<1>7. Awaits(p, q.rob, i, t)
  BY Zenon, <1>1, <1>4, <1>5 DEF WaitersLoad
<1>8. PICK k \in DOMAIN p[u.id].loads : u.id # 0 /\ IsLastStore(p, u.id, p[u.id].loads[k], i)
  BY Zenon, <1>1, <1>7 DEF Awaits
<1>9. u.id \in 1 .. Len(p) /\ u.id \in DOMAIN p /\ u.id \in Nat
  <2>1. u.id \in 0 .. Len(p)
    BY <1>1 DEF IdsOf
  <2> DEFINE m == u.id
  <2>2. m \in 0 .. Len(p) /\ m # 0
    BY <1>8, <2>1
  <2> HIDE DEF m
  <2>3. m \in 1 .. Len(p)
    BY ONLY <1>2, <2>2
  <2>4. u.id \in 1 .. Len(p) /\ u.id \in Nat
    BY <2>3 DEF m
  <2> QED
    BY <1>2, <2>4, ProgramsAssumption, LenProperties
<1>10. j \in DOMAIN p[u.id].loads
  <2>1. Counts(p, q, t)
    BY Zenon, <1>1, <1>8 DEF Accounts, OperandsCounted
  <2> QED
    BY Zenon, <1>1, <2>1 DEF Counts
<1>11. i \in 1 .. u.id - 1
  <2>1. i \in 0 .. u.id - 1
    BY ONLY <1>8, LastIsBefore
  <2> QED
    BY SMTT(30), <1>4, <1>9, <2>1
<1>12. IsLastStore(p, u.id, p[u.id].loads[j], i)
  BY <1>1, <1>4, <1>8, <1>9, <1>10, <1>11 DEF NoneOverwritten
<1>13. i > n
  BY <1>6
<1> QED
  BY <1>1, <1>8, <1>9, <1>12, <1>13

\* so that the load is in the queue and waits for it.
LEMMA WaiterMatches ==
  ASSUME NEW p \in Programs, StoresAreDistinct(p), NoneOverwritten(p), NEW q \in CoreRec(p),
         NEW n \in Nat, NEW d \in Nat, NEW D, NEW rd, LsqInv(p, q, D, n, d, rd), n <= Len(p),
         OneEach(q.rob, d, n), IdsOf(p, q.rob), LoadsFind(p, q.lq, n), WaitInv(p, q, n),
         NEW f \in Sq, NEW t \in Slot, NEW j, WouldForward(p, q, f, t, j),
         NEW l, l = q.rob.at[t].lq_index[j]
  PROVE  /\ l \in Lq /\ q.lq[l].addr # Nil /\ q.lq[l].addr = q.sq.at[f].addr
         /\ q.lq[l].producer_id = q.sq.at[f].id
         /\ IsLastStore(p, q.lq[l].id, q.lq[l].addr, q.sq.at[f].id)
<1>1. PICK g, c : StoresUpTo(p, g) /\ StoreWindow(p, g, q.rob, q.sq, g[n], c)
  BY DEF LsqInv, Stores
<1>2. Accounts(p, q) /\ StoresHeld(p, q.rob, q.sq) /\ WaitersLoad(p, q.rob) /\ q.sq \in SqRec
  BY <1>1, WindowHolds, CoreFields DEF LsqInv, WaitInv
<1>3. PICK e, u, i, m, a : /\ e = q.sq.at[f] /\ i = e.id /\ a = e.addr /\ u = q.rob.at[t] /\ m = u.id
                           /\ j \in u.source_added /\ p[m].loads[j] = a
                           /\ a # Nil /\ e.fetched = "NO" /\ l = u.lq_index[j]
  BY DEF WouldForward
<1>4. m # 0 /\ m \in Nat /\ i > n /\ IsLastStore(p, m, a, i)
  BY <1>2, <1>3, WouldForwardLast
<1>5. i \in Nat
  BY <1>4 DEF IsLastStore
<1>6. ASSUME NEW o, IsLastStore(p, m, a, o)  PROVE o = i /\ ~(o <= n)
  <2>1. o = i
    BY <1>4, <1>6, OneLastStore
  <2> QED
    BY <1>4, <1>5, <2>1
<1>7. StaysForStore(p, q, n, u)
  BY <1>3, <1>4 DEF WaitInv, LoadsStay
<1>8. ~LastHasStored(p, q.sq, n, m, a)
  <2> SUFFICES ASSUME LastHasStored(p, q.sq, n, m, a)  PROVE FALSE
    OBVIOUS
  <2>1. PICK o : IsLastStore(p, m, a, o) /\ HasStored(q.sq, n, o, a)
    BY DEF LastHasStored
  <2>2. o = i /\ ~(o <= n)
    BY <1>6, <2>1
  <2>3. PICK h \in Sq : q.sq.at[h].id = i /\ q.sq.at[h].addr = a /\ q.sq.at[h].fetched = "COMPLETED"
    BY <2>1, <2>2 DEF HasStored
  <2>4. g[n] \in Int
    <3>1. n \in 0 .. Len(p)
      BY ProgramsAssumption, LenProperties
    <3>2. g \in [0 .. Len(p) -> Nat]
      BY <1>1 DEF StoresUpTo
    <3> QED
      BY <3>1, <3>2
  <2>5. q.sq.at[f].addr # Nil /\ q.sq.at[h].addr = q.sq.at[f].addr /\ q.sq.at[h].id = q.sq.at[f].id
    BY <1>3, <2>3
  <2>6. f = h
    BY ONLY p \in Programs, StoresAreDistinct(p), f \in Sq, <1>1, <1>2, <2>3, <2>4, <2>5, OneStore
  <2> QED
    BY <1>3, <2>3, <2>6
<1>9. IsInQueue(q.lq, u, j)
  BY <1>3, <1>7, <1>8 DEF StaysForStore
<1>10. PICK x : x = q.lq[l] /\ l \in Lq /\ x.addr # Nil /\ x.id = m /\ x.data_index = j
  <2>1. /\ u.lq_index[j] \in Lq /\ q.lq[u.lq_index[j]].addr # Nil
        /\ q.lq[u.lq_index[j]].id = u.id /\ q.lq[u.lq_index[j]].data_index = j
    BY ONLY <1>9 DEF IsInQueue
  <2> QED
    BY Zenon, <1>3, <2>1
<1>11. (x = NoLoad \/ IsLoadOf(p, q.rob, x, l)) /\ FindsItsStore(p, x, n)
  BY Zenon, <1>2, <1>10 DEF Accounts, LoadsNamed, LoadsFind
<1>12. x.addr = a
  <2>1. x # NoLoad
    BY <1>10 DEF NoLoad
  <2>2. x.addr = p[x.id].loads[x.data_index]
    BY Zenon, <1>11, <2>1 DEF IsLoadOf
  <2> QED
    BY Zenon, <1>3, <1>10, <2>2
<1>13. x.producer_id = i
  <2>1. PICK o : IsLastStore(p, m, a, o) /\ (x.producer_id = o \/ o <= n)
    BY Zenon, <1>10, <1>11, <1>12 DEF FindsItsStore
  <2> QED
    BY <1>6, <2>1
<1> QED
  BY <1>3, <1>4, <1>10, <1>12, <1>13

\* So it is of each load that the store of entry f, ready to execute, forwards to.
WaitsForStore(f, l) ==
  /\ l \in Lq /\ lq[l].addr # Nil /\ lq[l].addr = sq.at[f].addr
  /\ lq[l].producer_id = sq.at[f].id
  /\ IsLastStore(program, lq[l].id, lq[l].addr, sq.at[f].id)

LEMMA ForwardsMatch ==
  ASSUME Machine, Registers, Lsq, Values, Waits, StoresAreDistinct(program), NoneOverwritten(program),
         NEW f \in Sq, sq.at[f].addr # Nil, sq.at[f].fetched = "NO",
         NEW d \in DependentLoads(sq.at[f].rob_index, sq.at[f].addr)
  PROVE  WaitsForStore(f, At(d[1]).lq_index[d[2]])
<1> DEFINE q == Core
           p == program
           n == Len(results)
<1>1. /\ p \in Programs /\ q \in CoreRec(p) /\ LsqInv(p, q, dtlb, n, dispatched, read)
      /\ OneEach(rob, dispatched, n) /\ IdsOf(p, rob)
      /\ q.rob = rob /\ q.lq = lq /\ q.sq = sq
      /\ n \in Nat /\ dispatched \in Nat /\ n <= Len(p)
  <2>1. n <= Len(p) /\ n \in Nat /\ dispatched \in Nat
    BY TraceFacts
  <2> QED
    BY <2>1, LsqFacts DEF Core
<1>2. LoadsFind(p, q.lq, n) /\ WaitInv(p, q, n) /\ StoresAreDistinct(p) /\ NoneOverwritten(p)
  BY DEF Values, ValuesInv, Waits
<1>3. PICK t, j, l : /\ t = d[1] /\ j = d[2] /\ t \in Slot /\ l = rob.at[t].lq_index[j]
                     /\ t \in rob.at[sq.at[f].rob_index].memory_depend_on_me
                     /\ j \in rob.at[t].source_added /\ p[rob.at[t].id].loads[j] = sq.at[f].addr
                     /\ l = At(d[1]).lq_index[d[2]]
  BY SMTT(30) DEF DependentLoads, At, InstrIn
<1> HIDE DEF q, p, n
<1>4. OneEach(q.rob, dispatched, n) /\ IdsOf(p, q.rob) /\ l = q.rob.at[t].lq_index[j]
  BY <1>1, <1>3
<1>5. WouldForward(p, q, f, t, j)
  BY <1>1, <1>3 DEF WouldForward
<1>6. /\ l \in Lq /\ q.lq[l].addr # Nil /\ q.lq[l].addr = q.sq.at[f].addr
      /\ q.lq[l].producer_id = q.sq.at[f].id
      /\ IsLastStore(p, q.lq[l].id, q.lq[l].addr, q.sq.at[f].id)
  BY ONLY SMTT(30), f \in Sq, <1>1, <1>2, <1>3, <1>4, <1>5, WaiterMatches
<1>7. WaitsForStore(f, l)
  BY SMTT(30), <1>1, <1>6 DEF WaitsForStore, p
<1> QED
  BY SMTT(30), <1>3, <1>7

\* as a store executes, and the loads that wait for it leave,
LEMMA ForwardKeepsWaits ==
  ASSUME Machine, Registers, Lsq, Values, Waits, StoresAreDistinct(program), NoneOverwritten(program),
         execute_store
  PROVE  Waits'
<1> DEFINE q == Core
           p == program
           n == Len(results)
           f == First(ready.RTS1)
           s == sq.at[f].rob_index
           L == ForwardTo(f)
           k == [t \in Slot |-> IF t = s THEN 1 ELSE 0]
           w == [l \in Lq |-> sq.at[f].id]
<1>1. PICK r : /\ Become(r) /\ StoreGoesOn(r)
               /\ UNCHANGED <<program, read, dispatched, dtlb, l1d, memory, results>>
  BY ExecuteStoreGoes
<1>2. f \in Sq /\ s \in Slot /\ L \in SUBSET Lq /\ f # Nil
  BY <1>1 DEF StoreGoesOn, execute_store
<1>3. PICK x, y : /\ Executes(q, x, f) /\ IsOpsDone(program, x, y, k)
                  /\ IsReleased(program, y, r, L, w)
  BY <1>1 DEF StoreGoesOn
<1>4. /\ p \in Programs /\ q \in CoreRec(p) /\ LsqInv(p, q, dtlb, n, dispatched, read) /\ IdsOf(p, rob)
      /\ q.rob = rob /\ q.lq = lq /\ q.sq = sq /\ q.ready = ready
  BY LsqFacts DEF Core
<1>5. sq.at[f].addr # Nil /\ sq.at[f].fetched = "NO"
  <2>1. PICK g, a : Stores(p, g, q, dtlb, n, dispatched, read, a)
    BY <1>4 DEF LsqInv
  <2>2. StoreStages(sq.at, ready, dtlb)
    BY <1>4, <2>1 DEF Stores
  <2>3. f \in InStoreStage(sq.at, "COMPLETED", "NO")
    BY <1>2, <2>2, Sizes, FirstIsInRing DEF StoreStages
  <2> QED
    BY <2>3 DEF InStoreStage
<1>6. \A l \in L : WaitsForStore(f, l)
  <2> SUFFICES ASSUME NEW l \in L  PROVE WaitsForStore(f, l)
    OBVIOUS
  <2>1. PICK d \in DependentLoads(sq.at[f].rob_index, sq.at[f].addr) : l = At(d[1]).lq_index[d[2]]
    BY DEF ForwardTo
  <2> HIDE DEF f, L
  <2> QED
    BY <1>2, <1>5, <2>1, ForwardsMatch
<1>7. WaitInv(p, q, n)
  BY DEF Waits
<1>8. IdsOf(program, q.rob) /\ f = First(q.ready.RTS1) /\ s = q.sq.at[f].rob_index
  BY <1>4
<1>9. k = [t \in Slot |-> IF t = s THEN 1 ELSE 0]
  OBVIOUS
<1>10. Core' = r
  BY <1>1, <1>3, BecomesCore DEF IsReleased
<1> HIDE DEF q, n, f, s, L, k, w
<1>11. LsqInv(program, y, dtlb, n, dispatched, read)
  BY <1>2, <1>3, <1>4, <1>8, <1>9, ExecutesKeepsLsq
<1>12. Accounts(p, y) /\ y \in CoreRec(p)
  BY <1>3, <1>11 DEF LsqInv, IsOpsDone
<1>13. /\ y.lq = q.lq /\ y.sq = x.sq /\ x.rob = q.rob
       /\ \A t \in Slot : IsWithoutOps(x.rob.at[t], y.rob.at[t], k[t])
  BY <1>3 DEF Executes, IsOpsDone
<1>14. /\ \A g \in Sq : g # f => y.sq.at[g] = q.sq.at[g]
       /\ y.sq.at[f] = [q.sq.at[f] EXCEPT !.fetched = "COMPLETED"]
  BY <1>2, <1>3, <1>13 DEF Executes
<1>15. /\ y.sq.at[f].id = q.sq.at[f].id /\ y.sq.at[f].addr = q.sq.at[f].addr
       /\ y.sq.at[f].fetched = "COMPLETED"
  <2>1. q.sq.at[f] \in StoreRec
    BY <1>2, <1>4, CoreFields DEF SqRec
  <2> QED
    BY <1>14, <2>1 DEF StoreRec
<1>16. KeepsStored(q.sq, y.sq)
  BY <1>4, <1>5, <1>14 DEF KeepsStored
<1>17. \A t \in Slot : SameSources(q.rob.at[t], y.rob.at[t]) /\ SameWaiters(q.rob.at[t], y.rob.at[t])
  BY <1>13 DEF IsWithoutOps, SameRegs, SameSources, SameWaiters
<1>18. WaitInv(p, y, n)
  <2>1. \A l \in Lq : SameLoad(q.lq[l], y.lq[l])
    BY <1>13 DEF SameLoad
  <2>2. q.rob \in Rob
    BY <1>4, CoreFields
  <2> QED
    BY <1>7, <1>16, <1>17, <2>1, <2>2, WaitsKept
<1>19. ASSUME NEW l \in L
       PROVE  y.lq[l].addr # Nil /\ LastHasStored(p, y.sq, n, y.lq[l].id, y.lq[l].addr)
  <2> DEFINE e == y.lq[l]
             m == sq.at[f].id
  <2>1. e.addr # Nil /\ e.addr = sq.at[f].addr /\ IsLastStore(p, e.id, e.addr, m)
    BY <1>4, <1>6, <1>13, <1>19 DEF WaitsForStore
  <2>2. y.sq.at[f].id = m /\ y.sq.at[f].addr = e.addr
    BY <1>4, <1>15, <2>1
  <2> HIDE DEF e, m
  <2>3. HasStored(y.sq, n, m, e.addr)
    BY <1>2, <1>15, <2>2 DEF HasStored
  <2>4. m \in 0 .. e.id - 1
    BY <2>1 DEF IsLastStore
  <2>5. LastHasStored(p, y.sq, n, e.id, e.addr)
    BY <2>1, <2>3, <2>4 DEF LastHasStored
  <2> QED
    BY <2>1, <2>5 DEF e
<1>20. WaitInv(p, r, n)
  BY ONLY <1>2, <1>3, <1>4, <1>12, <1>18, <1>19, WaitsReleased
<1> QED
  BY <1>1, <1>10, <1>20 DEF Waits, n

\* and as the oldest instruction retires with its stores.
LEMMA RetireKeepsWaits ==
  ASSUME Machine, Registers, Lsq, Waits, retire_rob
  PROVE  Waits'
<1> DEFINE q == Core
           r == Core'
           p == program
           n == Len(results)
           K == StoreEntries(rob.head)
<1>1. /\ sq' = [sq EXCEPT !.at = [f \in Sq |-> IF f \in K THEN NoStore ELSE sq.at[f]],
                          !.head = (sq.head + Cardinality(K)) % SQ_SIZE]
      /\ InRob(rob.head) /\ rob.head \in Slot
      /\ rob' = [rob EXCEPT !.at[rob.head] = NoInstr, !.head = (@ + 1) % ROB_SIZE]
  BY DEF retire_rob, Machine, Rob
<1> PICK s \in Slot : \E i : RetiresFrom(s, i)
  BY RetirementGoes
<1>2. PICK i : RetiresFrom(s, i)
  OBVIOUS
<1>3. /\ i = n + 1 /\ rob.at[s].id = i /\ rob'.at[s] = NoInstr /\ SameSlotsBut(rob, rob', s)
      /\ UNCHANGED <<program, lq>> /\ results' = Append(results, got[i])
  BY <1>2 DEF RetiresFrom
<1>4. Len(results') = n + 1 /\ n \in Nat
  BY <1>3, AppendProperties, TraceFacts DEF Machine
<1>5. s = rob.head
  <2>1. rob'.at[rob.head] = NoInstr
    BY <1>1 DEF Machine, Rob
  <2> SUFFICES ASSUME s # rob.head  PROVE FALSE
    OBVIOUS
  <2>2. rob'.at[rob.head] = rob.at[rob.head]
    BY <1>1, <1>3 DEF SameSlotsBut
  <2> QED
    BY <1>1, <2>1, <2>2 DEF InRob, At, NoInstr
<1>6. /\ q.rob = rob /\ r.rob = rob' /\ q.lq = lq /\ r.lq = lq' /\ q.sq = sq /\ r.sq = sq'
      /\ rob \in Rob /\ sq \in SqRec
  BY DEF Core, Machine
<1>7. p \in Programs /\ OneEach(rob, dispatched, n) /\ LsqInv(p, q, dtlb, n, dispatched, read)
  BY LsqFacts
<1>8. WaitInv(p, q, n)
  BY DEF Waits
<1>9. K = NamedBy(rob.at[s])
  BY <1>5 DEF StoreEntries, NamedBy, At
<1>10. \A f \in Sq : r.sq.at[f] = IF f \in K THEN NoStore ELSE q.sq.at[f]
  BY <1>1, <1>6 DEF SqRec
<1> HIDE DEF q, r, p, n, K
<1>11. \A f \in K : f \in Sq /\ q.sq.at[f].id = i
  <2>1. PICK g, a : Stores(p, g, q, dtlb, n, dispatched, read, a)
    BY <1>7 DEF LsqInv
  <2>2. rob.at[s].id # 0
    BY <1>3, <1>4
  <2>3. NamesStores(p, g, rob.at[s], q.sq, a)
    BY <1>6, <2>1, <2>2 DEF Stores, StoresNamed
  <2> QED
    BY <1>3, <1>9, <2>3 DEF NamesStores, NamedBy
<1>12. ASSUME NEW m \in Int, NEW a, HasStored(q.sq, n, m, a)  PROVE HasStored(r.sq, n + 1, m, a)
  <2>1. CASE m <= n
    <3>1. m <= n + 1
      BY <1>4, <2>1
    <3> QED
      BY <3>1 DEF HasStored
  <2>2. CASE \E f \in Sq : q.sq.at[f].id = m /\ q.sq.at[f].addr = a /\ q.sq.at[f].fetched = "COMPLETED"
    <3>1. PICK f \in Sq : q.sq.at[f].id = m /\ q.sq.at[f].addr = a /\ q.sq.at[f].fetched = "COMPLETED"
      BY <2>2
    <3>2. CASE f \in K
      <4>1. m = n + 1
        BY <1>3, <1>11, <3>1, <3>2
      <4> QED
        BY <1>4, <4>1 DEF HasStored
    <3>3. CASE f \notin K
      BY <1>10, <3>1, <3>3 DEF HasStored
    <3> QED
      BY <3>2, <3>3
  <2> QED
    BY <1>12, <2>1, <2>2 DEF HasStored
<1>13. \A t \in Slot : t # s => r.rob.at[t] = q.rob.at[t]
  BY <1>3, <1>6 DEF SameSlotsBut
<1>14. r.rob.at[s].id = 0
  BY <1>3, <1>6 DEF NoInstr
<1>15. LoadsStay(p, r, n + 1)
  <2> SUFFICES ASSUME NEW t \in Slot, r.rob.at[t].id # 0  PROVE StaysForStore(p, r, n + 1, r.rob.at[t])
    BY DEF LoadsStay
  <2>1. PICK e : e = r.rob.at[t] /\ e = q.rob.at[t] /\ e.id # 0
    BY <1>13, <1>14
  <2>2. StaysForStore(p, q, n, e)
    BY <1>8, <2>1 DEF WaitInv, LoadsStay
  <2>3. r.lq = q.lq
    BY <1>3, <1>6
  <2>4. StaysForStore(p, r, n + 1, e)
    <3>1. ASSUME NEW k, NEW a, LastHasStored(p, q.sq, n, k, a)  PROVE LastHasStored(p, r.sq, n + 1, k, a)
      <4>1. PICK m \in 0 .. k - 1 : IsLastStore(p, k, a, m) /\ HasStored(q.sq, n, m, a)
        BY <3>1 DEF LastHasStored
      <4>2. HasStored(r.sq, n + 1, m, a)
        BY <1>12, <4>1
      <4> QED
        BY <4>1, <4>2 DEF LastHasStored
    <3> QED
      BY <2>2, <2>3, <3>1 DEF StaysForStore
  <2> QED
    BY <2>1, <2>4
<1>16. WaitersLoad(p, r.rob)
  <2> SUFFICES ASSUME NEW t \in Slot, r.rob.at[t].id # 0, NEW u \in r.rob.at[t].memory_depend_on_me
               PROVE  Awaits(p, r.rob, r.rob.at[t].id, u)
    BY DEF WaitersLoad
  <2>1. PICK e, m : e = q.rob.at[t] /\ m = e.id /\ m # 0 /\ r.rob.at[t] = e /\ u \in e.memory_depend_on_me
    BY <1>13, <1>14
  <2>2. Awaits(p, q.rob, m, u)
    BY <1>8, <2>1 DEF WaitInv, WaitersLoad
  <2>3. u \in Slot
    <3>1. e \in Entry
      BY <1>6, <2>1 DEF Rob
    <3> QED
      BY <2>1, <3>1 DEF Entry
  <2>4. u # s
    <3> SUFFICES ASSUME u = s  PROVE FALSE
      OBVIOUS
    <3>1. q.rob.at[u].id = n + 1
      BY <1>3, <1>6
    <3>2. m \in n + 1 .. dispatched
      BY <1>6, <1>7, <2>1 DEF OneEach
    <3>3. PICK a : IsLastStore(p, n + 1, a, m)
      BY <2>2, <3>1 DEF Awaits
    <3>4. m \in 0 .. (n + 1) - 1
      BY <3>3 DEF IsLastStore
    <3> QED
      BY <1>4, <3>2, <3>4
  <2>5. r.rob.at[u].id = q.rob.at[u].id
    BY <1>13, <2>3, <2>4
  <2>6. Awaits(p, r.rob, m, u)
    BY <2>2, <2>5, AwaitsKept
  <2> QED
    BY <2>1, <2>6
<1>17. WaitInv(p, r, n + 1)
  BY <1>15, <1>16 DEF WaitInv
<1> QED
  BY <1>3, <1>4, <1>17 DEF Waits, r, p, n

\* Nothing waits at first.
LEMMA WaitsInitially ==
  ASSUME Init
  PROVE  Waits
<1>1. rob.at = [s \in Slot |-> NoInstr] /\ Core.rob = rob
  BY DEF Init, Core
<1> QED
  BY <1>1 DEF Waits, WaitInv, WaitersLoad, LoadsStay, NoInstr

\* Every step keeps what waits.
LEMMA WaitsStep ==
  ASSUME Machine, Registers, Lsq, Values, Waits, StoresAreDistinct(program), NoneOverwritten(program),
         [Next]_vars
  PROVE  Waits'
<1>1. CASE read_from_trace \/ add_to_rob \/ \E s \in Slot : do_scheduling(s)
  BY <1>1, FrontKeepsWaits
<1>2. CASE (\E ring \in {"RTE0", "RTE1"} : do_execution(ring)) \/ \E s \in Slot : complete_execution(s)
  BY <1>2, ExecutionKeepsWaits
<1>3. ASSUME NEW s \in Slot, do_memory_scheduling(s)  PROVE Waits'
  BY <1>3, MemoryKeepsWaits
<1>4. CASE TranslateStore \/ TranslateLoad \/ execute_load
  BY <1>4, StagesKeepWaits
<1>5. ASSUME NEW packet, NEW own, TranslationDone(own, packet)  PROVE Waits'
  BY <1>5, StagesKeepWaits
<1>6. CASE execute_store
  BY <1>6, ForwardKeepsWaits
<1>7. ASSUME NEW packet, DataDone(packet)  PROVE Waits'
  BY <1>7, DataDoneKeepsWaits
<1>8. CASE L1DWrites
  BY <1>8, L1DWritesKeepsWaits
<1>9. CASE retire_rob
  BY <1>9, RetireKeepsWaits
<1>10. CASE UNCHANGED vars
  <2>1. UNCHANGED <<program, results, rob, lq, sq, sta, ready, inflight, got>>
    BY <1>10 DEF vars, trace, core, history
  <2>2. Core' = Core
    BY <2>1 DEF Core
  <2> QED
    BY <2>1, <2>2 DEF Waits
<1>11. CASE Work
  BY <1>1, <1>2, <1>3, <1>4, <1>5, <1>6, <1>7, <1>8, <1>9, <1>11 DEF Work
<1> QED
  BY <1>10, <1>11 DEF Next, Done

\* Each load of the queue that a store ready to execute would forward to names its instruction.
LEMMA LoadsAreMatched ==
  ASSUME Machine, Registers, Lsq, Values, Waits, StoresAreDistinct(program), NoneOverwritten(program)
  PROVE  StoresForwardToTheirLoads
<1> SUFFICES ASSUME NEW x \in Sq, ready.RTS1.at[x] # Nil  PROVE ForwardsToItsLoads(ready.RTS1.at[x])
  BY DEF StoresForwardToTheirLoads
<1>1. PICK f : f = ready.RTS1.at[x]
  OBVIOUS
<1>2. f \in Sq /\ sq.at[f].addr # Nil /\ sq.at[f].fetched = "NO"
  <2> DEFINE S == InStoreStage(sq.at, "COMPLETED", "NO")
  <2>1. PICK g, a : Stores(program, g, Core, dtlb, Len(results), dispatched, read, a)
    BY LsqFacts DEF LsqInv
  <2>2. Core.sq = sq /\ Core.ready = ready
    BY DEF Core
  <2>3. RingOf(ready.RTS1, SQ_SIZE, S)
    BY <2>1, <2>2 DEF Stores, StoreStages
  <2>4. f \in 0 .. SQ_SIZE - 1 /\ x \in 0 .. SQ_SIZE - 1 /\ SQ_SIZE \in Nat \ {0}
    BY <1>1, Sizes DEF Sq, Machine, ReadyRec, RingRec
  <2> HIDE DEF S
  <2>5. f \in S
    <3> SUFFICES ASSUME f \notin S  PROVE FALSE
      OBVIOUS
    <3>1. Nil \notin Int
      BY Sizes
    <3>2. {i \in 0 .. SQ_SIZE - 1 : ready.RTS1.at[i] = f} = {}
      BY <2>3, <2>4, <3>1, InRingOnce
    <3> QED
      BY <1>1, <2>4, <3>2
  <2> QED
    BY <2>5 DEF S, InStoreStage
<1>3. ASSUME NEW d \in DependentLoads(sq.at[f].rob_index, sq.at[f].addr)
      PROVE  lq[At(d[1]).lq_index[d[2]]].producer_id = sq.at[f].id
  BY <1>2, <1>3, ForwardsMatch DEF WaitsForStore
<1> QED
  BY <1>1, <1>3 DEF ForwardsToItsLoads

\* The traces whose stores are apart.
TracesStoreApart == \A p \in Programs : StoresAreDistinct(p) /\ NoneOverwritten(p)

\* The assert of execute_store holds of traces whose stores are apart: each load to which a
\* store would forward names the store's instruction as its producer, and is in the queue.
THEOREM StoresMatchTheirLoads == TracesStoreApart /\ StaSuffices => (Spec => []StoresForwardToTheirLoads)
<1> SUFFICES ASSUME TracesStoreApart, StaSuffices  PROVE Spec => []StoresForwardToTheirLoads
  OBVIOUS
<1>1. Init => Waits
  BY WaitsInitially
<1>2. Machine => StoresAreDistinct(program) /\ NoneOverwritten(program)
  BY TraceFacts DEF TracesStoreApart
<1>3. Machine /\ Registers /\ Lsq /\ Values /\ Waits /\ [Next]_vars => Waits'
  BY <1>2, WaitsStep
<1>4. Machine /\ Registers /\ Lsq /\ Values /\ Waits => StoresForwardToTheirLoads
  BY <1>2, LoadsAreMatched
<1>5. Spec => []Lsq /\ []Values
  BY LsqIsKept, LoadsReturnLastStores
<1> QED
  BY <1>1, <1>3, <1>4, <1>5, MachineIsKept, PTL DEF Spec

=============================================================================
