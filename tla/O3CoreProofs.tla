---------------------------- MODULE O3CoreProofs ----------------------------
(***************************************************************************)
(* Proofs about O3Core, for every trace and every size of the queues.      *)
(*                                                                         *)
(* The invariant has two parts.  Registers says what the reorder buffer    *)
(* keeps of the registers: its instructions are those dispatched and not   *)
(* retired, in their order; an instruction waits exactly for the last      *)
(* writer of each of its sources while that writer has not completed, and  *)
(* counts the sources it waits for; it executes, or issues an operand to   *)
(* memory, only when it waits for none; and RTE0 and RTE1 hold the         *)
(* instructions that are ready and have not started.  Machine says what    *)
(* the other parts must keep for that: their types, that an entry of the   *)
(* load queue the DTLB or the L1D is asked for is there once, in its stage,*)
(* and that an entry of the reorder buffer names the entries it took.      *)
(*                                                                         *)
(* check_and_add_lsq is a loop that updates the whole core, so its proof   *)
(* goes by turns: each keeps a set of cores (Grown), and so does the loop. *)
(***************************************************************************)
EXTENDS O3Core, RingProofs

-----------------------------------------------------------------------------
(* Registers: what the reorder buffer keeps, and in which order.           *)

Entry ==
  [id : Nat, scheduled : Progress, executed : Progress, reg_ready : BOOLEAN,
   num_reg_dependent : Int, num_mem_ops : Int, source_added : SUBSET Src,
   destination_added : SUBSET Dst, registers_depend_on_me : [Src -> SUBSET Slot],
   memory_depend_on_me : SUBSET Slot, lq_index : [Src -> Lq \cup {Nil}],
   sq_index : [Dst -> Sq \cup {Nil}]]
Rob == [at : [Slot -> Entry], head : Slot, tail : Slot]

\* The trace is read, dispatched and retired in its order, n instructions so far.
InTrace(p, r, d, n) == p \in Programs /\ r \in 0 .. Len(p) /\ d \in 0 .. r /\ n \in 0 .. d

\* A slot of the buffer that holds no instruction.
Empty(e) ==
  /\ e.id = 0
  /\ e.scheduled = "NO"
  /\ e.executed = "NO"
  /\ ~e.reg_ready
  /\ e.num_reg_dependent = 0
  /\ e.registers_depend_on_me = [j \in Src |-> {}]

(***************************************************************************)
(* The reorder buffer holds the d - n instructions that are dispatched and *)
(* not retired, from its head on, and nothing in its other slots.          *)
(***************************************************************************)
InWindow(b, d, n) ==
  /\ d - n <= ROB_SIZE
  /\ b.tail = Wrap(ROB_SIZE, b.head + (d - n))
  /\ \A s \in Slot : IF Dist(ROB_SIZE, b.head, s) < d - n
                     THEN b.at[s].id = n + 1 + Dist(ROB_SIZE, b.head, s)
                     ELSE Empty(b.at[s])

Before(b, s, t) == b.at[s].id # 0 /\ b.at[t].id # 0 /\ b.at[s].id < b.at[t].id

\* Instructions are scheduled in their order.
ScheduledInOrder(b) ==
  \A s, t \in Slot : Before(b, s, t) /\ b.at[t].scheduled # "NO" => b.at[s].scheduled # "NO"

\* t waits for s to produce its source j.
WaitsOn(b, t, j, s) == t \in b.at[s].registers_depend_on_me[j]

\* Only scheduled instructions wait, and for older ones.
WaitersAreYounger(p, b) ==
  \A s, t \in Slot : \A j \in Src : WaitsOn(b, t, j, s) =>
    Before(b, s, t) /\ b.at[t].scheduled # "NO" /\ j \in DOMAIN p[b.at[t].id].src

\* A source waits for one producer.
OneProducer(b) ==
  \A s, u, t \in Slot : \A j \in Src : WaitsOn(b, t, j, s) /\ WaitsOn(b, t, j, u) => s = u

\* s is the last instruction in the buffer before t that writes its source j.
LastWriter(p, b, t, j, s) ==
  /\ Before(b, s, t)
  /\ p[b.at[t].id].src[j] \in p[b.at[s].id].dst
  /\ \A u \in Slot : Before(b, s, u) /\ Before(b, u, t) => p[b.at[t].id].src[j] \notin p[b.at[u].id].dst

\* A scheduled instruction waits for the last writer of each source until it completes.
WaitsForLastWriter(p, b) ==
  \A s, t \in Slot : b.at[t].id # 0 /\ b.at[t].scheduled # "NO" =>
    \A j \in DOMAIN p[b.at[t].id].src :
      LastWriter(p, b, t, j, s) => WaitsOn(b, t, j, s) \/ b.at[s].executed = "COMPLETED"

\* The sources of t whose producers have not completed.
Waiting(b, t) == {j \in Src : \E s \in Slot : b.at[s].executed # "COMPLETED" /\ WaitsOn(b, t, j, s)}

SourcesCounted(b) ==
  \A t \in Slot :
    /\ b.at[t].num_reg_dependent = Cardinality(Waiting(b, t))
    /\ b.at[t].reg_ready <=> b.at[t].scheduled # "NO" /\ Waiting(b, t) = {}

\* Whether an instruction accesses memory.
Accesses(p, e) == MemOps(p[e.id]) > 0

\* Nothing is issued before its sources are ready; what does not access memory is
\* scheduled at once, the rest when it is issued.
IssuedWhenReady(p, b) ==
  \A s \in Slot : LET e == b.at[s] IN e.id # 0 =>
    /\ e.executed # "NO" \/ e.source_added # {} \/ e.destination_added # {} => e.reg_ready
    /\ e.scheduled # "NO" =>
         e.scheduled = IF Accesses(p, e) /\ e.executed = "NO" THEN "INFLIGHT" ELSE "COMPLETED"

\* The instructions that wait in RTE0 or RTE1 for execution.
ReadyToExecute(p, b) ==
  {s \in Slot : /\ b.at[s].id # 0
                /\ ~Accesses(p, b.at[s])
                /\ b.at[s].reg_ready
                /\ b.at[s].executed = "NO"}

RegInv(p, b, d, n) ==
  /\ b \in Rob
  /\ InWindow(b, d, n)
  /\ ScheduledInOrder(b)
  /\ WaitersAreYounger(p, b)
  /\ OneProducer(b)
  /\ WaitsForLastWriter(p, b)
  /\ SourcesCounted(b)
  /\ IssuedWhenReady(p, b)

-----------------------------------------------------------------------------
(* Facts on the window *)

\* What the assumptions on the constants say of each.
LEMMA Sizes ==
  /\ ROB_SIZE \in Nat \ {0} /\ LQ_SIZE \in Nat \ {0} /\ SQ_SIZE \in Nat \ {0}
  /\ STA_SIZE \in Nat \ {0} /\ L1D_WQ_SIZE \in Nat \ {0}
  /\ NUM_INSTR_SOURCES \in Nat /\ NUM_INSTR_DESTINATIONS \in Nat
  /\ Nil \notin Int /\ Nil \notin Addr
BY SizesAssumption

\* The operands of an instruction are in its arrays.
LEMMA ProgramFacts ==
  ASSUME NEW p \in Programs, NEW n \in 1 .. Len(p)
  PROVE  /\ Len(p) \in Nat
         /\ DOMAIN p[n].src \subseteq Src
         /\ DOMAIN p[n].loads \subseteq Src
         /\ DOMAIN p[n].stores \subseteq Dst
         /\ p[n].loads \in Seq(Addr) /\ p[n].stores \in Seq(Addr)
         /\ Len(p[n].loads) \in Nat /\ Len(p[n].stores) \in Nat
         /\ DOMAIN p[n].loads = 1 .. Len(p[n].loads)
         /\ DOMAIN p[n].stores = 1 .. Len(p[n].stores)
         /\ MemOps(p[n]) \in Nat
<1> DEFINE I == [src : Seq(Nat), dst : SUBSET Nat, loads : Seq(Addr), stores : Seq(Addr)]
<1>1. p \in Seq(I) /\ \A m \in DOMAIN p :
         /\ Len(p[m].src) \leq NUM_INSTR_SOURCES
         /\ Len(p[m].loads) \leq NUM_INSTR_SOURCES
         /\ Len(p[m].stores) \leq NUM_INSTR_DESTINATIONS
  BY ProgramsAssumption
<1> HIDE DEF I
<1>2. DOMAIN p = 1 .. Len(p) /\ p[n] \in I /\ Len(p) \in Nat
  BY <1>1, LenProperties, ElementOfSeq
<1> DEFINE s == p[n].src
           l == p[n].loads
           t == p[n].stores
<1>3. s \in Seq(Nat) /\ l \in Seq(Addr) /\ t \in Seq(Addr)
  BY <1>2 DEF I
<1>4. Len(s) \leq NUM_INSTR_SOURCES /\ Len(l) \leq NUM_INSTR_SOURCES /\ Len(t) \leq NUM_INSTR_DESTINATIONS
  BY <1>1, <1>2
<1> HIDE DEF s, l, t
<1>5. DOMAIN s = 1 .. Len(s) /\ DOMAIN l = 1 .. Len(l) /\ DOMAIN t = 1 .. Len(t)
      /\ Len(s) \in Nat /\ Len(l) \in Nat /\ Len(t) \in Nat
  BY <1>3, LenProperties
<1>6. DOMAIN s \subseteq Src /\ DOMAIN l \subseteq Src /\ DOMAIN t \subseteq Dst
  BY <1>4, <1>5, Sizes DEF Src, Dst
<1>7. Len(l) + Len(t) \in Nat
  BY <1>5
<1> QED
  BY <1>2, <1>3, <1>5, <1>6, <1>7 DEF s, l, t, MemOps

\* Each instruction from n + 1 to d has one slot of the buffer, and the other slots are empty.
OneEach(b, d, n) ==
  /\ \A s \in Slot : b.at[s].id # 0 => b.at[s].id \in n + 1 .. d
  /\ \A s, t \in Slot : b.at[s].id # 0 /\ b.at[s].id = b.at[t].id => s = t
  /\ \A m \in n + 1 .. d : \E s \in Slot : b.at[s].id = m
  /\ \A s \in Slot : b.at[s].id = 0 => Empty(b.at[s])

\* The slots of the buffer hold different instructions, those from n + 1 to d.
LEMMA WindowFacts ==
  ASSUME NEW p, NEW r, NEW b \in Rob, NEW d, NEW n, InTrace(p, r, d, n), InWindow(b, d, n)
  PROVE  OneEach(b, d, n)
<1> DEFINE D(s) == Dist(ROB_SIZE, b.head, s)
<1>1. ROB_SIZE \in Nat \ {0} /\ b.head \in 0 .. ROB_SIZE - 1 /\ d \in Nat /\ n \in 0 .. d
  BY Sizes, ProgramsAssumption, LenProperties DEF Rob, Slot, InTrace
<1>2. \A s \in Slot : /\ D(s) \in 0 .. ROB_SIZE - 1
                      /\ Wrap(ROB_SIZE, b.head + D(s)) = s
  BY <1>1, DistIsPlace DEF Slot
<1>3. \A c \in 0 .. ROB_SIZE - 1 : /\ Wrap(ROB_SIZE, b.head + c) \in Slot
                                   /\ D(Wrap(ROB_SIZE, b.head + c)) = c
  BY <1>1, PlaceIsDist DEF Slot
<1>4. /\ d - n <= ROB_SIZE
      /\ \A s \in Slot : IF D(s) < d - n THEN b.at[s].id = n + 1 + D(s) ELSE Empty(b.at[s])
  BY DEF InWindow
<1> HIDE DEF D
<1>5. \A s \in Slot : Empty(b.at[s]) => b.at[s].id = 0
  BY DEF Empty
<1>6. \A s \in Slot : b.at[s].id # 0 => D(s) < d - n /\ b.at[s].id = n + 1 + D(s)
  BY <1>4, <1>5
<1>7. \A s \in Slot : b.at[s].id # 0 => b.at[s].id \in n + 1 .. d
  BY <1>1, <1>2, <1>6
<1>8. \A s, t \in Slot : b.at[s].id # 0 /\ b.at[s].id = b.at[t].id => s = t
  <2> TAKE s, t \in Slot
  <2> HAVE b.at[s].id # 0 /\ b.at[s].id = b.at[t].id
  <2>1. D(s) = D(t)
    BY <1>1, <1>2, <1>6
  <2> QED
    BY <1>2, <2>1
<1>9. \A m \in n + 1 .. d : \E s \in Slot : b.at[s].id = m
  <2> TAKE m \in n + 1 .. d
  <2>1. PICK c \in 0 .. ROB_SIZE - 1 : c = m - n - 1 /\ c < d - n /\ n + 1 + c = m
    <3>1. m - n - 1 \in 0 .. ROB_SIZE - 1 /\ m - n - 1 < d - n /\ n + 1 + (m - n - 1) = m
      BY <1>1, <1>4
    <3> QED
      BY <3>1
  <2>2. b.at[Wrap(ROB_SIZE, b.head + c)].id = m
    BY <1>3, <1>4, <2>1
  <2> QED
    BY <1>3, <2>1, <2>2
<1>10. \A s \in Slot : b.at[s].id = 0 => Empty(b.at[s])
  <2> TAKE s \in Slot
  <2>1. D(s) < d - n => b.at[s].id # 0
    BY <1>1, <1>2, <1>4
  <2> QED
    BY <1>4, <2>1
<1> QED
  BY <1>7, <1>8, <1>9, <1>10 DEF OneEach

-----------------------------------------------------------------------------
(* What the actions do to the reorder buffer *)

\* Nothing that the register dependencies rest on changes.
KeepsRegs(b, c) ==
  /\ c \in Rob /\ c.head = b.head /\ c.tail = b.tail
  /\ \A t \in Slot :
       /\ c.at[t].id = b.at[t].id
       /\ b.at[t].id = 0 => c.at[t].executed = b.at[t].executed
       /\ c.at[t].reg_ready = b.at[t].reg_ready
       /\ c.at[t].num_reg_dependent = b.at[t].num_reg_dependent
       /\ c.at[t].registers_depend_on_me = b.at[t].registers_depend_on_me
       /\ c.at[t].scheduled = "NO" <=> b.at[t].scheduled = "NO"
       /\ c.at[t].executed = "COMPLETED" <=> b.at[t].executed = "COMPLETED"

\* What memory operations rest on is the same in two entries.
SameOperands(e, f) ==
  /\ f.id = e.id
  /\ f.num_mem_ops = e.num_mem_ops
  /\ f.source_added = e.source_added
  /\ f.destination_added = e.destination_added
  /\ f.memory_depend_on_me = e.memory_depend_on_me
  /\ f.lq_index = e.lq_index
  /\ f.sq_index = e.sq_index

\* The entry e of an instruction that is scheduled, which waits for the sources in deps.
IsScheduled(p, e, f, deps) ==
  /\ f \in Entry
  /\ SameOperands(e, f)
  /\ f.scheduled = IF Accesses(p, e) THEN "INFLIGHT" ELSE "COMPLETED"
  /\ f.executed = e.executed
  /\ f.reg_ready = (deps = {})
  /\ f.num_reg_dependent = Cardinality(deps)
  /\ f.registers_depend_on_me = e.registers_depend_on_me

\* Slot s is added to the waiters of entry e for the sources in js.
IsRecording(e, f, s, js) ==
  /\ f \in Entry
  /\ SameOperands(e, f)
  /\ f.scheduled = e.scheduled
  /\ f.executed = e.executed
  /\ f.reg_ready = e.reg_ready
  /\ f.num_reg_dependent = e.num_reg_dependent
  /\ \A j \in Src : f.registers_depend_on_me[j] =
       IF j \in js THEN e.registers_depend_on_me[j] \cup {s} ELSE e.registers_depend_on_me[j]

\* The type of an empty slot.
LEMMA EmptyEntry == NoInstr \in Entry
BY DEF Entry, NoInstr, Progress

\* The entry of instruction n, with m operands, as it enters the buffer.
IsNew(f, n, m) ==
  /\ f \in Entry /\ f.id = n /\ f.num_mem_ops = m
  /\ f.scheduled = "NO" /\ f.executed = "NO" /\ f.reg_ready = FALSE /\ f.num_reg_dependent = 0
  /\ f.source_added = {} /\ f.destination_added = {} /\ f.memory_depend_on_me = {}
  /\ f.registers_depend_on_me = [j \in Src |-> {}]
  /\ f.lq_index = [j \in Src |-> Nil] /\ f.sq_index = [k \in Dst |-> Nil]

\* The entry add_to_rob writes.
LEMMA NewEntry ==
  ASSUME NEW n \in Nat, NEW m \in Int, NEW f, f = [NoInstr EXCEPT !.id = n, !.num_mem_ops = m]
  PROVE  IsNew(f, n, m)
<1>1. f \in Entry
  BY EmptyEntry DEF Entry
<1> QED
  BY <1>1 DEF NoInstr, IsNew

\* An entry with its scheduling fields replaced.
Reschedules(e, f, x, y, z) ==
  /\ f \in Entry /\ SameOperands(e, f)
  /\ f.scheduled = x /\ f.reg_ready = y /\ f.num_reg_dependent = z
  /\ f.executed = e.executed /\ f.registers_depend_on_me = e.registers_depend_on_me

\* The fields do_scheduling writes in the entry it schedules,
LEMMA ScheduledEntry ==
  ASSUME NEW e \in Entry, NEW x \in Progress, NEW y \in BOOLEAN, NEW z \in Int, NEW f,
         f = [e EXCEPT !.scheduled = x, !.reg_ready = y, !.num_reg_dependent = z]
  PROVE  Reschedules(e, f, x, y, z)
<1>1. f \in Entry
  BY DEF Entry
<1> QED
  BY <1>1 DEF Entry, SameOperands, Reschedules

\* and in those of its producers.
LEMMA RecordingEntry ==
  ASSUME NEW e \in Entry, NEW x \in [Src -> SUBSET Slot], NEW f,
         f = [e EXCEPT !.registers_depend_on_me = x]
  PROVE  /\ f \in Entry /\ SameOperands(e, f)
         /\ f.scheduled = e.scheduled /\ f.reg_ready = e.reg_ready
         /\ f.num_reg_dependent = e.num_reg_dependent
         /\ f.executed = e.executed /\ f.registers_depend_on_me = x
<1>1. f \in Entry
  BY DEF Entry
<1> QED
  BY <1>1 DEF Entry, SameOperands

\* The field an execution that starts or ends writes.
LEMMA EntryExecutes ==
  ASSUME NEW e \in Entry, NEW x \in Progress, NEW f, f = [e EXCEPT !.executed = x]
  PROVE  /\ f \in Entry /\ SameOperands(e, f) /\ f.executed = x
         /\ f.scheduled = e.scheduled /\ f.reg_ready = e.reg_ready
         /\ f.num_reg_dependent = e.num_reg_dependent
         /\ f.registers_depend_on_me = e.registers_depend_on_me
<1>1. f \in Entry
  BY DEF Entry
<1> QED
  BY <1>1 DEF Entry, SameOperands

\* add_to_rob fills the slot at the tail and no other.
LEMMA AddedToRob ==
  ASSUME rob \in Rob, add_to_rob, dispatched \in Nat, MemOps(program[dispatched + 1]) \in Int
  PROVE  /\ rob' \in Rob
         /\ rob'.head = rob.head /\ rob'.tail = (rob.tail + 1) % ROB_SIZE
         /\ \A t \in Slot : t # rob.tail => rob'.at[t] = rob.at[t]
         /\ IsNew(rob'.at[rob.tail], dispatched + 1, MemOps(program[dispatched + 1]))
<1> DEFINE n == dispatched + 1
           m == MemOps(program[dispatched + 1])
           e == [NoInstr EXCEPT !.id = n, !.num_mem_ops = m]
<1>1. (rob.tail + 1) % ROB_SIZE \in Slot
  BY Sizes DEF Rob, Slot
<1>2. IsNew(e, n, m)
  <2> HIDE DEF e
  <2>1. n \in Nat /\ m \in Int
    OBVIOUS
  <2>2. e = [NoInstr EXCEPT !.id = n, !.num_mem_ops = m]
    BY DEF e
  <2> HIDE DEF n, m
  <2> QED
    BY <2>1, <2>2, NewEntry
<1>3. rob' = [rob EXCEPT !.at[rob.tail] = e, !.tail = (@ + 1) % ROB_SIZE]
  BY DEF add_to_rob
<1> HIDE DEF e, n, m
<1>4. e \in Entry
  BY <1>2 DEF IsNew
<1>5. /\ rob' \in Rob
      /\ rob'.head = rob.head /\ rob'.tail = (rob.tail + 1) % ROB_SIZE
      /\ \A t \in Slot : t # rob.tail => rob'.at[t] = rob.at[t]
      /\ rob'.at[rob.tail] = e
  BY <1>1, <1>3, <1>4 DEF Rob
<1> QED
  BY <1>2, <1>5 DEF n, m

\* do_scheduling, entry by entry.
LEMMA ScheduledEntries ==
  ASSUME rob \in Rob, NEW s \in Slot, do_scheduling(s), Cardinality(Dependencies(s)) \in Int
  PROVE  /\ rob' \in Rob
         /\ rob'.head = rob.head /\ rob'.tail = rob.tail
         /\ IsScheduled(program, rob.at[s], rob'.at[s], Dependencies(s))
         /\ \A t \in Slot : t # s =>
              IsRecording(rob.at[t], rob'.at[t], s, {j \in Dependencies(s) : Producer(s, j) = t})
<1>1. IsScheduled(program, rob.at[s], Scheduled(s), Dependencies(s))
  <2> DEFINE x == IF IsMemory(s) THEN "INFLIGHT" ELSE "COMPLETED"
             y == (Dependencies(s) = {})
             z == SourcesToWaitFor(s)
  <2>1. rob.at[s] \in Entry /\ x \in Progress /\ y \in BOOLEAN /\ z \in Int
    BY DEF Rob, Progress, SourcesToWaitFor
  <2>2. Scheduled(s) = [rob.at[s] EXCEPT !.scheduled = x, !.reg_ready = y, !.num_reg_dependent = z]
    BY DEF Scheduled, At
  <2>3. x = (IF Accesses(program, rob.at[s]) THEN "INFLIGHT" ELSE "COMPLETED")
    BY DEF IsMemory, InstrIn, At, Accesses
  <2> DEFINE e == rob.at[s]
             f == Scheduled(s)
  <2> HIDE DEF x, y, z
  <2>4. f = [e EXCEPT !.scheduled = x, !.reg_ready = y, !.num_reg_dependent = z]
    BY <2>2
  <2>5. e \in Entry
    BY <2>1
  <2> HIDE DEF e, f
  <2>6. Reschedules(e, f, x, y, z)
    BY <2>1, <2>4, <2>5, ScheduledEntry
  <2> QED
    BY <2>3, <2>6 DEF IsScheduled, Reschedules, y, z, e, f, SourcesToWaitFor
<1>2. ASSUME NEW t \in Slot
      PROVE  IsRecording(rob.at[t], Recording(t, s), s, {j \in Dependencies(s) : Producer(s, j) = t})
  <2> DEFINE e == rob.at[t]
             x == [j \in Src |-> IF j \in Dependencies(s) /\ Producer(s, j) = t
                                THEN e.registers_depend_on_me[j] \cup {s} ELSE e.registers_depend_on_me[j]]
  <2>1. e \in Entry
    BY DEF Rob
  <2>2. Recording(t, s) = [e EXCEPT !.registers_depend_on_me = x]
    BY DEF Recording, At
  <2> HIDE DEF e
  <2>3. x \in [Src -> SUBSET Slot]
    BY <2>1 DEF Entry
  <2> DEFINE f == Recording(t, s)
  <2>4. /\ f \in Entry /\ SameOperands(e, f) /\ f.scheduled = e.scheduled /\ f.executed = e.executed
        /\ f.reg_ready = e.reg_ready /\ f.num_reg_dependent = e.num_reg_dependent
        /\ f.registers_depend_on_me = x
    <3> HIDE DEF x, f
    <3>1. f = [e EXCEPT !.registers_depend_on_me = x]
      BY <2>2 DEF f
    <3> QED
      BY <2>1, <2>3, <3>1, RecordingEntry
  <2> HIDE DEF f
  <2>5. IsRecording(e, f, s, {j \in Dependencies(s) : Producer(s, j) = t})
    BY <2>4 DEF IsRecording
  <2> QED
    BY <2>5 DEF e, f
<1>3. rob' = [rob EXCEPT !.at = [t \in Slot |-> IF t = s THEN Scheduled(s) ELSE Recording(t, s)]]
  BY DEF do_scheduling
<1>4. Scheduled(s) \in Entry /\ \A t \in Slot : Recording(t, s) \in Entry
  BY <1>1, <1>2 DEF IsScheduled, IsRecording
<1> QED
  BY <1>1, <1>2, <1>3, <1>4 DEF Rob

\* The instruction in slot s begins to execute, or has executed.
IsExecuting(b, c, s, x) ==
  /\ c \in Rob /\ c.head = b.head /\ c.tail = b.tail
  /\ \A t \in Slot : t # s => c.at[t] = b.at[t]
  /\ c.at[s] = [b.at[s] EXCEPT !.executed = x]
  /\ SameOperands(b.at[s], c.at[s]) /\ c.at[s].executed = x
  /\ c.at[s].scheduled = b.at[s].scheduled /\ c.at[s].reg_ready = b.at[s].reg_ready
  /\ c.at[s].num_reg_dependent = b.at[s].num_reg_dependent
  /\ c.at[s].registers_depend_on_me = b.at[s].registers_depend_on_me

\* do_execution starts the instruction at the head of its ring.
LEMMA ExecutingEntry ==
  ASSUME rob \in Rob, NEW ring, do_execution(ring), First(ready[ring]) \in Slot
  PROVE  IsExecuting(rob, rob', First(ready[ring]), "INFLIGHT")
<1> DEFINE s == First(ready[ring])
           f == [rob.at[s] EXCEPT !.executed = "INFLIGHT"]
<1>1. rob' = [rob EXCEPT !.at[s].executed = "INFLIGHT"]
  BY DEF do_execution
<1>2. rob.at[s] \in Entry /\ "INFLIGHT" \in Progress
  BY DEF Rob, Progress
<1> HIDE DEF s
<1>3. /\ f \in Entry /\ SameOperands(rob.at[s], f) /\ f.executed = "INFLIGHT"
      /\ f.scheduled = rob.at[s].scheduled /\ f.reg_ready = rob.at[s].reg_ready
      /\ f.num_reg_dependent = rob.at[s].num_reg_dependent
      /\ f.registers_depend_on_me = rob.at[s].registers_depend_on_me
  <2> HIDE DEF f
  <2>1. f = [rob.at[s] EXCEPT !.executed = "INFLIGHT"]
    BY DEF f
  <2> QED
    BY <1>2, <2>1, EntryExecutes
<1>4. rob' = [rob EXCEPT !.at[s] = f]
  BY <1>1
<1> HIDE DEF f
<1>5. s \in Slot
  BY DEF s
<1>6. /\ rob' \in Rob /\ rob'.head = rob.head /\ rob'.tail = rob.tail
      /\ \A t \in Slot : t # s => rob'.at[t] = rob.at[t]
      /\ rob'.at[s] = f
  BY <1>3, <1>4, <1>5 DEF Rob
<1> QED
  BY <1>3, <1>6 DEF IsExecuting, s, f

\* The entry e of an instruction that waited for the n sources slot s produces.
IsWithoutSource(p, e, f, n, released) ==
  /\ f \in Entry
  /\ SameOperands(e, f)
  /\ f.executed = e.executed
  /\ f.registers_depend_on_me = e.registers_depend_on_me
  /\ f.num_reg_dependent = IF e.id # 0 THEN e.num_reg_dependent - n ELSE e.num_reg_dependent
  /\ f.reg_ready = (e.reg_ready \/ released)
  /\ f.scheduled = IF ~released THEN e.scheduled ELSE IF Accesses(p, e) THEN "INFLIGHT" ELSE "COMPLETED"

\* complete_execution, entry by entry: what waits for s loses it as a source.
LEMMA CompletedEntries ==
  ASSUME rob \in Rob, NEW s \in Slot, complete_execution(s),
         \A t \in Slot : Cardinality(WaitsFor(s, t)) \in Int
  PROVE  /\ rob' \in Rob
         /\ rob'.head = rob.head /\ rob'.tail = rob.tail
         /\ IsExecuting(rob, [rob EXCEPT !.at[s].executed = "COMPLETED"], s, "COMPLETED")
         /\ rob'.at[s] = [rob.at[s] EXCEPT !.executed = "COMPLETED"]
         /\ \A t \in Slot : t # s =>
              IsWithoutSource(program, rob.at[t], rob'.at[t], Cardinality(WaitsFor(s, t)), t \in Released(s))
<1>1. ASSUME NEW t \in Slot
      PROVE  IsWithoutSource(program, rob.at[t], WithoutSource(t, s), Cardinality(WaitsFor(s, t)), t \in Released(s))
  <2> DEFINE e == rob.at[t]
             x == IF t \notin Released(s) THEN e.scheduled
                  ELSE IF Accesses(program, e) THEN "INFLIGHT" ELSE "COMPLETED"
             y == e.reg_ready \/ t \in Released(s)
             z == IF e.id # 0 THEN e.num_reg_dependent - Cardinality(WaitsFor(s, t)) ELSE e.num_reg_dependent
             f == WithoutSource(t, s)
  <2>1. e \in Entry /\ Cardinality(WaitsFor(s, t)) \in Int
    BY DEF Rob
  <2>2. f = [e EXCEPT !.num_reg_dependent = z, !.reg_ready = y, !.scheduled = x]
    BY DEF WithoutSource, At, InRob, StillWaits, Accesses, IsMemory, InstrIn
  <2> HIDE DEF e, f
  <2>3. x \in Progress /\ y \in BOOLEAN /\ z \in Int
    BY <2>1 DEF Entry, Progress
  <2>4. f = [e EXCEPT !.scheduled = x, !.reg_ready = y, !.num_reg_dependent = z]
    BY <2>1, <2>2 DEF Entry
  <2>5. Reschedules(e, f, x, y, z)
    <3> HIDE DEF x, y, z
    <3> QED
      BY <2>1, <2>3, <2>4, ScheduledEntry
  <2> QED
    BY <2>5 DEF IsWithoutSource, Reschedules, e, f
<1>2. rob' = [rob EXCEPT !.at = [t \in Slot |->
                IF t = s THEN [At(s) EXCEPT !.executed = "COMPLETED"] ELSE WithoutSource(t, s)]]
  BY DEF complete_execution
<1> DEFINE f == [rob.at[s] EXCEPT !.executed = "COMPLETED"]
<1>3. /\ f \in Entry /\ SameOperands(rob.at[s], f) /\ f.executed = "COMPLETED"
      /\ f.scheduled = rob.at[s].scheduled /\ f.reg_ready = rob.at[s].reg_ready
      /\ f.num_reg_dependent = rob.at[s].num_reg_dependent
      /\ f.registers_depend_on_me = rob.at[s].registers_depend_on_me
  <2> HIDE DEF f
  <2>1. f = [rob.at[s] EXCEPT !.executed = "COMPLETED"] /\ rob.at[s] \in Entry /\ "COMPLETED" \in Progress
    BY DEF f, Rob, Progress
  <2> QED
    BY <2>1, EntryExecutes
<1>4. \A t \in Slot : WithoutSource(t, s) \in Entry
  BY <1>1 DEF IsWithoutSource
<1>5. f = [At(s) EXCEPT !.executed = "COMPLETED"]
  BY DEF At
<1> DEFINE c == [rob EXCEPT !.at[s].executed = "COMPLETED"]
<1>6. c = [rob EXCEPT !.at[s] = f]
  OBVIOUS
<1> HIDE DEF f, c
<1>7. /\ c \in Rob /\ c.head = rob.head /\ c.tail = rob.tail
      /\ \A t \in Slot : t # s => c.at[t] = rob.at[t]
      /\ c.at[s] = f
  BY <1>3, <1>6 DEF Rob
<1>8. IsExecuting(rob, c, s, "COMPLETED")
  BY <1>3, <1>7 DEF IsExecuting, f
<1>9. /\ rob' \in Rob /\ rob'.head = rob.head /\ rob'.tail = rob.tail
      /\ rob'.at[s] = f /\ \A t \in Slot : t # s => rob'.at[t] = WithoutSource(t, s)
  BY <1>2, <1>3, <1>4, <1>5 DEF Rob
<1> QED
  BY <1>1, <1>8, <1>9 DEF f, c

\* retire_rob empties the slot at the head and no other.
LEMMA RetiredEntry ==
  ASSUME rob \in Rob, retire_rob
  PROVE  /\ rob' \in Rob
         /\ rob'.tail = rob.tail /\ rob'.head = (rob.head + 1) % ROB_SIZE
         /\ rob'.at[rob.head] = NoInstr
         /\ \A t \in Slot : t # rob.head => rob'.at[t] = rob.at[t]
<1>1. (rob.head + 1) % ROB_SIZE \in Slot
  BY Sizes DEF Rob, Slot
<1>2. NoInstr \in Entry
  BY EmptyEntry
<1>3. rob' = [rob EXCEPT !.at[rob.head] = NoInstr, !.head = (@ + 1) % ROB_SIZE]
  BY DEF retire_rob
<1> QED
  BY <1>1, <1>2, <1>3 DEF Rob

-----------------------------------------------------------------------------
(* The register invariant is preserved *)

\* A step that leaves the registers of the buffer alone keeps what is said of them.
LEMMA RegsKept ==
  ASSUME NEW p, NEW b \in Rob, NEW c, NEW d, NEW n,
         RegInv(p, b, d, n), KeepsRegs(b, c), IssuedWhenReady(p, c)
  PROVE  RegInv(p, c, d, n)
<1>1. /\ c \in Rob /\ c.head = b.head /\ c.tail = b.tail
      /\ \A t \in Slot :
           /\ c.at[t].id = b.at[t].id
           /\ b.at[t].id = 0 => c.at[t].executed = b.at[t].executed
           /\ c.at[t].reg_ready = b.at[t].reg_ready
           /\ c.at[t].num_reg_dependent = b.at[t].num_reg_dependent
           /\ c.at[t].registers_depend_on_me = b.at[t].registers_depend_on_me
           /\ c.at[t].scheduled = "NO" <=> b.at[t].scheduled = "NO"
           /\ c.at[t].executed = "COMPLETED" <=> b.at[t].executed = "COMPLETED"
  BY DEF KeepsRegs
<1>2. \A s, t \in Slot : Before(c, s, t) <=> Before(b, s, t)
  BY <1>1 DEF Before
<1>3. \A s, t \in Slot : \A j \in Src : WaitsOn(c, t, j, s) <=> WaitsOn(b, t, j, s)
  BY <1>1 DEF WaitsOn
<1>4. InWindow(c, d, n)
  <2>1. InWindow(b, d, n)
    BY DEF RegInv
  <2>2. \A s \in Slot : Empty(b.at[s]) => Empty(c.at[s])
    BY <1>1 DEF Empty
  <2> QED
    BY <1>1, <2>1, <2>2 DEF InWindow
<1>5. ScheduledInOrder(c)
  BY <1>1, <1>2 DEF RegInv, ScheduledInOrder
<1>6. WaitersAreYounger(p, c)
  BY <1>1, <1>2, <1>3 DEF RegInv, WaitersAreYounger
<1>7. OneProducer(c)
  BY <1>3 DEF RegInv, OneProducer
<1>8. WaitsForLastWriter(p, c)
  <2> SUFFICES ASSUME NEW s \in Slot, NEW t \in Slot, c.at[t].id # 0, c.at[t].scheduled # "NO",
                      NEW j \in DOMAIN p[c.at[t].id].src, LastWriter(p, c, t, j, s)
               PROVE  WaitsOn(c, t, j, s) \/ c.at[s].executed = "COMPLETED"
    BY DEF WaitsForLastWriter
  <2>1. LastWriter(p, b, t, j, s)
    BY <1>1, <1>2 DEF LastWriter
  <2>2. WaitsOn(b, t, j, s) \/ b.at[s].executed = "COMPLETED"
    BY <1>1, <2>1 DEF RegInv, WaitsForLastWriter
  <2> QED
    BY <1>1, <2>2 DEF WaitsOn
<1>9. SourcesCounted(c)
  <2>1. \A t \in Slot : Waiting(c, t) = Waiting(b, t)
    BY <1>1, <1>3 DEF Waiting
  <2> QED
    BY <1>1, <2>1 DEF RegInv, SourcesCounted
<1> QED
  BY <1>1, <1>4, <1>5, <1>6, <1>7, <1>8, <1>9 DEF RegInv

\* An instruction enters the buffer with no source scheduled and nothing waiting for it.
LEMMA RegsWithNew ==
  ASSUME NEW p, NEW r, NEW b \in Rob, NEW c \in Rob, NEW d, NEW n, NEW m,
         InTrace(p, r, d, n), d < r, RegInv(p, b, d, n), b.at[b.tail].id = 0,
         c.head = b.head, c.tail = (b.tail + 1) % ROB_SIZE,
         \A t \in Slot : t # b.tail => c.at[t] = b.at[t],
         IsNew(c.at[b.tail], d + 1, m)
  PROVE  RegInv(p, c, d + 1, n)
<1> DEFINE x == b.tail
<1>1. ROB_SIZE \in Nat \ {0} /\ d \in Nat /\ n \in 0 .. d /\ b.head \in Slot /\ x \in Slot
      /\ Slot = 0 .. ROB_SIZE - 1
  BY Sizes, ProgramsAssumption, LenProperties DEF Rob, Slot, InTrace
<1>2. /\ d - n <= ROB_SIZE
      /\ x = Wrap(ROB_SIZE, b.head + (d - n))
      /\ \A s \in Slot : IF Dist(ROB_SIZE, b.head, s) < d - n
                         THEN b.at[s].id = n + 1 + Dist(ROB_SIZE, b.head, s)
                         ELSE Empty(b.at[s])
  BY DEF RegInv, InWindow
<1>3. c.at[x].id = d + 1 /\ c.at[x].scheduled = "NO" /\ c.at[x].executed = "NO"
      /\ c.at[x].reg_ready = FALSE /\ c.at[x].num_reg_dependent = 0
      /\ c.at[x].source_added = {} /\ c.at[x].destination_added = {}
      /\ c.at[x].registers_depend_on_me = [j \in Src |-> {}]
  BY DEF IsNew
<1>4. \A t \in Slot : t # x => c.at[t] = b.at[t]
  OBVIOUS
<1>5. Empty(b.at[x])
  BY <1>1, WindowFacts DEF RegInv, OneEach
<1>6. \A s \in Slot : b.at[s].id # 0 => b.at[s].id \in n + 1 .. d
  BY WindowFacts DEF RegInv, OneEach
<1>7. \A s, t \in Slot : Before(c, s, t) <=>
        \/ s # x /\ t # x /\ Before(b, s, t)
        \/ s # x /\ t = x /\ b.at[s].id # 0
  <2> TAKE s, t \in Slot
  <2>1. CASE s # x /\ t # x
    BY <2>1, <1>4 DEF Before
  <2>2. CASE s # x /\ t = x
    BY <2>2, <1>1, <1>3, <1>4, <1>6 DEF Before
  <2>3. CASE s = x /\ t = x
    BY <2>3, <1>1, <1>3 DEF Before
  <2>4. CASE s = x /\ t # x
    BY <2>4, <1>1, <1>3, <1>4, <1>6 DEF Before
  <2> QED
    BY <2>1, <2>2, <2>3, <2>4
<1>8. \A s, t \in Slot : \A j \in Src : WaitsOn(c, t, j, s) <=> WaitsOn(b, t, j, s)
  <2> TAKE s, t \in Slot
  <2> TAKE j \in Src
  <2>1. CASE s = x
    BY <2>1, <1>3, <1>5 DEF WaitsOn, Empty
  <2> QED
    BY <2>1, <1>4 DEF WaitsOn
<1>9. \A s, t \in Slot : \A j \in Src : WaitsOn(c, t, j, s) =>
        /\ s # x /\ t # x /\ Before(b, s, t) /\ b.at[t].scheduled # "NO"
        /\ j \in DOMAIN p[b.at[t].id].src
  <2> TAKE s, t \in Slot
  <2> TAKE j \in Src
  <2> HAVE WaitsOn(c, t, j, s)
  <2>1. Before(b, s, t) /\ b.at[t].scheduled # "NO" /\ j \in DOMAIN p[b.at[t].id].src
    BY <1>8 DEF RegInv, WaitersAreYounger
  <2>2. s # x /\ t # x
    BY <2>1, <1>5 DEF Before, Empty
  <2> QED
    BY <2>1, <2>2
<1>10. InWindow(c, d + 1, n)
  <2> DEFINE D(s) == Dist(ROB_SIZE, b.head, s)
  <2>1. PICK w \in 0 .. ROB_SIZE : w = d - n /\ (d + 1) - n = w + 1
    <3>1. d - n \in 0 .. ROB_SIZE /\ (d + 1) - n = (d - n) + 1
      BY <1>1, <1>2
    <3> QED
      BY <3>1
  <2>2. WindowGrows(ROB_SIZE, b.head, w, x, c.tail)
    BY <1>1, <1>2, <2>1, AtTail
  <2>3. \A s \in Slot : D(s) \in Nat
    BY <1>1 DEF Dist
  <2>4. w # ROB_SIZE
    <3> SUFFICES ASSUME w = ROB_SIZE PROVE FALSE
      OBVIOUS
    <3>1. D(x) < w
      BY <2>2 DEF WindowGrows
    <3>2. b.at[x].id = n + 1 + D(x) /\ b.at[x].id = 0
      BY <1>1, <1>2, <1>5, <2>1, <3>1 DEF Empty
    <3> QED
      BY <1>1, <2>3, <3>2
  <2>5. /\ D(x) = w /\ w < ROB_SIZE /\ c.tail = Wrap(ROB_SIZE, b.head + (w + 1))
        /\ \A s \in Slot : D(s) < w + 1 <=> s = x \/ D(s) < w
    BY <1>1, <2>1, <2>2, <2>4 DEF WindowGrows
  <2>6. \A s \in Slot : IF D(s) < w + 1 THEN c.at[s].id = n + 1 + D(s) ELSE Empty(c.at[s])
    <3> TAKE s \in Slot
    <3>1. CASE s = x
      <4>1. n + 1 + w = d + 1
        BY <1>1, <2>1
      <4> QED
        BY <3>1, <4>1, <1>3, <2>5
    <3>2. CASE s # x
      BY <1>2, <1>4, <3>2, <2>1, <2>5
    <3> QED
      BY <3>1, <3>2
  <2>7. (d + 1) - n <= ROB_SIZE
    BY <2>1, <2>5, <1>1
  <2> QED
    BY <2>1, <2>5, <2>6, <2>7 DEF InWindow
<1>11. ScheduledInOrder(c)
  <2> SUFFICES ASSUME NEW s \in Slot, NEW t \in Slot, Before(c, s, t), c.at[t].scheduled # "NO"
               PROVE  c.at[s].scheduled # "NO"
    BY DEF ScheduledInOrder
  <2>1. s # x /\ t # x /\ Before(b, s, t)
    BY <1>3, <1>7
  <2> QED
    BY <2>1, <1>4 DEF RegInv, ScheduledInOrder
<1>12. WaitersAreYounger(p, c)
  BY <1>4, <1>7, <1>9 DEF WaitersAreYounger
<1>13. OneProducer(c)
  BY <1>8 DEF RegInv, OneProducer
<1>14. WaitsForLastWriter(p, c)
  <2> SUFFICES ASSUME NEW s \in Slot, NEW t \in Slot, c.at[t].id # 0, c.at[t].scheduled # "NO",
                      NEW j \in DOMAIN p[c.at[t].id].src, LastWriter(p, c, t, j, s)
               PROVE  WaitsOn(c, t, j, s) \/ c.at[s].executed = "COMPLETED"
    BY DEF WaitsForLastWriter
  <2>1. t # x /\ s # x /\ Before(b, s, t) /\ c.at[t] = b.at[t] /\ c.at[s] = b.at[s]
    BY <1>3, <1>4, <1>7 DEF LastWriter
  <2>2. LastWriter(p, b, t, j, s)
    <3>1. p[b.at[t].id].src[j] \in p[b.at[s].id].dst
      BY <2>1 DEF LastWriter
    <3>2. ASSUME NEW u \in Slot, Before(b, s, u), Before(b, u, t)
          PROVE  p[b.at[t].id].src[j] \notin p[b.at[u].id].dst
      <4>1. u # x
        BY <3>2, <1>5 DEF Before, Empty
      <4>2. Before(c, s, u) /\ Before(c, u, t) /\ c.at[u] = b.at[u]
        BY <3>2, <4>1, <1>4, <1>7, <2>1
      <4> QED
        BY <4>2, <2>1 DEF LastWriter
    <3> QED
      BY <2>1, <3>1, <3>2 DEF LastWriter
  <2>3. WaitsOn(b, t, j, s) \/ b.at[s].executed = "COMPLETED"
    BY <2>1, <2>2 DEF RegInv, WaitsForLastWriter
  <2> QED
    BY <2>1, <2>3 DEF WaitsOn
<1>15. SourcesCounted(c)
  <2>1. \A t \in Slot : Waiting(c, t) = Waiting(b, t)
    <3> TAKE t \in Slot
    <3>1. \A s \in Slot : \A j \in Src :
            (c.at[s].executed # "COMPLETED" /\ WaitsOn(c, t, j, s))
            <=> (b.at[s].executed # "COMPLETED" /\ WaitsOn(b, t, j, s))
      BY <1>4, <1>8, <1>9
    <3> QED
      BY <3>1 DEF Waiting
  <2>2. \A t \in Slot : Waiting(c, t) = Waiting(b, t) /\
          (t # x => c.at[t].num_reg_dependent = Cardinality(Waiting(c, t))
                    /\ (c.at[t].reg_ready <=> c.at[t].scheduled # "NO" /\ Waiting(c, t) = {}))
    BY <2>1, <1>4 DEF RegInv, SourcesCounted
  <2>3. Waiting(c, x) = {}
    BY <1>1, <1>9 DEF Waiting
  <2>4. Cardinality({}) = 0
    BY FS_EmptySet
  <2> QED
    BY <1>1, <1>3, <2>2, <2>3, <2>4 DEF SourcesCounted
<1>16. IssuedWhenReady(p, c)
  <2> SUFFICES ASSUME NEW s \in Slot, c.at[s].id # 0
               PROVE  LET e == c.at[s] IN
                      /\ e.executed # "NO" \/ e.source_added # {} \/ e.destination_added # {} => e.reg_ready
                      /\ e.scheduled # "NO" =>
                           e.scheduled = IF Accesses(p, e) /\ e.executed = "NO" THEN "INFLIGHT" ELSE "COMPLETED"
    BY DEF IssuedWhenReady
  <2>1. CASE s = x
    BY <2>1, <1>3
  <2>2. CASE s # x
    BY <2>2, <1>4 DEF RegInv, IssuedWhenReady
  <2> QED
    BY <2>1, <2>2
<1> QED
  BY <1>10, <1>11, <1>12, <1>13, <1>14, <1>15, <1>16 DEF RegInv

\* The sources in deps of slot s wait for the slots in prod, which record it.
ProducedBy(p, b, s, deps, prod) ==
  /\ deps \subseteq DOMAIN p[b.at[s].id].src
  /\ prod \in [deps -> Slot]
  /\ \A j \in deps : Before(b, prod[j], s) /\ b.at[prod[j]].executed # "COMPLETED"
  /\ \A j \in DOMAIN p[b.at[s].id].src : \A t \in Slot :
       LastWriter(p, b, s, j, t) /\ b.at[t].executed # "COMPLETED" => j \in deps /\ prod[j] = t

RecordedBy(b, c, s, deps, prod) ==
  \A t \in Slot : t # s => IsRecording(b.at[t], c.at[t], s, {j \in deps : prod[j] = t})

OlderScheduled(b, s) == \A t \in Slot : Before(b, t, s) => b.at[t].scheduled # "NO"

\* It is scheduled after all older ones, and waits for its last writers that have not
\* completed.
LEMMA RegsWithScheduled ==
  ASSUME NEW p, NEW r, NEW b \in Rob, NEW c \in Rob, NEW d, NEW n, NEW s \in Slot, NEW deps, NEW prod,
         InTrace(p, r, d, n), RegInv(p, b, d, n),
         b.at[s].id # 0, b.at[s].scheduled = "NO", OlderScheduled(b, s),
         ProducedBy(p, b, s, deps, prod),
         c.head = b.head, c.tail = b.tail,
         IsScheduled(p, b.at[s], c.at[s], deps), RecordedBy(b, c, s, deps, prod)
  PROVE  RegInv(p, c, d, n)
<1> USE DEF ProducedBy, RecordedBy, OlderScheduled
<1>1. b.at[s].id \in 1 .. Len(p) /\ p \in Programs
  <2>1. b.at[s].id \in n + 1 .. d
    BY WindowFacts DEF RegInv, OneEach
  <2>2. Len(p) \in Nat
    BY ProgramsAssumption, LenProperties DEF InTrace
  <2> QED
    BY <2>1, <2>2 DEF InTrace
<1>2. deps \subseteq Src
  BY <1>1, ProgramFacts
<1>3. /\ c.at[s].id = b.at[s].id /\ c.at[s].executed = b.at[s].executed
      /\ c.at[s].scheduled = IF Accesses(p, b.at[s]) THEN "INFLIGHT" ELSE "COMPLETED"
      /\ c.at[s].reg_ready = (deps = {}) /\ c.at[s].num_reg_dependent = Cardinality(deps)
      /\ c.at[s].registers_depend_on_me = b.at[s].registers_depend_on_me
      /\ c.at[s].source_added = b.at[s].source_added
      /\ c.at[s].destination_added = b.at[s].destination_added
  BY DEF IsScheduled, SameOperands
<1>4. \A t \in Slot : t # s =>
        /\ c.at[t].id = b.at[t].id /\ c.at[t].executed = b.at[t].executed
        /\ c.at[t].scheduled = b.at[t].scheduled
        /\ c.at[t].reg_ready = b.at[t].reg_ready
        /\ c.at[t].num_reg_dependent = b.at[t].num_reg_dependent
        /\ c.at[t].source_added = b.at[t].source_added
        /\ c.at[t].destination_added = b.at[t].destination_added
        /\ c.at[t] \in Entry
        /\ \A j \in Src : c.at[t].registers_depend_on_me[j] =
             IF j \in deps /\ prod[j] = t THEN b.at[t].registers_depend_on_me[j] \cup {s}
                                         ELSE b.at[t].registers_depend_on_me[j]
  <2> TAKE t \in Slot
  <2> HAVE t # s
  <2>1. IsRecording(b.at[t], c.at[t], s, {j \in deps : prod[j] = t})
    OBVIOUS
  <2>2. \A j \in Src : j \in {i \in deps : prod[i] = t} <=> j \in deps /\ prod[j] = t
    OBVIOUS
  <2> QED
    BY <2>1, <2>2 DEF IsRecording, SameOperands
<1>5. c.at[s].scheduled # "NO"
  BY <1>3
<1>6. \A t \in Slot : c.at[t].id = b.at[t].id /\ c.at[t].executed = b.at[t].executed
  BY <1>3, <1>4
<1>7. \A u, t \in Slot : Before(c, u, t) <=> Before(b, u, t)
  BY <1>6 DEF Before
<1>8. \A j \in deps : prod[j] \in Slot /\ prod[j] # s
  <2> TAKE j \in deps
  <2>1. Before(b, prod[j], s) /\ prod[j] \in Slot
    OBVIOUS
  <2>2. b.at[s].id \in Nat
    BY DEF Rob, Entry
  <2> QED
    BY <2>1, <2>2 DEF Before
<1>9. \A u, t \in Slot : \A j \in Src :
        WaitsOn(c, t, j, u) <=> WaitsOn(b, t, j, u) \/ (t = s /\ j \in deps /\ prod[j] = u)
  <2> TAKE u, t \in Slot
  <2> TAKE j \in Src
  <2>1. CASE u = s
    BY <2>1, <1>3, <1>8 DEF WaitsOn
  <2>2. CASE u # s
    <3> DEFINE f == c.at[u].registers_depend_on_me
               e == b.at[u].registers_depend_on_me
    <3>1. f[j] = IF j \in deps /\ prod[j] = u THEN e[j] \cup {s} ELSE e[j]
      BY <1>4, <2>2
    <3>2. t \in f[j] <=> t \in e[j] \/ (t = s /\ j \in deps /\ prod[j] = u)
      <4> HIDE DEF f, e
      <4> QED
        BY <3>1
    <3> QED
      BY <3>2 DEF WaitsOn
  <2> QED
    BY <2>1, <2>2
<1>10. \A u \in Slot : \A j \in Src : ~WaitsOn(b, s, j, u)
  BY DEF RegInv, WaitersAreYounger
<1>11. InWindow(c, d, n)
  <2>1. InWindow(b, d, n)
    BY DEF RegInv
  <2>2. \A t \in Slot : Empty(b.at[t]) => Empty(c.at[t])
    <3> TAKE t \in Slot
    <3> HAVE Empty(b.at[t])
    <3>1. t # s
      BY DEF Empty
    <3>2. \A j \in deps : prod[j] # t
      BY DEF Before, Empty
    <3>3. \A j \in Src : c.at[t].registers_depend_on_me[j] = b.at[t].registers_depend_on_me[j]
      BY <1>4, <3>1, <3>2
    <3>5. \A j \in Src : c.at[t].registers_depend_on_me[j] = {}
      BY <3>3 DEF Empty
    <3>4. c.at[t].registers_depend_on_me = [j \in Src |-> {}]
      BY <1>4, <3>1, <3>5 DEF Entry
    <3> QED
      BY <1>4, <3>1, <3>4 DEF Empty
  <2> QED
    BY <1>6, <2>1, <2>2 DEF InWindow
<1>12. ScheduledInOrder(c)
  <2> SUFFICES ASSUME NEW u \in Slot, NEW t \in Slot, Before(b, u, t), c.at[t].scheduled # "NO"
               PROVE  c.at[u].scheduled # "NO"
    BY <1>7 DEF ScheduledInOrder
  <2>1. CASE u = s
    BY <2>1, <1>5
  <2>2. CASE u # s /\ t = s
    BY <2>2, <1>4
  <2>3. CASE u # s /\ t # s
    BY <2>3, <1>4 DEF RegInv, ScheduledInOrder
  <2> QED
    BY <2>1, <2>2, <2>3
<1>13. WaitersAreYounger(p, c)
  <2> SUFFICES ASSUME NEW u \in Slot, NEW t \in Slot, NEW j \in Src, WaitsOn(c, t, j, u)
               PROVE  /\ Before(b, u, t) /\ c.at[t].scheduled # "NO"
                      /\ j \in DOMAIN p[b.at[t].id].src
    BY <1>6, <1>7 DEF WaitersAreYounger
  <2>1. CASE WaitsOn(b, t, j, u)
    <3>1. t # s
      BY <2>1, <1>10
    <3> QED
      BY <2>1, <3>1, <1>4 DEF RegInv, WaitersAreYounger
  <2>2. CASE t = s /\ j \in deps /\ prod[j] = u
    BY <2>2, <1>5
  <2> QED
    BY <1>9, <2>1, <2>2
<1>14. OneProducer(c)
  <2> SUFFICES ASSUME NEW u \in Slot, NEW v \in Slot, NEW t \in Slot, NEW j \in Src,
                      WaitsOn(c, t, j, u), WaitsOn(c, t, j, v)
               PROVE  u = v
    BY DEF OneProducer
  <2>1. CASE t = s
    BY <2>1, <1>9, <1>10
  <2>2. CASE t # s
    BY <2>2, <1>9 DEF RegInv, OneProducer
  <2> QED
    BY <2>1, <2>2
<1>15. WaitsForLastWriter(p, c)
  <2> SUFFICES ASSUME NEW u \in Slot, NEW t \in Slot, c.at[t].id # 0, c.at[t].scheduled # "NO",
                      NEW j \in DOMAIN p[c.at[t].id].src, LastWriter(p, c, t, j, u)
               PROVE  WaitsOn(c, t, j, u) \/ c.at[u].executed = "COMPLETED"
    BY DEF WaitsForLastWriter
  <2>1. LastWriter(p, b, t, j, u) /\ j \in DOMAIN p[b.at[t].id].src
    BY <1>6, <1>7 DEF LastWriter
  <2>2. CASE t = s
    <3>1. b.at[u].executed # "COMPLETED" => j \in deps /\ prod[j] = u
      BY <2>1, <2>2
    <3> QED
      BY <1>2, <1>6, <1>9, <2>2, <3>1
  <2>3. CASE t # s
    <3>1. b.at[t].scheduled # "NO" /\ b.at[t].id # 0
      BY <1>4, <2>3
    <3>2. WaitsOn(b, t, j, u) \/ b.at[u].executed = "COMPLETED"
      BY <2>1, <3>1 DEF RegInv, WaitsForLastWriter
    <3>3. j \in Src
      <4>1. b.at[t].id \in 1 .. Len(p)
        <5>1. b.at[t].id \in n + 1 .. d
          BY <3>1, WindowFacts DEF RegInv, OneEach
        <5>2. Len(p) \in Nat
          BY ProgramsAssumption, LenProperties DEF InTrace
        <5> QED
          BY <5>1, <5>2 DEF InTrace
      <4> QED
        BY <1>1, <2>1, <4>1, ProgramFacts
    <3> QED
      BY <1>6, <1>9, <3>2, <3>3
  <2> QED
    BY <2>2, <2>3
<1>16. SourcesCounted(c)
  <2>1. Waiting(c, s) = deps
    <3>1. \A j \in Src : (\E u \in Slot : c.at[u].executed # "COMPLETED" /\ WaitsOn(c, s, j, u)) <=> j \in deps
      BY <1>6, <1>8, <1>9, <1>10
    <3> QED
      BY <1>2, <3>1 DEF Waiting
  <2>2. \A t \in Slot : t # s => Waiting(c, t) = Waiting(b, t)
    <3> TAKE t \in Slot
    <3> HAVE t # s
    <3>1. \A u \in Slot : \A j \in Src : WaitsOn(c, t, j, u) <=> WaitsOn(b, t, j, u)
      BY <1>9
    <3> QED
      BY <1>6, <3>1 DEF Waiting
  <2>3. \A t \in Slot : t # s =>
          /\ b.at[t].num_reg_dependent = Cardinality(Waiting(b, t))
          /\ b.at[t].reg_ready <=> b.at[t].scheduled # "NO" /\ Waiting(b, t) = {}
    BY DEF RegInv, SourcesCounted
  <2>4. \A t \in Slot : t # s =>
          /\ c.at[t].num_reg_dependent = Cardinality(Waiting(c, t))
          /\ c.at[t].reg_ready <=> c.at[t].scheduled # "NO" /\ Waiting(c, t) = {}
    BY <1>4, <2>2, <2>3
  <2>5. /\ c.at[s].num_reg_dependent = Cardinality(Waiting(c, s))
        /\ c.at[s].reg_ready <=> c.at[s].scheduled # "NO" /\ Waiting(c, s) = {}
    BY <1>3, <1>5, <2>1
  <2> QED
    BY <2>4, <2>5 DEF SourcesCounted
<1>17. IssuedWhenReady(p, c)
  <2> SUFFICES ASSUME NEW t \in Slot, c.at[t].id # 0
               PROVE  LET e == c.at[t] IN
                      /\ e.executed # "NO" \/ e.source_added # {} \/ e.destination_added # {} => e.reg_ready
                      /\ e.scheduled # "NO" =>
                           e.scheduled = IF Accesses(p, e) /\ e.executed = "NO" THEN "INFLIGHT" ELSE "COMPLETED"
    BY DEF IssuedWhenReady
  <2>1. CASE t = s
    <3>1. ~b.at[s].reg_ready
      BY DEF RegInv, SourcesCounted
    <3>2. b.at[s].executed = "NO" /\ b.at[s].source_added = {} /\ b.at[s].destination_added = {}
      BY <3>1 DEF RegInv, IssuedWhenReady
    <3> QED
      BY <1>3, <2>1, <3>2 DEF Accesses
  <2>2. CASE t # s
    BY <2>2, <1>4 DEF RegInv, IssuedWhenReady, Accesses
  <2> QED
    BY <2>1, <2>2
<1> QED
  BY <1>11, <1>12, <1>13, <1>14, <1>15, <1>16, <1>17 DEF RegInv

\* W[t]: the sources of slot t that wait for slot s; R: the slots that wait for no other.
WaitsOfEach(b, s, W) == W = [t \in Slot |-> {j \in Src : WaitsOn(b, t, j, s)}]
ReleasedBy(b, W, R) ==
  R = {t \in Slot : W[t] # {} /\ b.at[t].num_reg_dependent - Cardinality(W[t]) = 0}
LoseSources(p, b, c, s, W, R) ==
  \A t \in Slot : t # s => IsWithoutSource(p, b.at[t], c.at[t], Cardinality(W[t]), t \in R)

\* As s completes, those that wait for it lose one source, the last of them its wait.
LEMMA RegsWithCompleted ==
  ASSUME NEW p, NEW r, NEW b \in Rob, NEW c \in Rob, NEW d, NEW n, NEW s \in Slot,
         InTrace(p, r, d, n), RegInv(p, b, d, n),
         b.at[s].id # 0, b.at[s].executed = "INFLIGHT",
         c.head = b.head, c.tail = b.tail,
         c.at[s] = [b.at[s] EXCEPT !.executed = "COMPLETED"],
         NEW W, WaitsOfEach(b, s, W), NEW R, ReleasedBy(b, W, R), LoseSources(p, b, c, s, W, R)
  PROVE  RegInv(p, c, d, n)
<1> USE DEF WaitsOfEach, ReleasedBy, LoseSources
<1>1. /\ c.at[s].executed = "COMPLETED" /\ SameOperands(b.at[s], c.at[s])
      /\ c.at[s].scheduled = b.at[s].scheduled /\ c.at[s].reg_ready = b.at[s].reg_ready
      /\ c.at[s].num_reg_dependent = b.at[s].num_reg_dependent
      /\ c.at[s].registers_depend_on_me = b.at[s].registers_depend_on_me
  <2> DEFINE e == b.at[s]
             f == c.at[s]
  <2>1. e \in Entry /\ "COMPLETED" \in Progress /\ f = [e EXCEPT !.executed = "COMPLETED"]
    BY DEF Rob, Progress
  <2> HIDE DEF e, f
  <2>2. /\ f \in Entry /\ SameOperands(e, f) /\ f.executed = "COMPLETED"
        /\ f.scheduled = e.scheduled /\ f.reg_ready = e.reg_ready
        /\ f.num_reg_dependent = e.num_reg_dependent
        /\ f.registers_depend_on_me = e.registers_depend_on_me
    BY <2>1, EntryExecutes
  <2> QED
    BY <2>2 DEF e, f
<1>2. \A t \in Slot : t # s =>
        /\ SameOperands(b.at[t], c.at[t])
        /\ c.at[t].executed = b.at[t].executed
        /\ c.at[t].registers_depend_on_me = b.at[t].registers_depend_on_me
        /\ c.at[t].num_reg_dependent = IF b.at[t].id # 0 THEN b.at[t].num_reg_dependent - Cardinality(W[t])
                                       ELSE b.at[t].num_reg_dependent
        /\ c.at[t].reg_ready = (b.at[t].reg_ready \/ t \in R)
        /\ c.at[t].scheduled = IF t \notin R THEN b.at[t].scheduled
                               ELSE IF Accesses(p, b.at[t]) THEN "INFLIGHT" ELSE "COMPLETED"
  BY DEF IsWithoutSource
<1>3. \A t \in Slot :
        /\ c.at[t].id = b.at[t].id /\ c.at[t].source_added = b.at[t].source_added
        /\ c.at[t].destination_added = b.at[t].destination_added
        /\ c.at[t].registers_depend_on_me = b.at[t].registers_depend_on_me
  BY <1>1, <1>2 DEF SameOperands
<1>4. \A u, t \in Slot : Before(c, u, t) <=> Before(b, u, t)
  BY <1>3 DEF Before
<1>5. \A u, t \in Slot : \A j \in Src : WaitsOn(c, t, j, u) <=> WaitsOn(b, t, j, u)
  BY <1>3 DEF WaitsOn
<1>6. \A u, t \in Slot : \A j \in Src : WaitsOn(b, t, j, u) =>
        Before(b, u, t) /\ b.at[t].scheduled # "NO" /\ j \in DOMAIN p[b.at[t].id].src
  BY DEF RegInv, WaitersAreYounger
<1>7. \A t \in Slot : W[t] \subseteq Src /\ \A j \in Src : j \in W[t] <=> WaitsOn(b, t, j, s)
  OBVIOUS
<1>8. \A t \in Slot : W[t] # {} => b.at[t].id # 0 /\ b.at[t].scheduled # "NO" /\ t # s
  <2> TAKE t \in Slot
  <2> HAVE W[t] # {}
  <2>1. Before(b, s, t) /\ b.at[t].scheduled # "NO"
    BY <1>6, <1>7
  <2>2. b.at[s].id \in Nat
    BY DEF Rob, Entry
  <2> QED
    BY <2>1, <2>2 DEF Before
<1>9. \A t \in R : t \in Slot /\ W[t] # {} /\ t # s
  BY <1>8
<1>10. \A t \in Slot : c.at[t].scheduled = "NO" <=> b.at[t].scheduled = "NO"
  <2> TAKE t \in Slot
  <2>1. CASE t \in R
    BY <1>2, <1>8, <1>9, <2>1
  <2>2. CASE t \notin R
    BY <1>1, <1>2, <2>2
  <2> QED
    BY <2>1, <2>2
<1>11. \A t \in Slot : Waiting(c, t) = Waiting(b, t) \ W[t] /\ W[t] \subseteq Waiting(b, t)
  <2> TAKE t \in Slot
  <2>1. \A j \in W[t] : j \in Waiting(b, t)
    BY <1>7 DEF Waiting
  <2>2. \A j \in Waiting(c, t) : j \in Waiting(b, t) \ W[t]
    <3> TAKE j \in Waiting(c, t)
    <3>1. PICK u \in Slot : j \in Src /\ c.at[u].executed # "COMPLETED" /\ WaitsOn(c, t, j, u)
      BY DEF Waiting
    <3>2. u # s /\ b.at[u].executed # "COMPLETED" /\ WaitsOn(b, t, j, u)
      BY <1>1, <1>2, <1>5, <3>1
    <3>3. ~WaitsOn(b, t, j, s)
      BY <3>1, <3>2 DEF RegInv, OneProducer
    <3> QED
      BY <1>7, <3>1, <3>2, <3>3 DEF Waiting
  <2>3. \A j \in Waiting(b, t) \ W[t] : j \in Waiting(c, t)
    <3> TAKE j \in Waiting(b, t) \ W[t]
    <3>1. PICK u \in Slot : j \in Src /\ b.at[u].executed # "COMPLETED" /\ WaitsOn(b, t, j, u)
      BY DEF Waiting
    <3>2. u # s
      BY <1>7, <3>1
    <3> QED
      BY <1>2, <1>5, <3>1, <3>2 DEF Waiting
  <2> QED
    BY <2>1, <2>2, <2>3
<1>12. \A t \in Slot :
         /\ b.at[t].num_reg_dependent = Cardinality(Waiting(b, t))
         /\ b.at[t].reg_ready <=> b.at[t].scheduled # "NO" /\ Waiting(b, t) = {}
  BY DEF RegInv, SourcesCounted
<1>13. \A t \in Slot :
         /\ Cardinality(Waiting(b, t)) \in Nat /\ Cardinality(W[t]) \in Nat
         /\ Cardinality(Waiting(c, t)) \in Nat
         /\ Cardinality(Waiting(c, t)) = Cardinality(Waiting(b, t)) - Cardinality(W[t])
         /\ Cardinality(W[t]) = 0 <=> W[t] = {}
         /\ Cardinality(Waiting(c, t)) = 0 <=> Waiting(c, t) = {}
  <2> TAKE t \in Slot
  <2> DEFINE A == Waiting(b, t)
             B == W[t]
  <2>1. A \in SUBSET (1 .. NUM_INSTR_SOURCES) /\ B \in SUBSET A /\ Waiting(c, t) = A \ B
    BY <1>11 DEF Waiting, Src
  <2>2. NUM_INSTR_SOURCES \in Nat
    BY Sizes
  <2> HIDE DEF A, B
  <2>3. Divides(A, B)
    BY <2>1, <2>2, SizeOfRest
  <2> QED
    BY <2>1, <2>3 DEF Divides, A, B
<1>14. InWindow(c, d, n)
  <2>1. InWindow(b, d, n)
    BY DEF RegInv
  <2>2. \A t \in Slot : Empty(b.at[t]) => Empty(c.at[t])
    <3> TAKE t \in Slot
    <3> HAVE Empty(b.at[t])
    <3>1. t # s /\ t \notin R
      BY <1>8, <1>9 DEF Empty
    <3> QED
      BY <1>2, <1>3, <3>1 DEF Empty
  <2> QED
    BY <1>3, <2>1, <2>2 DEF InWindow
<1>15. ScheduledInOrder(c)
  BY <1>4, <1>10 DEF RegInv, ScheduledInOrder
<1>16. WaitersAreYounger(p, c)
  BY <1>3, <1>4, <1>5, <1>10 DEF RegInv, WaitersAreYounger
<1>17. OneProducer(c)
  BY <1>5 DEF RegInv, OneProducer
<1>18. WaitsForLastWriter(p, c)
  <2> SUFFICES ASSUME NEW u \in Slot, NEW t \in Slot, c.at[t].id # 0, c.at[t].scheduled # "NO",
                      NEW j \in DOMAIN p[c.at[t].id].src, LastWriter(p, c, t, j, u)
               PROVE  WaitsOn(c, t, j, u) \/ c.at[u].executed = "COMPLETED"
    BY DEF WaitsForLastWriter
  <2>1. LastWriter(p, b, t, j, u) /\ j \in DOMAIN p[b.at[t].id].src
        /\ b.at[t].id # 0 /\ b.at[t].scheduled # "NO"
    BY <1>3, <1>4, <1>10 DEF LastWriter
  <2>2. WaitsOn(b, t, j, u) \/ b.at[u].executed = "COMPLETED"
    BY <2>1 DEF RegInv, WaitsForLastWriter
  <2> QED
    BY <1>1, <1>2, <1>3, <2>2 DEF WaitsOn
<1>19. SourcesCounted(c)
  <2> SUFFICES ASSUME NEW t \in Slot
               PROVE  /\ c.at[t].num_reg_dependent = Cardinality(Waiting(c, t))
                      /\ c.at[t].reg_ready <=> c.at[t].scheduled # "NO" /\ Waiting(c, t) = {}
    BY DEF SourcesCounted
  <2> DEFINE A == Waiting(b, t)
             B == W[t]
             C == Waiting(c, t)
             e == b.at[t]
             f == c.at[t]
  <2>1. /\ C = A \ B /\ B \subseteq A
        /\ e.num_reg_dependent = Cardinality(A)
        /\ e.reg_ready <=> e.scheduled # "NO" /\ A = {}
        /\ f.scheduled = "NO" <=> e.scheduled = "NO"
    BY <1>10, <1>11, <1>12
  <2>2. /\ Cardinality(A) \in Nat /\ Cardinality(B) \in Nat /\ Cardinality(C) \in Nat
        /\ Cardinality(C) = Cardinality(A) - Cardinality(B)
        /\ Cardinality(B) = 0 <=> B = {}
        /\ Cardinality(C) = 0 <=> C = {}
    BY <1>13
  <2>3. B # {} => e.id # 0 /\ e.scheduled # "NO" /\ t # s
    BY <1>8
  <2>4. t \in R <=> B # {} /\ e.num_reg_dependent - Cardinality(B) = 0
    OBVIOUS
  <2>5. t # s => /\ f.num_reg_dependent = IF e.id # 0 THEN e.num_reg_dependent - Cardinality(B)
                                          ELSE e.num_reg_dependent
                 /\ f.reg_ready = (e.reg_ready \/ t \in R)
    BY <1>2
  <2>6. t = s => f.num_reg_dependent = e.num_reg_dependent /\ f.reg_ready = e.reg_ready
    BY <1>1
  <2> HIDE DEF A, B, C, e, f
  <2>7. f.num_reg_dependent = Cardinality(C)
    <3>1. CASE B = {}
      <4>1. C = A /\ Cardinality(B) = 0
        BY <2>1, <2>2, <3>1
      <4> QED
        BY <2>1, <2>2, <2>5, <2>6, <4>1
    <3>2. CASE B # {}
      BY <2>1, <2>2, <2>3, <2>5, <3>2
    <3> QED
      BY <3>1, <3>2
  <2>8. f.reg_ready <=> f.scheduled # "NO" /\ C = {}
    <3>1. CASE B = {}
      BY <2>1, <2>4, <2>5, <2>6, <3>1
    <3>2. CASE B # {}
      <4>1. t \in R <=> C = {}
        BY <2>1, <2>2, <2>4, <3>2
      <4>2. f.reg_ready = (e.reg_ready \/ t \in R) /\ ~e.reg_ready /\ f.scheduled # "NO"
        BY <2>1, <2>3, <2>5, <3>2
      <4> QED
        BY <4>1, <4>2
    <3> QED
      BY <3>1, <3>2
  <2> QED
    BY <2>7, <2>8 DEF C, f
<1>20. IssuedWhenReady(p, c)
  <2> SUFFICES ASSUME NEW t \in Slot, c.at[t].id # 0
               PROVE  LET e == c.at[t] IN
                      /\ e.executed # "NO" \/ e.source_added # {} \/ e.destination_added # {} => e.reg_ready
                      /\ e.scheduled # "NO" =>
                           e.scheduled = IF Accesses(p, e) /\ e.executed = "NO" THEN "INFLIGHT" ELSE "COMPLETED"
    BY DEF IssuedWhenReady
  <2>1. CASE t = s
    BY <1>1, <1>3, <2>1 DEF RegInv, IssuedWhenReady
  <2>2. CASE t # s /\ t \notin R
    <3>1. /\ c.at[t].reg_ready <=> b.at[t].reg_ready
          /\ c.at[t].scheduled = b.at[t].scheduled
          /\ c.at[t].executed = b.at[t].executed
      BY <1>2, <2>2
    <3> QED
      BY <1>3, <2>2, <3>1 DEF RegInv, IssuedWhenReady, Accesses
  <2>3. CASE t # s /\ t \in R
    <3>1. ~b.at[t].reg_ready
      BY <1>9, <1>11, <1>12, <2>3
    <3>2. b.at[t].executed = "NO"
      BY <1>3, <3>1 DEF RegInv, IssuedWhenReady
    <3> QED
      BY <1>2, <1>3, <2>3, <3>1, <3>2 DEF RegInv, IssuedWhenReady, Accesses
  <2> QED
    BY <2>1, <2>2, <2>3
<1> QED
  BY <1>14, <1>15, <1>16, <1>17, <1>18, <1>19, <1>20 DEF RegInv

\* The instruction that retires is complete, so none waits for it.
LEMMA RegsWithoutRetired ==
  ASSUME NEW p, NEW r, NEW b \in Rob, NEW c \in Rob, NEW d, NEW n,
         InTrace(p, r, d, n), RegInv(p, b, d, n),
         b.at[b.head].id # 0, b.at[b.head].executed = "COMPLETED",
         c.tail = b.tail, c.head = (b.head + 1) % ROB_SIZE, c.at[b.head] = NoInstr,
         \A t \in Slot : t # b.head => c.at[t] = b.at[t]
  PROVE  /\ RegInv(p, c, d, n + 1)
         /\ b.at[b.head].id = n + 1 /\ n < d
<1> DEFINE h == b.head
<1>1. ROB_SIZE \in Nat \ {0} /\ d \in Nat /\ n \in 0 .. d /\ h \in Slot
      /\ Slot = 0 .. ROB_SIZE - 1
  BY Sizes, ProgramsAssumption, LenProperties DEF Rob, Slot, InTrace
<1>2. /\ d - n <= ROB_SIZE
      /\ b.tail = Wrap(ROB_SIZE, h + (d - n))
      /\ \A s \in Slot : IF Dist(ROB_SIZE, h, s) < d - n
                         THEN b.at[s].id = n + 1 + Dist(ROB_SIZE, h, s)
                         ELSE Empty(b.at[s])
  BY DEF RegInv, InWindow
<1>3. c.at[h].id = 0 /\ c.at[h].scheduled = "NO" /\ c.at[h].executed = "NO"
      /\ c.at[h].reg_ready = FALSE /\ c.at[h].num_reg_dependent = 0
      /\ c.at[h].registers_depend_on_me = [j \in Src |-> {}]
  BY DEF NoInstr
<1>4. \A t \in Slot : t # h => c.at[t] = b.at[t]
  OBVIOUS
<1>5. Dist(ROB_SIZE, h, h) = 0
  BY <1>1 DEF Dist
<1>6. n < d /\ b.at[h].id = n + 1
  <2>1. 0 < d - n => b.at[h].id = n + 1
    BY <1>1, <1>2, <1>5
  <2>2. ~(0 < d - n) => Empty(b.at[h])
    BY <1>1, <1>2, <1>5
  <2>3. 0 < d - n
    BY <2>2 DEF Empty
  <2> QED
    BY <1>1, <2>1, <2>3
<1>7. \A s \in Slot : b.at[s].id # 0 => b.at[s].id \in n + 1 .. d
  BY WindowFacts DEF RegInv, OneEach
<1>8. \A s \in Slot : ~Before(b, s, h)
  BY <1>1, <1>6, <1>7 DEF Before
<1>9. \A s, t \in Slot : Before(c, s, t) <=> s # h /\ t # h /\ Before(b, s, t)
  <2> TAKE s, t \in Slot
  <2>1. CASE s = h \/ t = h
    BY <2>1, <1>3 DEF Before
  <2>2. CASE s # h /\ t # h
    BY <2>2, <1>4 DEF Before
  <2> QED
    BY <2>1, <2>2
<1>10. \A s, t \in Slot : \A j \in Src : WaitsOn(b, t, j, s) =>
         Before(b, s, t) /\ b.at[t].scheduled # "NO" /\ j \in DOMAIN p[b.at[t].id].src /\ t # h
  BY <1>8 DEF RegInv, WaitersAreYounger
<1>11. \A s, t \in Slot : \A j \in Src : WaitsOn(c, t, j, s) <=> s # h /\ WaitsOn(b, t, j, s)
  <2> TAKE s, t \in Slot
  <2> TAKE j \in Src
  <2>1. CASE s = h
    BY <2>1, <1>3 DEF WaitsOn
  <2>2. CASE s # h
    BY <2>2, <1>4 DEF WaitsOn
  <2> QED
    BY <2>1, <2>2
<1>12. InWindow(c, d, n + 1)
  <2> DEFINE D(s) == Dist(ROB_SIZE, h, s)
             E(s) == Dist(ROB_SIZE, c.head, s)
  <2>1. PICK w \in 1 .. ROB_SIZE : w = d - n /\ d - (n + 1) = w - 1
    <3>1. d - n \in 1 .. ROB_SIZE /\ d - (n + 1) = (d - n) - 1
      BY <1>1, <1>2, <1>6
    <3> QED
      BY <3>1
  <2>2. WindowShrinks(ROB_SIZE, h, w, b.tail, c.head)
    BY <1>1, <1>2, <2>1, AtHead
  <2>3. /\ b.tail = Wrap(ROB_SIZE, c.head + (w - 1))
        /\ ~(E(h) < w - 1)
        /\ \A s \in Slot : s # h => E(s) = D(s) - 1 /\ D(s) \in Nat /\ (E(s) < w - 1 <=> D(s) < w)
    BY <1>1, <2>2 DEF WindowShrinks
  <2>4. \A s \in Slot : IF E(s) < w - 1 THEN c.at[s].id = (n + 1) + 1 + E(s) ELSE Empty(c.at[s])
    <3> TAKE s \in Slot
    <3>1. CASE s = h
      BY <3>1, <1>3, <2>3 DEF Empty
    <3>2. CASE s # h
      <4>1. E(s) = D(s) - 1 /\ D(s) \in Nat /\ (E(s) < w - 1 <=> D(s) < w)
        BY <2>3, <3>2
      <4>2. n + 1 + D(s) = (n + 1) + 1 + E(s)
        <5> HIDE DEF D, E
        <5> QED
          BY <4>1, <1>1
      <4>3. IF D(s) < w THEN b.at[s].id = n + 1 + D(s) ELSE Empty(b.at[s])
        BY <1>2, <2>1
      <4> QED
        BY <1>4, <3>2, <4>1, <4>2, <4>3
    <3> QED
      BY <3>1, <3>2
  <2>5. d - (n + 1) <= ROB_SIZE
    BY <2>1, <1>1
  <2> QED
    BY <2>1, <2>3, <2>4, <2>5 DEF InWindow
<1>13. ScheduledInOrder(c)
  BY <1>4, <1>9 DEF RegInv, ScheduledInOrder
<1>14. WaitersAreYounger(p, c)
  BY <1>4, <1>9, <1>10, <1>11 DEF WaitersAreYounger
<1>15. OneProducer(c)
  BY <1>11 DEF RegInv, OneProducer
<1>16. WaitsForLastWriter(p, c)
  <2> SUFFICES ASSUME NEW s \in Slot, NEW t \in Slot, c.at[t].id # 0, c.at[t].scheduled # "NO",
                      NEW j \in DOMAIN p[c.at[t].id].src, LastWriter(p, c, t, j, s)
               PROVE  WaitsOn(c, t, j, s) \/ c.at[s].executed = "COMPLETED"
    BY DEF WaitsForLastWriter
  <2>1. t # h /\ s # h /\ Before(b, s, t) /\ c.at[t] = b.at[t] /\ c.at[s] = b.at[s]
    BY <1>4, <1>9 DEF LastWriter
  <2>2. LastWriter(p, b, t, j, s)
    <3>1. p[b.at[t].id].src[j] \in p[b.at[s].id].dst
      BY <2>1 DEF LastWriter
    <3>2. ASSUME NEW u \in Slot, Before(b, s, u), Before(b, u, t)
          PROVE  p[b.at[t].id].src[j] \notin p[b.at[u].id].dst
      <4>1. u # h
        BY <3>2, <1>8
      <4>2. Before(c, s, u) /\ Before(c, u, t) /\ c.at[u] = b.at[u]
        BY <3>2, <4>1, <1>4, <1>9, <2>1
      <4> QED
        BY <4>2, <2>1 DEF LastWriter
    <3> QED
      BY <2>1, <3>1, <3>2 DEF LastWriter
  <2>3. WaitsOn(b, t, j, s) \/ b.at[s].executed = "COMPLETED"
    BY <2>1, <2>2 DEF RegInv, WaitsForLastWriter
  <2> QED
    BY <2>1, <2>3 DEF WaitsOn
<1>17. SourcesCounted(c)
  <2>1. \A t \in Slot : t # h => Waiting(c, t) = Waiting(b, t)
    <3> TAKE t \in Slot
    <3> HAVE t # h
    <3>1. \A s \in Slot : \A j \in Src :
            (c.at[s].executed # "COMPLETED" /\ WaitsOn(c, t, j, s))
            <=> (b.at[s].executed # "COMPLETED" /\ WaitsOn(b, t, j, s))
      BY <1>4, <1>11
    <3> QED
      BY <3>1 DEF Waiting
  <2>2. \A t \in Slot : t # h =>
          /\ c.at[t].num_reg_dependent = Cardinality(Waiting(c, t))
          /\ c.at[t].reg_ready <=> c.at[t].scheduled # "NO" /\ Waiting(c, t) = {}
    BY <2>1, <1>4 DEF RegInv, SourcesCounted
  <2>3. Waiting(c, h) = {}
    BY <1>1, <1>10, <1>11 DEF Waiting
  <2>4. Cardinality({}) = 0
    BY FS_EmptySet
  <2> QED
    BY <1>1, <1>3, <2>2, <2>3, <2>4 DEF SourcesCounted
<1>18. IssuedWhenReady(p, c)
  BY <1>3, <1>4 DEF RegInv, IssuedWhenReady
<1> QED
  BY <1>6, <1>12, <1>13, <1>14, <1>15, <1>16, <1>17, <1>18 DEF RegInv

(***************************************************************************)
(* What the invariant says of the last writer of a source: an instruction  *)
(* whose sources are ready comes after it.                                 *)
(***************************************************************************)
LEMMA WriterIsTheLast ==
  ASSUME NEW n \in Nat, NEW x, NEW m, WriterBefore(n, x) = m, m # 0
  PROVE  /\ m \in 1 .. n - 1 /\ x \in program[m].dst
         /\ \A k \in 1 .. n - 1 : x \in program[k].dst => k <= m
<1> DEFINE W == {k \in 1 .. n - 1 : x \in program[k].dst}
<1>1. W # {} /\ m = CHOOSE k \in W : \A i \in W : i <= k
  BY DEF WriterBefore
<1>2. \E k \in W : \A i \in W : i <= k
  <2>1. W \subseteq 0 .. n
    OBVIOUS
  <2> HIDE DEF W
  <2> QED
    BY <1>1, <2>1, GreatestNatural
<1>3. m \in W /\ \A i \in W : i <= m
  <2> HIDE DEF W
  <2> QED
    BY <1>1, <1>2
<1> QED
  BY <1>3

\* An instruction that is ready has the last writer of each of its sources behind it.
LEMMA ReadyIsAfterWriters ==
  ASSUME NEW n, InTrace(program, read, dispatched, n), n = Len(results), RegInv(program, rob, dispatched, n),
         NEW s \in Slot, InRob(s), At(s).reg_ready, NEW j \in DOMAIN InstrIn(s).src,
         NEW m, m = WriterBefore(At(s).id, InstrIn(s).src[j]), m # 0
  PROVE  Executed(m)
<1> DEFINE b == rob
           i == b.at[s].id
           x == program[i].src[j]
<1>1. rob \in Rob /\ dispatched \in Nat /\ n \in 0 .. dispatched
  BY ProgramsAssumption, LenProperties DEF RegInv, InTrace
<1>2. /\ \A t \in Slot : b.at[t].id # 0 => b.at[t].id \in n + 1 .. dispatched
      /\ \A t, u \in Slot : b.at[t].id # 0 /\ b.at[t].id = b.at[u].id => t = u
      /\ \A k \in n + 1 .. dispatched : \E t \in Slot : b.at[t].id = k
  <2>1. b \in Rob /\ InTrace(program, read, dispatched, n) /\ InWindow(b, dispatched, n)
    BY <1>1 DEF RegInv
  <2>2. OneEach(b, dispatched, n)
    BY <2>1, WindowFacts
  <2> QED
    BY <2>2 DEF OneEach
<1>3. i \in n + 1 .. dispatched /\ i \in Nat
  BY <1>1, <1>2 DEF InRob, At
<1>4. m \in 1 .. i - 1 /\ x \in program[m].dst /\ \A k \in 1 .. i - 1 : x \in program[k].dst => k <= m
  <2>1. WriterBefore(i, x) = m
    BY DEF At, InstrIn
  <2> HIDE DEF i, x
  <2> QED
    BY <1>3, <2>1, WriterIsTheLast
<1>5. CASE m <= n
  BY <1>5 DEF Executed
<1>6. CASE ~(m <= n)
  <2>1. PICK t \in Slot : b.at[t].id = m
    BY <1>1, <1>2, <1>3, <1>4, <1>6
  <2>2. Before(b, t, s)
    BY <1>1, <1>3, <1>4, <2>1 DEF Before
  <2>3. LastWriter(program, b, s, j, t)
    <3>1. ASSUME NEW u \in Slot, Before(b, t, u), Before(b, u, s)
          PROVE  x \notin program[b.at[u].id].dst
      <4>1. b.at[u].id \in 1 .. i - 1 /\ ~(b.at[u].id <= m)
        BY <1>1, <1>2, <1>3, <1>4, <2>1, <3>1 DEF Before
      <4> QED
        BY <1>4, <4>1
    <3> QED
      BY <1>4, <2>1, <2>2, <3>1 DEF LastWriter
  <2>4. b.at[s].scheduled # "NO" /\ Waiting(b, s) = {}
    BY DEF RegInv, SourcesCounted, At
  <2>5. j \in Src
    <3>1. i \in 1 .. Len(program) /\ program \in Programs
      <4>1. /\ program \in Programs /\ read \in 0 .. Len(program) /\ dispatched \in 0 .. read
            /\ n \in 0 .. dispatched
        BY DEF InTrace
      <4>2. Len(program) \in Nat
        BY <4>1, ProgramsAssumption, LenProperties
      <4> HIDE DEF i
      <4> QED
        BY <1>3, <4>1, <4>2
    <3> QED
      BY <3>1, ProgramFacts DEF At, InstrIn
  <2>6. WaitsOn(b, s, j, t) \/ b.at[t].executed = "COMPLETED"
    BY <1>3, <2>3, <2>4 DEF RegInv, WaitsForLastWriter, At, InstrIn, InRob
  <2>7. b.at[t].executed = "COMPLETED"
    BY <2>4, <2>5, <2>6 DEF Waiting
  <2> QED
    BY <2>1, <2>7 DEF Executed, At
<1> QED
  BY <1>5, <1>6

-----------------------------------------------------------------------------
(* What the operations of the load and store queues do to an entry of the  *)
(* reorder buffer.                                                         *)

\* What registers rest on is the same in two entries.
SameRegs(e, f) ==
  /\ f.id = e.id
  /\ f.scheduled = e.scheduled
  /\ f.executed = e.executed
  /\ f.reg_ready = e.reg_ready
  /\ f.num_reg_dependent = e.num_reg_dependent
  /\ f.registers_depend_on_me = e.registers_depend_on_me

IsWithoutOps(e, f, n) ==
  /\ f \in Entry /\ SameRegs(e, f)
  /\ f.num_mem_ops = e.num_mem_ops - n
  /\ f.source_added = e.source_added /\ f.lq_index = e.lq_index
  /\ f.destination_added = e.destination_added /\ f.sq_index = e.sq_index
  /\ f.memory_depend_on_me = e.memory_depend_on_me

IsLoadAdded(e, f, j, l) ==
  /\ f \in Entry /\ SameRegs(e, f)
  /\ f.num_mem_ops = e.num_mem_ops
  /\ f.source_added = e.source_added \cup {j}
  /\ \A i \in Src : f.lq_index[i] = IF i = j THEN l ELSE e.lq_index[i]
  /\ f.destination_added = e.destination_added /\ f.sq_index = e.sq_index
  /\ f.memory_depend_on_me = e.memory_depend_on_me

IsWaitedFor(e, f, s) ==
  /\ f \in Entry /\ SameRegs(e, f)
  /\ f.num_mem_ops = e.num_mem_ops
  /\ f.source_added = e.source_added /\ f.lq_index = e.lq_index
  /\ f.destination_added = e.destination_added /\ f.sq_index = e.sq_index
  /\ f.memory_depend_on_me = e.memory_depend_on_me \cup {s}

IsStoreAdded(e, f, k, i) ==
  /\ f \in Entry /\ SameRegs(e, f)
  /\ f.num_mem_ops = e.num_mem_ops
  /\ f.source_added = e.source_added /\ f.lq_index = e.lq_index
  /\ f.destination_added = e.destination_added \cup {k}
  /\ \A x \in Dst : f.sq_index[x] = IF x = k THEN i ELSE e.sq_index[x]
  /\ f.memory_depend_on_me = e.memory_depend_on_me

IsIssued(e, f) ==
  /\ f \in Entry /\ SameOperands(e, f)
  /\ f.scheduled = "COMPLETED" /\ f.executed = "INFLIGHT"
  /\ f.reg_ready = e.reg_ready
  /\ f.num_reg_dependent = e.num_reg_dependent
  /\ f.registers_depend_on_me = e.registers_depend_on_me

\* The field a memory operation that completes writes,
LEMMA WithoutOpsEntry ==
  ASSUME NEW e \in Entry, NEW n \in Int, NEW f, f = WithoutOps(e, n)
  PROVE  IsWithoutOps(e, f, n)
<1>1. f = [e EXCEPT !.num_mem_ops = e.num_mem_ops - n] /\ e.num_mem_ops - n \in Int
  BY DEF WithoutOps, Entry
<1>2. f \in Entry
  BY <1>1 DEF Entry
<1> QED
  BY <1>1, <1>2 DEF Entry, IsWithoutOps, SameRegs

\* those a load that enters its queue writes in its own entry
LEMMA LoadAddedEntry ==
  ASSUME NEW e \in Entry, NEW j \in Src, NEW l \in Lq, NEW f, f = LoadAdded(e, j, l)
  PROVE  IsLoadAdded(e, f, j, l)
<1> DEFINE x == e.source_added \cup {j}
           y == [e.lq_index EXCEPT ![j] = l]
<1>1. e.lq_index \in [Src -> Lq \cup {Nil}] /\ x \in SUBSET Src
  BY DEF Entry
<1>2. y \in [Src -> Lq \cup {Nil}] /\ \A i \in Src : y[i] = IF i = j THEN l ELSE e.lq_index[i]
  BY <1>1
<1>3. f = [e EXCEPT !.source_added = x, !.lq_index = y]
  BY DEF LoadAdded, Entry
<1> HIDE DEF x, y
<1>4. f \in Entry
  BY <1>1, <1>2, <1>3 DEF Entry
<1>5. /\ f.source_added = x /\ f.lq_index = y /\ SameRegs(e, f)
      /\ f.num_mem_ops = e.num_mem_ops /\ f.memory_depend_on_me = e.memory_depend_on_me
      /\ f.destination_added = e.destination_added /\ f.sq_index = e.sq_index
  BY <1>3, <1>4 DEF Entry, SameRegs
<1> QED
  BY <1>2, <1>4, <1>5 DEF IsLoadAdded, x

\* and in that of the store it waits for,
LEMMA WaitedForEntry ==
  ASSUME NEW e \in Entry, NEW s \in Slot, NEW f, f = WaitedFor(e, s)
  PROVE  IsWaitedFor(e, f, s)
<1> DEFINE x == e.memory_depend_on_me \cup {s}
<1>1. x \in SUBSET Slot
  BY DEF Entry
<1>2. f = [e EXCEPT !.memory_depend_on_me = x]
  BY DEF WaitedFor, Entry
<1> HIDE DEF x
<1>3. f \in Entry
  BY <1>1, <1>2 DEF Entry
<1>4. /\ f.memory_depend_on_me = x /\ SameRegs(e, f)
      /\ f.num_mem_ops = e.num_mem_ops
      /\ f.source_added = e.source_added /\ f.lq_index = e.lq_index
      /\ f.destination_added = e.destination_added /\ f.sq_index = e.sq_index
  BY <1>2, <1>3 DEF Entry, SameRegs
<1> QED
  BY <1>3, <1>4 DEF IsWaitedFor, x

\* those of a store that enters its queue,
LEMMA StoreAddedEntry ==
  ASSUME NEW e \in Entry, NEW k \in Dst, NEW i \in Sq, NEW f, f = StoreAdded(e, k, i)
  PROVE  IsStoreAdded(e, f, k, i)
<1> DEFINE x == e.destination_added \cup {k}
           y == [e.sq_index EXCEPT ![k] = i]
<1>1. e.sq_index \in [Dst -> Sq \cup {Nil}] /\ x \in SUBSET Dst
  BY DEF Entry
<1>2. y \in [Dst -> Sq \cup {Nil}] /\ \A z \in Dst : y[z] = IF z = k THEN i ELSE e.sq_index[z]
  BY <1>1
<1>3. f = [e EXCEPT !.destination_added = x, !.sq_index = y]
  BY DEF StoreAdded, Entry
<1> HIDE DEF x, y
<1>4. f \in Entry
  BY <1>1, <1>2, <1>3 DEF Entry
<1>5. /\ f.destination_added = x /\ f.sq_index = y /\ SameRegs(e, f)
      /\ f.num_mem_ops = e.num_mem_ops /\ f.memory_depend_on_me = e.memory_depend_on_me
      /\ f.source_added = e.source_added /\ f.lq_index = e.lq_index
  BY <1>3, <1>4 DEF Entry, SameRegs
<1> QED
  BY <1>2, <1>4, <1>5 DEF IsStoreAdded, x

\* and those of an instruction with no operand left to add.
LEMMA IssuedEntry ==
  ASSUME NEW e \in Entry, NEW f, f = Issued(e)
  PROVE  IsIssued(e, f)
<1>1. f = [e EXCEPT !.scheduled = "COMPLETED", !.executed = "INFLIGHT"]
  BY DEF Issued
<1>2. f \in Entry
  BY <1>1 DEF Entry, Progress
<1> QED
  BY <1>1, <1>2 DEF Entry, IsIssued, SameOperands

-----------------------------------------------------------------------------
(* The state of the core, and what the operations of the queues make of it *)

LoadRec ==
  [id : Nat, addr : Addr \cup {Nil}, rob_index : Slot, data_index : Nat,
   producer_id : Nat \cup {Nil}, translated : Progress, fetched : Progress]
StoreRec ==
  [id : Nat, addr : Addr \cup {Nil}, rob_index : Slot, data_index : Nat,
   translated : Progress, fetched : Progress]
SqRec == [at : [Sq -> StoreRec], head : Sq, tail : Sq]
ReadyRec ==
  [RTE0 : RingRec(ROB_SIZE, Slot), RTE1 : RingRec(ROB_SIZE, Slot),
   RTL0 : RingRec(LQ_SIZE, Lq), RTL1 : RingRec(LQ_SIZE, Lq),
   RTS0 : RingRec(SQ_SIZE, Sq), RTS1 : RingRec(SQ_SIZE, Sq)]
InflightRec == [reg : Int, mem : Int]
Row == UNION {[D -> Int] : D \in SUBSET Src}
GotRec(p) == {g \in [1 .. Len(p) -> Row] : \A i \in 1 .. Len(p) : DOMAIN g[i] = DOMAIN p[i].loads}

CoreRec(p) ==
  [rob : Rob, lq : [Lq -> LoadRec], sq : SqRec, sta : RingRec(STA_SIZE, Nat),
   ready : ReadyRec, inflight : InflightRec, got : GotRec(p)]

\* The types of the parts of the core.
LEMMA CoreFields ==
  ASSUME NEW p, NEW q \in CoreRec(p)
  PROVE  /\ q.rob \in Rob /\ q.lq \in [Lq -> LoadRec] /\ q.sq \in SqRec
         /\ q.sta \in RingRec(STA_SIZE, Nat) /\ q.ready \in ReadyRec
         /\ q.inflight \in InflightRec /\ q.got \in GotRec(p)
BY DEF CoreRec

\* The operations of n[s] operands of each slot s are done.
IsOpsDone(p, q, r, n) ==
  /\ r \in CoreRec(p)
  /\ r.rob.head = q.rob.head /\ r.rob.tail = q.rob.tail
  /\ \A s \in Slot : IsWithoutOps(q.rob.at[s], r.rob.at[s], n[s])
  /\ r.inflight.reg = q.inflight.reg
  /\ r.inflight.mem = q.inflight.mem
       + Cardinality({s \in Slot : n[s] > 0 /\ q.rob.at[s].num_mem_ops = n[s]})
  /\ r.lq = q.lq /\ r.sq = q.sq /\ r.sta = q.sta /\ r.ready = q.ready /\ r.got = q.got

\* Sets of slots are finite,
LEMMA SlotsFinite ==
  ASSUME NEW S \in SUBSET Slot
  PROVE  IsFiniteSet(S) /\ Cardinality(S) \in Nat
<1>1. IsFiniteSet(Slot)
  BY Sizes, IndexSet DEF Slot
<1>2. IsFiniteSet(S)
  BY <1>1, FS_Subset
<1> QED
  BY <1>2, FS_CardinalityType

\* and so are sets of load queue entries.
LEMMA LqFinite ==
  ASSUME NEW S \in SUBSET Lq
  PROVE  IsFiniteSet(S) /\ Cardinality(S) \in Nat
<1>1. IsFiniteSet(Lq)
  BY Sizes, IndexSet DEF Lq
<1>2. IsFiniteSet(S)
  BY <1>1, FS_Subset
<1> QED
  BY <1>2, FS_CardinalityType

\* Operations that complete change the counts of the reorder buffer and nothing else of it.
LEMMA OpsDoneEffect ==
  ASSUME NEW p, NEW q \in CoreRec(p), NEW n \in [Slot -> Int], NEW r, r = OpsDone(q, n)
  PROVE  IsOpsDone(p, q, r, n)
<1> DEFINE F == [s \in Slot |-> WithoutOps(q.rob.at[s], n[s])]
           x == [q.rob EXCEPT !.at = F]
           c == Cardinality({s \in Slot : n[s] > 0 /\ q.rob.at[s].num_mem_ops = n[s]})
           y == [q.inflight EXCEPT !.mem = q.inflight.mem + c]
<1>1. q.rob \in Rob /\ q.inflight \in InflightRec
  BY CoreFields
<1>2. \A s \in Slot : IsWithoutOps(q.rob.at[s], F[s], n[s])
  <2> TAKE s \in Slot
  <2> DEFINE e == q.rob.at[s]
             f == F[s]
             m == n[s]
  <2>1. e \in Entry /\ m \in Int /\ f = WithoutOps(e, m)
    BY <1>1 DEF Rob
  <2> HIDE DEF e, f, m
  <2>2. IsWithoutOps(e, f, m)
    BY <2>1, WithoutOpsEntry
  <2> QED
    BY <2>2 DEF e, f, m
<1>3. F \in [Slot -> Entry]
  BY <1>2 DEF IsWithoutOps
<1>4. c \in Int
  <2> DEFINE S == {s \in Slot : n[s] > 0 /\ q.rob.at[s].num_mem_ops = n[s]}
  <2>1. S \in SUBSET Slot
    OBVIOUS
  <2> HIDE DEF S
  <2>2. Cardinality(S) \in Nat
    BY <2>1, SlotsFinite
  <2> QED
    BY <2>2 DEF S
<1>5. r = [q EXCEPT !.rob = x, !.inflight = y]
  BY DEF OpsDone, CoreRec
<1> HIDE DEF F, c
<1>6. x \in Rob /\ x.at = F /\ x.head = q.rob.head /\ x.tail = q.rob.tail
  BY <1>1, <1>3 DEF Rob
<1>7. y \in InflightRec /\ y.reg = q.inflight.reg /\ y.mem = q.inflight.mem + c
  BY <1>1, <1>4 DEF InflightRec
<1> HIDE DEF x, y
<1>8. /\ r \in CoreRec(p) /\ r.rob = x /\ r.inflight = y
      /\ r.lq = q.lq /\ r.sq = q.sq /\ r.sta = q.sta /\ r.ready = q.ready /\ r.got = q.got
  BY <1>5, <1>6, <1>7 DEF CoreRec
<1> QED
  BY <1>2, <1>6, <1>7, <1>8 DEF IsOpsDone, c

\* The operands of slot s that are in L.
InLoads(q, L, s) == {l \in L : q.lq[l].rob_index = s}

\* The loads in L have their data: load j of instruction i is one of them or keeps what it has.
IsReleased(p, q, r, L, value) ==
  /\ r \in CoreRec(p)
  /\ r.rob.head = q.rob.head /\ r.rob.tail = q.rob.tail
  /\ \A s \in Slot : IsWithoutOps(q.rob.at[s], r.rob.at[s], Cardinality(InLoads(q, L, s)))
  /\ r.inflight.reg = q.inflight.reg
  /\ r.inflight.mem = q.inflight.mem
       + Cardinality({s \in Slot : /\ Cardinality(InLoads(q, L, s)) > 0
                                   /\ q.rob.at[s].num_mem_ops = Cardinality(InLoads(q, L, s))})
  /\ \A l \in Lq : r.lq[l] = IF l \in L THEN NoLoad ELSE q.lq[l]
  /\ r.sq = q.sq /\ r.sta = q.sta /\ r.ready = q.ready
  /\ \A i \in 1 .. Len(p) : \A j \in DOMAIN p[i].loads :
       \/ (\A l \in L : ~(q.lq[l].id = i /\ q.lq[l].data_index = j)) /\ r.got[i][j] = q.got[i][j]
       \/ \E l \in L : q.lq[l].id = i /\ q.lq[l].data_index = j /\ r.got[i][j] = value[l]

\* The type of an empty entry of the load queue.
LEMMA NoLoadIsRec == NoLoad \in LoadRec
BY Sizes DEF NoLoad, LoadRec, Progress, Slot

\* release_load_queue empties the entries L, counts their operations and hands their values
\* over.
LEMMA ReleaseEffect ==
  ASSUME NEW p, NEW q \in CoreRec(p), NEW L \in SUBSET Lq, NEW value, \A l \in L : value[l] \in Int,
         NEW r, r = release_load_queue(q, L, value)
  PROVE  IsReleased(p, q, r, L, value)
<1> DEFINE n == [s \in Slot |-> Cardinality(InLoads(q, L, s))]
           Of(i, j) == {l \in L : q.lq[l].id = i /\ q.lq[l].data_index = j}
           o == OpsDone(q, n)
           x == [l \in Lq |-> IF l \in L THEN NoLoad ELSE q.lq[l]]
           R(i) == [j \in DOMAIN q.got[i] |->
                      IF Of(i, j) = {} THEN q.got[i][j] ELSE value[CHOOSE l \in Of(i, j) : TRUE]]
           y == [i \in DOMAIN q.got |-> R(i)]
<1>1. q.lq \in [Lq -> LoadRec] /\ q.got \in GotRec(p)
  BY CoreFields
<1>2. n \in [Slot -> Int]
  <2>1. \A s \in Slot : Cardinality(InLoads(q, L, s)) \in Nat
    <3> TAKE s \in Slot
    <3> DEFINE S == InLoads(q, L, s)
    <3>1. S \in SUBSET Lq
      BY DEF InLoads
    <3> HIDE DEF S
    <3>2. Cardinality(S) \in Nat
      BY <3>1, LqFinite
    <3> QED
      BY <3>2 DEF S
  <2> QED
    BY <2>1
<1>3. r = [o EXCEPT !.lq = x, !.got = y]
  BY DEF release_load_queue, InLoads
<1>4. IsOpsDone(p, q, o, n)
  <2> HIDE DEF n, o
  <2>1. o = OpsDone(q, n)
    BY DEF o
  <2> QED
    BY <1>2, <2>1, OpsDoneEffect
<1>5. x \in [Lq -> LoadRec]
  BY <1>1, NoLoadIsRec
<1>6. DOMAIN q.got = 1 .. Len(p) /\ \A i \in 1 .. Len(p) :
        q.got[i] \in Row /\ DOMAIN q.got[i] = DOMAIN p[i].loads
  BY <1>1 DEF GotRec
<1>7. \A i \in 1 .. Len(p) :
        /\ R(i) \in Row /\ DOMAIN R(i) = DOMAIN p[i].loads
        /\ \A j \in DOMAIN p[i].loads :
             \/ (\A l \in L : ~(q.lq[l].id = i /\ q.lq[l].data_index = j)) /\ R(i)[j] = q.got[i][j]
             \/ \E l \in L : q.lq[l].id = i /\ q.lq[l].data_index = j /\ R(i)[j] = value[l]
  <2> TAKE i \in 1 .. Len(p)
  <2> DEFINE w == q.got[i]
             D == DOMAIN p[i].loads
  <2>1. PICK E \in SUBSET Src : w \in [E -> Int]
    BY <1>6 DEF Row
  <2>2. D = E /\ DOMAIN w = D
    BY <1>6, <2>1
  <2>3. \A j \in D : R(i)[j] = IF Of(i, j) = {} THEN w[j] ELSE value[CHOOSE l \in Of(i, j) : TRUE]
    BY <2>2
  <2>4. \A j \in D : Of(i, j) # {} => (CHOOSE l \in Of(i, j) : TRUE) \in Of(i, j)
    OBVIOUS
  <2>5. \A j \in D : Of(i, j) \subseteq L
    OBVIOUS
  <2>6. \A j \in D : R(i)[j] \in Int
    <3> TAKE j \in D
    <3>1. CASE Of(i, j) = {}
      BY <2>1, <2>2, <2>3, <3>1
    <3>2. CASE Of(i, j) # {}
      BY <2>3, <2>4, <2>5, <3>2
    <3> QED
      BY <3>1, <3>2
  <2>7. R(i) \in [D -> Int] /\ D \in SUBSET Src
    BY <2>1, <2>2, <2>6
  <2>8. R(i) \in Row
    BY <2>7 DEF Row
  <2>9. ASSUME NEW j \in D
        PROVE  \/ (\A l \in L : ~(q.lq[l].id = i /\ q.lq[l].data_index = j)) /\ R(i)[j] = w[j]
               \/ \E l \in L : q.lq[l].id = i /\ q.lq[l].data_index = j /\ R(i)[j] = value[l]
    <3>1. CASE Of(i, j) = {}
      <4>1. \A l \in L : ~(q.lq[l].id = i /\ q.lq[l].data_index = j)
        BY <3>1
      <4>2. R(i)[j] = w[j]
        BY <2>3, <3>1
      <4> QED
        BY <4>1, <4>2
    <3>2. CASE Of(i, j) # {}
      <4>1. PICK l \in Of(i, j) : R(i)[j] = value[l]
        BY <2>3, <2>4, <3>2
      <4> QED
        BY <4>1
    <3> QED
      BY <3>1, <3>2
  <2> QED
    BY <2>7, <2>8, <2>9
<1>8. y \in GotRec(p) /\ \A i \in 1 .. Len(p) : y[i] = R(i)
  <2> HIDE DEF R
  <2> QED
    BY <1>6, <1>7 DEF GotRec
<1> HIDE DEF x, y, o, R
<1>9. /\ r \in CoreRec(p) /\ r.lq = x /\ r.got = y
      /\ r.rob = o.rob /\ r.inflight = o.inflight
      /\ r.sq = q.sq /\ r.sta = q.sta /\ r.ready = q.ready
  BY <1>3, <1>4, <1>5, <1>8 DEF CoreRec, IsOpsDone
<1>10. /\ r.rob.head = q.rob.head /\ r.rob.tail = q.rob.tail
       /\ \A s \in Slot : IsWithoutOps(q.rob.at[s], r.rob.at[s], n[s])
       /\ r.inflight.reg = q.inflight.reg
       /\ r.inflight.mem = q.inflight.mem
            + Cardinality({s \in Slot : n[s] > 0 /\ q.rob.at[s].num_mem_ops = n[s]})
  BY <1>4, <1>9 DEF IsOpsDone
<1>11. {s \in Slot : n[s] > 0 /\ q.rob.at[s].num_mem_ops = n[s]}
       = {s \in Slot : /\ Cardinality(InLoads(q, L, s)) > 0
                       /\ q.rob.at[s].num_mem_ops = Cardinality(InLoads(q, L, s))}
  OBVIOUS
<1>12. \A s \in Slot : n[s] = Cardinality(InLoads(q, L, s))
  OBVIOUS
<1>13. \A l \in Lq : x[l] = IF l \in L THEN NoLoad ELSE q.lq[l]
  BY DEF x
<1>14. \A i \in 1 .. Len(p) : \A j \in DOMAIN p[i].loads :
         \/ (\A l \in L : ~(q.lq[l].id = i /\ q.lq[l].data_index = j)) /\ r.got[i][j] = q.got[i][j]
         \/ \E l \in L : q.lq[l].id = i /\ q.lq[l].data_index = j /\ r.got[i][j] = value[l]
  <2> TAKE i \in 1 .. Len(p)
  <2>1. r.got[i] = R(i)
    BY <1>8, <1>9
  <2> QED
    BY <1>7, <2>1
<1>15. \A l \in Lq : r.lq[l] = IF l \in L THEN NoLoad ELSE q.lq[l]
  BY <1>9, <1>13
<1>16. \A s \in Slot : IsWithoutOps(q.rob.at[s], r.rob.at[s], Cardinality(InLoads(q, L, s)))
  BY <1>10, <1>12
<1>17. r.inflight.mem = q.inflight.mem
         + Cardinality({s \in Slot : /\ Cardinality(InLoads(q, L, s)) > 0
                                     /\ q.rob.at[s].num_mem_ops = Cardinality(InLoads(q, L, s))})
  BY <1>10, <1>11
<1> HIDE DEF n
<1>18. r \in CoreRec(p) /\ r.sq = q.sq /\ r.sta = q.sta /\ r.ready = q.ready
  BY <1>9
<1> QED
  BY <1>10, <1>14, <1>15, <1>16, <1>17, <1>18 DEF IsReleased

\* The buffer c has f in slot s and is the same as b elsewhere.
Replaces(b, c, s, f) ==
  /\ c \in Rob /\ c.head = b.head /\ c.tail = b.tail
  /\ c.at[s] = f
  /\ \A t \in Slot : t # s => c.at[t] = b.at[t]

\* A write to one slot.
LEMMA ReplacedSlot ==
  ASSUME NEW b \in Rob, NEW s \in Slot, NEW f \in Entry, NEW c, c = [b EXCEPT !.at[s] = f]
  PROVE  Replaces(b, c, s, f)
BY DEF Rob, Replaces

\* An entry of the load queue as it is added: it waits for store pr, or for none.
LoadOf(i, a, s, j, pr, tr) ==
  [id |-> i, addr |-> a, rob_index |-> s, data_index |-> j,
   producer_id |-> pr, translated |-> tr, fetched |-> "NO"]

\* The entry of a load that waits for a store.
LEMMA WaitingLoad ==
  ASSUME NEW i, NEW a, NEW s, NEW j, NEW i2
  PROVE  [LoadOf(i, a, s, j, Nil, "NO") EXCEPT !.producer_id = i2, !.translated = "INFLIGHT"]
         = LoadOf(i, a, s, j, i2, "INFLIGHT")
<1>1. [LoadOf(i, a, s, j, Nil, "NO") EXCEPT !.producer_id = i2] = LoadOf(i, a, s, j, i2, "NO")
  BY DEF LoadOf
<1>2. [LoadOf(i, a, s, j, i2, "NO") EXCEPT !.translated = "INFLIGHT"] = LoadOf(i, a, s, j, i2, "INFLIGHT")
  BY DEF LoadOf
<1>3. [LoadOf(i, a, s, j, Nil, "NO") EXCEPT !.producer_id = i2, !.translated = "INFLIGHT"]
      = [[LoadOf(i, a, s, j, Nil, "NO") EXCEPT !.producer_id = i2] EXCEPT !.translated = "INFLIGHT"]
  OBVIOUS
<1> QED
  BY <1>1, <1>2, <1>3

\* The type of the entry of a load.
LEMMA LoadOfIsRec ==
  ASSUME NEW i \in Nat, NEW a \in Addr, NEW s \in Slot, NEW j \in Src,
         NEW pr \in Nat \cup {Nil}, NEW tr \in Progress
  PROVE  LoadOf(i, a, s, j, pr, tr) \in LoadRec
BY DEF LoadOf, LoadRec, Progress, Src

\* Load j of the instruction i in slot s takes entry l and asks for its translation.
AddsLoad(p, q, r, s, j, l, i, a) ==
  /\ r \in CoreRec(p) /\ a \in Addr
  /\ r.rob.head = q.rob.head /\ r.rob.tail = q.rob.tail
  /\ IsLoadAdded(q.rob.at[s], r.rob.at[s], j, l)
  /\ \A t \in Slot : t # s => r.rob.at[t] = q.rob.at[t]
  /\ \A m \in Lq : r.lq[m] = IF m = l THEN LoadOf(i, a, s, j, Nil, "NO") ELSE q.lq[m]
  /\ r.ready = [q.ready EXCEPT !.RTL0 = Push(q.ready.RTL0, l)]
  /\ r.sq = q.sq /\ r.sta = q.sta /\ r.inflight = q.inflight /\ r.got = q.got

\* It takes entry l and waits for the store of instruction i2, in slot w.
AddsWaiting(p, q, r, s, j, l, i, a, w, i2) ==
  /\ r \in CoreRec(p) /\ a \in Addr /\ w \in Slot /\ w # s /\ i2 \in Nat
  /\ r.rob.head = q.rob.head /\ r.rob.tail = q.rob.tail
  /\ IsLoadAdded(q.rob.at[s], r.rob.at[s], j, l)
  /\ IsWaitedFor(q.rob.at[w], r.rob.at[w], s)
  /\ \A t \in Slot : t # s /\ t # w => r.rob.at[t] = q.rob.at[t]
  /\ \A m \in Lq : r.lq[m] = IF m = l THEN LoadOf(i, a, s, j, i2, "INFLIGHT") ELSE q.lq[m]
  /\ r.ready = q.ready /\ r.sq = q.sq /\ r.sta = q.sta
  /\ r.inflight = q.inflight /\ r.got = q.got

TakesLoad(p, q, x, s, j, l) ==
  /\ x \in CoreRec(p)
  /\ x.rob.head = q.rob.head /\ x.rob.tail = q.rob.tail
  /\ IsLoadAdded(q.rob.at[s], x.rob.at[s], j, l)
  /\ \A t \in Slot : t # s => x.rob.at[t] = q.rob.at[t]
  /\ x.lq = q.lq /\ x.ready = q.ready /\ x.sq = q.sq /\ x.sta = q.sta
  /\ x.inflight = q.inflight /\ x.got = q.got

\* What add_load_queue does to the reorder buffer,
LEMMA LoadTaken ==
  ASSUME NEW p, NEW q \in CoreRec(p), NEW s \in Slot, NEW j \in Src, NEW l \in Lq,
         NEW x, x = [q EXCEPT !.rob.at[s] = LoadAdded(@, j, l)]
  PROVE  TakesLoad(p, q, x, s, j, l)
<1> DEFINE b == q.rob
           e == b.at[s]
           f == LoadAdded(e, j, l)
           c == [b EXCEPT !.at[s] = f]
<1>1. b \in Rob
  BY CoreFields
<1>2. e \in Entry
  BY <1>1 DEF Rob
<1>3. x = [q EXCEPT !.rob = c]
  BY DEF CoreRec
<1> HIDE DEF b, e, f, c
<1>4. IsLoadAdded(e, f, j, l)
  BY <1>2, LoadAddedEntry DEF f
<1>5. f \in Entry
  BY <1>4 DEF IsLoadAdded
<1>6. Replaces(b, c, s, f)
  BY <1>1, <1>5, ReplacedSlot DEF c
<1>7. c \in Rob
  BY <1>6 DEF Replaces
<1>8. /\ x \in CoreRec(p) /\ x.rob = c /\ x.lq = q.lq /\ x.ready = q.ready /\ x.sq = q.sq
      /\ x.sta = q.sta /\ x.inflight = q.inflight /\ x.got = q.got
  BY <1>3, <1>7 DEF CoreRec
<1> QED
  BY <1>4, <1>6, <1>8 DEF TakesLoad, Replaces, b, e

\* for a load that goes to the DTLB,
LEMMA AddedLoad ==
  ASSUME NEW p, NEW q \in CoreRec(p), NEW s \in Slot, NEW j \in Src, NEW l \in Lq,
         NEW i \in Nat, NEW a \in Addr,
         NEW x, x = [q EXCEPT !.rob.at[s] = LoadAdded(@, j, l)],
         NEW e, e = [NoLoad EXCEPT !.id = i, !.addr = a, !.rob_index = s, !.data_index = j],
         NEW r, r = [x EXCEPT !.lq[l] = e, !.ready.RTL0 = Push(@, l)]
  PROVE  AddsLoad(p, q, r, s, j, l, i, a)
<1>1. /\ x \in CoreRec(p)
      /\ x.rob.head = q.rob.head /\ x.rob.tail = q.rob.tail
      /\ IsLoadAdded(q.rob.at[s], x.rob.at[s], j, l)
      /\ \A t \in Slot : t # s => x.rob.at[t] = q.rob.at[t]
      /\ x.lq = q.lq /\ x.ready = q.ready /\ x.sq = q.sq /\ x.sta = q.sta
      /\ x.inflight = q.inflight /\ x.got = q.got
  <2>1. TakesLoad(p, q, x, s, j, l)
    BY LoadTaken
  <2> QED
    BY <2>1 DEF TakesLoad
<1>2. e = LoadOf(i, a, s, j, Nil, "NO")
  BY DEF NoLoad, LoadOf
<1>3. e \in LoadRec
  BY <1>2, LoadOfIsRec DEF Progress
<1> DEFINE y == [q.lq EXCEPT ![l] = e]
           z == [q.ready EXCEPT !.RTL0 = Push(q.ready.RTL0, l)]
<1>4. q.lq \in [Lq -> LoadRec] /\ q.ready \in ReadyRec
  BY CoreFields
<1>5. y \in [Lq -> LoadRec] /\ \A m \in Lq : y[m] = IF m = l THEN e ELSE q.lq[m]
  BY <1>3, <1>4
<1>6. z \in ReadyRec
  <2>1. q.ready.RTL0 \in RingRec(LQ_SIZE, Lq)
    BY <1>4 DEF ReadyRec
  <2>2. Push(q.ready.RTL0, l) \in RingRec(LQ_SIZE, Lq)
    BY <2>1, Sizes, PushIsRec
  <2> QED
    BY <1>4, <2>2 DEF ReadyRec
<1>7. r = [x EXCEPT !.lq = y, !.ready = z]
  BY <1>1 DEF CoreRec
<1> HIDE DEF y, z
<1>8. /\ r \in CoreRec(p) /\ r.rob = x.rob /\ r.lq = y /\ r.ready = z /\ r.sq = x.sq
      /\ r.sta = x.sta /\ r.inflight = x.inflight /\ r.got = x.got
  BY <1>1, <1>5, <1>6, <1>7 DEF CoreRec
<1> QED
  BY <1>1, <1>2, <1>5, <1>8 DEF AddsLoad, z

\* and for one that waits for an older store.
LEMMA AddedWaiting ==
  ASSUME NEW p, NEW q \in CoreRec(p), NEW s \in Slot, NEW j \in Src, NEW l \in Lq,
         NEW i \in Nat, NEW a \in Addr, NEW w \in Slot, w # s, NEW i2 \in Nat,
         NEW x, x = [q EXCEPT !.rob.at[s] = LoadAdded(@, j, l)],
         NEW e, e = [NoLoad EXCEPT !.id = i, !.addr = a, !.rob_index = s, !.data_index = j],
         NEW r, r = [x EXCEPT !.rob.at[w] = WaitedFor(@, s),
                              !.lq[l] = [e EXCEPT !.producer_id = i2, !.translated = "INFLIGHT"]]
  PROVE  AddsWaiting(p, q, r, s, j, l, i, a, w, i2)
<1>1. /\ x \in CoreRec(p)
      /\ x.rob.head = q.rob.head /\ x.rob.tail = q.rob.tail
      /\ IsLoadAdded(q.rob.at[s], x.rob.at[s], j, l)
      /\ \A t \in Slot : t # s => x.rob.at[t] = q.rob.at[t]
      /\ x.lq = q.lq /\ x.ready = q.ready /\ x.sq = q.sq /\ x.sta = q.sta
      /\ x.inflight = q.inflight /\ x.got = q.got
  <2>1. TakesLoad(p, q, x, s, j, l)
    BY LoadTaken
  <2> QED
    BY <2>1 DEF TakesLoad
<1> DEFINE g == [e EXCEPT !.producer_id = i2, !.translated = "INFLIGHT"]
           y == [q.lq EXCEPT ![l] = g]
           b == x.rob
           u == b.at[w]
           f == WaitedFor(u, s)
           c == [b EXCEPT !.at[w] = f]
<1>2. g = LoadOf(i, a, s, j, i2, "INFLIGHT")
  <2>1. e = LoadOf(i, a, s, j, Nil, "NO")
    BY DEF NoLoad, LoadOf
  <2>2. g = [LoadOf(i, a, s, j, Nil, "NO") EXCEPT !.producer_id = i2, !.translated = "INFLIGHT"]
    BY <2>1
  <2> HIDE DEF g
  <2> QED
    BY <2>2, WaitingLoad
<1>3. g \in LoadRec
  BY <1>2, LoadOfIsRec DEF Progress
<1>4. q.lq \in [Lq -> LoadRec] /\ b \in Rob
  BY <1>1, CoreFields
<1>5. y \in [Lq -> LoadRec] /\ \A m \in Lq : y[m] = IF m = l THEN g ELSE q.lq[m]
  <2> HIDE DEF g
  <2> QED
    BY <1>3, <1>4
<1>6. u \in Entry
  BY <1>4 DEF Rob
<1>7. r = [x EXCEPT !.rob = c, !.lq = y]
  BY <1>1 DEF CoreRec
<1> HIDE DEF u, f, c, y, b
<1>8. IsWaitedFor(u, f, s)
  BY <1>6, WaitedForEntry DEF f
<1>9. f \in Entry
  BY <1>8 DEF IsWaitedFor
<1>10. Replaces(b, c, w, f)
  BY <1>4, <1>9, ReplacedSlot DEF c
<1>11. c \in Rob
  BY <1>10 DEF Replaces
<1>12. /\ r \in CoreRec(p) /\ r.rob = c /\ r.lq = y /\ r.ready = x.ready /\ r.sq = x.sq
       /\ r.sta = x.sta /\ r.inflight = x.inflight /\ r.got = x.got
  BY <1>1, <1>5, <1>7, <1>11 DEF CoreRec
<1>13. IsWaitedFor(q.rob.at[w], r.rob.at[w], s)
  BY <1>1, <1>8, <1>10, <1>12 DEF Replaces, u, b
<1>14. r.rob.at[s] = x.rob.at[s] /\ \A t \in Slot : t # s /\ t # w => r.rob.at[t] = q.rob.at[t]
  BY <1>1, <1>10, <1>12 DEF Replaces, b
<1>15. r.rob.head = q.rob.head /\ r.rob.tail = q.rob.tail
  BY <1>1, <1>10, <1>12 DEF Replaces, b
<1>16. \A m \in Lq : r.lq[m] = IF m = l THEN LoadOf(i, a, s, j, i2, "INFLIGHT") ELSE q.lq[m]
  <2> HIDE DEF g
  <2> QED
    BY <1>2, <1>5, <1>12
<1>17. IsLoadAdded(q.rob.at[s], r.rob.at[s], j, l)
  BY <1>1, <1>14
<1> HIDE DEF g
<1> QED
  BY <1>1, <1>12, <1>13, <1>14, <1>15, <1>16, <1>17 DEF AddsWaiting

\* An entry of the store queue as it is added.
StoreOf(i, a, s, k) ==
  [id |-> i, addr |-> a, rob_index |-> s, data_index |-> k, translated |-> "NO", fetched |-> "NO"]

\* Store k of the instruction i in slot s takes the entry at the tail.
AddsStore(p, q, r, s, k, i, a) ==
  /\ r \in CoreRec(p) /\ a \in Addr
  /\ r.rob.head = q.rob.head /\ r.rob.tail = q.rob.tail
  /\ IsStoreAdded(q.rob.at[s], r.rob.at[s], k, q.sq.tail)
  /\ \A t \in Slot : t # s => r.rob.at[t] = q.rob.at[t]
  /\ \A f \in Sq : r.sq.at[f] = IF f = q.sq.tail THEN StoreOf(i, a, s, k) ELSE q.sq.at[f]
  /\ r.sq.head = q.sq.head /\ r.sq.tail = (q.sq.tail + 1) % SQ_SIZE
  /\ r.sta = Pop(q.sta)
  /\ r.ready = [q.ready EXCEPT !.RTS0 = Push(q.ready.RTS0, q.sq.tail)]
  /\ r.lq = q.lq /\ r.inflight = q.inflight /\ r.got = q.got

\* The type of an empty entry of the store queue.
LEMMA NoStoreIsRec == NoStore \in StoreRec
BY Sizes DEF NoStore, StoreRec, Progress, Slot

\* The core q with f as the entry of store k of slot s.
WithStore(q, s, k, f, e) ==
  [q EXCEPT !.sq.at[f] = e, !.sq.tail = (@ + 1) % SQ_SIZE,
            !.rob.at[s] = StoreAdded(@, k, f),
            !.sta = Pop(@),
            !.ready.RTS0 = Push(@, f)]

\* What add_store_queue does to the state.
LEMMA AddedStore ==
  ASSUME NEW p, NEW q \in CoreRec(p), NEW s \in Slot, NEW k \in Dst, NEW f, f = q.sq.tail,
         NEW i \in Nat, NEW a \in Addr,
         NEW e, e = [NoStore EXCEPT !.id = i, !.addr = a, !.rob_index = s, !.data_index = k],
         NEW r, r = WithStore(q, s, k, f, e)
  PROVE  AddsStore(p, q, r, s, k, i, a)
<1> DEFINE b == q.rob
           u == b.at[s]
           v == StoreAdded(u, k, f)
           c == [b EXCEPT !.at[s] = v]
           x == [q.sq.at EXCEPT ![f] = e]
           y == [q.sq EXCEPT !.at = x, !.tail = (f + 1) % SQ_SIZE]
           z == [q.ready EXCEPT !.RTS0 = Push(q.ready.RTS0, f)]
<1>1. b \in Rob /\ q.sq \in SqRec /\ q.ready \in ReadyRec /\ q.sta \in RingRec(STA_SIZE, Nat)
  BY CoreFields
<1>2. e = StoreOf(i, a, s, k)
  BY DEF NoStore, StoreOf
<1>3. e \in StoreRec
  BY <1>2 DEF StoreOf, StoreRec, Progress, Dst
<1>4. f \in Sq
  BY <1>1 DEF SqRec
<1>5. u \in Entry
  BY <1>1 DEF Rob
<1>6. r = [q EXCEPT !.sq = y, !.rob = c, !.sta = Pop(q.sta), !.ready = z]
  BY DEF CoreRec, WithStore
<1> HIDE DEF u, v, c, b
<1>7. IsStoreAdded(u, v, k, f)
  BY <1>4, <1>5, StoreAddedEntry DEF v
<1>8. v \in Entry
  BY <1>7 DEF IsStoreAdded
<1>9. Replaces(b, c, s, v)
  BY <1>1, <1>8, ReplacedSlot DEF c
<1>10. c \in Rob
  BY <1>9 DEF Replaces
<1>11. x \in [Sq -> StoreRec] /\ \A g \in Sq : x[g] = IF g = f THEN e ELSE q.sq.at[g]
  BY <1>1, <1>3, <1>4 DEF SqRec
<1>12. (f + 1) % SQ_SIZE \in Sq
  BY <1>4, Sizes DEF Sq
<1> HIDE DEF x
<1>13. y \in SqRec /\ y.at = x /\ y.head = q.sq.head /\ y.tail = (f + 1) % SQ_SIZE
  BY <1>1, <1>11, <1>12 DEF SqRec
<1>14. z \in ReadyRec
  <2>1. q.ready.RTS0 \in RingRec(SQ_SIZE, Sq)
    BY <1>1 DEF ReadyRec
  <2>2. Push(q.ready.RTS0, f) \in RingRec(SQ_SIZE, Sq)
    BY <1>4, <2>1, Sizes, PushIsRec
  <2> QED
    BY <1>1, <2>2 DEF ReadyRec
<1>15. Pop(q.sta) \in RingRec(STA_SIZE, Nat)
  BY <1>1, Sizes, PopIsRec
<1> HIDE DEF y, z
<1>16. /\ r \in CoreRec(p) /\ r.rob = c /\ r.sq = y /\ r.ready = z /\ r.sta = Pop(q.sta)
       /\ r.lq = q.lq /\ r.inflight = q.inflight /\ r.got = q.got
  BY <1>6, <1>10, <1>13, <1>14, <1>15 DEF CoreRec
<1>17. /\ IsStoreAdded(q.rob.at[s], r.rob.at[s], k, q.sq.tail)
       /\ \A t \in Slot : t # s => r.rob.at[t] = q.rob.at[t]
       /\ r.rob.head = q.rob.head /\ r.rob.tail = q.rob.tail
  BY <1>7, <1>9, <1>16 DEF Replaces, u, b
<1>18. \A g \in Sq : r.sq.at[g] = IF g = q.sq.tail THEN StoreOf(i, a, s, k) ELSE q.sq.at[g]
  BY <1>2, <1>11, <1>13, <1>16
<1>19. r.sq.head = q.sq.head /\ r.sq.tail = (q.sq.tail + 1) % SQ_SIZE
  BY <1>13, <1>16
<1> QED
  BY <1>16, <1>17, <1>18, <1>19 DEF AddsStore, z

\* The entry check_and_add_lsq finds for a load is free.
LEMMA FreeLoadIsFree ==
  ASSUME NEW q, LqHasRoom(q)
  PROVE  FreeLoad(q) \in Lq /\ q.lq[FreeLoad(q)].addr = Nil
<1> DEFINE S == {l \in Lq : q.lq[l].addr = Nil}
<1>1. S \in SUBSET Nat /\ S # {}
  BY Sizes DEF LqHasRoom, Lq
<1>2. PICK l \in S : \A m \in S : l <= m
  <2> HIDE DEF S
  <2> QED
    BY <1>1, LeastNatural
<1>3. l \in Lq /\ q.lq[l].addr = Nil
  OBVIOUS
<1>4. \A m \in 0 .. l - 1 : q.lq[m].addr # Nil
  <2> TAKE m \in 0 .. l - 1
  <2>1. m \in Lq /\ ~(l <= m)
    BY <1>3, Sizes DEF Lq
  <2> QED
    BY <1>2, <2>1
<1> QED
  BY <1>3, <1>4 DEF FreeLoad

\* The instructions of the slots are in the trace.
IdsInTrace == \A t \in Slot : At(t).id \in 0 .. Len(program)

\* The store add_load_queue selects is the youngest of the older stores to the address.
LEMMA YoungestIsLast ==
  ASSUME NEW S \in SUBSET Slot, S # {}, IdsInTrace, Len(program) \in Nat
  PROVE  Youngest(S) \in S /\ \A t \in S : At(t).id <= At(Youngest(S)).id
<1> DEFINE N == {At(t).id : t \in S}
<1>1. N \in SUBSET (0 .. Len(program)) /\ N # {}
  BY DEF IdsInTrace
<1>2. PICK m \in N : \A i \in N : i <= m
  <2> HIDE DEF N
  <2> QED
    BY <1>1, GreatestNatural
<1>3. PICK s \in S : At(s).id = m
  OBVIOUS
<1>4. \A t \in S : At(t).id <= At(s).id
  <2> TAKE t \in S
  <2>1. At(t).id \in N
    OBVIOUS
  <2> HIDE DEF N
  <2> QED
    BY <1>2, <1>3, <2>1
<1> QED
  BY <1>4 DEF Youngest

\* Load j of slot s is added to the queue.
LoadGoes(q, r, s, j) ==
  LET a == InstrIn(s).loads[j]
      i == At(s).id
      l == FreeLoad(q)
      w == NearestStore(s, a)
  IN IF OlderStores(s, a) = {} THEN AddsLoad(program, q, r, s, j, l, i, a)
     ELSE \E x : /\ w \in OlderStores(s, a)
                 /\ AddsWaiting(program, q, x, s, j, l, i, a, w, At(w).id)
                 /\ IF Forwarders(q, At(w).id, a) = {} THEN r = x
                    ELSE \E f \in Forwarders(q, At(w).id, a) :
                           IsReleased(program, x, r, {l}, [m \in {l} |-> q.sq.at[f].id])

\* add_load_queue forwards, waits or goes to the DTLB.
LEMMA AddLoadGoes ==
  ASSUME NEW q \in CoreRec(program), NEW s \in Slot, program \in Programs, rob \in Rob,
         IdsInTrace, InRob(s), NEW j \in DOMAIN InstrIn(s).loads, LqHasRoom(q),
         NEW r, r = add_load_queue(q, s, j)
  PROVE  LoadGoes(q, r, s, j)
<1> DEFINE a == InstrIn(s).loads[j]
           i == At(s).id
           l == FreeLoad(q)
           w == NearestStore(s, a)
           e == [NoLoad EXCEPT !.id = i, !.addr = a, !.rob_index = s, !.data_index = j]
           x == [q EXCEPT !.rob.at[s] = LoadAdded(@, j, l)]
           y == [x EXCEPT !.rob.at[w] = WaitedFor(@, s),
                          !.lq[l] = [e EXCEPT !.producer_id = At(w).id, !.translated = "INFLIGHT"]]
           z == [x EXCEPT !.lq[l] = e, !.ready.RTL0 = Push(@, l)]
           F == Forwarders(q, At(w).id, a)
<1>1. Len(program) \in Nat /\ i \in 1 .. Len(program) /\ i \in Nat
  BY ProgramsAssumption, LenProperties DEF IdsInTrace, InRob
<1>2. j \in Src /\ a \in Addr
  <2>1. /\ DOMAIN program[i].loads \subseteq Src
        /\ program[i].loads \in Seq(Addr) /\ Len(program[i].loads) \in Nat
        /\ DOMAIN program[i].loads = 1 .. Len(program[i].loads)
    <3> HIDE DEF i
    <3> QED
      BY <1>1, ProgramFacts
  <2>2. j \in DOMAIN program[i].loads
    BY DEF InstrIn
  <2> QED
    BY <2>1, <2>2, ElementOfSeq DEF InstrIn
<1>3. l \in Lq
  BY FreeLoadIsFree
<1>4. r = IF OlderStores(s, a) = {} THEN z
          ELSE IF F = {} THEN y
          ELSE release_load_queue(y, {l}, [m \in {l} |-> q.sq.at[CHOOSE f \in F : TRUE].id])
  BY DEF add_load_queue
<1>5. CASE OlderStores(s, a) = {}
  <2>1. AddsLoad(program, q, z, s, j, l, i, a)
    <3> HIDE DEF a, i, l, x, e, z
    <3>1. x = [q EXCEPT !.rob.at[s] = LoadAdded(@, j, l)]
      BY DEF x
    <3>2. e = [NoLoad EXCEPT !.id = i, !.addr = a, !.rob_index = s, !.data_index = j]
      BY DEF e
    <3>3. z = [x EXCEPT !.lq[l] = e, !.ready.RTL0 = Push(@, l)]
      BY DEF z
    <3> QED
      BY <1>1, <1>2, <1>3, <3>1, <3>2, <3>3, AddedLoad
  <2>2. r = z
    BY <1>4, <1>5
  <2> HIDE DEF z
  <2> QED
    BY <1>5, <2>1, <2>2 DEF LoadGoes
<1>6. CASE OlderStores(s, a) # {}
  <2>1. OlderStores(s, a) \in SUBSET Slot
    BY DEF OlderStores
  <2>2. w \in OlderStores(s, a)
    BY <1>1, <1>6, <2>1, YoungestIsLast DEF NearestStore
  <2>3. w \in Slot /\ w # s /\ At(w).id \in Nat
    <3>1. Older(w, s) /\ w \in Slot
      BY <2>2 DEF OlderStores
    <3>2. At(w).id < At(s).id /\ At(w).id \in 0 .. Len(program)
      BY <3>1 DEF Older, IdsInTrace
    <3> QED
      BY <1>1, <3>1, <3>2
  <2> DEFINE i2 == At(w).id
  <2>4. AddsWaiting(program, q, y, s, j, l, i, a, w, i2)
    <3> HIDE DEF a, i, l, x, e, y, w, i2
    <3>1. x = [q EXCEPT !.rob.at[s] = LoadAdded(@, j, l)]
      BY DEF x
    <3>2. e = [NoLoad EXCEPT !.id = i, !.addr = a, !.rob_index = s, !.data_index = j]
      BY DEF e
    <3>3. y = [x EXCEPT !.rob.at[w] = WaitedFor(@, s),
                        !.lq[l] = [e EXCEPT !.producer_id = i2, !.translated = "INFLIGHT"]]
      BY DEF y, i2
    <3>4. i2 \in Nat
      BY <2>3 DEF i2
    <3> QED
      BY <1>1, <1>2, <1>3, <2>3, <3>1, <3>2, <3>3, <3>4, AddedWaiting
  <2>5. CASE F = {}
    <3>1. r = y
      BY <1>4, <1>6, <2>5
    <3> HIDE DEF y
    <3> QED
      BY <1>6, <2>2, <2>4, <2>5, <3>1 DEF LoadGoes
  <2>6. CASE F # {}
    <3> DEFINE f == CHOOSE f \in F : TRUE
               v == [m \in {l} |-> q.sq.at[f].id]
    <3>1. f \in F /\ f \in Sq
      BY <2>6 DEF Forwarders
    <3>2. r = release_load_queue(y, {l}, v)
      BY <1>4, <1>6, <2>6
    <3>3. y \in CoreRec(program)
      BY <2>4 DEF AddsWaiting
    <3>4. q.sq.at[f].id \in Nat
      <4>1. q.sq.at[f] \in StoreRec
        BY <3>1, CoreFields DEF SqRec
      <4> QED
        BY <4>1 DEF StoreRec
    <3>5. \A m \in {l} : v[m] \in Int
      BY <3>4
    <3>6. IsReleased(program, y, r, {l}, v)
      <4> HIDE DEF y, v, l, f
      <4>1. {l} \in SUBSET Lq
        BY <1>3
      <4> QED
        BY <3>2, <3>3, <3>5, <4>1, ReleaseEffect
    <3> HIDE DEF y, f
    <3> QED
      BY <1>6, <2>2, <2>4, <2>6, <3>1, <3>6 DEF LoadGoes
  <2> QED
    BY <2>5, <2>6
<1> QED
  BY <1>5, <1>6

\* Store k of slot s is added to the queue.
StoreGoes(q, r, s, k) == AddsStore(program, q, r, s, k, At(s).id, InstrIn(s).stores[k])

\* add_store_queue takes the entry at the tail.
LEMMA AddStoreGoes ==
  ASSUME NEW q \in CoreRec(program), NEW s \in Slot, program \in Programs,
         IdsInTrace, InRob(s), NEW k \in DOMAIN InstrIn(s).stores,
         NEW r, r = add_store_queue(q, s, k)
  PROVE  StoreGoes(q, r, s, k)
<1> DEFINE a == InstrIn(s).stores[k]
           i == At(s).id
           f == q.sq.tail
           e == [NoStore EXCEPT !.id = i, !.addr = a, !.rob_index = s, !.data_index = k]
<1>1. Len(program) \in Nat /\ i \in 1 .. Len(program) /\ i \in Nat
  BY ProgramsAssumption, LenProperties DEF IdsInTrace, InRob
<1>2. k \in Dst /\ a \in Addr
  <2>1. /\ DOMAIN program[i].stores \subseteq Dst
        /\ program[i].stores \in Seq(Addr) /\ Len(program[i].stores) \in Nat
        /\ DOMAIN program[i].stores = 1 .. Len(program[i].stores)
    <3> HIDE DEF i
    <3> QED
      BY <1>1, ProgramFacts
  <2>2. k \in DOMAIN program[i].stores
    BY DEF InstrIn
  <2> QED
    BY <2>1, <2>2, ElementOfSeq DEF InstrIn
<1>3. r = [q EXCEPT !.sq.at[f] = e, !.sq.tail = (@ + 1) % SQ_SIZE,
                    !.rob.at[s] = StoreAdded(@, k, f),
                    !.sta = Pop(@),
                    !.ready.RTS0 = Push(@, f)]
  BY DEF add_store_queue
<1>4. AddsStore(program, q, r, s, k, i, a)
  <2> HIDE DEF a, i, f, e
  <2>1. f = q.sq.tail
    BY DEF f
  <2>2. e = [NoStore EXCEPT !.id = i, !.addr = a, !.rob_index = s, !.data_index = k]
    BY DEF e
  <2>3. r = WithStore(q, s, k, f, e)
    BY <1>3 DEF WithStore, f, e
  <2> QED
    BY <1>1, <1>2, <2>1, <2>2, <2>3, AddedStore
<1> QED
  BY <1>4 DEF StoreGoes

-----------------------------------------------------------------------------
(* The turns of check_and_add_lsq *)

LoadTurn(x, s, j) ==
  IF j \notin At(s).source_added /\ LqHasRoom(x) THEN add_load_queue(x, s, j) ELSE x

StoreTurn(x, s, k) ==
  IF k \notin At(s).destination_added /\ MayAddStore(x, s) THEN add_store_queue(x, s, k) ELSE x

\* What each turn keeps, from V[j - 1] to V[j], the loads of slot s keep.
LEMMA LoadsByTurns ==
  ASSUME NEW s, NEW n \in Nat, n = Len(InstrIn(s).loads), NEW V, NEW q \in V[0],
         \A j \in 1 .. n : \A x \in V[j - 1] : LoadTurn(x, s, j) \in V[j]
  PROVE  AddLoads(q, s) \in V[n]
<1> DEFINE U == UNION {V[i] : i \in 0 .. n}
           turn == [y \in (1 .. n) \X U |-> LoadTurn(y[2], s, y[1])]
           Loop(g) == [j \in 0 .. n |-> IF j = 0 THEN q ELSE LoadTurn(g[j - 1], s, j)]
           add == CHOOSE g : g = Loop(g)
<1>1. \A j \in 1 .. n : j - 1 \in 0 .. n
  OBVIOUS
<1>2. \A i \in 0 .. n : \A x \in V[i] : x \in U
  OBVIOUS
<1> HIDE DEF U
<1>3. \A j \in 1 .. n : \A x \in V[j - 1] : turn[<<j, x>>] = LoadTurn(x, s, j)
  BY <1>1, <1>2
<1> HIDE DEF turn
<1>4. \A j \in 1 .. n : \A x \in V[j - 1] : turn[<<j, x>>] \in V[j]
  BY <1>3
<1>5. PICK f : /\ f = [i \in 0 .. n |-> f[i]]
               /\ Results(f, n, q, turn)
               /\ \A i \in 0 .. n : f[i] \in V[i]
  BY <1>4, LoopStays
<1>6. \A j \in 1 .. n : f[j] = LoadTurn(f[j - 1], s, j)
  BY <1>1, <1>3, <1>5 DEF Results
<1>7. f = Loop(f)
  <2>1. \A i \in 0 .. n : i = 0 \/ i \in 1 .. n
    OBVIOUS
  <2>2. \A i \in 0 .. n : f[i] = IF i = 0 THEN q ELSE LoadTurn(f[i - 1], s, i)
    BY <1>5, <1>6, <2>1 DEF Results
  <2> QED
    BY <1>5, <2>2
<1>8. add = Loop(add)
  <2> HIDE DEF Loop
  <2> QED
    BY <1>7
<1>9. AddLoads(q, s) = add[n]
  BY DEF AddLoads, LoadTurn
<1> HIDE DEF add
<1> DEFINE S == {i \in 0 .. n : add[i] \in V[i]}
<1>10. add[0] = q /\ \A j \in 1 .. n : add[j] = LoadTurn(add[j - 1], s, j)
  <2>1. 0 \in 0 .. n /\ \A i \in 1 .. n : i \in 0 .. n /\ i # 0
    OBVIOUS
  <2> QED
    BY <1>8, <2>1
<1>11. 0 \in S
  BY <1>10
<1>12. \A j \in 1 .. n : j - 1 \in S => j \in S
  <2> TAKE j \in 1 .. n
  <2> HAVE j - 1 \in S
  <2>1. add[j - 1] \in V[j - 1]
    OBVIOUS
  <2> QED
    BY <1>10, <2>1
<1> HIDE DEF S
<1>13. \A i \in 0 .. n : i \in S
  BY <1>11, <1>12, UpTo
<1>14. n \in S
  BY <1>13
<1> QED
  BY <1>9, <1>14 DEF S

\* What each turn keeps, from V[j - 1] to V[j], the stores of slot s keep.
LEMMA StoresByTurns ==
  ASSUME NEW s, NEW n \in Nat, n = Len(InstrIn(s).stores), NEW V, NEW q \in V[0],
         \A j \in 1 .. n : \A x \in V[j - 1] : StoreTurn(x, s, j) \in V[j]
  PROVE  AddStores(q, s) \in V[n]
<1> DEFINE U == UNION {V[i] : i \in 0 .. n}
           turn == [y \in (1 .. n) \X U |-> StoreTurn(y[2], s, y[1])]
           Loop(g) == [j \in 0 .. n |-> IF j = 0 THEN q ELSE StoreTurn(g[j - 1], s, j)]
           add == CHOOSE g : g = Loop(g)
<1>1. \A j \in 1 .. n : j - 1 \in 0 .. n
  OBVIOUS
<1>2. \A i \in 0 .. n : \A x \in V[i] : x \in U
  OBVIOUS
<1> HIDE DEF U
<1>3. \A j \in 1 .. n : \A x \in V[j - 1] : turn[<<j, x>>] = StoreTurn(x, s, j)
  BY <1>1, <1>2
<1> HIDE DEF turn
<1>4. \A j \in 1 .. n : \A x \in V[j - 1] : turn[<<j, x>>] \in V[j]
  BY <1>3
<1>5. PICK f : /\ f = [i \in 0 .. n |-> f[i]]
               /\ Results(f, n, q, turn)
               /\ \A i \in 0 .. n : f[i] \in V[i]
  BY <1>4, LoopStays
<1>6. \A j \in 1 .. n : f[j] = StoreTurn(f[j - 1], s, j)
  BY <1>1, <1>3, <1>5 DEF Results
<1>7. f = Loop(f)
  <2>1. \A i \in 0 .. n : i = 0 \/ i \in 1 .. n
    OBVIOUS
  <2>2. \A i \in 0 .. n : f[i] = IF i = 0 THEN q ELSE StoreTurn(f[i - 1], s, i)
    BY <1>5, <1>6, <2>1 DEF Results
  <2> QED
    BY <1>5, <2>2
<1>8. add = Loop(add)
  <2> HIDE DEF Loop
  <2> QED
    BY <1>7
<1>9. AddStores(q, s) = add[n]
  BY DEF AddStores, StoreTurn
<1> HIDE DEF add
<1> DEFINE S == {i \in 0 .. n : add[i] \in V[i]}
<1>10. add[0] = q /\ \A j \in 1 .. n : add[j] = StoreTurn(add[j - 1], s, j)
  <2>1. 0 \in 0 .. n /\ \A i \in 1 .. n : i \in 0 .. n /\ i # 0
    OBVIOUS
  <2> QED
    BY <1>8, <2>1
<1>11. 0 \in S
  BY <1>10
<1>12. \A j \in 1 .. n : j - 1 \in S => j \in S
  <2> TAKE j \in 1 .. n
  <2> HAVE j - 1 \in S
  <2>1. add[j - 1] \in V[j - 1]
    OBVIOUS
  <2> QED
    BY <1>10, <2>1
<1> HIDE DEF S
<1>13. \A i \in 0 .. n : i \in S
  BY <1>11, <1>12, UpTo
<1>14. n \in S
  BY <1>13
<1> QED
  BY <1>9, <1>14 DEF S

-----------------------------------------------------------------------------
(* The stages of a load: its index is in RTL0, in a request to the DTLB, in *)
(* RTL1, in a request to the L1D, unless the load waits for a store.       *)

InStage(q, x, y) ==
  {l \in Lq : q[l].addr # Nil /\ q[l].producer_id = Nil /\ q[l].translated = x /\ q[l].fetched = y}

LoadStages(q, g, D, L) ==
  /\ RingOf(g.RTL0, LQ_SIZE, InStage(q, "NO", "NO"))
  /\ {l \in Lq : <<"load", l>> \in D} = InStage(q, "INFLIGHT", "NO")
  /\ RingOf(g.RTL1, LQ_SIZE, InStage(q, "COMPLETED", "NO"))
  /\ L = InStage(q, "COMPLETED", "INFLIGHT")
  /\ \A l \in Lq : q[l].addr # Nil =>
       \/ q[l].producer_id # Nil
       \/ q[l].translated \in {"NO", "INFLIGHT"} /\ q[l].fetched = "NO"
       \/ q[l].translated = "COMPLETED" /\ q[l].fetched \in {"NO", "INFLIGHT"}

\* A load that goes to the DTLB enters the first stage,
LEMMA StagesWithLoad ==
  ASSUME NEW q \in [Lq -> LoadRec], NEW g \in ReadyRec, NEW D, NEW L, LoadStages(q, g, D, L),
         NEW l \in Lq, q[l].addr = Nil, NEW i, NEW a \in Addr, NEW s, NEW j, NEW r,
         \A m \in Lq : r[m] = IF m = l THEN LoadOf(i, a, s, j, Nil, "NO") ELSE q[m],
         NEW h, h = [g EXCEPT !.RTL0 = Push(g.RTL0, l)]
  PROVE  LoadStages(r, h, D, L)
<1> DEFINE e == LoadOf(i, a, s, j, Nil, "NO")
<1>1. /\ e.addr # Nil /\ e.producer_id = Nil /\ e.translated = "NO" /\ e.fetched = "NO"
  BY Sizes DEF LoadOf
<1>2. r[l] = e /\ \A m \in Lq : m # l => r[m] = q[m]
  OBVIOUS
<1> HIDE DEF e
<1>3. /\ InStage(r, "NO", "NO") = InStage(q, "NO", "NO") \cup {l}
      /\ InStage(r, "INFLIGHT", "NO") = InStage(q, "INFLIGHT", "NO")
      /\ InStage(r, "COMPLETED", "NO") = InStage(q, "COMPLETED", "NO")
      /\ InStage(r, "COMPLETED", "INFLIGHT") = InStage(q, "COMPLETED", "INFLIGHT")
  BY <1>1, <1>2 DEF InStage
<1>4. l \notin InStage(q, "NO", "NO")
  BY DEF InStage
<1>5. RingOf(Push(g.RTL0, l), LQ_SIZE, InStage(q, "NO", "NO") \cup {l})
  BY <1>4, Sizes, PushToRing DEF LoadStages, Lq
<1>6. h.RTL0 = Push(g.RTL0, l) /\ h.RTL1 = g.RTL1
  BY DEF ReadyRec
<1> QED
  BY <1>1, <1>2, <1>3, <1>5, <1>6 DEF LoadStages

\* one that waits for a store enters none,
LEMMA StagesWithWaiting ==
  ASSUME NEW q, NEW g, NEW D, NEW L, LoadStages(q, g, D, L),
         NEW l \in Lq, q[l].addr = Nil, NEW i, NEW a, NEW s, NEW j, NEW i2 \in Nat, NEW r,
         \A m \in Lq : r[m] = IF m = l THEN LoadOf(i, a, s, j, i2, "INFLIGHT") ELSE q[m]
  PROVE  LoadStages(r, g, D, L) /\ r[l].producer_id # Nil
<1> DEFINE e == LoadOf(i, a, s, j, i2, "INFLIGHT")
<1>1. e.producer_id # Nil
  BY Sizes DEF LoadOf
<1>2. r[l] = e /\ \A m \in Lq : m # l => r[m] = q[m]
  OBVIOUS
<1> HIDE DEF e
<1>3. \A x, y : InStage(r, x, y) = InStage(q, x, y)
  BY <1>1, <1>2 DEF InStage
<1> QED
  BY <1>1, <1>2, <1>3 DEF LoadStages

\* loads that are in no stage leave with the stages as they are,
LEMMA StagesWithout ==
  ASSUME NEW q, NEW g, NEW D, NEW L, LoadStages(q, g, D, L), NEW K,
         \A l \in K : q[l].producer_id # Nil,
         NEW r, \A m \in Lq : r[m] = IF m \in K THEN NoLoad ELSE q[m]
  PROVE  LoadStages(r, g, D, L)
<1>1. NoLoad.addr = Nil
  BY DEF NoLoad
<1>2. \A x, y : InStage(r, x, y) = InStage(q, x, y)
  BY <1>1 DEF InStage
<1> QED
  BY <1>1, <1>2 DEF LoadStages

\* those whose data the L1D delivers leave the last.
LEMMA StagesWithoutFetched ==
  ASSUME NEW q, NEW g, NEW D, NEW L, LoadStages(q, g, D, L), NEW K \in SUBSET L,
         NEW r, \A m \in Lq : r[m] = IF m \in K THEN NoLoad ELSE q[m]
  PROVE  LoadStages(r, g, D, L \ K)
<1>1. NoLoad.addr = Nil
  BY DEF NoLoad
<1>2. \A l \in K : q[l].fetched = "INFLIGHT"
  BY DEF LoadStages, InStage
<1>3. /\ \A x : InStage(r, x, "NO") = InStage(q, x, "NO")
      /\ InStage(r, "COMPLETED", "INFLIGHT") = InStage(q, "COMPLETED", "INFLIGHT") \ K
  BY <1>1, <1>2 DEF InStage
<1> QED
  BY <1>1, <1>3 DEF LoadStages

\* The entry of a load whose stage changes.
StageEntry(e, x, y) == [e EXCEPT !.translated = x, !.fetched = y]

\* The loads of K come to a stage.
Restage(q, r, K, x, y) ==
  /\ \A l \in Lq \ K : r[l] = q[l]
  /\ \A l \in K : /\ r[l].addr = q[l].addr /\ r[l].producer_id = q[l].producer_id
                  /\ r[l].translated = x /\ r[l].fetched = y

\* A load goes from RTL0 to the DTLB.
LEMMA StagesTranslate ==
  ASSUME NEW q, NEW g \in ReadyRec, NEW D, NEW L, LoadStages(q, g, D, L),
         NEW l, l = First(g.RTL0), l # Nil,
         NEW r, Restage(q, r, {l}, "INFLIGHT", "NO"),
         NEW h, h = [g EXCEPT !.RTL0 = Pop(g.RTL0)]
  PROVE  l \in Lq /\ LoadStages(r, h, D \cup {<<"load", l>>}, L)
<1>1. l \in InStage(q, "NO", "NO") /\ RingOf(Pop(g.RTL0), LQ_SIZE, InStage(q, "NO", "NO") \ {l})
  BY Sizes, PopFromRing DEF LoadStages
<1>2. l \in Lq
  BY <1>1 DEF InStage
<1>3. /\ InStage(r, "NO", "NO") = InStage(q, "NO", "NO") \ {l}
      /\ InStage(r, "INFLIGHT", "NO") = InStage(q, "INFLIGHT", "NO") \cup {l}
      /\ InStage(r, "COMPLETED", "NO") = InStage(q, "COMPLETED", "NO")
      /\ InStage(r, "COMPLETED", "INFLIGHT") = InStage(q, "COMPLETED", "INFLIGHT")
  BY <1>1, <1>2 DEF InStage, Restage
<1>4. {m \in Lq : <<"load", m>> \in D \cup {<<"load", l>>}} = {m \in Lq : <<"load", m>> \in D} \cup {l}
  BY <1>2
<1>5. h.RTL0 = Pop(g.RTL0) /\ h.RTL1 = g.RTL1
  BY DEF ReadyRec
<1>6. \A m \in Lq : r[m].addr # Nil =>
       \/ r[m].producer_id # Nil
       \/ r[m].translated \in {"NO", "INFLIGHT"} /\ r[m].fetched = "NO"
       \/ r[m].translated = "COMPLETED" /\ r[m].fetched \in {"NO", "INFLIGHT"}
  BY DEF LoadStages, Restage
<1> QED
  BY <1>1, <1>2, <1>3, <1>4, <1>5, <1>6 DEF LoadStages

\* A load goes from RTL1 to the L1D.
LEMMA StagesExecute ==
  ASSUME NEW q, NEW g \in ReadyRec, NEW D, NEW L, LoadStages(q, g, D, L),
         NEW l, l = First(g.RTL1), l # Nil,
         NEW r, Restage(q, r, {l}, "COMPLETED", "INFLIGHT"),
         NEW h, h = [g EXCEPT !.RTL1 = Pop(g.RTL1)]
  PROVE  l \in Lq /\ LoadStages(r, h, D, L \cup {l})
<1>1. l \in InStage(q, "COMPLETED", "NO") /\ RingOf(Pop(g.RTL1), LQ_SIZE, InStage(q, "COMPLETED", "NO") \ {l})
  BY Sizes, PopFromRing DEF LoadStages
<1>2. l \in Lq
  BY <1>1 DEF InStage
<1>3. /\ InStage(r, "NO", "NO") = InStage(q, "NO", "NO")
      /\ InStage(r, "INFLIGHT", "NO") = InStage(q, "INFLIGHT", "NO")
      /\ InStage(r, "COMPLETED", "NO") = InStage(q, "COMPLETED", "NO") \ {l}
      /\ InStage(r, "COMPLETED", "INFLIGHT") = InStage(q, "COMPLETED", "INFLIGHT") \cup {l}
  BY <1>1, <1>2 DEF InStage, Restage
<1>5. h.RTL1 = Pop(g.RTL1) /\ h.RTL0 = g.RTL0
  BY DEF ReadyRec
<1>6. \A m \in Lq : r[m].addr # Nil =>
       \/ r[m].producer_id # Nil
       \/ r[m].translated \in {"NO", "INFLIGHT"} /\ r[m].fetched = "NO"
       \/ r[m].translated = "COMPLETED" /\ r[m].fetched \in {"NO", "INFLIGHT"}
  BY DEF LoadStages, Restage
<1> QED
  BY <1>1, <1>2, <1>3, <1>5, <1>6 DEF LoadStages

\* The stages as the loads of K, which had asked for their translations, have them.
Translated(q, r, K) ==
  /\ InStage(r, "NO", "NO") = InStage(q, "NO", "NO")
  /\ InStage(r, "INFLIGHT", "NO") = InStage(q, "INFLIGHT", "NO") \ K
  /\ InStage(r, "COMPLETED", "NO") = InStage(q, "COMPLETED", "NO") \cup K
  /\ InStage(r, "COMPLETED", "INFLIGHT") = InStage(q, "COMPLETED", "INFLIGHT")
  /\ \A m \in Lq : \/ r[m] = q[m]
                   \/ r[m].translated = "COMPLETED" /\ r[m].fetched = "NO"

\* The loads of a packet of the DTLB are translated once.
LEMMA TranslatedStages ==
  ASSUME NEW q, NEW K, K \subseteq InStage(q, "INFLIGHT", "NO"),
         NEW r, Restage(q, r, K, "COMPLETED", "NO")
  PROVE  Translated(q, r, K) /\ K \cap InStage(q, "COMPLETED", "NO") = {} /\ K \subseteq Lq
BY DEF InStage, Restage, Translated

\* They go from the DTLB to RTL1.
LEMMA StagesTranslated ==
  ASSUME NEW q, NEW g \in ReadyRec, NEW D, NEW L, LoadStages(q, g, D, L), NEW C,
         NEW K \in SUBSET Lq, \A l \in Lq : l \in K <=> <<"load", l>> \in C, C \subseteq D,
         NEW r, Restage(q, r, K, "COMPLETED", "NO"),
         NEW w, Enumerates(w, K), NEW h, h.RTL0 = g.RTL0, h.RTL1 = PushAll(g.RTL1, w)
  PROVE  LoadStages(r, h, D \ C, L)
<1>1. K \subseteq InStage(q, "INFLIGHT", "NO")
  BY DEF LoadStages
<1>2. Translated(q, r, K) /\ K \cap InStage(q, "COMPLETED", "NO") = {} /\ K \subseteq Lq
  BY <1>1, TranslatedStages
<1> DEFINE S == InStage(q, "COMPLETED", "NO")
           x == g.RTL1
<1>3. RingOf(x, LQ_SIZE, S) /\ K \in SUBSET (0 .. LQ_SIZE - 1) /\ S \cap K = {}
  BY <1>2 DEF LoadStages, Lq
<1>4. h.RTL1 = PushAll(x, w)
  OBVIOUS
<1> HIDE DEF S, x
<1>5. RingOf(h.RTL1, LQ_SIZE, S \cup K)
  <2>1. LQ_SIZE \in Nat \ {0}
    BY Sizes
  <2>2. RingOf(PushAll(x, w), LQ_SIZE, S \cup K)
    BY ONLY <1>3, <2>1, Enumerates(w, K), PushSetToRing
  <2> QED
    BY <1>4, <2>2
<1>6. {m \in Lq : <<"load", m>> \in D \ C} = {m \in Lq : <<"load", m>> \in D} \ K
  OBVIOUS
<1> QED
  BY <1>2, <1>5, <1>6 DEF LoadStages, Translated, S

-----------------------------------------------------------------------------
(* What an instruction's operands leave of the registers as they enter the queues. *)

\* The entries say which slot of the load queue a load has.
Indexed(b) == \A s \in Slot : \A j \in b.at[s].source_added : b.at[s].lq_index[j] \in Lq

\* Slot s adds operands to the queues.
Grows(b, c, s) ==
  /\ c.head = b.head /\ c.tail = b.tail
  /\ Indexed(c)
  /\ \A t \in Slot : SameRegs(b.at[t], c.at[t])
  /\ \A t \in Slot : t # s => /\ c.at[t].source_added = b.at[t].source_added
                              /\ c.at[t].destination_added = b.at[t].destination_added

SameRTE(g, h) == h.RTE0 = g.RTE0 /\ h.RTE1 = g.RTE1

\* The cores that slot s can come to as it adds operands.
Grown(s) ==
  {x \in CoreRec(program) : /\ Grows(rob, x.rob, s)
                            /\ SameRTE(ready, x.ready)
                            /\ LoadStages(x.lq, x.ready, dtlb, l1d)}

\* Operations that complete leave the registers alone,
LEMMA NoOpsGrow ==
  ASSUME NEW b \in Rob, NEW c \in Rob, NEW d, NEW s, NEW n,
         Grows(b, c, s), d.head = c.head, d.tail = c.tail,
         \A t \in Slot : IsWithoutOps(c.at[t], d.at[t], n[t])
  PROVE  Grows(b, d, s)
<1>1. \A t \in Slot : /\ SameRegs(c.at[t], d.at[t])
                      /\ d.at[t].source_added = c.at[t].source_added
                      /\ d.at[t].lq_index = c.at[t].lq_index
                      /\ d.at[t].destination_added = c.at[t].destination_added
  BY DEF IsWithoutOps
<1>2. Indexed(d)
  BY <1>1 DEF Grows, Indexed
<1>3. \A t \in Slot : SameRegs(b.at[t], d.at[t])
  BY <1>1 DEF Grows, SameRegs
<1> QED
  BY <1>1, <1>2, <1>3 DEF Grows

\* and so does an operand that enters its queue.
LEMMA AddedGrows ==
  ASSUME NEW b \in Rob, NEW c \in Rob, NEW d, NEW s \in Slot, NEW j \in Src, NEW l \in Lq,
         Grows(b, c, s), d.head = c.head, d.tail = c.tail,
         IsLoadAdded(c.at[s], d.at[s], j, l),
         \A t \in Slot : t # s => d.at[t] = c.at[t] \/ \E u : IsWaitedFor(c.at[t], d.at[t], u)
  PROVE  Grows(b, d, s)
<1>1. \A t \in Slot : /\ SameRegs(c.at[t], d.at[t])
                      /\ t # s => /\ d.at[t].source_added = c.at[t].source_added
                                  /\ d.at[t].lq_index = c.at[t].lq_index
                                  /\ d.at[t].destination_added = c.at[t].destination_added
  BY DEF IsLoadAdded, IsWaitedFor, SameRegs
<1>2. Indexed(d)
  <2> SUFFICES ASSUME NEW t \in Slot, NEW i \in d.at[t].source_added
               PROVE  d.at[t].lq_index[i] \in Lq
    BY DEF Indexed
  <2>1. CASE t = s
    <3>1. i \in c.at[s].source_added \cup {j} /\ i \in Src
      <4>1. c.at[s].source_added \in SUBSET Src
        BY DEF Rob, Entry
      <4> QED
        BY <2>1, <4>1 DEF IsLoadAdded
    <3> QED
      BY <2>1, <3>1 DEF IsLoadAdded, Grows, Indexed
  <2> QED
    BY <1>1, <2>1 DEF Grows, Indexed
<1>3. \A t \in Slot : SameRegs(b.at[t], d.at[t])
  BY <1>1 DEF Grows, SameRegs
<1> QED
  BY <1>1, <1>2, <1>3 DEF Grows

\* A turn of the loop over the loads keeps the types, the stages and the registers,
LEMMA LoadGrows ==
  ASSUME NEW s \in Slot, program \in Programs, rob \in Rob, IdsInTrace, InRob(s),
         NEW j \in DOMAIN InstrIn(s).loads, NEW x \in Grown(s)
  PROVE  LoadTurn(x, s, j) \in Grown(s)
<1>1. /\ x \in CoreRec(program) /\ Grows(rob, x.rob, s) /\ SameRTE(ready, x.ready)
      /\ x.rob \in Rob /\ x.lq \in [Lq -> LoadRec] /\ x.ready \in ReadyRec
      /\ LoadStages(x.lq, x.ready, dtlb, l1d)
  BY CoreFields DEF Grown
<1>2. CASE j \notin At(s).source_added /\ LqHasRoom(x)
  <2> DEFINE r == add_load_queue(x, s, j)
             a == InstrIn(s).loads[j]
             w == NearestStore(s, a)
             l == FreeLoad(x)
  <2>1. LoadGoes(x, r, s, j)
    BY <1>1, <1>2, AddLoadGoes
  <2>2. LoadTurn(x, s, j) = r
    BY <1>2 DEF LoadTurn
  <2>3. l \in Lq /\ x.lq[l].addr = Nil
    BY <1>2, FreeLoadIsFree
  <2>4. j \in Src
    <3>1. Len(program) \in Nat /\ At(s).id \in 1 .. Len(program)
      BY ProgramsAssumption, LenProperties DEF IdsInTrace, InRob
    <3> QED
      BY <3>1, ProgramFacts DEF InstrIn
  <2> HIDE DEF r, l
  <2>5. CASE OlderStores(s, a) = {}
    <3>1. AddsLoad(program, x, r, s, j, l, At(s).id, a)
      BY <2>1, <2>5 DEF LoadGoes, l
    <3>2. Grows(rob, r.rob, s) /\ r \in CoreRec(program)
      BY <1>1, <2>3, <2>4, <3>1, AddedGrows DEF AddsLoad
    <3>3. SameRTE(x.ready, r.ready)
      BY <1>1, <3>1, CoreFields DEF AddsLoad, SameRTE, ReadyRec
    <3>4. LoadStages(r.lq, r.ready, dtlb, l1d)
      <4>1. /\ a \in Addr
            /\ \A m \in Lq : r.lq[m] = IF m = l THEN LoadOf(At(s).id, a, s, j, Nil, "NO") ELSE x.lq[m]
            /\ r.ready = [x.ready EXCEPT !.RTL0 = Push(x.ready.RTL0, l)]
        BY <3>1 DEF AddsLoad
      <4> HIDE DEF a
      <4> QED
        BY <1>1, <2>3, <4>1, StagesWithLoad
    <3> QED
      BY <1>1, <2>2, <3>2, <3>3, <3>4 DEF Grown, SameRTE
  <2>6. CASE OlderStores(s, a) # {}
    <3>1. PICK y : /\ AddsWaiting(program, x, y, s, j, l, At(s).id, a, w, At(w).id)
                   /\ \/ r = y
                      \/ \E v : IsReleased(program, y, r, {l}, v)
      <4>1. \E y : /\ AddsWaiting(program, x, y, s, j, l, At(s).id, a, w, At(w).id)
                   /\ IF Forwarders(x, At(w).id, a) = {} THEN r = y
                      ELSE \E f \in Forwarders(x, At(w).id, a) :
                             IsReleased(program, y, r, {l}, [m \in {l} |-> x.sq.at[f].id])
        BY <2>1, <2>6 DEF LoadGoes, l
      <4> QED
        BY <4>1
    <3>2. \A t \in Slot : t # s => y.rob.at[t] = x.rob.at[t] \/ \E u : IsWaitedFor(x.rob.at[t], y.rob.at[t], u)
      BY <3>1 DEF AddsWaiting
    <3>3. /\ y \in CoreRec(program) /\ y.rob.head = x.rob.head /\ y.rob.tail = x.rob.tail
          /\ IsLoadAdded(x.rob.at[s], y.rob.at[s], j, l) /\ y.ready = x.ready
      BY <3>1 DEF AddsWaiting
    <3>4. Grows(rob, y.rob, s)
      BY <1>1, <2>3, <2>4, <3>2, <3>3, AddedGrows
    <3>7. LoadStages(y.lq, y.ready, dtlb, l1d) /\ y.lq[l].producer_id # Nil
      <4>1. /\ a \in Addr /\ At(w).id \in Nat
            /\ \A m \in Lq : y.lq[m] = IF m = l THEN LoadOf(At(s).id, a, s, j, At(w).id, "INFLIGHT") ELSE x.lq[m]
            /\ y.ready = x.ready
        BY <3>1 DEF AddsWaiting
      <4> HIDE DEF a, w
      <4> QED
        BY <1>1, <2>3, <4>1, StagesWithWaiting
    <3>5. CASE r = y
      BY <1>1, <2>2, <3>3, <3>4, <3>5, <3>7 DEF Grown
    <3>6. CASE \E v : IsReleased(program, y, r, {l}, v)
      <4> DEFINE n == [t \in Slot |-> Cardinality(InLoads(y, {l}, t))]
      <4>1. /\ r \in CoreRec(program) /\ r.rob.head = y.rob.head /\ r.rob.tail = y.rob.tail
            /\ r.ready = y.ready
            /\ \A m \in Lq : r.lq[m] = IF m \in {l} THEN NoLoad ELSE y.lq[m]
            /\ \A t \in Slot : IsWithoutOps(y.rob.at[t], r.rob.at[t], n[t])
        BY <3>6 DEF IsReleased
      <4> HIDE DEF n
      <4>2. Grows(rob, r.rob, s)
        <5>1. y.rob \in Rob
          BY <3>3, CoreFields
        <5> QED
          BY <3>4, <4>1, <5>1, NoOpsGrow
      <4>3. LoadStages(r.lq, r.ready, dtlb, l1d)
        <5> DEFINE K == {l}
        <5>1. \A m \in K : y.lq[m].producer_id # Nil
          BY <3>7
        <5>2. \A m \in Lq : r.lq[m] = IF m \in K THEN NoLoad ELSE y.lq[m]
          BY <4>1
        <5> HIDE DEF K
        <5>3. LoadStages(r.lq, y.ready, dtlb, l1d)
          BY <3>7, <5>1, <5>2, StagesWithout
        <5> QED
          BY <4>1, <5>3
      <4> QED
        BY <1>1, <2>2, <3>3, <4>1, <4>2, <4>3 DEF Grown
    <3> QED
      BY <3>1, <3>5, <3>6
  <2> QED
    BY <2>5, <2>6
<1> QED
  BY <1>2 DEF LoadTurn

\* and so does one of the loop over the stores,
LEMMA StoreGrows ==
  ASSUME NEW s \in Slot, program \in Programs, rob \in Rob, IdsInTrace, InRob(s),
         NEW k \in DOMAIN InstrIn(s).stores, NEW x \in Grown(s)
  PROVE  StoreTurn(x, s, k) \in Grown(s)
<1>1. /\ x \in CoreRec(program) /\ Grows(rob, x.rob, s) /\ SameRTE(ready, x.ready)
      /\ x.rob \in Rob /\ x.lq \in [Lq -> LoadRec] /\ x.ready \in ReadyRec
      /\ LoadStages(x.lq, x.ready, dtlb, l1d)
  BY CoreFields DEF Grown
<1> DEFINE r == add_store_queue(x, s, k)
<1>2. StoreGoes(x, r, s, k)
  BY <1>1, AddStoreGoes
<1>3. AddsStore(program, x, r, s, k, At(s).id, InstrIn(s).stores[k])
  BY <1>2 DEF StoreGoes
<1> HIDE DEF r
<1>4. /\ r \in CoreRec(program) /\ r.rob.head = x.rob.head /\ r.rob.tail = x.rob.tail
      /\ IsStoreAdded(x.rob.at[s], r.rob.at[s], k, x.sq.tail)
      /\ \A t \in Slot : t # s => r.rob.at[t] = x.rob.at[t]
  BY <1>3 DEF AddsStore
<1>5. SameRTE(x.ready, r.ready)
  BY <1>1, <1>3, CoreFields DEF AddsStore, SameRTE, ReadyRec
<1>6. \A t \in Slot : /\ SameRegs(x.rob.at[t], r.rob.at[t])
                      /\ r.rob.at[t].source_added = x.rob.at[t].source_added
                      /\ r.rob.at[t].lq_index = x.rob.at[t].lq_index
                      /\ t # s => r.rob.at[t].destination_added = x.rob.at[t].destination_added
  BY <1>4 DEF IsStoreAdded, SameRegs
<1>7. Indexed(r.rob)
  BY <1>1, <1>6 DEF Grows, Indexed
<1>8. \A t \in Slot : SameRegs(rob.at[t], r.rob.at[t])
  BY <1>1, <1>6 DEF Grows, SameRegs
<1>9. Grows(rob, r.rob, s)
  BY <1>1, <1>4, <1>6, <1>7, <1>8 DEF Grows
<1>10. r.lq = x.lq /\ r.ready.RTL0 = x.ready.RTL0 /\ r.ready.RTL1 = x.ready.RTL1
  BY <1>1, <1>3 DEF AddsStore, ReadyRec
<1>11. r \in Grown(s)
  BY <1>1, <1>4, <1>5, <1>9, <1>10 DEF Grown, SameRTE, LoadStages
<1> QED
  BY <1>11 DEF StoreTurn, r

\* so check_and_add_lsq keeps them.
LEMMA AllGrow ==
  ASSUME NEW s \in Slot, program \in Programs, Core \in CoreRec(program), IdsInTrace, InRob(s), Indexed(rob),
         LoadStages(lq, ready, dtlb, l1d)
  PROVE  check_and_add_lsq(s) \in Grown(s)
<1> DEFINE n == Len(InstrIn(s).loads)
           m == Len(InstrIn(s).stores)
<1>1. Core.rob = rob /\ Core.ready = ready /\ Core.lq = lq /\ rob \in Rob
  BY CoreFields DEF Core
<1>2. /\ n \in Nat /\ DOMAIN InstrIn(s).loads = 1 .. n
      /\ m \in Nat /\ DOMAIN InstrIn(s).stores = 1 .. m
  <2>1. Len(program) \in Nat /\ At(s).id \in 1 .. Len(program)
    BY ProgramsAssumption, LenProperties DEF IdsInTrace, InRob
  <2> QED
    BY <2>1, ProgramFacts DEF InstrIn
<1>3. Core \in Grown(s)
  BY <1>1 DEF Grown, Grows, SameRTE, SameRegs
<1> HIDE DEF n, m
<1>4. AddLoads(Core, s) \in Grown(s)
  <2> DEFINE V == [i \in 0 .. n |-> Grown(s)]
  <2>1. \A i \in 0 .. n : V[i] = Grown(s)
    OBVIOUS
  <2>2. \A j \in 1 .. n : j - 1 \in 0 .. n /\ j \in 0 .. n
    BY <1>2
  <2>3. 0 \in 0 .. n /\ n \in 0 .. n
    BY <1>2
  <2> HIDE DEF V
  <2>4. \A j \in 1 .. n : \A x \in V[j - 1] : LoadTurn(x, s, j) \in V[j]
    BY <1>1, <1>2, <2>1, <2>2, LoadGrows
  <2>5. AddLoads(Core, s) \in V[n]
    BY <1>2, <1>3, <2>1, <2>3, <2>4, LoadsByTurns DEF n
  <2> QED
    BY <2>1, <2>3, <2>5
<1>5. AddStores(AddLoads(Core, s), s) \in Grown(s)
  <2> DEFINE V == [i \in 0 .. m |-> Grown(s)]
             q == AddLoads(Core, s)
  <2>1. \A i \in 0 .. m : V[i] = Grown(s)
    OBVIOUS
  <2>2. \A j \in 1 .. m : j - 1 \in 0 .. m /\ j \in 0 .. m
    BY <1>2
  <2>3. 0 \in 0 .. m /\ m \in 0 .. m
    BY <1>2
  <2> HIDE DEF V, q
  <2>4. \A j \in 1 .. m : \A x \in V[j - 1] : StoreTurn(x, s, j) \in V[j]
    BY <1>1, <1>2, <2>1, <2>2, StoreGrows
  <2>5. q \in V[0]
    BY <1>4, <2>1, <2>3 DEF q
  <2>6. AddStores(q, s) \in V[m]
    BY <1>2, <2>4, <2>5, StoresByTurns DEF m
  <2> QED
    BY <2>1, <2>3, <2>6 DEF q
<1> QED
  BY <1>5 DEF check_and_add_lsq

-----------------------------------------------------------------------------
(* The invariant of the core *)

\* What is in the rings of ready instructions is what is ready to execute.
Queued(p, b, g) ==
  \E S0, S1 : /\ RingOf(g.RTE0, ROB_SIZE, S0)
              /\ RingOf(g.RTE1, ROB_SIZE, S1)
              /\ S0 \cap S1 = {}
              /\ S0 \cup S1 = ReadyToExecute(p, b)

Machine ==
  /\ InTrace(program, read, dispatched, Len(results)) /\ results \in Seq(Row)
  /\ rob \in Rob /\ lq \in [Lq -> LoadRec] /\ sq \in SqRec
  /\ sta \in RingRec(STA_SIZE, Nat) /\ ready \in ReadyRec /\ inflight \in InflightRec
  /\ got \in GotRec(program) /\ memory \in [Addr -> Int]
  /\ dtlb \subseteq Request /\ LoadStages(lq, ready, dtlb, l1d)
  /\ Indexed(rob)

Registers ==
  /\ RegInv(program, rob, dispatched, Len(results))
  /\ Queued(program, rob, ready)

\* The type of the core from those of its parts.
LEMMA CoreIsRec ==
  ASSUME NEW p, NEW b \in Rob, NEW l \in [Lq -> LoadRec], NEW q \in SqRec,
         NEW t \in RingRec(STA_SIZE, Nat), NEW g \in ReadyRec, NEW i \in InflightRec, NEW o \in GotRec(p)
  PROVE  [rob |-> b, lq |-> l, sq |-> q, sta |-> t, ready |-> g, inflight |-> i, got |-> o] \in CoreRec(p)
BY DEF CoreRec

\* The counters of the trace are numbers in order.
LEMMA TraceFacts ==
  ASSUME Machine
  PROVE  /\ program \in Programs /\ Len(program) \in Nat
         /\ read \in Nat /\ dispatched \in Nat /\ Len(results) \in Nat
         /\ read <= Len(program) /\ dispatched <= read /\ Len(results) <= dispatched
<1>1. Len(program) \in Nat
  BY ProgramsAssumption, LenProperties DEF Machine, InTrace
<1> QED
  BY <1>1 DEF Machine, InTrace

\* Each dispatched instruction that is not retired is in one slot, and its number is one of
\* the trace.
LEMMA IdsAreInTrace ==
  ASSUME Machine, Registers
  PROVE  IdsInTrace /\ OneEach(rob, dispatched, Len(results))
<1>1. OneEach(rob, dispatched, Len(results))
  BY WindowFacts DEF Machine, Registers, RegInv
<1>2. \A s \in Slot : At(s).id \in 0 .. Len(program)
  BY <1>1, TraceFacts DEF OneEach, At
<1> QED
  BY <1>1, <1>2 DEF IdsInTrace

\* Nothing that is about registers changes.
SameRob(b, c) ==
  /\ c \in Rob /\ c.head = b.head /\ c.tail = b.tail
  /\ \A t \in Slot : /\ SameRegs(b.at[t], c.at[t])
                     /\ c.at[t].source_added = b.at[t].source_added
                     /\ c.at[t].destination_added = b.at[t].destination_added

\* Steps that leave the registers and the rings of execution alone keep the invariant.
LEMMA RegistersKept ==
  ASSUME NEW p, NEW b \in Rob, NEW c, NEW d, NEW n, NEW g, NEW h,
         RegInv(p, b, d, n), Queued(p, b, g), SameRob(b, c), SameRTE(g, h)
  PROVE  RegInv(p, c, d, n) /\ Queued(p, c, h)
<1>1. KeepsRegs(b, c)
  BY DEF SameRob, SameRegs, KeepsRegs
<1>2. \A t \in Slot : Accesses(p, c.at[t]) = Accesses(p, b.at[t])
  BY DEF SameRob, SameRegs, Accesses
<1>3. IssuedWhenReady(p, c)
  <2>1. IssuedWhenReady(p, b)
    BY DEF RegInv
  <2> QED
    BY <1>2, <2>1 DEF SameRob, SameRegs, IssuedWhenReady
<1>4. ReadyToExecute(p, c) = ReadyToExecute(p, b)
  BY <1>2 DEF SameRob, SameRegs, ReadyToExecute
<1>5. Queued(p, c, h)
  BY <1>4 DEF Queued, SameRTE
<1>6. RegInv(p, c, d, n)
  BY <1>1, <1>3, RegsKept
<1> QED
  BY <1>5, <1>6

\* No change is a change that keeps the registers.
LEMMA SameRobItself ==
  ASSUME NEW b \in Rob
  PROVE  SameRob(b, b)
BY DEF SameRob, SameRegs

\* The invariant holds of the empty core.
LEMMA RegInitially ==
  ASSUME Init
  PROVE  Machine /\ Registers
<1> DEFINE e == NoInstr
<1>1. rob \in Rob /\ rob.head = 0 /\ rob.tail = 0 /\ \A s \in Slot : rob.at[s] = e
  BY EmptyEntry, Sizes DEF Init, Rob, Slot
<1>2. Empty(e) /\ e.source_added = {}
  BY DEF Empty, NoInstr
<1>3. e.id = 0 /\ e.scheduled = "NO" /\ ~e.reg_ready /\ e.num_reg_dependent = 0
      /\ \A j \in Src : e.registers_depend_on_me[j] = {}
  BY DEF NoInstr
<1> HIDE DEF e
<1>4. Len(results) = 0 /\ dispatched = 0 /\ read = 0 /\ results \in Seq(Row)
  BY EmptySeq DEF Init
<1>5. InWindow(rob, 0, 0)
  <2>1. \A s \in Slot : Dist(ROB_SIZE, 0, s) \in 0 .. ROB_SIZE - 1
    <3>1. 0 \in 0 .. ROB_SIZE - 1 /\ ROB_SIZE \in Nat \ {0}
      BY Sizes
    <3> QED
      BY <3>1, DistIsPlace DEF Slot
  <2>2. \A s \in Slot : ~(Dist(ROB_SIZE, 0, s) < 0 - 0)
    BY <2>1, Sizes
  <2>3. 0 = Wrap(ROB_SIZE, 0 + (0 - 0)) /\ 0 - 0 <= ROB_SIZE
    BY Sizes DEF Wrap
  <2> QED
    BY <1>1, <1>2, <2>2, <2>3 DEF InWindow
<1>6. RegInv(program, rob, 0, 0)
  <2>1. \A t \in Slot : Waiting(rob, t) = {}
    BY <1>1, <1>3 DEF Waiting, WaitsOn
  <2>2. Cardinality({}) = 0
    BY FS_EmptySet
  <2>3. SourcesCounted(rob)
    BY <1>1, <1>3, <2>1, <2>2 DEF SourcesCounted
  <2>4. ScheduledInOrder(rob) /\ WaitersAreYounger(program, rob) /\ OneProducer(rob)
        /\ WaitsForLastWriter(program, rob) /\ IssuedWhenReady(program, rob)
    BY <1>1, <1>3 DEF ScheduledInOrder, WaitersAreYounger, OneProducer, WaitsForLastWriter, IssuedWhenReady, WaitsOn, Before
  <2> QED
    BY <1>1, <1>5, <2>3, <2>4 DEF RegInv
<1>7. Queued(program, rob, ready)
  <2>1. ReadyToExecute(program, rob) = {}
    BY <1>1, <1>3 DEF ReadyToExecute
  <2>2. RingOf(ready.RTE0, ROB_SIZE, {}) /\ RingOf(ready.RTE1, ROB_SIZE, {})
    BY Sizes, EmptyIsRing DEF Init
  <2> QED
    BY <2>1, <2>2 DEF Queued
<1>8. ready \in ReadyRec /\ sta \in RingRec(STA_SIZE, Nat)
  BY Sizes, EmptyIsRec DEF Init, ReadyRec
<1>9. lq \in [Lq -> LoadRec] /\ sq \in SqRec /\ inflight \in InflightRec
  BY Sizes, NoLoadIsRec, NoStoreIsRec DEF Init, SqRec, InflightRec, Sq
<1>10. got \in GotRec(program)
  <2>1. program \in Programs /\ got = [n \in 1 .. Len(program) |-> [j \in DOMAIN program[n].loads |-> -1]]
    BY DEF Init
  <2>2. \A n \in 1 .. Len(program) : DOMAIN program[n].loads \subseteq Src
    BY <2>1, ProgramFacts
  <2>3. \A n \in 1 .. Len(program) : [j \in DOMAIN program[n].loads |-> -1] \in [DOMAIN program[n].loads -> Int]
    OBVIOUS
  <2>4. \A n \in 1 .. Len(program) : got[n] \in Row
    BY <2>1, <2>2, <2>3 DEF Row
  <2> QED
    BY <2>1, <2>4 DEF GotRec
<1>11. LoadStages(lq, ready, dtlb, l1d)
  <2>1. \A x, y : InStage(lq, x, y) = {}
    BY DEF Init, InStage, NoLoad
  <2>2. RingOf(ready.RTL0, LQ_SIZE, {}) /\ RingOf(ready.RTL1, LQ_SIZE, {})
    BY Sizes, EmptyIsRing DEF Init
  <2>3. \A l \in Lq : lq[l].addr = Nil
    BY DEF Init, NoLoad
  <2> QED
    BY <2>1, <2>2, <2>3 DEF Init, LoadStages
<1>12. Indexed(rob)
  BY <1>1, <1>2 DEF Indexed
<1>13. InTrace(program, 0, 0, 0)
  BY ProgramsAssumption, LenProperties DEF Init, InTrace
<1>14. memory \in [Addr -> Int] /\ dtlb \subseteq Request
  BY DEF Init
<1> QED
  BY <1>1, <1>4, <1>6, <1>7, <1>8, <1>9, <1>10, <1>11, <1>12, <1>13, <1>14 DEF Machine, Registers

-----------------------------------------------------------------------------
(* Each action keeps it *)

\* Each action keeps it: read_from_trace,
LEMMA ReadKeeps ==
  ASSUME Machine, Registers, read_from_trace
  PROVE  Machine' /\ Registers'
<1>1. /\ read < Len(program) /\ read' = read + 1 /\ sta' = StaPush(sta, read + 1)
      /\ UNCHANGED <<program, dispatched, rob, lq, sq, ready, inflight, got, dtlb, l1d, memory, results>>
  BY DEF read_from_trace, outside, history
<1>2. InTrace(program, read', dispatched, Len(results))
  BY <1>1, TraceFacts DEF InTrace, Machine
<1>3. sta' \in RingRec(STA_SIZE, Nat)
  <2> DEFINE m == read + 1
             w == [k \in DOMAIN program[m].stores |-> m]
  <2>1. m \in 1 .. Len(program) /\ m \in Nat
    BY <1>1, TraceFacts
  <2> HIDE DEF m
  <2>2. Len(program[m].stores) \in Nat /\ DOMAIN program[m].stores = 1 .. Len(program[m].stores)
    BY <2>1, TraceFacts, ProgramFacts
  <2>3. w \in [1 .. Len(program[m].stores) -> Nat]
    BY <2>1, <2>2
  <2>4. w \in Seq(Nat)
    BY <2>2, <2>3, SeqDef
  <2>5. sta' = PushAll(sta, w)
    BY <1>1 DEF StaPush, m
  <2> HIDE DEF w
  <2> QED
    BY <2>4, <2>5, Sizes, PushAllIsRec DEF Machine
<1> QED
  BY <1>1, <1>2, <1>3 DEF Machine, Registers

\* add_to_rob,
LEMMA AddKeeps ==
  ASSUME Machine, Registers, add_to_rob
  PROVE  Machine' /\ Registers'
<1> DEFINE d == dispatched
           n == Len(results)
           m == MemOps(program[d + 1])
           x == rob.tail
<1>1. /\ d < read /\ ~InRob(x) /\ dispatched' = d + 1
      /\ UNCHANGED <<program, read, lq, sq, sta, ready, inflight, got, dtlb, l1d, memory, results>>
  BY DEF add_to_rob, outside, history
<1>2. d \in Nat /\ d + 1 \in 1 .. Len(program) /\ m \in Int /\ rob \in Rob
  <2>1. d \in Nat /\ d + 1 \in 1 .. Len(program) /\ rob \in Rob
    BY <1>1, TraceFacts DEF Machine
  <2> HIDE DEF d
  <2> QED
    BY <2>1, TraceFacts, ProgramFacts
<1>3. /\ rob' \in Rob /\ rob'.head = rob.head /\ rob'.tail = (x + 1) % ROB_SIZE
      /\ \A t \in Slot : t # x => rob'.at[t] = rob.at[t]
      /\ IsNew(rob'.at[x], d + 1, m)
  BY <1>2, AddedToRob
<1> DEFINE c == rob'
<1>4. InTrace(program, read, d, n) /\ RegInv(program, rob, d, n) /\ rob.at[x].id = 0 /\ x \in Slot
  BY <1>1, <1>2 DEF Machine, Registers, InRob, At, Rob
<1> HIDE DEF d, n, m, c
<1>5. RegInv(program, c, d + 1, n)
  BY <1>1, <1>2, <1>3, <1>4, RegsWithNew DEF c
<1>6. InTrace(program, read, d + 1, n)
  BY <1>1, <1>4, TraceFacts DEF InTrace, d, n
<1>7. Indexed(c)
  BY <1>3 DEF Machine, Indexed, IsNew, c
<1>8. ReadyToExecute(program, c) = ReadyToExecute(program, rob)
  <2>1. \A t \in Slot : t # x => c.at[t] = rob.at[t]
    BY <1>3 DEF c
  <2>2. ~c.at[x].reg_ready
    BY <1>3 DEF IsNew, c
  <2> QED
    BY <1>4, <2>1, <2>2 DEF ReadyToExecute
<1>9. Queued(program, c, ready)
  BY <1>8 DEF Registers, Queued
<1>10. Machine'
  BY <1>1, <1>3, <1>6, <1>7 DEF Machine, c, d, n
<1>11. Registers'
  BY <1>1, <1>5, <1>9 DEF Registers, c, d, n
<1> QED
  BY <1>10, <1>11

\* The producers of the sources of slot s are the last instructions that write them.
Produces(s) ==
  /\ Dependencies(s) \subseteq DOMAIN InstrIn(s).src
  /\ \A j \in Dependencies(s) :
       /\ Producer(s, j) \in Slot
       /\ Before(rob, Producer(s, j), s)
       /\ At(Producer(s, j)).executed # "COMPLETED"
  /\ \A j \in DOMAIN InstrIn(s).src : \A t \in Slot :
       LastWriter(program, rob, s, j, t) /\ At(t).executed # "COMPLETED"
         => j \in Dependencies(s) /\ Producer(s, j) = t

\* The producer do_scheduling finds for a source is its last writer in the buffer.
LEMMA ProducersAreLast ==
  ASSUME Machine, Registers, NEW s \in Slot, InRob(s)
  PROVE  Produces(s) /\ Cardinality(Dependencies(s)) \in Int
<1>1. IdsInTrace /\ OneEach(rob, dispatched, Len(results)) /\ Len(program) \in Nat
  BY IdsAreInTrace, TraceFacts
<1>2. \A j : Writers(s, j) \in SUBSET Slot
  BY DEF Writers
<1>3. \A j : Writers(s, j) # {} => /\ Producer(s, j) \in Writers(s, j)
                                   /\ \A t \in Writers(s, j) : At(t).id <= At(Producer(s, j)).id
  BY <1>1, <1>2, YoungestIsLast DEF Producer
<1>4. \A j \in Dependencies(s) :
        /\ Producer(s, j) \in Slot
        /\ Before(rob, Producer(s, j), s)
        /\ At(Producer(s, j)).executed # "COMPLETED"
  BY <1>3 DEF Dependencies, Writers, Older, InRob, Before, At
<1>5. ASSUME NEW j \in DOMAIN InstrIn(s).src, NEW t \in Slot,
             LastWriter(program, rob, s, j, t), At(t).executed # "COMPLETED"
      PROVE  j \in Dependencies(s) /\ Producer(s, j) = t
  <2>1. t \in Writers(s, j)
    BY <1>5 DEF LastWriter, Writers, Before, Older, InRob, At, InstrIn
  <2>2. j \in Dependencies(s)
    BY <2>1 DEF Dependencies
  <2> DEFINE p == Producer(s, j)
  <2>3. p \in Writers(s, j) /\ At(t).id <= At(p).id
    BY <1>3, <2>1
  <2>4. p \in Slot /\ Before(rob, p, s) /\ InstrIn(s).src[j] \in InstrIn(p).dst
    BY <2>3 DEF Writers, Older, Before, InRob, At
  <2> HIDE DEF p
  <2>5. ~Before(rob, t, p)
    BY <1>5, <2>4 DEF LastWriter, At, InstrIn
  <2>6. rob.at[t].id # 0 /\ rob.at[p].id # 0
    BY <1>5, <2>4 DEF LastWriter, Before
  <2>7. rob.at[t].id = rob.at[p].id
    <3>1. rob.at[t].id \in Int /\ rob.at[p].id \in Int
      BY <1>1, <2>4 DEF IdsInTrace, At
    <3> QED
      BY <2>3, <2>5, <2>6, <3>1 DEF Before, At
  <2>8. t = p
    BY <1>1, <2>4, <2>6, <2>7 DEF OneEach
  <2> QED
    BY <2>2, <2>8 DEF p
<1>6. Dependencies(s) \subseteq DOMAIN InstrIn(s).src
  BY DEF Dependencies
<1>7. Cardinality(Dependencies(s)) \in Int
  <2>1. At(s).id \in 1 .. Len(program)
    BY <1>1 DEF IdsInTrace, InRob
  <2>2. DOMAIN InstrIn(s).src \subseteq Src
    BY <2>1, TraceFacts, ProgramFacts DEF InstrIn
  <2>3. IsFiniteSet(1 .. NUM_INSTR_SOURCES)
    BY Sizes, FS_Interval
  <2>4. IsFiniteSet(Dependencies(s))
    BY <1>6, <2>2, <2>3, FS_Subset DEF Src
  <2> QED
    BY <2>4, FS_CardinalityType
<1> QED
  BY <1>4, <1>5, <1>6, <1>7 DEF Produces

\* The instructions before slot s have been scheduled.
LEMMA OlderAreScheduled ==
  ASSUME Machine, Registers, NEW s \in Slot, MaySchedule(s)
  PROVE  \A t \in Slot : Before(rob, t, s) => rob.at[t].scheduled # "NO"
<1> DEFINE h == rob.head
           D(t) == Dist(ROB_SIZE, h, t)
           w == dispatched - Len(results)
           b == rob.at
<1>1. \A t \in Slot : b[t].id # 0 => b[t].id = Len(results) + 1 + D(t)
  BY DEF Registers, RegInv, InWindow, Empty
<1>2. /\ h \in 0 .. ROB_SIZE - 1 /\ h <= s /\ ROB_SIZE \in Nat \ {0}
      /\ \A t \in h .. s - 1 : b[t].scheduled # "NO"
  BY Sizes DEF MaySchedule, Machine, Rob, Slot, At
<1>3. D(s) = s - h
  BY <1>2 DEF Dist, Slot
<1>4. \A t \in Slot : D(t) < D(s) => t \in h .. s - 1
  BY <1>2, <1>3 DEF Dist, Slot
<1>5. \A t \in Slot : D(t) \in Int
  BY <1>2 DEF Dist, Slot
<1> HIDE DEF D, b, h
<1>6. ASSUME NEW t \in Slot, b[t].id # 0, b[s].id # 0, b[t].id < b[s].id
      PROVE  b[t].scheduled # "NO"
  <2>1. b[t].id = Len(results) + 1 + D(t) /\ b[s].id = Len(results) + 1 + D(s)
    BY <1>1, <1>6
  <2>2. D(t) < D(s)
    BY <1>5, <1>6, <2>1, TraceFacts
  <2> QED
    BY <1>2, <1>4, <2>2
<1> QED
  BY <1>6 DEF Before, b

\* do_scheduling,
LEMMA ScheduleKeeps ==
  ASSUME Machine, Registers, NEW s \in Slot, do_scheduling(s)
  PROVE  Machine' /\ Registers'
<1> DEFINE n == Len(results)
           deps == Dependencies(s)
           prod == [j \in deps |-> Producer(s, j)]
           c == rob'
<1>1. /\ MaySchedule(s) /\ InRob(s) /\ At(s).scheduled = "NO"
      /\ ready' = IF ~IsMemory(s) /\ deps = {} THEN [ready EXCEPT !.RTE1 = Push(@, s)] ELSE ready
      /\ UNCHANGED <<program, read, dispatched, lq, sq, sta, inflight, got, dtlb, l1d, memory, results>>
  BY DEF do_scheduling, MaySchedule, trace, outside, history
<1>2. Produces(s) /\ Cardinality(deps) \in Int /\ rob \in Rob
  BY <1>1, ProducersAreLast DEF Machine
<1>3. /\ c \in Rob /\ c.head = rob.head /\ c.tail = rob.tail
      /\ IsScheduled(program, rob.at[s], c.at[s], deps)
      /\ \A t \in Slot : t # s =>
           IsRecording(rob.at[t], c.at[t], s, {j \in deps : Producer(s, j) = t})
  BY <1>2, ScheduledEntries
<1>4. \A t \in Slot : Before(rob, t, s) => rob.at[t].scheduled # "NO"
  BY <1>1, OlderAreScheduled
<1>5. /\ deps \subseteq DOMAIN program[rob.at[s].id].src
      /\ prod \in [deps -> Slot]
      /\ \A j \in deps : Before(rob, prod[j], s) /\ rob.at[prod[j]].executed # "COMPLETED"
      /\ \A j \in DOMAIN program[rob.at[s].id].src : \A t \in Slot :
           LastWriter(program, rob, s, j, t) /\ rob.at[t].executed # "COMPLETED"
             => j \in deps /\ prod[j] = t
  BY <1>2 DEF Produces, InstrIn, At
<1>6. \A t \in Slot : t # s => IsRecording(rob.at[t], c.at[t], s, {j \in deps : prod[j] = t})
  <2> TAKE t \in Slot
  <2>1. {j \in deps : prod[j] = t} = {j \in deps : Producer(s, j) = t}
    OBVIOUS
  <2> QED
    BY <1>3, <2>1
<1>7. /\ InTrace(program, read, dispatched, n) /\ RegInv(program, rob, dispatched, n)
      /\ rob.at[s].id # 0 /\ rob.at[s].scheduled = "NO"
  BY <1>1 DEF Machine, Registers, InRob, At
<1> HIDE DEF prod, deps, c, n
<1>8. RegInv(program, c, dispatched, n)
  <2>1. ProducedBy(program, rob, s, deps, prod) /\ RecordedBy(rob, c, s, deps, prod) /\ OlderScheduled(rob, s)
    BY <1>4, <1>5, <1>6 DEF ProducedBy, RecordedBy, OlderScheduled
  <2> QED
    BY <1>2, <1>3, <1>7, <2>1, RegsWithScheduled
<1>9. rob.at[s].reg_ready = FALSE /\ rob.at[s].executed = "NO"
  <2>1. rob.at[s].reg_ready => rob.at[s].scheduled # "NO"
    BY <1>7 DEF RegInv, SourcesCounted
  <2>2. rob.at[s].executed # "NO" => rob.at[s].reg_ready
    BY <1>7 DEF RegInv, IssuedWhenReady
  <2>3. rob.at[s].reg_ready \in BOOLEAN
    BY <1>2 DEF Rob, Entry
  <2> QED
    BY <1>7, <2>1, <2>2, <2>3
<1>10. \A t \in Slot : /\ c.at[t].id = rob.at[t].id /\ c.at[t].executed = rob.at[t].executed
                       /\ c.at[t].source_added = rob.at[t].source_added
                       /\ c.at[t].lq_index = rob.at[t].lq_index
                       /\ t # s => c.at[t].reg_ready = rob.at[t].reg_ready
  BY <1>3, <1>6 DEF IsScheduled, IsRecording, SameOperands
<1>11. c.at[s].reg_ready = (deps = {})
  BY <1>3 DEF IsScheduled
<1>12. Accesses(program, rob.at[s]) = IsMemory(s)
  BY DEF Accesses, IsMemory, InstrIn, At
<1>13. ReadyToExecute(program, c)
       = IF ~IsMemory(s) /\ deps = {} THEN ReadyToExecute(program, rob) \cup {s} ELSE ReadyToExecute(program, rob)
  <2>1. \A t \in Slot : Accesses(program, c.at[t]) = Accesses(program, rob.at[t])
    BY <1>10 DEF Accesses
  <2>2. \A t \in Slot : t \in ReadyToExecute(program, c)
          <=> IF t = s THEN ~IsMemory(s) /\ deps = {} ELSE t \in ReadyToExecute(program, rob)
    BY <1>7, <1>9, <1>10, <1>11, <1>12, <2>1 DEF ReadyToExecute
  <2>3. s \notin ReadyToExecute(program, rob)
    BY <1>9 DEF ReadyToExecute
  <2>4. ReadyToExecute(program, c) \subseteq Slot /\ ReadyToExecute(program, rob) \subseteq Slot
    BY DEF ReadyToExecute
  <2> QED
    BY <2>2, <2>3, <2>4
<1>14. s \notin ReadyToExecute(program, rob)
  BY <1>9 DEF ReadyToExecute
<1>15. ready' \in ReadyRec /\ ready'.RTE0 = ready.RTE0 /\ ready'.RTL0 = ready.RTL0 /\ ready'.RTL1 = ready.RTL1
       /\ ready'.RTE1 = IF ~IsMemory(s) /\ deps = {} THEN Push(ready.RTE1, s) ELSE ready.RTE1
  <2>1. ready \in ReadyRec /\ ready.RTE1 \in RingRec(ROB_SIZE, Slot)
    BY DEF Machine, ReadyRec
  <2>2. Push(ready.RTE1, s) \in RingRec(ROB_SIZE, Slot)
    BY <2>1, Sizes, PushIsRec
  <2> QED
    BY <1>1, <2>1, <2>2 DEF ReadyRec
<1>16. Queued(program, c, ready')
  <2>1. PICK S0, S1 : /\ RingOf(ready.RTE0, ROB_SIZE, S0)
                      /\ RingOf(ready.RTE1, ROB_SIZE, S1)
                      /\ S0 \cap S1 = {}
                      /\ S0 \cup S1 = ReadyToExecute(program, rob)
    BY DEF Registers, Queued
  <2>2. CASE ~IsMemory(s) /\ deps = {}
    <3>1. RingOf(ready'.RTE1, ROB_SIZE, S1 \cup {s})
      BY <1>14, <1>15, <2>1, <2>2, Sizes, PushToRing DEF Slot
    <3>2. S0 \cap (S1 \cup {s}) = {} /\ S0 \cup (S1 \cup {s}) = ReadyToExecute(program, c)
      BY <1>13, <1>14, <2>1, <2>2
    <3> QED
      BY <1>15, <2>1, <3>1, <3>2 DEF Queued
  <2>3. CASE ~(~IsMemory(s) /\ deps = {})
    BY <1>13, <1>15, <2>1, <2>3 DEF Queued
  <2> QED
    BY <2>2, <2>3
<1>17. Indexed(c)
  BY <1>10 DEF Machine, Indexed
<1>18. LoadStages(lq, ready', dtlb, l1d)
  BY <1>15 DEF Machine, LoadStages
<1>19. Machine'
  BY <1>1, <1>3, <1>15, <1>17, <1>18 DEF Machine, c
<1>20. Registers'
  BY <1>1, <1>8, <1>16 DEF Registers, c, n
<1> QED
  BY <1>19, <1>20

\* do_execution,
LEMMA ExecuteKeeps ==
  ASSUME Machine, Registers, NEW ring, do_execution(ring)
  PROVE  Machine' /\ Registers'
<1> DEFINE n == Len(results)
           s == First(ready[ring])
           c == rob'
<1>1. /\ ring \in {"RTE0", "RTE1"} /\ s # Nil
      /\ ready' = [ready EXCEPT ![ring] = Pop(@)]
      /\ inflight' = [inflight EXCEPT !.reg = @ + 1]
      /\ UNCHANGED <<program, read, dispatched, lq, sq, sta, got, dtlb, l1d, memory, results>>
  BY DEF do_execution, trace, outside, history
<1>2. PICK S0, S1 : /\ RingOf(ready.RTE0, ROB_SIZE, S0)
                    /\ RingOf(ready.RTE1, ROB_SIZE, S1)
                    /\ S0 \cap S1 = {}
                    /\ S0 \cup S1 = ReadyToExecute(program, rob)
  BY DEF Registers, Queued
<1>3. s \in ReadyToExecute(program, rob)
  BY <1>1, <1>2, Sizes, FirstIsInRing
<1>4. s \in Slot /\ rob.at[s].id # 0 /\ ~Accesses(program, rob.at[s]) /\ rob.at[s].reg_ready /\ rob.at[s].executed = "NO"
  BY <1>3 DEF ReadyToExecute
<1>5. rob \in Rob /\ RegInv(program, rob, dispatched, n) /\ ready \in ReadyRec
  BY DEF Machine, Registers
<1>6. IsExecuting(rob, c, s, "INFLIGHT")
  BY <1>4, <1>5, ExecutingEntry
<1>7. ready' \in ReadyRec /\ ready'.RTL0 = ready.RTL0 /\ ready'.RTL1 = ready.RTL1
  <2>1. Pop(ready.RTE0) \in RingRec(ROB_SIZE, Slot) /\ Pop(ready.RTE1) \in RingRec(ROB_SIZE, Slot)
    BY <1>5, Sizes, PopIsRec DEF ReadyRec
  <2> QED
    BY <1>1, <1>5, <2>1 DEF ReadyRec
<1>8. inflight' \in InflightRec
  BY <1>1 DEF Machine, InflightRec
<1> HIDE DEF s, c, n
<1>9. KeepsRegs(rob, c)
  <2>1. /\ c \in Rob /\ c.head = rob.head /\ c.tail = rob.tail
        /\ \A t \in Slot : t # s => c.at[t] = rob.at[t]
        /\ c.at[s].id = rob.at[s].id /\ c.at[s].executed = "INFLIGHT"
        /\ c.at[s].scheduled = rob.at[s].scheduled /\ c.at[s].reg_ready = rob.at[s].reg_ready
        /\ c.at[s].num_reg_dependent = rob.at[s].num_reg_dependent
        /\ c.at[s].registers_depend_on_me = rob.at[s].registers_depend_on_me
    BY <1>6 DEF IsExecuting, SameOperands
  <2>2. \A t \in Slot : \/ t # s /\ c.at[t] = rob.at[t]
                       \/ t = s
    BY <2>1
  <2> QED
    BY <1>4, <2>1, <2>2 DEF KeepsRegs
<1>10. \A t \in Slot : Accesses(program, c.at[t]) = Accesses(program, rob.at[t])
  BY <1>9 DEF KeepsRegs, Accesses
<1>11. IssuedWhenReady(program, c)
  <2>1. IssuedWhenReady(program, rob)
    BY <1>5 DEF RegInv
  <2>2. \A t \in Slot : t # s => c.at[t] = rob.at[t]
    BY <1>6 DEF IsExecuting
  <2>3. c.at[s].id # 0 /\ c.at[s].executed = "INFLIGHT" /\ c.at[s].reg_ready /\ c.at[s].scheduled = rob.at[s].scheduled
        /\ ~Accesses(program, c.at[s])
    BY <1>4, <1>6, <1>10 DEF IsExecuting, SameOperands
  <2> QED
    BY <1>4, <2>1, <2>2, <2>3 DEF IssuedWhenReady
<1>12. RegInv(program, c, dispatched, n)
  BY <1>5, <1>9, <1>11, RegsKept
<1>13. ReadyToExecute(program, c) = ReadyToExecute(program, rob) \ {s}
  <2>1. c.at[s].executed = "INFLIGHT" /\ \A t \in Slot : t # s => c.at[t] = rob.at[t]
    BY <1>6 DEF IsExecuting
  <2> QED
    BY <2>1 DEF ReadyToExecute
<1>14. Queued(program, c, ready')
  <2>1. CASE ring = "RTE0"
    <3>1. ready'.RTE0 = Pop(ready.RTE0) /\ ready'.RTE1 = ready.RTE1 /\ s = First(ready.RTE0)
      BY <1>1, <1>5, <2>1 DEF ReadyRec, s
    <3>2. s \in S0 /\ RingOf(ready'.RTE0, ROB_SIZE, S0 \ {s})
      BY <1>1, <1>2, <3>1, Sizes, PopFromRing
    <3>3. (S0 \ {s}) \cap S1 = {} /\ (S0 \ {s}) \cup S1 = ReadyToExecute(program, c)
      BY <1>2, <1>13, <3>2
    <3> QED
      BY <1>2, <3>1, <3>2, <3>3 DEF Queued
  <2>2. CASE ring = "RTE1"
    <3>1. ready'.RTE1 = Pop(ready.RTE1) /\ ready'.RTE0 = ready.RTE0 /\ s = First(ready.RTE1)
      BY <1>1, <1>5, <2>2 DEF ReadyRec, s
    <3>2. s \in S1 /\ RingOf(ready'.RTE1, ROB_SIZE, S1 \ {s})
      BY <1>1, <1>2, <3>1, Sizes, PopFromRing
    <3>3. S0 \cap (S1 \ {s}) = {} /\ S0 \cup (S1 \ {s}) = ReadyToExecute(program, c)
      BY <1>2, <1>13, <3>2
    <3> QED
      BY <1>2, <3>1, <3>2, <3>3 DEF Queued
  <2> QED
    BY <1>1, <2>1, <2>2
<1>15. Indexed(c)
  <2>1. \A t \in Slot : c.at[t].source_added = rob.at[t].source_added /\ c.at[t].lq_index = rob.at[t].lq_index
    BY <1>6 DEF IsExecuting, SameOperands
  <2> QED
    BY <2>1 DEF Machine, Indexed
<1>16. LoadStages(lq, ready', dtlb, l1d)
  BY <1>7 DEF Machine, LoadStages
<1>17. c \in Rob
  BY <1>6 DEF IsExecuting
<1>18. Machine'
  BY <1>1, <1>7, <1>8, <1>15, <1>16, <1>17 DEF Machine, c
<1>19. Registers'
  BY <1>1, <1>12, <1>14 DEF Registers, c, n
<1> QED
  BY <1>18, <1>19

\* complete_execution,
LEMMA CompleteKeeps ==
  ASSUME Machine, Registers, NEW s \in Slot, complete_execution(s)
  PROVE  Machine' /\ Registers'
<1> DEFINE n == Len(results)
           c == rob'
           W == [t \in Slot |-> {j \in Src : WaitsOn(rob, t, j, s)}]
           R == Released(s)
           T == {t \in R : ~IsMemory(t)}
<1>1. /\ InRob(s) /\ At(s).executed = "INFLIGHT"
      /\ ready' = [ready EXCEPT !.RTE0 = PushAll(@, Woken(s))]
      /\ inflight' = IF IsMemory(s) THEN [inflight EXCEPT !.mem = @ - 1] ELSE [inflight EXCEPT !.reg = @ - 1]
      /\ UNCHANGED <<program, read, dispatched, lq, sq, sta, got, dtlb, l1d, memory, results>>
  BY DEF complete_execution, trace, outside, history
<1>2. rob \in Rob /\ ready \in ReadyRec /\ RegInv(program, rob, dispatched, n) /\ InTrace(program, read, dispatched, n)
  BY DEF Machine, Registers
<1>3. \A t \in Slot : /\ W[t] = WaitsFor(s, t) /\ IsFiniteSet(W[t]) /\ Cardinality(W[t]) \in Nat
                      /\ Cardinality(W[t]) = 0 => W[t] = {}
                      /\ Cardinality(WaitsFor(s, t)) \in Nat
  <2> TAKE t \in Slot
  <2>1. W[t] = WaitsFor(s, t) /\ W[t] \subseteq 1 .. NUM_INSTR_SOURCES
    BY DEF WaitsFor, WaitsOn, At, Src
  <2>2. IsFiniteSet(1 .. NUM_INSTR_SOURCES)
    BY Sizes, FS_Interval
  <2> HIDE DEF W
  <2>3. IsFiniteSet(W[t])
    BY <2>1, <2>2, FS_Subset
  <2> QED
    BY <2>1, <2>3, FS_CardinalityType, FS_EmptySet
<1>4. \A t \in Slot : Cardinality(WaitsFor(s, t)) \in Int
  <2> HIDE DEF W
  <2> QED
    BY <1>3
<1>5. /\ c \in Rob /\ c.head = rob.head /\ c.tail = rob.tail
      /\ IsExecuting(rob, [rob EXCEPT !.at[s].executed = "COMPLETED"], s, "COMPLETED")
      /\ c.at[s] = [rob.at[s] EXCEPT !.executed = "COMPLETED"]
      /\ \A t \in Slot : t # s =>
           IsWithoutSource(program, rob.at[t], c.at[t], Cardinality(WaitsFor(s, t)), t \in R)
  BY <1>2, <1>4, CompletedEntries
<1>6. R = {t \in Slot : W[t] # {} /\ rob.at[t].num_reg_dependent - Cardinality(W[t]) = 0}
  BY <1>3 DEF Released, StillWaits, At
<1>7. WaitsOfEach(rob, s, W) /\ ReleasedBy(rob, W, R) /\ LoseSources(program, rob, c, s, W, R)
  <2>1. WaitsOfEach(rob, s, W)
    BY DEF WaitsOfEach
  <2> HIDE DEF W
  <2> QED
    BY <1>3, <1>5, <1>6, <2>1 DEF ReleasedBy, LoseSources
<1>8. rob.at[s].id # 0 /\ rob.at[s].executed = "INFLIGHT"
  BY <1>1 DEF InRob, At
<1> HIDE DEF n, c, W, R
<1>9. RegInv(program, c, dispatched, n)
  BY <1>2, <1>5, <1>7, <1>8, RegsWithCompleted
<1>10. \A t \in Slot : W[t] # {} <=> \E j \in Src : WaitsOn(rob, t, j, s)
  BY DEF W
<1>11. \A t \in R : /\ t \in Slot /\ t # s /\ rob.at[t].id # 0 /\ rob.at[t].scheduled # "NO"
                    /\ ~rob.at[t].reg_ready /\ rob.at[t].executed = "NO"
  <2> TAKE t \in R
  <2>1. t \in Slot /\ W[t] # {}
    BY <1>6
  <2>2. PICK j \in Src : WaitsOn(rob, t, j, s)
    BY <1>10, <2>1
  <2>3. Before(rob, s, t) /\ rob.at[t].scheduled # "NO"
    BY <1>2, <2>1, <2>2 DEF RegInv, WaitersAreYounger
  <2>4. Waiting(rob, t) # {}
    BY <1>8, <2>1, <2>2 DEF Waiting
  <2>5. ~rob.at[t].reg_ready
    BY <1>2, <2>1, <2>4 DEF RegInv, SourcesCounted
  <2>6. rob.at[t].id # 0 /\ t # s
    <3>1. rob.at[s].id \in Int
      BY <1>2 DEF Rob, Entry
    <3> QED
      BY <2>3, <3>1 DEF Before
  <2>7. rob.at[t].executed # "NO" => rob.at[t].reg_ready
    BY <1>2, <2>1, <2>6 DEF RegInv, IssuedWhenReady
  <2> QED
    BY <2>1, <2>3, <2>5, <2>6, <2>7
<1>12. \A t \in Slot : /\ c.at[t].id = rob.at[t].id
                       /\ c.at[t].source_added = rob.at[t].source_added
                       /\ c.at[t].lq_index = rob.at[t].lq_index
                       /\ t # s => /\ c.at[t].executed = rob.at[t].executed
                                   /\ c.at[t].reg_ready = (rob.at[t].reg_ready \/ t \in R)
  <2> TAKE t \in Slot
  <2>1. CASE t = s
    <3>1. SameOperands(rob.at[s], [rob EXCEPT !.at[s].executed = "COMPLETED"].at[s])
      BY <1>5 DEF IsExecuting
    <3>2. [rob EXCEPT !.at[s].executed = "COMPLETED"].at[s] = c.at[s]
      BY <1>5 DEF IsExecuting
    <3> QED
      BY <2>1, <3>1, <3>2 DEF SameOperands
  <2>2. CASE t # s
    BY <1>5, <2>2 DEF IsWithoutSource, SameOperands
  <2> QED
    BY <2>1, <2>2
<1>13. c.at[s].executed = "COMPLETED"
  <2>1. rob.at[s] \in Entry
    BY <1>2 DEF Rob
  <2> QED
    BY <1>5, <2>1, EntryExecutes DEF Progress
<1>14. T \subseteq Slot /\ T \cap ReadyToExecute(program, rob) = {}
       /\ ReadyToExecute(program, c) = ReadyToExecute(program, rob) \cup T
  <2>1. \A t \in Slot : Accesses(program, c.at[t]) = Accesses(program, rob.at[t])
                        /\ Accesses(program, rob.at[t]) = IsMemory(t)
    BY <1>12 DEF Accesses, IsMemory, InstrIn, At
  <2>2. \A t \in T : t \in R /\ ~IsMemory(t)
    OBVIOUS
  <2>3. \A t \in Slot : t \in T <=> t \in R /\ ~IsMemory(t)
    OBVIOUS
  <2> HIDE DEF T
  <2>4. \A t \in T : t \in Slot /\ t \notin ReadyToExecute(program, rob)
    BY <1>11, <2>2 DEF ReadyToExecute
  <2>5. \A t \in Slot : t \in ReadyToExecute(program, c) <=> t \in ReadyToExecute(program, rob) \/ t \in T
    <3> TAKE t \in Slot
    <3>1. CASE t = s
      BY <1>8, <1>11, <1>13, <2>3, <3>1 DEF ReadyToExecute
    <3>2. CASE t # s
      BY <1>11, <1>12, <2>1, <2>3, <3>2 DEF ReadyToExecute
    <3> QED
      BY <3>1, <3>2
  <2>6. ReadyToExecute(program, c) \subseteq Slot /\ ReadyToExecute(program, rob) \subseteq Slot
    BY DEF ReadyToExecute
  <2> QED
    BY <2>4, <2>5, <2>6
<1>15. Enumerates(Woken(s), T) /\ T \in SUBSET (0 .. ROB_SIZE - 1)
  <2>1. T \in SUBSET Nat /\ IsFiniteSet(T)
    BY <1>14, SlotsFinite, Sizes DEF Slot
  <2>2. Woken(s) = Ascending(T)
    BY DEF Woken, R
  <2> HIDE DEF T
  <2> QED
    BY <1>14, <2>1, <2>2, AscendingEnumerates DEF Slot
<1> HIDE DEF T
<1>16. Woken(s) \in Seq(Slot)
  <2>1. Woken(s) \in Seq(T) /\ T \subseteq Slot
    BY <1>14, <1>15 DEF Enumerates
  <2> QED
    BY <2>1, SeqDef
<1>17. ready' \in ReadyRec /\ ready'.RTE1 = ready.RTE1 /\ ready'.RTL0 = ready.RTL0 /\ ready'.RTL1 = ready.RTL1
       /\ ready'.RTE0 = PushAll(ready.RTE0, Woken(s))
  <2>1. ready.RTE0 \in RingRec(ROB_SIZE, Slot)
    BY <1>2 DEF ReadyRec
  <2>2. PushAll(ready.RTE0, Woken(s)) \in RingRec(ROB_SIZE, Slot)
    BY <1>16, <2>1, Sizes, PushAllIsRec
  <2> QED
    BY <1>1, <1>2, <2>2 DEF ReadyRec
<1>18. Queued(program, c, ready')
  <2>1. PICK S0, S1 : /\ RingOf(ready.RTE0, ROB_SIZE, S0)
                      /\ RingOf(ready.RTE1, ROB_SIZE, S1)
                      /\ S0 \cap S1 = {}
                      /\ S0 \cup S1 = ReadyToExecute(program, rob)
    BY DEF Registers, Queued
  <2>2. S0 \cap T = {} /\ (S0 \cup T) \cap S1 = {} /\ (S0 \cup T) \cup S1 = ReadyToExecute(program, c)
    BY <1>14, <2>1
  <2>3. RingOf(ready'.RTE0, ROB_SIZE, S0 \cup T)
    BY <1>15, <1>17, <2>1, <2>2, Sizes, PushSetToRing
  <2> QED
    BY <1>17, <2>1, <2>2, <2>3 DEF Queued
<1>19. Indexed(c)
  BY <1>12 DEF Machine, Indexed
<1>20. LoadStages(lq, ready', dtlb, l1d)
  BY <1>17 DEF Machine, LoadStages
<1>21. inflight' \in InflightRec
  BY <1>1 DEF Machine, InflightRec
<1>22. Machine'
  BY <1>1, <1>5, <1>17, <1>19, <1>20, <1>21 DEF Machine, c
<1>23. Registers'
  BY <1>1, <1>9, <1>18 DEF Registers, c, n
<1> QED
  BY <1>22, <1>23

\* The types of the invariant are those of the core.
LEMMA CoreTyped ==
  ASSUME Machine
  PROVE  Core \in CoreRec(program)
BY CoreIsRec DEF Machine, Core

\* do_memory_scheduling,
LEMMA MemoryKeeps ==
  ASSUME Machine, Registers, NEW s \in Slot, do_memory_scheduling(s)
  PROVE  Machine' /\ Registers'
<1> DEFINE n == Len(results)
           q == check_and_add_lsq(s)
           b == q.rob
           e == b.at[s]
           f == Issued(e)
           all == AllAdded(e, InstrIn(s))
           r == IF all THEN [q EXCEPT !.rob.at[s] = Issued(@)] ELSE q
           c == rob'
<1>1. /\ InRob(s) /\ IsMemory(s) /\ At(s).reg_ready /\ At(s).scheduled = "INFLIGHT"
      /\ Become(r)
      /\ UNCHANGED <<program, read, dispatched, dtlb, l1d, memory, results>>
  BY DEF do_memory_scheduling, MayAdd, trace, outside, history
<1>2. rob \in Rob /\ RegInv(program, rob, dispatched, n) /\ InTrace(program, read, dispatched, n)
      /\ program \in Programs /\ IdsInTrace
  BY IdsAreInTrace DEF Machine, Registers, InTrace
<1>3. q \in Grown(s)
  BY <1>1, <1>2, CoreTyped, AllGrow DEF Machine
<1> HIDE DEF q
<1>4. /\ q \in CoreRec(program) /\ b \in Rob /\ Grows(rob, b, s) /\ SameRTE(ready, q.ready)
      /\ LoadStages(q.lq, q.ready, dtlb, l1d)
  BY <1>3, CoreFields DEF Grown
<1>5. e \in Entry
  BY <1>4 DEF Rob
<1>6. IsIssued(e, f)
  BY <1>5, IssuedEntry
<1>7. /\ lq' = q.lq /\ sq' = q.sq /\ sta' = q.sta /\ ready' = q.ready
      /\ inflight' = q.inflight /\ got' = q.got
      /\ c = IF all THEN [b EXCEPT !.at[s] = f] ELSE b
  <2>1. /\ r.lq = q.lq /\ r.sq = q.sq /\ r.sta = q.sta /\ r.ready = q.ready
        /\ r.inflight = q.inflight /\ r.got = q.got
        /\ r.rob = IF all THEN [b EXCEPT !.at[s] = f] ELSE b
    <3> HIDE DEF all
    <3> QED
      BY <1>4 DEF CoreRec
  <2> HIDE DEF r, all, f, b
  <2> QED
    BY <1>1, <2>1 DEF Become
<1>8. /\ c \in Rob /\ c.head = b.head /\ c.tail = b.tail
      /\ \A t \in Slot : t # s => c.at[t] = b.at[t]
      /\ c.at[s] = IF all THEN f ELSE e
  <2> HIDE DEF all
  <2>1. f \in Entry
    BY <1>6 DEF IsIssued
  <2> HIDE DEF f, c
  <2>2. CASE all
    <3>1. b \in Rob /\ c = [b EXCEPT !.at[s] = f]
      BY <1>4, <1>7, <2>2
    <3> HIDE DEF b, e
    <3>2. Replaces(b, c, s, f)
      BY <2>1, <3>1, ReplacedSlot
    <3> QED
      BY <2>2, <3>2 DEF Replaces
  <2>3. CASE ~all
    BY <1>7, <1>4, <2>3
  <2> QED
    BY <2>2, <2>3
<1> HIDE DEF all, f, c, r, n
<1>9. \A t \in Slot : t # s => /\ SameRegs(rob.at[t], c.at[t])
                               /\ c.at[t].source_added = rob.at[t].source_added
                               /\ c.at[t].destination_added = rob.at[t].destination_added
  BY <1>4, <1>8 DEF Grows
<1>10. /\ c.at[s].id = rob.at[s].id /\ c.at[s].reg_ready = rob.at[s].reg_ready
       /\ c.at[s].num_reg_dependent = rob.at[s].num_reg_dependent
       /\ c.at[s].registers_depend_on_me = rob.at[s].registers_depend_on_me
       /\ c.at[s].source_added = b.at[s].source_added /\ c.at[s].lq_index = b.at[s].lq_index
       /\ \/ c.at[s].scheduled = rob.at[s].scheduled /\ c.at[s].executed = rob.at[s].executed
          \/ c.at[s].scheduled = "COMPLETED" /\ c.at[s].executed = "INFLIGHT"
  <2>1. SameRegs(rob.at[s], e)
    BY <1>4 DEF Grows
  <2> HIDE DEF e
  <2>2. CASE all
    BY <1>6, <1>8, <2>1, <2>2 DEF IsIssued, SameOperands, SameRegs, e
  <2>3. CASE ~all
    BY <1>8, <2>1, <2>3 DEF SameRegs, e
  <2> QED
    BY <2>2, <2>3
<1>11. rob.at[s].id # 0 /\ rob.at[s].reg_ready /\ rob.at[s].scheduled = "INFLIGHT" /\ Accesses(program, rob.at[s])
       /\ rob.at[s].executed = "NO"
  <2>1. rob.at[s].id # 0 /\ rob.at[s].reg_ready /\ rob.at[s].scheduled = "INFLIGHT" /\ Accesses(program, rob.at[s])
    BY <1>1 DEF InRob, At, IsMemory, InstrIn, Accesses
  <2> QED
    BY <1>2, <2>1 DEF RegInv, IssuedWhenReady
<1>12. KeepsRegs(rob, c)
  <2>1. \A t \in Slot : t = s \/ SameRegs(rob.at[t], c.at[t])
    BY <1>9
  <2>2. c \in Rob /\ c.head = rob.head /\ c.tail = rob.tail
    BY <1>4, <1>8 DEF Grows
  <2> QED
    BY <1>10, <1>11, <2>1, <2>2 DEF SameRegs, KeepsRegs
<1>13. \A t \in Slot : c.at[t].id = rob.at[t].id /\ Accesses(program, c.at[t]) = Accesses(program, rob.at[t])
  BY <1>12 DEF KeepsRegs, Accesses
<1>14. IssuedWhenReady(program, c)
  <2>1. IssuedWhenReady(program, rob)
    BY <1>2 DEF RegInv
  <2>2. \A t \in Slot : t # s => /\ c.at[t].id = rob.at[t].id /\ c.at[t].scheduled = rob.at[t].scheduled
                                 /\ c.at[t].executed = rob.at[t].executed /\ c.at[t].reg_ready = rob.at[t].reg_ready
                                 /\ c.at[t].source_added = rob.at[t].source_added
                                 /\ c.at[t].destination_added = rob.at[t].destination_added
    BY <1>9 DEF SameRegs
  <2>3. /\ c.at[s].reg_ready /\ Accesses(program, c.at[s])
        /\ \/ c.at[s].scheduled = "INFLIGHT" /\ c.at[s].executed = "NO"
           \/ c.at[s].scheduled = "COMPLETED" /\ c.at[s].executed = "INFLIGHT"
    BY <1>10, <1>11, <1>13
  <2> QED
    BY <1>13, <2>1, <2>2, <2>3 DEF IssuedWhenReady
<1>15. RegInv(program, c, dispatched, n)
  BY <1>2, <1>12, <1>14, RegsKept
<1>16. ReadyToExecute(program, c) = ReadyToExecute(program, rob)
  <2>1. \A t \in Slot : t # s => c.at[t].executed = rob.at[t].executed /\ c.at[t].reg_ready = rob.at[t].reg_ready
    BY <1>9 DEF SameRegs
  <2> QED
    BY <1>11, <1>13, <2>1 DEF ReadyToExecute
<1>17. Queued(program, c, ready')
  BY <1>4, <1>7, <1>16 DEF Registers, Queued, SameRTE
<1>18. Indexed(c)
  BY <1>4, <1>8, <1>10 DEF Grows, Indexed
<1>19. Machine'
  <2>1. lq' \in [Lq -> LoadRec] /\ sq' \in SqRec /\ sta' \in RingRec(STA_SIZE, Nat) /\ ready' \in ReadyRec
        /\ inflight' \in InflightRec /\ got' \in GotRec(program) /\ LoadStages(lq', ready', dtlb, l1d)
    BY <1>4, <1>7, CoreFields
  <2> QED
    BY <1>1, <1>8, <1>18, <2>1 DEF Machine, c
<1>20. Registers'
  BY <1>1, <1>15, <1>17 DEF Registers, c, n
<1> QED
  BY <1>19, <1>20

\* the request of a store to the DTLB,
LEMMA TranslateStoreKeeps ==
  ASSUME Machine, Registers, TranslateStore
  PROVE  Machine' /\ Registers'
<1> DEFINE f == First(ready.RTS0)
<1>1. /\ f # Nil /\ dtlb' = dtlb \cup {<<"store", f>>}
      /\ sq' = [sq EXCEPT !.at[f].translated = "INFLIGHT"]
      /\ ready' = [ready EXCEPT !.RTS0 = Pop(@)]
      /\ UNCHANGED <<program, read, dispatched, rob, lq, sta, inflight, got, l1d, memory, results>>
  BY DEF TranslateStore, trace, history
<1>2. ready \in ReadyRec /\ ready.RTS0 \in RingRec(SQ_SIZE, Sq) /\ sq \in SqRec
  BY DEF Machine, ReadyRec
<1>3. f \in Sq
  BY <1>1, <1>2 DEF First, RingRec
<1> HIDE DEF f
<1>4. sq' \in SqRec
  <2>1. [sq.at[f] EXCEPT !.translated = "INFLIGHT"] \in StoreRec
    BY <1>2, <1>3 DEF SqRec, StoreRec, Progress
  <2> QED
    BY <1>1, <1>2, <1>3, <2>1 DEF SqRec
<1>5. Pop(ready.RTS0) \in RingRec(SQ_SIZE, Sq)
  BY <1>2, Sizes, PopIsRec
<1>6. ready' \in ReadyRec /\ ready'.RTE0 = ready.RTE0 /\ ready'.RTE1 = ready.RTE1
      /\ ready'.RTL0 = ready.RTL0 /\ ready'.RTL1 = ready.RTL1
  BY <1>1, <1>2, <1>5 DEF ReadyRec
<1>7. \A l : <<"load", l>> \in dtlb' <=> <<"load", l>> \in dtlb
  BY <1>1
<1>8. LoadStages(lq, ready', dtlb', l1d)
  BY <1>6, <1>7 DEF Machine, LoadStages
<1>9. dtlb' \subseteq Request
  BY <1>1, <1>3 DEF Machine, Request
<1>10. Machine'
  BY <1>1, <1>4, <1>6, <1>8, <1>9 DEF Machine
<1>11. Registers'
  BY <1>1, <1>6 DEF Registers, Queued
<1> QED
  BY <1>10, <1>11

\* that of a load,
LEMMA TranslateLoadKeeps ==
  ASSUME Machine, Registers, TranslateLoad
  PROVE  Machine' /\ Registers'
<1> DEFINE l == First(ready.RTL0)
<1>1. /\ l # Nil /\ dtlb' = dtlb \cup {<<"load", l>>}
      /\ lq' = [lq EXCEPT ![l].translated = "INFLIGHT"]
      /\ ready' = [ready EXCEPT !.RTL0 = Pop(ready.RTL0)]
      /\ UNCHANGED <<program, read, dispatched, rob, sq, sta, inflight, got, l1d, memory, results>>
  BY DEF TranslateLoad, trace, history
<1>2. ready \in ReadyRec /\ ready.RTL0 \in RingRec(LQ_SIZE, Lq) /\ lq \in [Lq -> LoadRec]
      /\ LoadStages(lq, ready, dtlb, l1d)
  BY DEF Machine, ReadyRec
<1>3. l \in InStage(lq, "NO", "NO")
  BY <1>1, <1>2, Sizes, FirstIsInRing DEF LoadStages
<1>4. l \in Lq /\ lq[l].fetched = "NO"
  BY <1>3 DEF InStage
<1> DEFINE r == lq'
<1>5. Restage(lq, r, {l}, "INFLIGHT", "NO") /\ r \in [Lq -> LoadRec]
  <2> DEFINE e == lq[l]
  <2>1. e \in LoadRec
    BY <1>2, <1>4
  <2>2. r = [lq EXCEPT ![l] = [e EXCEPT !.translated = "INFLIGHT"]]
    BY <1>1
  <2>3. e.fetched = "NO"
    BY <1>4
  <2> HIDE DEF e, l
  <2>4. [e EXCEPT !.translated = "INFLIGHT"] \in LoadRec
        /\ [e EXCEPT !.translated = "INFLIGHT"].addr = e.addr
        /\ [e EXCEPT !.translated = "INFLIGHT"].producer_id = e.producer_id
        /\ [e EXCEPT !.translated = "INFLIGHT"].translated = "INFLIGHT"
        /\ [e EXCEPT !.translated = "INFLIGHT"].fetched = e.fetched
    BY <2>1 DEF LoadRec, Progress
  <2> HIDE DEF r
  <2>5. r[l] = [e EXCEPT !.translated = "INFLIGHT"] /\ \A m \in Lq : m # l => r[m] = lq[m]
    BY <1>2, <1>4, <2>2
  <2> QED
    BY <1>2, <1>4, <2>2, <2>3, <2>4, <2>5 DEF Restage, e
<1> DEFINE h == ready'
<1>6. LoadStages(r, h, dtlb \cup {<<"load", l>>}, l1d)
  <2> HIDE DEF r
  <2>1. l = First(ready.RTL0) /\ h = [ready EXCEPT !.RTL0 = Pop(ready.RTL0)]
    BY <1>1 DEF l
  <2> HIDE DEF l, h
  <2> QED
    BY <1>1, <1>2, <1>5, <2>1, StagesTranslate
<1>7. Pop(ready.RTL0) \in RingRec(LQ_SIZE, Lq)
  BY <1>2, Sizes, PopIsRec
<1>8. ready' \in ReadyRec /\ ready'.RTE0 = ready.RTE0 /\ ready'.RTE1 = ready.RTE1
  BY <1>1, <1>2, <1>7 DEF ReadyRec
<1>9. dtlb' \subseteq Request
  BY <1>1, <1>4 DEF Machine, Request
<1>10. Machine'
  BY <1>1, <1>5, <1>6, <1>8, <1>9 DEF Machine
<1>11. Registers'
  BY <1>1, <1>8 DEF Registers, Queued
<1> QED
  BY <1>10, <1>11

\* the request of a load to the L1D.
LEMMA ExecuteLoadKeeps ==
  ASSUME Machine, Registers, execute_load
  PROVE  Machine' /\ Registers'
<1> DEFINE l == First(ready.RTL1)
<1>1. /\ l # Nil /\ l1d' = l1d \cup {l}
      /\ lq' = [lq EXCEPT ![l].fetched = "INFLIGHT"]
      /\ ready' = [ready EXCEPT !.RTL1 = Pop(ready.RTL1)]
      /\ UNCHANGED <<program, read, dispatched, rob, sq, sta, inflight, got, dtlb, memory, results>>
  BY DEF execute_load, trace, history
<1>2. ready \in ReadyRec /\ ready.RTL1 \in RingRec(LQ_SIZE, Lq) /\ lq \in [Lq -> LoadRec]
      /\ LoadStages(lq, ready, dtlb, l1d)
  BY DEF Machine, ReadyRec
<1>3. l \in InStage(lq, "COMPLETED", "NO")
  BY <1>1, <1>2, Sizes, FirstIsInRing DEF LoadStages
<1>4. l \in Lq /\ lq[l].translated = "COMPLETED"
  BY <1>3 DEF InStage
<1> DEFINE r == lq'
<1>5. Restage(lq, r, {l}, "COMPLETED", "INFLIGHT") /\ r \in [Lq -> LoadRec]
  <2> DEFINE e == lq[l]
  <2>1. e \in LoadRec
    BY <1>2, <1>4
  <2>2. r = [lq EXCEPT ![l] = [e EXCEPT !.fetched = "INFLIGHT"]]
    BY <1>1
  <2>3. e.translated = "COMPLETED"
    BY <1>4
  <2> HIDE DEF e, l
  <2>4. [e EXCEPT !.fetched = "INFLIGHT"] \in LoadRec
        /\ [e EXCEPT !.fetched = "INFLIGHT"].addr = e.addr
        /\ [e EXCEPT !.fetched = "INFLIGHT"].producer_id = e.producer_id
        /\ [e EXCEPT !.fetched = "INFLIGHT"].fetched = "INFLIGHT"
        /\ [e EXCEPT !.fetched = "INFLIGHT"].translated = e.translated
    BY <2>1 DEF LoadRec, Progress
  <2> HIDE DEF r
  <2>5. r[l] = [e EXCEPT !.fetched = "INFLIGHT"] /\ \A m \in Lq : m # l => r[m] = lq[m]
    BY <1>2, <1>4, <2>2
  <2> QED
    BY <1>2, <1>4, <2>2, <2>3, <2>4, <2>5 DEF Restage, e
<1> DEFINE h == ready'
<1>6. LoadStages(r, h, dtlb, l1d \cup {l})
  <2> HIDE DEF r
  <2>1. l = First(ready.RTL1) /\ h = [ready EXCEPT !.RTL1 = Pop(ready.RTL1)]
    BY <1>1 DEF l
  <2> HIDE DEF l, h
  <2> QED
    BY <1>1, <1>2, <1>5, <2>1, StagesExecute
<1>7. Pop(ready.RTL1) \in RingRec(LQ_SIZE, Lq)
  BY <1>2, Sizes, PopIsRec
<1>8. ready' \in ReadyRec /\ ready'.RTE0 = ready.RTE0 /\ ready'.RTE1 = ready.RTE1
  BY <1>1, <1>2, <1>7 DEF ReadyRec
<1>10. Machine'
  BY <1>1, <1>5, <1>6, <1>8 DEF Machine
<1>11. Registers'
  BY <1>1, <1>8 DEF Registers, Queued
<1> QED
  BY <1>10, <1>11

\* Operations that are done leave the registers and the indices as they are.
LEMMA DoneKeepsRob ==
  ASSUME NEW b \in Rob, NEW c, NEW d, NEW n, SameRob(b, c), Indexed(c), d \in Rob,
         d.head = c.head, d.tail = c.tail, \A t \in Slot : IsWithoutOps(c.at[t], d.at[t], n[t])
  PROVE  SameRob(b, d) /\ Indexed(d)
<1>1. \A t \in Slot : /\ SameRegs(c.at[t], d.at[t])
                      /\ d.at[t].source_added = c.at[t].source_added
                      /\ d.at[t].lq_index = c.at[t].lq_index
                      /\ d.at[t].destination_added = c.at[t].destination_added
  BY DEF IsWithoutOps
<1> QED
  BY <1>1 DEF SameRob, SameRegs, Indexed

\* Sets of store queue entries are finite.
LEMMA SqFinite ==
  ASSUME NEW S \in SUBSET Sq
  PROVE  IsFiniteSet(S) /\ Cardinality(S) \in Nat
<1>1. IsFiniteSet(0 .. SQ_SIZE - 1)
  BY Sizes, IndexSet
<1> QED
  BY <1>1, FS_Subset, FS_CardinalityType DEF Sq

\* What a store that executes makes of its entry.
Executes(q, x, f) ==
  /\ x \in CoreRec(program)
  /\ x.rob = q.rob /\ x.lq = q.lq /\ x.sta = q.sta /\ x.inflight = q.inflight /\ x.got = q.got
  /\ x.ready.RTE0 = q.ready.RTE0 /\ x.ready.RTE1 = q.ready.RTE1
  /\ x.ready.RTL0 = q.ready.RTL0 /\ x.ready.RTL1 = q.ready.RTL1
  /\ x.ready.RTS0 = q.ready.RTS0 /\ x.ready.RTS1 = Pop(q.ready.RTS1)
  /\ x.sq.head = q.sq.head /\ x.sq.tail = q.sq.tail
  /\ \A g \in Sq : x.sq.at[g] = IF g = f THEN [q.sq.at[f] EXCEPT !.fetched = "COMPLETED"] ELSE q.sq.at[g]

\* What execute_store does to the store itself.
LEMMA StoreExecutes ==
  ASSUME NEW q \in CoreRec(program), NEW f \in Sq,
         NEW x, x = [q EXCEPT !.sq.at[f].fetched = "COMPLETED", !.ready.RTS1 = Pop(@)]
  PROVE  Executes(q, x, f)
<1> DEFINE e == [q.sq.at[f] EXCEPT !.fetched = "COMPLETED"]
           y == [q.sq EXCEPT !.at[f] = e]
           z == [q.ready EXCEPT !.RTS1 = Pop(q.ready.RTS1)]
<1>1. q.sq \in SqRec /\ q.ready \in ReadyRec
  BY CoreFields
<1>2. e \in StoreRec
  BY <1>1 DEF SqRec, StoreRec, Progress
<1>3. x = [q EXCEPT !.sq = y, !.ready = z]
  BY DEF CoreRec
<1> HIDE DEF e
<1>4. y \in SqRec /\ y.head = q.sq.head /\ y.tail = q.sq.tail
      /\ \A g \in Sq : y.at[g] = IF g = f THEN e ELSE q.sq.at[g]
  BY <1>1, <1>2 DEF SqRec
<1>5. Pop(q.ready.RTS1) \in RingRec(SQ_SIZE, Sq)
  BY <1>1, Sizes, PopIsRec DEF ReadyRec
<1>6. /\ z \in ReadyRec
      /\ z.RTE0 = q.ready.RTE0 /\ z.RTE1 = q.ready.RTE1
      /\ z.RTL0 = q.ready.RTL0 /\ z.RTL1 = q.ready.RTL1
      /\ z.RTS0 = q.ready.RTS0 /\ z.RTS1 = Pop(q.ready.RTS1)
  BY <1>1, <1>5 DEF ReadyRec
<1> HIDE DEF y, z
<1>7. /\ x \in CoreRec(program) /\ x.sq = y /\ x.ready = z
      /\ x.rob = q.rob /\ x.lq = q.lq /\ x.sta = q.sta /\ x.inflight = q.inflight /\ x.got = q.got
  BY <1>3, <1>4, <1>6 DEF CoreRec
<1> QED
  BY <1>4, <1>6, <1>7 DEF Executes, e

\* A store executes: first its own operation is done, then those of the loads it forwards to.
StoreGoesOn(r) ==
  LET f == First(ready.RTS1)
      s == sq.at[f].rob_index
  IN /\ f \in Sq /\ s \in Slot /\ ForwardTo(f) \in SUBSET Lq
     /\ \A l \in ForwardTo(f) : lq[l].producer_id = sq.at[f].id
     /\ \E x, y : /\ Executes(Core, x, f)
                  /\ IsOpsDone(program, x, y, [t \in Slot |-> IF t = s THEN 1 ELSE 0])
                  /\ IsReleased(program, y, r, ForwardTo(f), [l \in Lq |-> sq.at[f].id])

\* It then hands its value to the loads that wait for it.
LEMMA ExecuteStoreGoes ==
  ASSUME Machine, execute_store
  PROVE  \E r : /\ Become(r) /\ StoreGoesOn(r)
                /\ UNCHANGED <<program, read, dispatched, dtlb, l1d, memory, results>>
<1> DEFINE f == First(ready.RTS1)
           s == sq.at[f].rob_index
           n == [t \in Slot |-> IF t = s THEN 1 ELSE 0]
           x == [Core EXCEPT !.sq.at[f].fetched = "COMPLETED", !.ready.RTS1 = Pop(@)]
           y == OpsDone(x, n)
           L == ForwardTo(f)
           v == [l \in Lq |-> sq.at[f].id]
           r == release_load_queue(y, L, v)
<1>1. /\ f # Nil /\ ForwardsToItsLoads(f) /\ Become(r)
      /\ UNCHANGED <<program, read, dispatched, dtlb, l1d, memory, results>>
  BY DEF execute_store, trace, outside, history
<1>2. ready.RTS1 \in RingRec(SQ_SIZE, Sq) /\ sq \in SqRec /\ rob \in Rob
  BY DEF Machine, ReadyRec
<1>3. f \in Sq
  BY <1>1, <1>2 DEF First, RingRec
<1>4. sq.at[f] \in StoreRec
  BY <1>2, <1>3 DEF SqRec
<1>5. s \in Slot /\ sq.at[f].id \in Nat
  BY <1>4 DEF StoreRec
<1>6. L \in SUBSET Lq /\ \A l \in L : lq[l].producer_id = sq.at[f].id
  <2> SUFFICES ASSUME NEW l \in L PROVE l \in Lq /\ lq[l].producer_id = sq.at[f].id
    OBVIOUS
  <2>1. PICK d \in DependentLoads(s, sq.at[f].addr) : l = At(d[1]).lq_index[d[2]]
    BY DEF ForwardTo
  <2>2. d[1] \in Slot /\ d[2] \in At(d[1]).source_added
    BY <2>1 DEF DependentLoads
  <2>3. l \in Lq
    BY <2>1, <2>2 DEF Machine, Indexed, At
  <2> QED
    BY <1>1, <2>1, <2>3 DEF ForwardsToItsLoads
<1>7. Executes(Core, x, f)
  <2> HIDE DEF f
  <2> QED
    BY <1>3, CoreTyped, StoreExecutes
<1> HIDE DEF x, s
<1>8. n \in [Slot -> Int] /\ x \in CoreRec(program)
  BY <1>7 DEF Executes
<1>9. IsOpsDone(program, x, y, n)
  <2> HIDE DEF n
  <2> QED
    BY <1>8, OpsDoneEffect
<1>10. y \in CoreRec(program) /\ \A l \in L : v[l] \in Int
  BY <1>5, <1>6, <1>9 DEF IsOpsDone
<1> HIDE DEF y
<1>11. IsReleased(program, y, r, L, v)
  <2> HIDE DEF L, v
  <2> QED
    BY <1>6, <1>10, ReleaseEffect
<1> HIDE DEF r
<1>12. StoreGoesOn(r)
  BY <1>3, <1>5, <1>6, <1>7, <1>9, <1>11 DEF StoreGoesOn, s
<1> QED
  BY <1>1, <1>12

\* execute_store keeps the invariant.
LEMMA ExecuteStoreKeeps ==
  ASSUME Machine, Registers, execute_store
  PROVE  Machine' /\ Registers'
<1> DEFINE f == First(ready.RTS1)
           L == ForwardTo(f)
<1>1. PICK r : /\ Become(r) /\ StoreGoesOn(r)
               /\ UNCHANGED <<program, read, dispatched, dtlb, l1d, memory, results>>
  BY ExecuteStoreGoes
<1>2. PICK x, y, n, v : /\ Executes(Core, x, f)
                        /\ IsOpsDone(program, x, y, n)
                        /\ IsReleased(program, y, r, L, v)
  BY <1>1 DEF StoreGoesOn
<1>3. f \in Sq /\ \A l \in L : lq[l].producer_id = sq.at[f].id
  BY <1>1 DEF StoreGoesOn
<1> DEFINE k == [s \in Slot |-> Cardinality(InLoads(y, L, s))]
<1>4. /\ Core.rob = rob /\ Core.lq = lq /\ Core.ready = ready
  BY DEF Core
<1>5. /\ x.rob = rob /\ x.lq = lq /\ SameRTE(ready, x.ready)
      /\ x.ready.RTL0 = ready.RTL0 /\ x.ready.RTL1 = ready.RTL1
  BY <1>2, <1>4 DEF Executes, SameRTE
<1>6. /\ y.rob \in Rob /\ y.rob.head = rob.head /\ y.rob.tail = rob.tail
      /\ \A s \in Slot : IsWithoutOps(rob.at[s], y.rob.at[s], n[s])
      /\ y.lq = lq /\ y.ready = x.ready
  BY <1>2, <1>5, CoreFields DEF IsOpsDone
<1>7. /\ r \in CoreRec(program) /\ r.rob \in Rob /\ r.rob.head = y.rob.head /\ r.rob.tail = y.rob.tail
      /\ \A s \in Slot : IsWithoutOps(y.rob.at[s], r.rob.at[s], k[s])
      /\ \A l \in Lq : r.lq[l] = IF l \in L THEN NoLoad ELSE lq[l]
      /\ r.ready = x.ready
  BY <1>2, <1>6, CoreFields DEF IsReleased
<1> HIDE DEF k, f, L
<1>8. rob \in Rob /\ Indexed(rob)
  BY DEF Machine
<1>9. SameRob(rob, y.rob) /\ Indexed(y.rob)
  BY <1>6, <1>8, SameRobItself, DoneKeepsRob
<1>10. SameRob(rob, r.rob) /\ Indexed(r.rob)
  BY <1>7, <1>8, <1>9, DoneKeepsRob
<1>11. \A l \in L : lq[l].producer_id # Nil
  <2>1. sq.at[f] \in StoreRec
    BY <1>3 DEF Machine, SqRec
  <2> QED
    BY <1>3, <2>1, Sizes DEF StoreRec
<1>12. LoadStages(r.lq, ready, dtlb, l1d)
  BY <1>7, <1>11, StagesWithout DEF Machine
<1>13. LoadStages(r.lq, r.ready, dtlb, l1d)
  BY <1>5, <1>7, <1>12 DEF LoadStages
<1>14. rob' = r.rob /\ lq' = r.lq /\ sq' = r.sq /\ sta' = r.sta /\ ready' = r.ready
       /\ inflight' = r.inflight /\ got' = r.got
  BY <1>1 DEF Become
<1>15. Machine'
  BY <1>1, <1>7, <1>10, <1>13, <1>14, CoreFields DEF Machine
<1>16. RegInv(program, r.rob, dispatched, Len(results)) /\ Queued(program, r.rob, r.ready)
  BY <1>5, <1>7, <1>8, <1>10, RegistersKept DEF Registers
<1>17. Registers'
  BY <1>1, <1>14, <1>16 DEF Registers
<1> QED
  BY <1>15, <1>17

\* The L1D answers loads it was asked for, with the value of their address.
LEMMA DataDoneGoes ==
  ASSUME Machine, NEW packet, DataDone(packet)
  PROVE  \E r : /\ Become(r) /\ packet \in SUBSET l1d /\ l1d \in SUBSET Lq /\ l1d' = l1d \ packet
                /\ IsReleased(program, Core, r, packet, [l \in packet |-> memory[lq[l].addr]])
                /\ UNCHANGED <<program, read, dispatched, dtlb, memory, results>>
<1> DEFINE v == [l \in packet |-> memory[lq[l].addr]]
           r == release_load_queue(Core, packet, v)
<1>1. /\ packet \in SUBSET l1d /\ l1d' = l1d \ packet /\ Become(r)
      /\ UNCHANGED <<program, read, dispatched, dtlb, memory, results>>
  BY DEF DataDone, trace, history
<1>2. l1d \in SUBSET Lq /\ \A l \in packet : lq[l].addr \in Addr
  <2>1. l1d \in SUBSET Lq /\ \A l \in packet : l \in Lq /\ lq[l].addr # Nil
    BY <1>1 DEF Machine, LoadStages, InStage
  <2>2. \A l \in Lq : lq[l] \in LoadRec
    BY DEF Machine
  <2> QED
    BY <2>1, <2>2 DEF LoadRec
<1>3. \A l \in packet : v[l] \in Int
  BY <1>2 DEF Machine
<1>4. Core \in CoreRec(program) /\ packet \in SUBSET Lq
  BY <1>1, <1>2, CoreTyped
<1>5. IsReleased(program, Core, r, packet, v)
  <2> HIDE DEF v
  <2> QED
    BY <1>3, <1>4, ReleaseEffect
<1> QED
  BY <1>1, <1>2, <1>5

\* The answer of the L1D keeps the invariant.
LEMMA DataDoneKeeps ==
  ASSUME Machine, Registers, NEW packet, DataDone(packet)
  PROVE  Machine' /\ Registers'
<1>1. PICK r, v : /\ Become(r) /\ packet \in SUBSET l1d /\ l1d \in SUBSET Lq /\ l1d' = l1d \ packet
                  /\ IsReleased(program, Core, r, packet, v)
                  /\ UNCHANGED <<program, read, dispatched, dtlb, memory, results>>
  BY DataDoneGoes
<1> DEFINE k == [s \in Slot |-> Cardinality(InLoads(Core, packet, s))]
<1>2. Core.rob = rob /\ Core.lq = lq /\ Core.ready = ready
  BY DEF Core
<1>3. /\ r \in CoreRec(program) /\ r.rob \in Rob /\ r.rob.head = rob.head /\ r.rob.tail = rob.tail
      /\ \A s \in Slot : IsWithoutOps(rob.at[s], r.rob.at[s], k[s])
      /\ \A l \in Lq : r.lq[l] = IF l \in packet THEN NoLoad ELSE lq[l]
      /\ r.ready = ready
  BY <1>1, <1>2, CoreFields DEF IsReleased
<1> HIDE DEF k
<1>4. rob \in Rob /\ Indexed(rob)
  BY DEF Machine
<1>5. SameRob(rob, r.rob) /\ Indexed(r.rob)
  BY <1>3, <1>4, SameRobItself, DoneKeepsRob
<1>6. LoadStages(r.lq, ready, dtlb, l1d \ packet)
  BY <1>1, <1>3, StagesWithoutFetched DEF Machine
<1>7. rob' = r.rob /\ lq' = r.lq /\ sq' = r.sq /\ sta' = r.sta /\ ready' = r.ready
      /\ inflight' = r.inflight /\ got' = r.got
  BY <1>1 DEF Become
<1>8. Machine'
  BY <1>1, <1>3, <1>5, <1>6, <1>7, CoreFields DEF Machine
<1>9. RegInv(program, r.rob, dispatched, Len(results)) /\ Queued(program, r.rob, r.ready)
  <2>1. SameRTE(ready, r.ready)
    BY <1>3 DEF SameRTE
  <2> QED
    BY <1>4, <1>5, <2>1, RegistersKept DEF Registers
<1>10. Registers'
  BY <1>1, <1>7, <1>9 DEF Registers
<1> QED
  BY <1>8, <1>10

\* The order in which the entries of a packet return lists them.
LEMMA InOrderOfEnumerates ==
  ASSUME NEW S \in SUBSET Nat, IsFiniteSet(S), NEW own
  PROVE  Enumerates(InOrderOf(own, S), S)
<1>1. CASE own \in S
  <2>1. Enumerates(Append(<< >>, own), {} \cup {own})
    BY EnumerateEmpty, EnumerateOne
  <2>2. Append(<< >>, own) = <<own>>
    OBVIOUS
  <2>3. {} \cup {own} = {own}
    OBVIOUS
  <2>4. Enumerates(<<own>>, {own})
    BY <2>1, <2>2, <2>3
  <2> DEFINE T == S \ {own}
  <2>5. T \in SUBSET Nat /\ IsFiniteSet(T) /\ {own} \cap T = {} /\ {own} \cup T = S
    BY <1>1, FS_Subset
  <2>6. InOrderOf(own, S) = <<own>> \o Ascending(T)
    BY <1>1 DEF InOrderOf
  <2> HIDE DEF T
  <2>7. Enumerates(Ascending(T), T)
    BY <2>5, AscendingEnumerates
  <2>8. Enumerates(<<own>> \o Ascending(T), {own} \cup T)
    BY <2>4, <2>5, <2>7, EnumerateBoth
  <2> QED
    BY <2>5, <2>6, <2>8
<1>2. CASE own \notin S
  BY <1>2, AscendingEnumerates DEF InOrderOf
<1> QED
  BY <1>1, <1>2

\* A packet of translations: the stores and the loads that ask for it have them.
PacketGoes(packet, K, M, u, w) ==
  /\ packet \subseteq dtlb /\ dtlb' = dtlb \ packet
  /\ K \in SUBSET Lq /\ \A l \in Lq : l \in K <=> <<"load", l>> \in packet
  /\ M \in SUBSET Sq /\ \A f \in Sq : f \in M <=> <<"store", f>> \in packet
  /\ Enumerates(w, K) /\ Enumerates(u, M)
  /\ sq' = [sq EXCEPT !.at = [f \in Sq |->
               IF f \in M THEN [sq.at[f] EXCEPT !.translated = "COMPLETED"] ELSE sq.at[f]]]
  /\ lq' = [l \in Lq |-> IF l \in K THEN [lq[l] EXCEPT !.translated = "COMPLETED"] ELSE lq[l]]
  /\ ready' = [ready EXCEPT !.RTS1 = PushAll(ready.RTS1, u), !.RTL1 = PushAll(ready.RTL1, w)]

\* The DTLB answers requests it was asked for; each answered load and store goes on.
LEMMA TranslationGoes ==
  ASSUME NEW own, NEW packet, TranslationDone(own, packet)
  PROVE  \E K, M, u, w : PacketGoes(packet, K, M, u, w)
<1> DEFINE M == {f \in Sq : <<"store", f>> \in packet}
           K == {l \in Lq : <<"load", l>> \in packet}
           u == IF own[1] = "store" THEN InOrderOf(own[2], M) ELSE Ascending(M)
           w == IF own[1] = "load" THEN InOrderOf(own[2], K) ELSE Ascending(K)
<1>1. /\ packet \subseteq dtlb /\ dtlb' = dtlb \ packet
      /\ sq' = [sq EXCEPT !.at = [f \in Sq |->
                  IF f \in M THEN [sq.at[f] EXCEPT !.translated = "COMPLETED"] ELSE sq.at[f]]]
      /\ lq' = [l \in Lq |-> IF l \in K THEN [lq[l] EXCEPT !.translated = "COMPLETED"] ELSE lq[l]]
      /\ ready' = [ready EXCEPT !.RTS1 = PushAll(ready.RTS1, u), !.RTL1 = PushAll(ready.RTL1, w)]
  BY DEF TranslationDone
<1>2. /\ K \in SUBSET Lq /\ \A l \in Lq : l \in K <=> <<"load", l>> \in packet
      /\ M \in SUBSET Sq /\ \A f \in Sq : f \in M <=> <<"store", f>> \in packet
  OBVIOUS
<1> HIDE DEF K, M
<1>3. K \in SUBSET Nat /\ IsFiniteSet(K) /\ M \in SUBSET Nat /\ IsFiniteSet(M)
  BY <1>2, LqFinite, SqFinite, Sizes DEF Lq, Sq
<1>4. Enumerates(w, K) /\ Enumerates(u, M)
  BY <1>3, InOrderOfEnumerates, AscendingEnumerates
<1> HIDE DEF u, w
<1>5. PacketGoes(packet, K, M, u, w)
  BY <1>1, <1>2, <1>4 DEF PacketGoes
<1> QED
  BY <1>5

\* What the answer does to the load queue.
LEMMA TranslatedLoads ==
  ASSUME NEW q \in [Lq -> LoadRec], NEW K \in SUBSET Lq, \A l \in K : q[l].fetched = "NO",
         NEW r, r = [l \in Lq |-> IF l \in K THEN [q[l] EXCEPT !.translated = "COMPLETED"] ELSE q[l]]
  PROVE  r \in [Lq -> LoadRec] /\ Restage(q, r, K, "COMPLETED", "NO")
<1>1. \A e \in LoadRec :
        /\ [e EXCEPT !.translated = "COMPLETED"] \in LoadRec
        /\ [e EXCEPT !.translated = "COMPLETED"].addr = e.addr
        /\ [e EXCEPT !.translated = "COMPLETED"].producer_id = e.producer_id
        /\ [e EXCEPT !.translated = "COMPLETED"].translated = "COMPLETED"
        /\ [e EXCEPT !.translated = "COMPLETED"].fetched = e.fetched
  BY DEF LoadRec, Progress
<1>2. \A l \in Lq : q[l] \in LoadRec
  OBVIOUS
<1>3. \A l \in Lq : r[l] \in LoadRec
  BY <1>1, <1>2
<1>4. Restage(q, r, K, "COMPLETED", "NO")
  BY <1>1, <1>2 DEF Restage
<1> QED
  BY <1>3, <1>4

\* The answer of the DTLB keeps the invariant.
LEMMA TranslationKeeps ==
  ASSUME Machine, Registers, NEW own, NEW packet, TranslationDone(own, packet)
  PROVE  Machine' /\ Registers'
<1>1. PICK K, M, u, w : PacketGoes(packet, K, M, u, w)
  BY TranslationGoes
<1>2. UNCHANGED <<program, read, dispatched, rob, sta, inflight, got, l1d, memory, results>>
  BY DEF TranslationDone, trace, history
<1>3. ready \in ReadyRec /\ sq \in SqRec /\ lq \in [Lq -> LoadRec] /\ LoadStages(lq, ready, dtlb, l1d)
  BY DEF Machine
<1>4. \A l \in K : lq[l].fetched = "NO"
  BY <1>1, <1>3 DEF PacketGoes, LoadStages, InStage
<1> DEFINE r == lq'
           h == ready'
<1>5. r \in [Lq -> LoadRec] /\ Restage(lq, r, K, "COMPLETED", "NO")
  <2>1. /\ K \in SUBSET Lq
        /\ r = [l \in Lq |-> IF l \in K THEN [lq[l] EXCEPT !.translated = "COMPLETED"] ELSE lq[l]]
    BY <1>1 DEF PacketGoes
  <2> HIDE DEF r
  <2> QED
    BY <1>3, <1>4, <2>1, TranslatedLoads
<1>6. PushAll(ready.RTS1, u) \in RingRec(SQ_SIZE, Sq) /\ PushAll(ready.RTL1, w) \in RingRec(LQ_SIZE, Lq)
  <2>1. u \in Seq(Sq) /\ w \in Seq(Lq)
    <3>1. u \in Seq(M) /\ w \in Seq(K) /\ M \subseteq Sq /\ K \subseteq Lq
      BY <1>1 DEF PacketGoes, Enumerates
    <3> QED
      BY <3>1, SeqDef
  <2>2. ready.RTS1 \in RingRec(SQ_SIZE, Sq) /\ ready.RTL1 \in RingRec(LQ_SIZE, Lq)
    BY <1>3 DEF ReadyRec
  <2> QED
    BY <2>1, <2>2, Sizes, PushAllIsRec
<1>7. /\ h \in ReadyRec /\ h.RTE0 = ready.RTE0 /\ h.RTE1 = ready.RTE1
      /\ h.RTL0 = ready.RTL0 /\ h.RTL1 = PushAll(ready.RTL1, w)
  BY <1>1, <1>3, <1>6 DEF PacketGoes, ReadyRec
<1>8. LoadStages(r, h, dtlb \ packet, l1d)
  <2>1. /\ K \in SUBSET Lq /\ \A l \in Lq : l \in K <=> <<"load", l>> \in packet
        /\ packet \subseteq dtlb /\ Enumerates(w, K)
    BY <1>1 DEF PacketGoes
  <2> HIDE DEF r, h
  <2> QED
    BY <1>3, <1>5, <1>7, <2>1, StagesTranslated
<1>9. sq' \in SqRec
  <2>1. \A e \in StoreRec : [e EXCEPT !.translated = "COMPLETED"] \in StoreRec
    BY DEF StoreRec, Progress
  <2>2. \A f \in Sq : sq.at[f] \in StoreRec
    BY <1>3 DEF SqRec
  <2>3. [f \in Sq |-> IF f \in M THEN [sq.at[f] EXCEPT !.translated = "COMPLETED"] ELSE sq.at[f]] \in [Sq -> StoreRec]
    BY <2>1, <2>2
  <2> QED
    BY <1>1, <1>3, <2>3 DEF PacketGoes, SqRec
<1>10. dtlb' \subseteq Request /\ dtlb' = dtlb \ packet
  BY <1>1 DEF PacketGoes, Machine
<1>11. Machine'
  BY <1>2, <1>5, <1>7, <1>8, <1>9, <1>10 DEF Machine
<1>12. Registers'
  BY <1>2, <1>7 DEF Registers, Queued
<1> QED
  BY <1>11, <1>12

\* retire_rob keeps it.
LEMMA RetireKeeps ==
  ASSUME Machine, Registers, retire_rob
  PROVE  Machine' /\ Registers'
<1> DEFINE n == Len(results)
           s == rob.head
           c == rob'
           R == StoreEntries(s)
<1>1. /\ InRob(s) /\ At(s).executed = "COMPLETED"
      /\ sq' = [sq EXCEPT !.at = [f \in Sq |-> IF f \in R THEN NoStore ELSE sq.at[f]],
                          !.head = (sq.head + Cardinality(R)) % SQ_SIZE]
      /\ memory' = [a \in Addr |-> IF a \in StoresOf(InstrIn(s)) THEN At(s).id ELSE memory[a]]
      /\ results' = Append(results, got[At(s).id])
      /\ UNCHANGED <<program, read, dispatched, lq, sta, ready, inflight, got, dtlb, l1d>>
  BY DEF retire_rob, trace
<1>2. /\ rob \in Rob /\ s \in Slot /\ RegInv(program, rob, dispatched, n) /\ InTrace(program, read, dispatched, n)
  BY DEF Machine, Registers, Rob
<1>3. /\ c \in Rob /\ c.tail = rob.tail /\ c.head = (s + 1) % ROB_SIZE /\ c.at[s] = NoInstr
      /\ \A t \in Slot : t # s => c.at[t] = rob.at[t]
  BY <1>2, RetiredEntry
<1>4. rob.at[s].id # 0 /\ rob.at[s].executed = "COMPLETED"
  BY <1>1 DEF InRob, At
<1>5. RegInv(program, c, dispatched, n + 1) /\ rob.at[s].id = n + 1 /\ n < dispatched
  <2> HIDE DEF c, n
  <2> QED
    BY <1>2, <1>3, <1>4, RegsWithoutRetired
<1>6. got[At(s).id] \in Row /\ At(s).id \in Int
  <2>1. At(s).id \in 1 .. Len(program)
    BY <1>5, TraceFacts DEF At
  <2> QED
    BY <2>1, TraceFacts DEF Machine, GotRec
<1>7. results' \in Seq(Row) /\ Len(results') = n + 1
  BY <1>1, <1>6, AppendProperties DEF Machine
<1>8. InTrace(program, read, dispatched, n + 1)
  BY <1>2, <1>5, TraceFacts DEF InTrace
<1>9. memory' \in [Addr -> Int]
  BY <1>1, <1>6 DEF Machine
<1>10. sq' \in SqRec
  <2>1. sq \in SqRec /\ R \in SUBSET Sq
    <3>1. rob.at[s] \in Entry
      BY <1>2 DEF Rob
    <3> QED
      BY <3>1 DEF Machine, StoreEntries, Entry, At
  <2>2. Cardinality(R) \in Nat
    BY <2>1, SqFinite
  <2> HIDE DEF R
  <2>3. (sq.head + Cardinality(R)) % SQ_SIZE \in Sq
    BY <2>1, <2>2, Sizes DEF SqRec, Sq
  <2>4. [f \in Sq |-> IF f \in R THEN NoStore ELSE sq.at[f]] \in [Sq -> StoreRec]
    BY <2>1, NoStoreIsRec DEF SqRec
  <2> QED
    BY <1>1, <2>1, <2>3, <2>4 DEF SqRec
<1>11. Indexed(c)
  <2>1. NoInstr.source_added = {}
    BY DEF NoInstr
  <2> QED
    BY <1>3, <2>1 DEF Machine, Indexed
<1>12. ReadyToExecute(program, c) = ReadyToExecute(program, rob)
  <2>1. NoInstr.id = 0
    BY DEF NoInstr
  <2> HIDE DEF c
  <2> QED
    BY <1>3, <1>4, <2>1 DEF ReadyToExecute
<1>13. Queued(program, c, ready)
  BY <1>12 DEF Registers, Queued
<1>14. Machine'
  BY <1>1, <1>3, <1>7, <1>8, <1>9, <1>10, <1>11 DEF Machine
<1>15. Registers'
  BY <1>1, <1>5, <1>7, <1>13 DEF Registers
<1> QED
  BY <1>14, <1>15

\* Every step keeps it.
LEMMA RegStep ==
  ASSUME Machine, Registers, [Next]_vars
  PROVE  Machine' /\ Registers'
<1>1. CASE read_from_trace
  BY <1>1, ReadKeeps
<1>2. CASE add_to_rob
  BY <1>2, AddKeeps
<1>3. ASSUME NEW s \in Slot, do_scheduling(s) PROVE Machine' /\ Registers'
  BY <1>3, ScheduleKeeps
<1>4. ASSUME NEW ring \in {"RTE0", "RTE1"}, do_execution(ring) PROVE Machine' /\ Registers'
  BY <1>4, ExecuteKeeps
<1>5. ASSUME NEW s \in Slot, complete_execution(s) PROVE Machine' /\ Registers'
  BY <1>5, CompleteKeeps
<1>6. ASSUME NEW s \in Slot, do_memory_scheduling(s) PROVE Machine' /\ Registers'
  BY <1>6, MemoryKeeps
<1>7. CASE TranslateStore
  BY <1>7, TranslateStoreKeeps
<1>8. CASE TranslateLoad
  BY <1>8, TranslateLoadKeeps
<1>9. CASE execute_store
  BY <1>9, ExecuteStoreKeeps
<1>10. CASE execute_load
  BY <1>10, ExecuteLoadKeeps
<1>11. ASSUME NEW packet \in SUBSET dtlb, NEW own \in packet, TranslationDone(own, packet)
       PROVE  Machine' /\ Registers'
  BY <1>11, TranslationKeeps
<1>12. ASSUME NEW packet \in SUBSET l1d, DataDone(packet) PROVE Machine' /\ Registers'
  BY <1>12, DataDoneKeeps
<1>13. CASE L1DWrites
  BY <1>13 DEF L1DWrites, trace, core, history, Machine, Registers
<1>14. CASE retire_rob
  BY <1>14, RetireKeeps
<1>15. CASE UNCHANGED vars
  BY <1>15 DEF vars, trace, core, outside, history, Machine, Registers
<1>16. CASE Done
  BY <1>15, <1>16 DEF Done
<1> QED
  BY <1>1, <1>2, <1>3, <1>4, <1>5, <1>6, <1>7, <1>8, <1>9, <1>10, <1>11, <1>12, <1>13, <1>14,
     <1>15, <1>16 DEF Next, Work

\* The instructions of the reorder buffer are in program order, each waits for exactly the
\* last writers of its sources that have not completed, and no step disturbs that
\* (add_to_rob, do_scheduling, do_execution, complete_execution, reg_RAW_release, retire_rob
\* and the handlers of the load and store queues).
THEOREM MachineIsKept == Spec => [](Machine /\ Registers)
<1>1. Init => Machine /\ Registers
  BY RegInitially
<1>2. Machine /\ Registers /\ [Next]_vars => (Machine /\ Registers)'
  BY RegStep
<1> QED
  BY <1>1, <1>2, PTL DEF Spec

\* The invariant implies the property.
LEMMA ExecutedAfter ==
  ASSUME Machine, Registers
  PROVE  ExecutesAfterItsProducers
<1> SUFFICES ASSUME NEW s \in Slot, InRob(s),
                    At(s).executed # "NO" \/ At(s).source_added # {} \/ At(s).destination_added # {},
                    NEW j \in DOMAIN InstrIn(s).src,
                    NEW m, m = WriterBefore(At(s).id, InstrIn(s).src[j]), m # 0
             PROVE  Executed(m)
  BY DEF ExecutesAfterItsProducers
<1>1. RegInv(program, rob, dispatched, Len(results)) /\ InTrace(program, read, dispatched, Len(results))
  BY DEF Machine, Registers
<1>2. At(s).reg_ready
  BY <1>1 DEF RegInv, IssuedWhenReady, InRob, At
<1> QED
  BY <1>1, <1>2, ReadyIsAfterWriters

\* Nothing executes, and no operand is issued to memory, before the last writer of each of
\* its source registers has executed (do_scheduling, reg_RAW_release, do_execution,
\* check_and_add_lsq).
THEOREM ProducersExecuteFirst == Spec => []ExecutesAfterItsProducers
BY MachineIsKept, ExecutedAfter, PTL

=============================================================================
