------------------------------ MODULE FrontEnd ------------------------------
(***************************************************************************)
(* The front end of O3_CPU (src/ooo_cpu.cc): reading the trace, the        *)
(* IFETCH_BUFFER and its requests to the L1I, the DECODE_BUFFER, dispatch  *)
(* into the ROB, and the stall of fetch at a mispredicted branch.          *)
(*                                                                         *)
(* A cycle runs through the phases of the main loop: the back end, decode, *)
(* fetch, read.  The back end is O3Core, seen here as a ROB that executes  *)
(* its instructions in any order.  The L1I is external: it merges requests *)
(* for one physical line and answers each one it keeps.  The two buffers   *)
(* are first-in first-out rings, written as sequences.                     *)
(***************************************************************************)
EXTENDS Integers, Sequences, SequencesExt, FiniteSets, FiniteSetsExt

CONSTANTS
  Programs,          \* traces: sequences of [line, branch]
  Line,              \* virtual lines of code, one to a page; integers, ordered
  Frame,             \* physical lines
  Nil,
  IFETCH_SIZE, DECODE_SIZE, ROB_SIZE, L1I_SIZE,
  FETCH_WIDTH, DECODE_WIDTH, DECODE_LATENCY, BRANCH_MISPREDICT_PENALTY

ASSUME FrontEndAssumption ==
  /\ {IFETCH_SIZE, DECODE_SIZE, ROB_SIZE, L1I_SIZE, FETCH_WIDTH, DECODE_WIDTH,
      BRANCH_MISPREDICT_PENALTY} \subseteq Nat \ {0}
  /\ DECODE_LATENCY \in Nat
  /\ Line \subseteq Nat
  /\ Nil \notin Int \cup Frame
  /\ Programs \subseteq Seq([line : Line, branch : {"no", "taken", "mispredicted"}])

VARIABLES
  program, read,          \* the trace, and how many of its instructions were read
  phase,                  \* the part of the cycle that runs
  num_reads,              \* instructions read in this cycle
  ifetch,                 \* IFETCH_BUFFER
  decode,                 \* DECODE_BUFFER; wait is event_cycle less the current cycle
  rob,                    \* the instructions in the ROB: id and executed
  fetch_stall,
  resume,                 \* fetch_resume_cycle less the current cycle; Nil when it is zero
  warmup_complete,
  page_table,             \* of the lines of code
  l1i                     \* external: the requests the L1I has to answer; two of the same line
                          \* and frame count as one, since their answers complete the same entries

buffers == <<ifetch, decode, rob>>
stall == <<fetch_stall, resume>>
memory == <<page_table, l1i>>
vars == <<program, read, phase, num_reads, buffers, stall, warmup_complete, memory>>

Mispredicted(n) == program[n].branch = "mispredicted"

Init ==
  /\ program \in Programs
  /\ read = 0
  /\ phase = "back end"
  /\ num_reads = 0
  /\ ifetch = <<>>
  /\ decode = <<>>
  /\ rob = <<>>
  /\ fetch_stall = FALSE
  /\ resume = Nil
  /\ warmup_complete \in BOOLEAN
  /\ page_table = [v \in Line |-> Nil]
  /\ l1i = {}

-----------------------------------------------------------------------------
(* The back end, and the answers of the L1I.                               *)

\* A mispredicted branch that executes says when fetch may go on.
complete_execution(i) ==
  /\ phase = "back end"
  /\ i \in DOMAIN rob
  /\ ~rob[i].executed
  /\ rob' = [rob EXCEPT ![i].executed = TRUE]
  /\ resume' = IF rob[i].branch_mispredicted THEN BRANCH_MISPREDICT_PENALTY ELSE resume
  /\ UNCHANGED <<program, read, phase, num_reads, ifetch, decode, fetch_stall,
                 warmup_complete, memory>>

retire_rob ==
  /\ phase = "back end"
  /\ rob # <<>>
  /\ Head(rob).executed
  /\ rob' = Tail(rob)
  /\ UNCHANGED <<program, read, phase, num_reads, ifetch, decode, stall, warmup_complete,
                 memory>>

\* main: enough instructions have retired.
WarmupCompletes ==
  /\ phase = "back end"
  /\ ~warmup_complete
  /\ warmup_complete' = TRUE
  /\ UNCHANGED <<program, read, phase, num_reads, buffers, stall, memory>>

\* A packet from L1I.PROCESSED: it completes its virtual line, wherever it waits.
complete_instr_fetch(r) ==
  /\ phase = "back end"
  /\ r \in l1i
  /\ l1i' = l1i \ {r}
  /\ ifetch' = [i \in DOMAIN ifetch |->
                  IF ifetch[i].line = r.line THEN [ifetch[i] EXCEPT !.fetched = "COMPLETED"]
                  ELSE ifetch[i]]
  /\ UNCHANGED <<program, read, phase, num_reads, decode, rob, stall, warmup_complete,
                 page_table>>

BackEndDone ==
  /\ phase = "back end"
  /\ phase' = "decode"
  /\ UNCHANGED <<program, read, num_reads, buffers, stall, warmup_complete, memory>>

-----------------------------------------------------------------------------
(* decode_and_dispatch                                                     *)

\* Its latency has passed (event_cycle is set and before the current cycle).
Decoded(e) == e.wait # Nil /\ e.wait < 0

MayDispatch(e) == warmup_complete => Decoded(e)

\* The instructions dispatched in this cycle: a prefix of the buffer.
Dispatched ==
  CHOOSE k \in 0 .. Len(decode) :
    /\ k \leq DECODE_WIDTH
    /\ Len(rob) + k \leq ROB_SIZE
    /\ \A i \in 1 .. k : MayDispatch(decode[i])
    /\ \/ k \in {DECODE_WIDTH, Len(decode)}
       \/ Len(rob) + k = ROB_SIZE
       \/ ~MayDispatch(decode[k + 1])

Unstamped(buffer) == {i \in DOMAIN buffer : buffer[i].wait = Nil}

ToStamp_BeforeTheTail(buffer) ==
  IF Len(buffer) = DECODE_SIZE THEN {}
  ELSE {i \in Unstamped(buffer) :
          Cardinality({j \in Unstamped(buffer) : j \leq i}) \leq DECODE_WIDTH}

\* The scan stops behind the entry at the tail, which is the head of a full buffer.
ToStamp(buffer) ==
  IF Len(buffer) = DECODE_SIZE THEN {1} \cap Unstamped(buffer)
  ELSE {i \in Unstamped(buffer) :
          Cardinality({j \in Unstamped(buffer) : j \leq i}) \leq DECODE_WIDTH}

decode_and_dispatch ==
  LET k == Dispatched
      rest == SubSeq(decode, k + 1, Len(decode))
  IN /\ phase = "decode"
     /\ phase' = "fetch"
     /\ rob' = rob \o [i \in 1 .. k |->
                  [id |-> decode[i].id, executed |-> FALSE,
                   branch_mispredicted |-> decode[i].branch_mispredicted]]
     /\ decode' = [i \in DOMAIN rest |->
                     IF i \in ToStamp(rest) THEN [rest[i] EXCEPT !.wait = DECODE_LATENCY] ELSE rest[i]]
     /\ UNCHANGED <<program, read, num_reads, ifetch, stall, warmup_complete, memory>>

-----------------------------------------------------------------------------
(* fetch_instruction                                                       *)

MarkInflight_Page(lines) == [i \in DOMAIN ifetch |-> [ifetch[i] EXCEPT !.fetched = "INFLIGHT"]]

\* Every instruction of the lines asked for is marked, those already fetched too.
MarkInflight(lines) ==
  [i \in DOMAIN ifetch |->
     IF ifetch[i].line \in lines THEN [ifetch[i] EXCEPT !.fetched = "INFLIGHT"] ELSE ifetch[i]]

\* The L1I takes the request, merges it with one for the same physical line (it does
\* when that is where add_rq and handle_read look for it), or refuses it.
Asked(q, e, merges) ==
  IF merges /\ \E r \in q.l1i : r.frame = e.frame
  THEN [q EXCEPT !.lines = @ \cup {e.line}]
  ELSE IF Cardinality(q.l1i) < L1I_SIZE
  THEN [lines |-> q.lines \cup {e.line},
        l1i |-> q.l1i \cup {[line |-> e.line, frame |-> e.frame]}]
  ELSE q

\* The entries that were translated and not fetched, from the head on.
Requested(merges) ==
  LET ask[i \in 0 .. Len(ifetch)] ==
        IF i = 0 THEN [lines |-> {}, l1i |-> l1i]
        ELSE LET q == ask[i - 1]
             IN IF ifetch[i].fetched = "NO" /\ ifetch[i].line \notin q.lines
                THEN Asked(q, ifetch[i], i \in merges) ELSE q
  IN ask[Len(ifetch)]

Sent_Unbounded(buffer) ==
  CHOOSE k \in 0 .. Len(buffer) :
    /\ \A i \in 1 .. k : buffer[i].fetched = "COMPLETED"
    /\ k = Len(buffer) \/ buffer[k + 1].fetched # "COMPLETED"

\* The instructions sent to decode: a prefix of the buffer that has been fetched.
Sent(buffer) ==
  CHOOSE k \in 0 .. Len(buffer) :
    /\ k \leq DECODE_WIDTH
    /\ Len(decode) + k \leq DECODE_SIZE
    /\ \A i \in 1 .. k : buffer[i].fetched = "COMPLETED"
    /\ \/ k \in {DECODE_WIDTH, Len(buffer)}
       \/ Len(decode) + k = DECODE_SIZE
       \/ buffer[k + 1].fetched # "COMPLETED"

PenaltyOver == fetch_stall /\ resume # Nil /\ resume \leq 0

Resume_Kept == [fetch_stall |-> fetch_stall /\ ~PenaltyOver, resume |-> resume]

Resume == [fetch_stall |-> fetch_stall /\ ~PenaltyOver,
           resume |-> IF PenaltyOver THEN Nil ELSE resume]

fetch_instruction(merges) ==
  LET q == Requested(merges)
      buffer == MarkInflight(q.lines)
      k == Sent(buffer)
  IN /\ phase = "fetch"
     /\ phase' = "read"
     /\ num_reads' = 0
     /\ fetch_stall' = Resume.fetch_stall
     /\ resume' = Resume.resume
     /\ l1i' = q.l1i
     /\ decode' = decode \o [i \in 1 .. k |->
                    [id |-> buffer[i].id, wait |-> Nil,
                     branch_mispredicted |-> buffer[i].branch_mispredicted]]
     /\ ifetch' = SubSeq(buffer, k + 1, Len(buffer))
     /\ UNCHANGED <<program, read, rob, warmup_complete, page_table>>

-----------------------------------------------------------------------------
(* read_from_trace: one turn of its loop for each instruction.             *)

Mapped == {v \in Line : page_table[v] # Nil}
Free == Frame \ {page_table[v] : v \in Mapped}

\* va_to_pa: the page of the line keeps its frame, or gets a free one, or takes the frame
\* of the first page in the table (none is ever recorded as recently used).
Translate(v, f) ==
  IF page_table[v] # Nil THEN f = page_table[v] /\ UNCHANGED page_table
  ELSE IF Free # {} THEN f \in Free /\ page_table' = [page_table EXCEPT ![v] = f]
  ELSE /\ f = page_table[Min(Mapped)]
       /\ page_table' = [page_table EXCEPT ![Min(Mapped)] = Nil, ![v] = f]

ReadingStops(n) ==
  \/ num_reads + 1 = FETCH_WIDTH
  \/ Len(ifetch) + 1 = IFETCH_SIZE
  \/ program[n].branch = "taken"
  \/ Mispredicted(n) /\ warmup_complete

read_from_trace ==
  LET n == read + 1
      stalls == Mispredicted(n) /\ warmup_complete
  IN /\ phase = "read"
     /\ ~fetch_stall
     /\ n \leq Len(program)
     /\ Len(ifetch) < IFETCH_SIZE
     /\ read' = n
     /\ \E f \in Frame :
          /\ Translate(program[n].line, f)
          /\ ifetch' = Append(ifetch, [id |-> n, line |-> program[n].line, frame |-> f,
                                       fetched |-> "NO", branch_mispredicted |-> stalls])
     /\ num_reads' = num_reads + 1
     /\ fetch_stall' = stalls
     /\ phase' = IF ReadingStops(n) THEN "end" ELSE "read"
     /\ UNCHANGED <<program, decode, rob, resume, warmup_complete, l1i>>

NothingToRead ==
  /\ phase = "read"
  /\ fetch_stall \/ read = Len(program) \/ Len(ifetch) = IFETCH_SIZE
  /\ phase' = "end"
  /\ UNCHANGED <<program, read, num_reads, buffers, stall, warmup_complete, memory>>

\* current_core_cycle++: the waits that are left get shorter.
Later(wait, least) == IF wait = Nil \/ wait = least THEN wait ELSE wait - 1

NextCycle ==
  /\ phase = "end"
  /\ phase' = "back end"
  /\ resume' = Later(resume, 0)
  /\ decode' = [i \in DOMAIN decode |-> [decode[i] EXCEPT !.wait = Later(@, -1)]]
  /\ UNCHANGED <<program, read, num_reads, ifetch, rob, fetch_stall, warmup_complete, memory>>

-----------------------------------------------------------------------------

Next ==
  \/ \E i \in 1 .. ROB_SIZE : complete_execution(i)
  \/ retire_rob
  \/ WarmupCompletes
  \/ \E r \in l1i : complete_instr_fetch(r)
  \/ BackEndDone
  \/ decode_and_dispatch
  \/ \E merges \in SUBSET (1 .. IFETCH_SIZE) : fetch_instruction(merges)
  \/ read_from_trace
  \/ NothingToRead
  \/ NextCycle

Spec == Init /\ [][Next]_vars

Requests == [line : Line, frame : Frame]
Cycle ==
  \/ BackEndDone
  \/ decode_and_dispatch
  \/ \E merges \in SUBSET (1 .. IFETCH_SIZE) : fetch_instruction(merges)
  \/ read_from_trace
  \/ NothingToRead
  \/ NextCycle

\* Cycles follow each other; in some cycle each request is answered, and the back end
\* executes and retires (O3Core, RetiresUnlessClogged).
Fairness ==
  /\ WF_vars(Cycle)
  /\ \A r \in Requests : SF_vars(complete_instr_fetch(r))
  /\ SF_vars(\E i \in 1 .. ROB_SIZE : complete_execution(i))
  /\ SF_vars(retire_rob)

FairSpec == Spec /\ Fairness

-----------------------------------------------------------------------------
(* Properties.                                                             *)

\* The buffers stay within their sizes, and their entries keep their types
\* (add_to_ifetch_buffer, add_to_decode_buffer and add_to_rob assert room).
TypeOK ==
  /\ read \in 0 .. Len(program)
  /\ phase \in {"back end", "decode", "fetch", "read", "end"}
  /\ num_reads \in 0 .. FETCH_WIDTH
  /\ Len(ifetch) \leq IFETCH_SIZE /\ Len(decode) \leq DECODE_SIZE /\ Len(rob) \leq ROB_SIZE
  /\ Range(ifetch) \subseteq [id : 1 .. read, line : Line, frame : Frame,
                              fetched : {"NO", "INFLIGHT", "COMPLETED"},
                              branch_mispredicted : BOOLEAN]
  /\ Range(decode) \subseteq [id : 1 .. read, wait : {Nil} \cup -1 .. DECODE_LATENCY,
                              branch_mispredicted : BOOLEAN]
  /\ Range(rob) \subseteq [id : 1 .. read, executed : BOOLEAN, branch_mispredicted : BOOLEAN]
  /\ fetch_stall \in BOOLEAN /\ warmup_complete \in BOOLEAN
  /\ resume \in {Nil} \cup 0 .. BRANCH_MISPREDICT_PENALTY
  /\ page_table \in [Line -> Frame \cup {Nil}]
  /\ l1i \subseteq Requests /\ Cardinality(l1i) \leq L1I_SIZE

\* The mispredicted branches that stopped fetch and have not executed.
Unresolved ==
  {e.id : e \in {x \in Range(ifetch) : x.branch_mispredicted}}
  \cup {e.id : e \in {x \in Range(decode) : x.branch_mispredicted}}
  \cup {e.id : e \in {x \in Range(rob) : x.branch_mispredicted /\ ~x.executed}}

\* Fetch stalls for exactly one reason at a time: the last instruction read is a
\* mispredicted branch on its way to execution, or it has executed and its penalty runs.
\* Without a stall no such branch is left behind and no resume cycle is left over that
\* would end the next stall too early (fetch_stall, fetch_resume_cycle).
StallHasItsCause ==
  /\ Unresolved # {} => Unresolved = {read}
  /\ fetch_stall <=> Unresolved # {} \/ resume # Nil
  /\ Unresolved # {} => resume = Nil

\* An instruction marked as being fetched has a request under way that will complete
\* its virtual line: nothing else would ever fetch it (fetch_instruction takes entries
\* that are not fetched, complete_instr_fetch goes by the line of the answer).
InflightLinesAreAsked ==
  \A i \in DOMAIN ifetch : ifetch[i].fetched = "INFLIGHT" => \E r \in l1i : r.line = ifetch[i].line

\* Every instruction of the trace passes the front end and retires: fetch does not stall
\* for ever at a branch, nor wait for a line or for decode.
EveryInstructionPasses ==
  <>(read = Len(program) /\ ifetch = <<>> /\ decode = <<>> /\ rob = <<>>)

=============================================================================
