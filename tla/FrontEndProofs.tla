--------------------------- MODULE FrontEndProofs ---------------------------
(***************************************************************************)
(* The front end, for any trace, any sizes of the buffers and any answers  *)
(* of the L1I: fetch stalls for exactly one reason, the buffers keep       *)
(* within their sizes, and a line in flight has its request as long as     *)
(* the memory holds the lines of the trace.                                *)
(*                                                                         *)
(* The argument for the stall: the instructions between the trace and      *)
(* retirement are numbered without a gap, in the order of the ROB, the     *)
(* DECODE_BUFFER and the IFETCH_BUFFER.  So the last one read is in one    *)
(* place only, and when that one executes no other branch is left          *)
(* unresolved.                                                             *)
(***************************************************************************)
EXTENDS FrontEnd, NatFacts, SequenceTheorems

IfetchEntry == [id : Nat, line : Line, frame : Frame, fetched : {"NO", "INFLIGHT", "COMPLETED"},
                branch_mispredicted : BOOLEAN]
DecodeEntry == [id : Nat, wait : Int \cup {Nil}, branch_mispredicted : BOOLEAN]
RobEntry == [id : Nat, executed : BOOLEAN, branch_mispredicted : BOOLEAN]

Types ==
  /\ program \in Programs /\ read \in Nat
  /\ ifetch \in Seq(IfetchEntry) /\ decode \in Seq(DecodeEntry) /\ rob \in Seq(RobEntry)
  /\ resume \in Nat \cup {Nil} /\ fetch_stall \in BOOLEAN
  /\ page_table \in [Line -> Frame \cup {Nil}]

Room == Len(decode) <= DECODE_SIZE /\ Len(rob) <= ROB_SIZE

\* The ids run without a gap from the head of the ROB through the DECODE_BUFFER to the
\* IFETCH_BUFFER, up to the last instruction read.
Consecutive ==
  /\ \A i \in 1 .. Len(ifetch) : ifetch[i].id = read - Len(ifetch) + i
  /\ \A i \in 1 .. Len(decode) : decode[i].id = read - Len(ifetch) - Len(decode) + i
  /\ \A i \in 1 .. Len(rob) : rob[i].id = read - Len(ifetch) - Len(decode) - Len(rob) + i

\* Unresolved, by place.
PendingFetch(x) == \E i \in 1 .. Len(ifetch) : ifetch[i].id = x /\ ifetch[i].branch_mispredicted
PendingDecode(x) == \E i \in 1 .. Len(decode) : decode[i].id = x /\ decode[i].branch_mispredicted

Open(e, x) == e.id = x /\ e.branch_mispredicted /\ ~e.executed
PendingRob(x) == \E i \in 1 .. Len(rob) : Open(rob[i], x)

Pending(x) == PendingFetch(x) \/ PendingDecode(x) \/ PendingRob(x)

\* StallHasItsCause, by place.
OneCause ==
  /\ \A x : Pending(x) => x = read
  /\ fetch_stall <=> Pending(read) \/ resume # Nil
  /\ Pending(read) => resume = Nil

FrontInv == Types /\ Room /\ Consecutive /\ OneCause

LEMMA PendingIsUnresolved ==
  ASSUME Types
  PROVE  \A x : x \in Unresolved <=> Pending(x)
<1>1. /\ Range(ifetch) = {ifetch[i] : i \in 1 .. Len(ifetch)}
      /\ Range(decode) = {decode[i] : i \in 1 .. Len(decode)}
      /\ Range(rob) = {rob[i] : i \in 1 .. Len(rob)}
  BY DEF Types, Range
<1> QED
  BY <1>1 DEF Unresolved, Pending, PendingFetch, PendingDecode, PendingRob, Open

LEMMA OneCauseIsStallHasItsCause ==
  ASSUME Types
  PROVE  OneCause <=> StallHasItsCause
<1>1. Unresolved # {} <=> \E x : Pending(x)
  BY PendingIsUnresolved
<1>2. Unresolved = {read} <=> \A x : Pending(x) <=> x = read
  BY PendingIsUnresolved
<1> QED
  BY <1>1, <1>2 DEF OneCause, StallHasItsCause

-----------------------------------------------------------------------------
(* How many entries leave a buffer *)

\* A scan that takes entries from the head while it may, at most width and as many as
\* there is room for, stops somewhere.
LEMMA LongestPrefix ==
  ASSUME NEW n \in Nat, NEW width \in Nat, NEW room \in Nat, NEW good
  PROVE  \E k \in 0 .. n : /\ k <= width /\ k <= room
                           /\ \A i \in 1 .. k : i \in good
                           /\ k \in {width, n, room} \/ k + 1 \notin good
<1> DEFINE S == {k \in 0 .. n : k \in {width, n, room} \/ k + 1 \notin good}
<1>1. S # {} /\ S \in SUBSET Nat
  <2>1. n \in S
    OBVIOUS
  <2> QED
    BY <2>1
<1> HIDE DEF S
<1>2. PICK m \in S : \A k \in S : m <= k
  BY <1>1, LeastNatural
<1>3. m \in 0 .. n /\ \A k \in 0 .. n : k < m => k \notin S
  BY <1>1, <1>2 DEF S
<1>4. m <= width
  <2>1. CASE width < m
    BY <1>3, <2>1 DEF S
  <2> QED
    BY <1>3, <2>1
<1>5. m <= room
  <2>1. CASE room < m
    BY <1>3, <2>1 DEF S
  <2> QED
    BY <1>3, <2>1
<1>6. \A i \in 1 .. m : i \in good
  <2> TAKE i \in 1 .. m
  <2>1. i - 1 \in 0 .. n /\ (i - 1) + 1 = i /\ i - 1 < m
    BY <1>3
  <2>2. i - 1 \notin S
    BY <1>3, <2>1
  <2> QED
    BY <2>1, <2>2 DEF S
<1> QED
  BY <1>2, <1>3, <1>4, <1>5, <1>6 DEF S

LEMMA DispatchedFits ==
  ASSUME Types, Room
  PROVE  Dispatched \in 0 .. Len(decode) /\ Len(rob) + Dispatched <= ROB_SIZE
<1> DEFINE good == {i \in 1 .. Len(decode) : MayDispatch(decode[i])}
<1>1. /\ Len(decode) \in Nat /\ Len(rob) \in Nat /\ DECODE_WIDTH \in Nat /\ ROB_SIZE \in Nat
      /\ ROB_SIZE - Len(rob) \in Nat
  BY FrontEndAssumption DEF Types, Room
<1>2. PICK k \in 0 .. Len(decode) :
        /\ k <= DECODE_WIDTH /\ k <= ROB_SIZE - Len(rob)
        /\ \A i \in 1 .. k : i \in good
        /\ k \in {DECODE_WIDTH, Len(decode), ROB_SIZE - Len(rob)} \/ k + 1 \notin good
  BY <1>1, LongestPrefix
<1>3. /\ k <= DECODE_WIDTH
      /\ Len(rob) + k <= ROB_SIZE
      /\ \A i \in 1 .. k : MayDispatch(decode[i])
  BY <1>1, <1>2
<1>4. \/ k \in {DECODE_WIDTH, Len(decode)}
      \/ Len(rob) + k = ROB_SIZE
      \/ ~MayDispatch(decode[k + 1])
  BY <1>1, <1>2
<1> QED
  BY <1>3, <1>4 DEF Dispatched

LEMMA SentFits ==
  ASSUME Types, Room, NEW buffer \in Seq(IfetchEntry)
  PROVE  Sent(buffer) \in 0 .. Len(buffer) /\ Len(decode) + Sent(buffer) <= DECODE_SIZE
<1> DEFINE good == {i \in 1 .. Len(buffer) : buffer[i].fetched = "COMPLETED"}
<1>1. /\ Len(buffer) \in Nat /\ Len(decode) \in Nat /\ DECODE_WIDTH \in Nat /\ DECODE_SIZE \in Nat
      /\ DECODE_SIZE - Len(decode) \in Nat
  BY FrontEndAssumption DEF Types, Room
<1> HIDE DEF good
<1>2. PICK k \in 0 .. Len(buffer) :
        /\ k <= DECODE_WIDTH /\ k <= DECODE_SIZE - Len(decode)
        /\ \A i \in 1 .. k : i \in good
        /\ k \in {DECODE_WIDTH, Len(buffer), DECODE_SIZE - Len(decode)} \/ k + 1 \notin good
  BY <1>1, LongestPrefix
<1> USE DEF good
<1>3. /\ k <= DECODE_WIDTH
      /\ Len(decode) + k <= DECODE_SIZE
      /\ \A i \in 1 .. k : buffer[i].fetched = "COMPLETED"
  BY <1>1, <1>2
<1>4. \/ k \in {DECODE_WIDTH, Len(buffer)}
      \/ Len(decode) + k = DECODE_SIZE
      \/ buffer[k + 1].fetched # "COMPLETED"
  BY <1>1, <1>2
<1> QED
  BY <1>3, <1>4 DEF Sent

-----------------------------------------------------------------------------
(* The actions *)

LEMMA ExecutionKeepsFront ==
  ASSUME FrontInv, NEW i, complete_execution(i)
  PROVE  FrontInv'
<1>1. /\ i \in 1 .. Len(rob) /\ ~rob[i].executed
      /\ rob' = [rob EXCEPT ![i].executed = TRUE]
      /\ resume' = IF rob[i].branch_mispredicted THEN BRANCH_MISPREDICT_PENALTY ELSE resume
      /\ UNCHANGED <<program, read, ifetch, decode, fetch_stall, page_table>>
  <2>1. DOMAIN rob = 1 .. Len(rob)
    BY LenProperties DEF FrontInv, Types
  <2> QED
    BY <2>1 DEF complete_execution, memory
<1>2. rob \in Seq(RobEntry) /\ rob[i] \in RobEntry /\ Len(rob) \in Nat
  BY <1>1, ElementOfSeq DEF FrontInv, Types
<1>3. /\ rob' \in Seq(RobEntry) /\ Len(rob') = Len(rob)
      /\ \A j \in 1 .. Len(rob) : /\ rob'[j].id = rob[j].id
                                  /\ rob'[j].branch_mispredicted = rob[j].branch_mispredicted
                                  /\ rob'[j].executed = IF j = i THEN TRUE ELSE rob[j].executed
  <2>1. [rob[i] EXCEPT !.executed = TRUE] \in RobEntry
    BY <1>2 DEF RobEntry
  <2>2. rob' = [rob EXCEPT ![i] = [rob[i] EXCEPT !.executed = TRUE]]
    BY <1>1
  <2>3. /\ rob' \in Seq(RobEntry) /\ Len(rob') = Len(rob)
        /\ \A j \in 1 .. Len(rob) :
             rob'[j] = IF j = i THEN [rob[i] EXCEPT !.executed = TRUE] ELSE rob[j]
    BY <1>1, <1>2, <2>1, <2>2, ExceptSeq
  <2> QED
    BY <1>2, <2>3 DEF RobEntry
<1>4. Types' /\ Room' /\ Consecutive'
  <2>1. BRANCH_MISPREDICT_PENALTY \in Nat
    BY FrontEndAssumption
  <2> QED
    BY <1>1, <1>3, <2>1 DEF FrontInv, Types, Room, Consecutive
<1>5. CASE rob[i].branch_mispredicted
  <2>1. Pending(rob[i].id)
    BY <1>1, <1>5 DEF Pending, PendingRob, Open
  <2>2. rob[i].id = read /\ Pending(read)
    BY <2>1 DEF FrontInv, OneCause
  <2>3. i = Len(rob) /\ Len(ifetch) = 0 /\ Len(decode) = 0 /\ read \in Nat
    <3>1. rob[i].id = read - Len(ifetch) - Len(decode) - Len(rob) + i
      BY <1>1 DEF FrontInv, Consecutive
    <3>2. Len(ifetch) \in Nat /\ Len(decode) \in Nat /\ read \in Nat
      BY DEF FrontInv, Types
    <3> QED
      BY <1>1, <1>2, <2>2, <3>1, <3>2
  <2>4. \A x : ~Pending(x)'
    <3>1. \A j \in 1 .. Len(rob) : j # i => rob[j].id # read
      BY <1>2, <2>3 DEF FrontInv, Consecutive
    <3>2. \A j \in 1 .. Len(rob) :
            j # i => ~(rob[j].branch_mispredicted /\ ~rob[j].executed)
      BY <3>1 DEF FrontInv, OneCause, Pending, PendingRob, Open
    <3> QED
      BY <1>1, <1>3, <2>3, <3>2 DEF Pending, PendingFetch, PendingDecode, PendingRob, Open
  <2>5. resume' # Nil
    BY <1>1, <1>5, FrontEndAssumption
  <2>6. fetch_stall'
    BY <1>1, <2>2 DEF FrontInv, OneCause
  <2> QED
    BY <1>4, <2>4, <2>5, <2>6 DEF FrontInv, OneCause
<1>6. CASE ~rob[i].branch_mispredicted
  <2>1. \A x : Pending(x)' <=> Pending(x)
    BY <1>1, <1>3, <1>6 DEF Pending, PendingFetch, PendingDecode, PendingRob, Open
  <2> QED
    BY <1>1, <1>4, <1>6, <2>1 DEF FrontInv, OneCause
<1> QED
  BY <1>5, <1>6

LEMMA RetirementKeepsFront ==
  ASSUME FrontInv, retire_rob
  PROVE  FrontInv'
<1>1. /\ rob # <<>> /\ Head(rob).executed /\ rob' = Tail(rob)
      /\ UNCHANGED <<program, read, ifetch, decode, fetch_stall, resume, page_table>>
  BY DEF retire_rob, stall, memory
<1>2. rob \in Seq(RobEntry) /\ Len(rob) \in Nat \ {0} /\ rob[1].executed
  BY <1>1 DEF FrontInv, Types
<1>3. /\ rob' \in Seq(RobEntry) /\ Len(rob') = Len(rob) - 1
      /\ \A j \in 1 .. Len(rob) - 1 : rob'[j] = rob[j + 1]
  BY <1>1, <1>2, HeadTailProperties
<1>4. Types' /\ Room' /\ Consecutive'
  <2>1. \A j \in 1 .. Len(rob) - 1 : rob[j + 1].id = read - Len(ifetch) - Len(decode) - Len(rob) + (j + 1)
    BY <1>2 DEF FrontInv, Consecutive
  <2>2. Len(ifetch) \in Nat /\ Len(decode) \in Nat /\ read \in Nat
    BY DEF FrontInv, Types
  <2>3. \A j \in 1 .. Len(rob') : rob'[j].id = read' - Len(ifetch') - Len(decode') - Len(rob') + j
    BY <1>1, <1>2, <1>3, <2>1, <2>2
  <2>4. ROB_SIZE \in Nat
    BY FrontEndAssumption
  <2> QED
    BY <1>1, <1>2, <1>3, <2>3, <2>4 DEF FrontInv, Types, Room, Consecutive
<1>5. \A x : Pending(x)' <=> Pending(x)
  <2>1. \A j \in 1 .. Len(rob) : j = 1 \/ (j - 1 \in 1 .. Len(rob) - 1 /\ (j - 1) + 1 = j)
    BY <1>2
  <2>2. \A j \in 1 .. Len(rob) - 1 : j + 1 \in 1 .. Len(rob)
    BY <1>2
  <2>3. \A x : ~Open(rob[1], x)
    BY <1>2 DEF Open
  <2>4. \A x : (\E j \in 1 .. Len(rob') : Open(rob'[j], x)) <=> (\E j \in 1 .. Len(rob) : Open(rob[j], x))
    BY <1>2, <1>3, <2>1, <2>2, <2>3
  <2> QED
    BY <1>1, <2>4 DEF Pending, PendingFetch, PendingDecode, PendingRob
<1> QED
  BY <1>1, <1>4, <1>5 DEF FrontInv, OneCause

LEMMA AnswersKeepFront ==
  ASSUME FrontInv, NEW r, complete_instr_fetch(r)
  PROVE  FrontInv'
<1>1. /\ ifetch' = [i \in DOMAIN ifetch |->
                      IF ifetch[i].line = r.line THEN [ifetch[i] EXCEPT !.fetched = "COMPLETED"]
                      ELSE ifetch[i]]
      /\ UNCHANGED <<program, read, decode, rob, fetch_stall, resume, page_table>>
  BY DEF complete_instr_fetch, stall
<1>2. ifetch \in [1 .. Len(ifetch) -> IfetchEntry] /\ Len(ifetch) \in Nat
  BY LenProperties DEF FrontInv, Types
<1>3. /\ ifetch' \in [1 .. Len(ifetch) -> IfetchEntry]
      /\ \A i \in 1 .. Len(ifetch) :
           /\ ifetch'[i].id = ifetch[i].id
           /\ ifetch'[i].branch_mispredicted = ifetch[i].branch_mispredicted
  BY <1>1, <1>2 DEF IfetchEntry
<1>4. ifetch' \in Seq(IfetchEntry) /\ Len(ifetch') = Len(ifetch)
  BY <1>2, <1>3
<1>5. \A x : Pending(x)' <=> Pending(x)
  BY <1>1, <1>3, <1>4 DEF Pending, PendingFetch, PendingDecode, PendingRob
<1> QED
  BY <1>1, <1>3, <1>4, <1>5 DEF FrontInv, Types, Room, Consecutive, OneCause

\* What is behind the first k entries of a buffer.
LEMMA Rest ==
  ASSUME NEW S, NEW s \in Seq(S), NEW k \in 0 .. Len(s)
  PROVE  /\ SubSeq(s, k + 1, Len(s)) \in Seq(S)
         /\ Len(SubSeq(s, k + 1, Len(s))) = Len(s) - k
         /\ \A i \in 1 .. Len(s) - k : SubSeq(s, k + 1, Len(s))[i] = s[k + i]
<1>1. Len(s) \in Nat /\ k \in Int /\ k + 1 \in Int /\ \A i \in k + 1 .. Len(s) : s[i] \in S
  BY ElementOfSeq
<1>2. /\ SubSeq(s, k + 1, Len(s)) \in Seq(S)
      /\ Len(SubSeq(s, k + 1, Len(s))) = IF k + 1 <= Len(s) THEN Len(s) - (k + 1) + 1 ELSE 0
      /\ \A i \in 1 .. Len(s) - (k + 1) + 1 : SubSeq(s, k + 1, Len(s))[i] = s[(k + 1) + i - 1]
  BY <1>1, SubSeqProperties
<1> QED
  BY <1>1, <1>2

LEMMA Joined ==
  ASSUME NEW S, NEW s \in Seq(S), NEW m \in Seq(S)
  PROVE  /\ s \o m \in Seq(S) /\ Len(s \o m) = Len(s) + Len(m)
         /\ \A i \in 1 .. Len(s) : (s \o m)[i] = s[i]
         /\ \A i \in 1 .. Len(m) : (s \o m)[Len(s) + i] = m[i]
<1>1. Len(s) \in Nat /\ Len(m) \in Nat
  OBVIOUS
<1>2. /\ s \o m \in Seq(S) /\ Len(s \o m) = Len(s) + Len(m)
      /\ \A i \in 1 .. Len(s) + Len(m) : (s \o m)[i] = IF i <= Len(s) THEN s[i] ELSE m[i - Len(s)]
  BY ConcatProperties
<1>3. ASSUME NEW i \in 1 .. Len(s) PROVE (s \o m)[i] = s[i]
  BY <1>1, <1>2
<1>4. ASSUME NEW i \in 1 .. Len(m) PROVE (s \o m)[Len(s) + i] = m[i]
  <2>1. Len(s) + i \in 1 .. Len(s) + Len(m) /\ ~(Len(s) + i <= Len(s)) /\ (Len(s) + i) - Len(s) = i
    BY <1>1
  <2> QED
    BY <1>2, <2>1
<1> QED
  BY <1>2, <1>3, <1>4

(***************************************************************************)
(* When k entries move from the head of one buffer a to the tail of the    *)
(* one before it, d, the numbers of both stay without a gap.               *)
(***************************************************************************)
Numbered(a, n, last) == \A i \in 1 .. n : a[i].id = last - n + i

NumbersMove(a, la, d, ld, k, a2, d2) ==
  /\ \A i \in 1 .. ld : d2[i] = d[i]
  /\ \A i \in 1 .. k : d2[ld + i].id = a[i].id
  /\ \A i \in 1 .. la - k : a2[i].id = a[k + i].id

LEMMA MovingKeepsNumbers ==
  ASSUME NEW la \in Nat, NEW ld \in Nat, NEW k \in 0 .. la, NEW last \in Int,
         NEW a, NEW d, NEW a2, NEW d2, NumbersMove(a, la, d, ld, k, a2, d2),
         Numbered(a, la, last), Numbered(d, ld, last - la)
  PROVE  Numbered(a2, la - k, last) /\ Numbered(d2, ld + k, last - (la - k))
<1> USE DEF Numbered, NumbersMove
<1>1. ASSUME NEW i \in 1 .. la - k PROVE a2[i].id = last - (la - k) + i
  <2>1. k + i \in 1 .. la
    OBVIOUS
  <2>2. a2[i].id = last - la + (k + i)
    BY <2>1
  <2> QED
    BY <2>2
<1>2. ASSUME NEW i \in 1 .. ld + k PROVE d2[i].id = last - (la - k) - (ld + k) + i
  <2>1. CASE i <= ld
    <3>1. i \in 1 .. ld /\ d2[i].id = last - la - ld + i
      BY <2>1
    <3> QED
      BY <3>1
  <2>2. CASE ~(i <= ld)
    <3>1. i - ld \in 1 .. k /\ i - ld \in 1 .. la /\ ld + (i - ld) = i
      BY <2>2
    <3>2. d2[ld + (i - ld)].id = last - la + (i - ld)
      BY <3>1
    <3> QED
      BY <3>1, <3>2
  <2> QED
    BY <2>1, <2>2
<1> QED
  BY <1>1, <1>2

\* ... and both together hold the entries they held: pa and pd are the places of a kind.
PlacesMove(pa, la, pd, ld, k, pa2, pd2) ==
  /\ \A i \in 1 .. ld : i \in pd2 <=> i \in pd
  /\ \A i \in 1 .. k : ld + i \in pd2 <=> i \in pa
  /\ \A i \in 1 .. la - k : i \in pa2 <=> k + i \in pa

LEMMA MovingKeepsEntries ==
  ASSUME NEW la \in Nat, NEW ld \in Nat, NEW k \in 0 .. la,
         NEW pa, NEW pd, NEW pa2, NEW pd2, PlacesMove(pa, la, pd, ld, k, pa2, pd2)
  PROVE  (\E i \in 1 .. la - k : i \in pa2) \/ (\E i \in 1 .. ld + k : i \in pd2)
         <=> (\E i \in 1 .. la : i \in pa) \/ (\E i \in 1 .. ld : i \in pd)
<1> USE DEF PlacesMove
<1>1. ASSUME NEW i \in 1 .. la - k, i \in pa2 PROVE \E j \in 1 .. la : j \in pa
  <2>1. k + i \in 1 .. la
    OBVIOUS
  <2> QED
    BY <1>1, <2>1
<1>2. ASSUME NEW i \in 1 .. ld + k, i \in pd2
      PROVE  (\E j \in 1 .. la : j \in pa) \/ (\E j \in 1 .. ld : j \in pd)
  <2>1. i \in 1 .. ld \/ (i - ld \in 1 .. k /\ i - ld \in 1 .. la /\ ld + (i - ld) = i)
    OBVIOUS
  <2> QED
    BY <1>2, <2>1
<1>3. ASSUME NEW i \in 1 .. la, i \in pa
      PROVE  (\E j \in 1 .. la - k : j \in pa2) \/ (\E j \in 1 .. ld + k : j \in pd2)
  <2>1. (i \in 1 .. k /\ ld + i \in 1 .. ld + k) \/ (i - k \in 1 .. la - k /\ k + (i - k) = i)
    OBVIOUS
  <2> QED
    BY <1>3, <2>1
<1>4. ASSUME NEW i \in 1 .. ld, i \in pd PROVE \E j \in 1 .. ld + k : j \in pd2
  <2>1. i \in 1 .. ld + k
    OBVIOUS
  <2> QED
    BY <1>4, <2>1
<1> QED
  BY <1>1, <1>2, <1>3, <1>4

\* decode_and_dispatch: the first k entries of the DECODE_BUFFER enter the ROB.
DispatchesFirst(k) ==
  /\ k \in 0 .. Len(decode) /\ Len(rob) + k <= ROB_SIZE
  /\ rob' \in Seq(RobEntry) /\ Len(rob') = Len(rob) + k
  /\ \A i \in 1 .. Len(rob) : rob'[i] = rob[i]
  /\ \A i \in 1 .. k : /\ rob'[Len(rob) + i].id = decode[i].id
                       /\ ~rob'[Len(rob) + i].executed
                       /\ rob'[Len(rob) + i].branch_mispredicted = decode[i].branch_mispredicted
  /\ decode' \in Seq(DecodeEntry) /\ Len(decode') = Len(decode) - k
  /\ \A i \in 1 .. Len(decode) - k :
       /\ decode'[i].id = decode[k + i].id
       /\ decode'[i].branch_mispredicted = decode[k + i].branch_mispredicted
       /\ decode'[i].wait \in {decode[k + i].wait, DECODE_LATENCY}

LEMMA DispatchMoves ==
  ASSUME Types, Room, decode_and_dispatch
  PROVE  \E k : DispatchesFirst(k)
<1> DEFINE k == Dispatched
           rest == SubSeq(decode, k + 1, Len(decode))
           moved == [i \in 1 .. k |-> [id |-> decode[i].id, executed |-> FALSE,
                                       branch_mispredicted |-> decode[i].branch_mispredicted]]
<1>1. /\ rob' = rob \o moved
      /\ decode' = [i \in DOMAIN rest |->
                      IF i \in ToStamp(rest) THEN [rest[i] EXCEPT !.wait = DECODE_LATENCY] ELSE rest[i]]
  BY DEF decode_and_dispatch
<1>2. k \in 0 .. Len(decode) /\ Len(rob) + k <= ROB_SIZE
  BY DispatchedFits
<1>3. /\ decode \in Seq(DecodeEntry) /\ Len(decode) \in Nat /\ rob \in Seq(RobEntry)
      /\ Len(rob) \in Nat /\ Len(ifetch) \in Nat /\ read \in Nat
  BY DEF Types
<1> HIDE DEF k
<1>4. \A i \in 1 .. Len(decode) : decode[i] \in DecodeEntry
  BY <1>3, ElementOfSeq
<1>5. moved \in Seq(RobEntry) /\ Len(moved) = k
  <2>1. \A i \in 1 .. k : [id |-> decode[i].id, executed |-> FALSE,
                           branch_mispredicted |-> decode[i].branch_mispredicted] \in RobEntry
    BY <1>2, <1>3, <1>4 DEF DecodeEntry, RobEntry
  <2>2. k \in Nat
    BY <1>2
  <2> QED
    BY <2>1, <2>2
<1>6. /\ rob' \in Seq(RobEntry) /\ Len(rob') = Len(rob) + k
      /\ \A i \in 1 .. Len(rob) : rob'[i] = rob[i]
      /\ \A i \in 1 .. k : /\ rob'[Len(rob) + i].id = decode[i].id
                           /\ ~rob'[Len(rob) + i].executed
                           /\ rob'[Len(rob) + i].branch_mispredicted = decode[i].branch_mispredicted
  <2>1. /\ rob' \in Seq(RobEntry) /\ Len(rob') = Len(rob) + k
        /\ \A i \in 1 .. Len(rob) : rob'[i] = rob[i]
        /\ \A i \in 1 .. k : rob'[Len(rob) + i] = moved[i]
    <3> HIDE DEF moved
    <3>0. rob \in Seq(RobEntry) /\ moved \in Seq(RobEntry)
      BY <1>3, <1>5
    <3> HIDE DEF rest
    <3>1. /\ rob \o moved \in Seq(RobEntry) /\ Len(rob \o moved) = Len(rob) + Len(moved)
          /\ \A i \in 1 .. Len(rob) : (rob \o moved)[i] = rob[i]
          /\ \A i \in 1 .. Len(moved) : (rob \o moved)[Len(rob) + i] = moved[i]
      BY <3>0, Joined
    <3> QED
      BY <1>1, <1>5, <3>1
  <2>2. \A i \in 1 .. k : /\ moved[i].id = decode[i].id /\ ~moved[i].executed
                          /\ moved[i].branch_mispredicted = decode[i].branch_mispredicted
    OBVIOUS
  <2> HIDE DEF moved
  <2> QED
    BY <2>1, <2>2
<1>7. /\ decode' \in Seq(DecodeEntry) /\ Len(decode') = Len(decode) - k
      /\ \A i \in 1 .. Len(decode) - k :
           /\ decode'[i].id = decode[k + i].id
           /\ decode'[i].branch_mispredicted = decode[k + i].branch_mispredicted
           /\ decode'[i].wait \in {decode[k + i].wait, DECODE_LATENCY}
  <2>1. /\ rest \in Seq(DecodeEntry) /\ Len(rest) = Len(decode) - k
        /\ \A i \in 1 .. Len(decode) - k : rest[i] = decode[k + i]
    BY <1>2, <1>3, Rest
  <2> HIDE DEF rest
  <2>2. rest \in [1 .. Len(decode) - k -> DecodeEntry] /\ DECODE_LATENCY \in Int
    BY <2>1, LenProperties, FrontEndAssumption
  <2>3. /\ decode' \in [1 .. Len(decode) - k -> DecodeEntry]
        /\ \A i \in 1 .. Len(decode) - k :
             /\ decode'[i].id = rest[i].id
             /\ decode'[i].branch_mispredicted = rest[i].branch_mispredicted
             /\ decode'[i].wait \in {rest[i].wait, DECODE_LATENCY}
    BY <1>1, <2>2 DEF DecodeEntry
  <2>4. Len(decode) - k \in Nat
    BY <1>2, <1>3
  <2> QED
    BY <2>1, <2>3, <2>4
<1> HIDE DEF rest, moved
<1> QED
  BY <1>2, <1>6, <1>7 DEF DispatchesFirst

LEMMA DispatchKeepsFront ==
  ASSUME FrontInv, decode_and_dispatch
  PROVE  FrontInv'
<1>1. UNCHANGED <<program, read, ifetch, fetch_stall, resume, page_table>>
  BY DEF decode_and_dispatch, stall, memory
<1>3. /\ Len(decode) \in Nat /\ Len(rob) \in Nat /\ Len(ifetch) \in Nat /\ read \in Nat
  BY DEF FrontInv, Types
<1>4. PICK k : DispatchesFirst(k)
  BY DispatchMoves DEF FrontInv
<1>2. k \in 0 .. Len(decode) /\ Len(rob) + k <= ROB_SIZE
  BY <1>4 DEF DispatchesFirst
<1>6. /\ rob' \in Seq(RobEntry) /\ Len(rob') = Len(rob) + k
      /\ \A i \in 1 .. Len(rob) : rob'[i] = rob[i]
      /\ \A i \in 1 .. k : /\ rob'[Len(rob) + i].id = decode[i].id
                           /\ ~rob'[Len(rob) + i].executed
                           /\ rob'[Len(rob) + i].branch_mispredicted = decode[i].branch_mispredicted
  BY <1>4 DEF DispatchesFirst
<1>7. /\ decode' \in Seq(DecodeEntry) /\ Len(decode') = Len(decode) - k
      /\ \A i \in 1 .. Len(decode) - k :
           /\ decode'[i].id = decode[k + i].id
           /\ decode'[i].branch_mispredicted = decode[k + i].branch_mispredicted
  BY <1>4 DEF DispatchesFirst
<1>8. Types' /\ Room'
  BY <1>1, <1>2, <1>3, <1>6, <1>7, FrontEndAssumption DEF FrontInv, Types, Room
<1>9. Consecutive'
  <2> DEFINE last == read - Len(ifetch)
  <2>1. last \in Int /\ Numbered(decode, Len(decode), last) /\ Numbered(rob, Len(rob), last - Len(decode))
    BY <1>3 DEF FrontInv, Consecutive, Numbered
  <2>2. NumbersMove(decode, Len(decode), rob, Len(rob), k, decode', rob')
    BY <1>6, <1>7 DEF NumbersMove
  <2> HIDE DEF last
  <2>3. /\ Numbered(decode', Len(decode) - k, last)
        /\ Numbered(rob', Len(rob) + k, last - (Len(decode) - k))
    BY <1>2, <1>3, <2>1, <2>2, MovingKeepsNumbers
  <2> USE DEF last
  <2> QED
    BY <1>1, <1>6, <1>7, <2>3 DEF FrontInv, Consecutive, Numbered
<1>10. \A x : Pending(x)' <=> Pending(x)
  <2> TAKE x
  <2> DEFINE pa == {i \in Nat : decode[i].id = x /\ decode[i].branch_mispredicted}
             pd == {i \in Nat : Open(rob[i], x)}
             pa2 == {i \in Nat : decode'[i].id = x /\ decode'[i].branch_mispredicted}
             pd2 == {i \in Nat : Open(rob'[i], x)}
  <2>1. /\ \A i \in 1 .. Len(rob) : i \in pd2 <=> i \in pd
        /\ \A i \in 1 .. k : Len(rob) + i \in pd2 <=> i \in pa
        /\ \A i \in 1 .. Len(decode) - k : i \in pa2 <=> k + i \in pa
    <3>1. \A i \in 1 .. k : Len(rob) + i \in Nat /\ i \in Nat
      BY <1>2, <1>3
    <3>2. \A i \in 1 .. Len(decode) - k : k + i \in Nat /\ i \in Nat
      BY <1>2, <1>3
    <3>3. \A i \in 1 .. Len(rob) : i \in pd2 <=> i \in pd
      BY <1>6
    <3>4. \A i \in 1 .. k : Len(rob) + i \in pd2 <=> i \in pa
      BY <1>6, <3>1 DEF Open
    <3>5. \A i \in 1 .. Len(decode) - k : i \in pa2 <=> k + i \in pa
      BY <1>7, <3>2
    <3> QED
      BY <3>3, <3>4, <3>5
  <2>2. /\ PendingDecode(x) <=> \E i \in 1 .. Len(decode) : i \in pa
        /\ PendingRob(x) <=> \E i \in 1 .. Len(rob) : i \in pd
        /\ PendingDecode(x)' <=> \E i \in 1 .. Len(decode) - k : i \in pa2
        /\ PendingRob(x)' <=> \E i \in 1 .. Len(rob) + k : i \in pd2
    <3>1. /\ \A i \in 1 .. Len(decode) : i \in Nat
          /\ \A i \in 1 .. Len(rob) : i \in Nat
          /\ \A i \in 1 .. Len(decode) - k : i \in Nat
          /\ \A i \in 1 .. Len(rob) + k : i \in Nat
      OBVIOUS
    <3> QED
      BY <1>6, <1>7, <3>1 DEF PendingDecode, PendingRob
  <2> HIDE DEF pa, pd, pa2, pd2
  <2>3. PlacesMove(pa, Len(decode), pd, Len(rob), k, pa2, pd2)
    BY <2>1 DEF PlacesMove
  <2>4. PendingDecode(x)' \/ PendingRob(x)' <=> PendingDecode(x) \/ PendingRob(x)
    BY <1>2, <1>3, <2>2, <2>3, MovingKeepsEntries
  <2>5. PendingFetch(x)' <=> PendingFetch(x)
    BY <1>1 DEF PendingFetch
  <2> QED
    BY <2>4, <2>5 DEF Pending
<1> QED
  BY <1>1, <1>8, <1>9, <1>10 DEF FrontInv, OneCause

\* fetch_instruction: the lines it asks for are marked, and the first k entries of the
\* IFETCH_BUFFER enter the DECODE_BUFFER.
SendsFirst(k, lines) ==
  /\ k \in 0 .. Len(ifetch) /\ Len(decode) + k <= DECODE_SIZE
  /\ decode' \in Seq(DecodeEntry) /\ Len(decode') = Len(decode) + k
  /\ \A i \in 1 .. Len(decode) : decode'[i] = decode[i]
  /\ \A i \in 1 .. k :
       /\ decode'[Len(decode) + i].id = ifetch[i].id
       /\ decode'[Len(decode) + i].branch_mispredicted = ifetch[i].branch_mispredicted
       /\ decode'[Len(decode) + i].wait = Nil
  /\ ifetch' \in Seq(IfetchEntry) /\ Len(ifetch') = Len(ifetch) - k
  /\ \A i \in 1 .. Len(ifetch) - k :
       /\ ifetch'[i].id = ifetch[k + i].id
       /\ ifetch'[i].branch_mispredicted = ifetch[k + i].branch_mispredicted
       /\ ifetch'[i].line = ifetch[k + i].line
       /\ ifetch'[i].frame = ifetch[k + i].frame
       /\ ifetch'[i].fetched = IF ifetch[k + i].line \in lines THEN "INFLIGHT"
                               ELSE ifetch[k + i].fetched

LEMMA FetchMoves ==
  ASSUME Types, Room, NEW merges, fetch_instruction(merges)
  PROVE  \E k : SendsFirst(k, Requested(merges).lines)
<1> DEFINE lines == Requested(merges).lines
<1> DEFINE buffer == MarkInflight(lines)
           k == Sent(buffer)
           moved == [i \in 1 .. k |-> [id |-> buffer[i].id, wait |-> Nil,
                                       branch_mispredicted |-> buffer[i].branch_mispredicted]]
<1>1. /\ decode' = decode \o moved
      /\ ifetch' = SubSeq(buffer, k + 1, Len(buffer))
  BY DEF fetch_instruction
<1> HIDE DEF lines
<1>2. /\ ifetch \in [1 .. Len(ifetch) -> IfetchEntry] /\ Len(ifetch) \in Nat
      /\ decode \in Seq(DecodeEntry) /\ Len(decode) \in Nat /\ Len(rob) \in Nat /\ read \in Nat
  BY LenProperties DEF Types
<1>3. /\ buffer \in Seq(IfetchEntry) /\ Len(buffer) = Len(ifetch)
      /\ \A i \in 1 .. Len(ifetch) :
           /\ buffer[i].id = ifetch[i].id
           /\ buffer[i].branch_mispredicted = ifetch[i].branch_mispredicted
           /\ buffer[i].line = ifetch[i].line
           /\ buffer[i].frame = ifetch[i].frame
           /\ buffer[i].fetched = IF ifetch[i].line \in lines THEN "INFLIGHT" ELSE ifetch[i].fetched
  <2>1. /\ buffer \in [1 .. Len(ifetch) -> IfetchEntry]
        /\ \A i \in 1 .. Len(ifetch) :
             /\ buffer[i].id = ifetch[i].id
             /\ buffer[i].branch_mispredicted = ifetch[i].branch_mispredicted
             /\ buffer[i].line = ifetch[i].line
             /\ buffer[i].frame = ifetch[i].frame
             /\ buffer[i].fetched = IF ifetch[i].line \in lines THEN "INFLIGHT" ELSE ifetch[i].fetched
    BY <1>2 DEF MarkInflight, IfetchEntry
  <2> HIDE DEF buffer
  <2> QED
    BY <1>2, <2>1
<1> HIDE DEF buffer
<1>4. k \in 0 .. Len(ifetch) /\ Len(decode) + k <= DECODE_SIZE
  BY <1>3, SentFits
<1> HIDE DEF k
<1>5. moved \in Seq(DecodeEntry) /\ Len(moved) = k
  <2>1. \A i \in 1 .. k : [id |-> buffer[i].id, wait |-> Nil,
                           branch_mispredicted |-> buffer[i].branch_mispredicted] \in DecodeEntry
    <3>1. \A i \in 1 .. k : buffer[i] \in IfetchEntry
      BY <1>2, <1>3, <1>4, ElementOfSeq
    <3> QED
      BY <3>1 DEF DecodeEntry, IfetchEntry
  <2>2. k \in Nat
    BY <1>4
  <2> QED
    BY <2>1, <2>2
<1>6. /\ decode' \in Seq(DecodeEntry) /\ Len(decode') = Len(decode) + k
      /\ \A i \in 1 .. Len(decode) : decode'[i] = decode[i]
      /\ \A i \in 1 .. k :
           /\ decode'[Len(decode) + i].id = ifetch[i].id
           /\ decode'[Len(decode) + i].branch_mispredicted = ifetch[i].branch_mispredicted
           /\ decode'[Len(decode) + i].wait = Nil
  <2>1. \A i \in 1 .. k : /\ moved[i].id = ifetch[i].id
                          /\ moved[i].branch_mispredicted = ifetch[i].branch_mispredicted
                          /\ moved[i].wait = Nil
    BY <1>2, <1>3, <1>4
  <2> HIDE DEF moved
  <2>2. decode \in Seq(DecodeEntry) /\ moved \in Seq(DecodeEntry)
    BY <1>2, <1>5
  <2>3. /\ decode \o moved \in Seq(DecodeEntry) /\ Len(decode \o moved) = Len(decode) + Len(moved)
        /\ \A i \in 1 .. Len(decode) : (decode \o moved)[i] = decode[i]
        /\ \A i \in 1 .. Len(moved) : (decode \o moved)[Len(decode) + i] = moved[i]
    BY <2>2, Joined
  <2> QED
    BY <1>1, <1>5, <2>1, <2>3
<1>7. /\ ifetch' \in Seq(IfetchEntry) /\ Len(ifetch') = Len(ifetch) - k
      /\ \A i \in 1 .. Len(ifetch) - k :
           /\ ifetch'[i].id = ifetch[k + i].id
           /\ ifetch'[i].branch_mispredicted = ifetch[k + i].branch_mispredicted
           /\ ifetch'[i].line = ifetch[k + i].line
           /\ ifetch'[i].frame = ifetch[k + i].frame
           /\ ifetch'[i].fetched = IF ifetch[k + i].line \in lines THEN "INFLIGHT"
                                   ELSE ifetch[k + i].fetched
  <2>1. /\ ifetch' \in Seq(IfetchEntry) /\ Len(ifetch') = Len(ifetch) - k
        /\ \A i \in 1 .. Len(ifetch) - k : ifetch'[i] = buffer[k + i]
    BY <1>1, <1>3, <1>4, Rest
  <2>2. \A i \in 1 .. Len(ifetch) - k : k + i \in 1 .. Len(ifetch)
    BY <1>2, <1>4
  <2> QED
    BY <1>3, <2>1, <2>2
<1> HIDE DEF moved
<1>8. SendsFirst(k, lines)
  BY <1>4, <1>6, <1>7 DEF SendsFirst
<1> QED
  BY <1>8 DEF lines

LEMMA FetchKeepsFront ==
  ASSUME FrontInv, NEW merges, fetch_instruction(merges)
  PROVE  FrontInv'
<1>1. /\ fetch_stall' = (fetch_stall /\ ~PenaltyOver)
      /\ resume' = IF PenaltyOver THEN Nil ELSE resume
      /\ UNCHANGED <<program, read, rob, page_table>>
  BY DEF fetch_instruction, Resume
<1>2. Len(ifetch) \in Nat /\ Len(decode) \in Nat /\ Len(rob) \in Nat /\ read \in Nat
  BY DEF FrontInv, Types
<1>3. PICK k : SendsFirst(k, Requested(merges).lines)
  BY FetchMoves DEF FrontInv
<1>4. k \in 0 .. Len(ifetch) /\ Len(decode) + k <= DECODE_SIZE
  BY <1>3 DEF SendsFirst
<1>6. /\ decode' \in Seq(DecodeEntry) /\ Len(decode') = Len(decode) + k
      /\ \A i \in 1 .. Len(decode) : decode'[i] = decode[i]
      /\ \A i \in 1 .. k :
           /\ decode'[Len(decode) + i].id = ifetch[i].id
           /\ decode'[Len(decode) + i].branch_mispredicted = ifetch[i].branch_mispredicted
  BY <1>3 DEF SendsFirst
<1>7. /\ ifetch' \in Seq(IfetchEntry) /\ Len(ifetch') = Len(ifetch) - k
      /\ \A i \in 1 .. Len(ifetch) - k :
           /\ ifetch'[i].id = ifetch[k + i].id
           /\ ifetch'[i].branch_mispredicted = ifetch[k + i].branch_mispredicted
  BY <1>3 DEF SendsFirst
<1>8. Types' /\ Room'
  BY <1>1, <1>4, <1>6, <1>7 DEF FrontInv, Types, Room
<1>9. Consecutive'
  <2>1. Numbered(ifetch, Len(ifetch), read) /\ Numbered(decode, Len(decode), read - Len(ifetch))
    BY <1>2 DEF FrontInv, Consecutive, Numbered
  <2>2. NumbersMove(ifetch, Len(ifetch), decode, Len(decode), k, ifetch', decode')
    BY <1>6, <1>7 DEF NumbersMove
  <2>3. /\ Numbered(ifetch', Len(ifetch) - k, read)
        /\ Numbered(decode', Len(decode) + k, read - (Len(ifetch) - k))
    BY <1>2, <1>4, <2>1, <2>2, MovingKeepsNumbers
  <2>4. \A i \in 1 .. Len(rob) :
          rob[i].id = read - (Len(ifetch) - k) - (Len(decode) + k) - Len(rob) + i
    BY <1>2, <1>4 DEF FrontInv, Consecutive
  <2> QED
    BY <1>1, <1>6, <1>7, <2>3, <2>4 DEF Consecutive, Numbered
<1>10. \A x : Pending(x)' <=> Pending(x)
  <2> TAKE x
  <2> DEFINE pa == {i \in Nat : ifetch[i].id = x /\ ifetch[i].branch_mispredicted}
             pd == {i \in Nat : decode[i].id = x /\ decode[i].branch_mispredicted}
             pa2 == {i \in Nat : ifetch'[i].id = x /\ ifetch'[i].branch_mispredicted}
             pd2 == {i \in Nat : decode'[i].id = x /\ decode'[i].branch_mispredicted}
  <2>1. /\ \A i \in 1 .. Len(decode) : i \in pd2 <=> i \in pd
        /\ \A i \in 1 .. k : Len(decode) + i \in pd2 <=> i \in pa
        /\ \A i \in 1 .. Len(ifetch) - k : i \in pa2 <=> k + i \in pa
    <3>1. \A i \in 1 .. k : Len(decode) + i \in Nat /\ i \in Nat
      BY <1>2, <1>4
    <3>2. \A i \in 1 .. Len(ifetch) - k : k + i \in Nat /\ i \in Nat
      BY <1>2, <1>4
    <3>3. \A i \in 1 .. Len(decode) : i \in pd2 <=> i \in pd
      BY <1>6
    <3>4. \A i \in 1 .. k : Len(decode) + i \in pd2 <=> i \in pa
      BY <1>6, <3>1
    <3>5. \A i \in 1 .. Len(ifetch) - k : i \in pa2 <=> k + i \in pa
      BY <1>7, <3>2
    <3> QED
      BY <3>3, <3>4, <3>5
  <2>2. /\ PendingFetch(x) <=> \E i \in 1 .. Len(ifetch) : i \in pa
        /\ PendingDecode(x) <=> \E i \in 1 .. Len(decode) : i \in pd
        /\ PendingFetch(x)' <=> \E i \in 1 .. Len(ifetch) - k : i \in pa2
        /\ PendingDecode(x)' <=> \E i \in 1 .. Len(decode) + k : i \in pd2
    <3>1. /\ \A i \in 1 .. Len(ifetch) : i \in Nat
          /\ \A i \in 1 .. Len(decode) : i \in Nat
          /\ \A i \in 1 .. Len(ifetch) - k : i \in Nat
          /\ \A i \in 1 .. Len(decode) + k : i \in Nat
      OBVIOUS
    <3> QED
      BY <1>6, <1>7, <3>1 DEF PendingFetch, PendingDecode
  <2> HIDE DEF pa, pd, pa2, pd2
  <2>3. PlacesMove(pa, Len(ifetch), pd, Len(decode), k, pa2, pd2)
    BY <2>1 DEF PlacesMove
  <2>4. PendingFetch(x)' \/ PendingDecode(x)' <=> PendingFetch(x) \/ PendingDecode(x)
    BY <1>2, <1>4, <2>2, <2>3, MovingKeepsEntries
  <2>5. PendingRob(x)' <=> PendingRob(x)
    BY <1>1 DEF PendingRob
  <2> QED
    BY <2>4, <2>5 DEF Pending
<1>11. OneCause'
  <2>1. PenaltyOver => resume # Nil /\ ~Pending(read)
    BY DEF PenaltyOver, FrontInv, OneCause
  <2> QED
    BY <1>1, <1>10, <2>1 DEF FrontInv, OneCause
<1> QED
  BY <1>8, <1>9, <1>11 DEF FrontInv

LEMMA ReadingKeepsFront ==
  ASSUME FrontInv, read_from_trace
  PROVE  FrontInv'
<1> DEFINE n == read + 1
           stalls == Mispredicted(n) /\ warmup_complete
<1>1. PICK f \in Frame :
        /\ Translate(program[n].line, f)
        /\ ifetch' = Append(ifetch, [id |-> n, line |-> program[n].line, frame |-> f,
                                     fetched |-> "NO", branch_mispredicted |-> stalls])
  BY DEF read_from_trace
<1>2. /\ ~fetch_stall /\ n <= Len(program) /\ read' = n /\ fetch_stall' = stalls
      /\ UNCHANGED <<program, decode, rob, resume>>
  BY DEF read_from_trace
<1>3. program[n].line \in Line
  <2>1. program \in Seq([line : Line, branch : {"no", "taken", "mispredicted"}]) /\ read \in Nat
    BY FrontEndAssumption DEF FrontInv, Types
  <2>2. n \in 1 .. Len(program)
    BY <1>2, <2>1
  <2>3. program[n] \in [line : Line, branch : {"no", "taken", "mispredicted"}]
    BY <2>1, <2>2, ElementOfSeq
  <2> QED
    BY <2>3
<1> DEFINE new == [id |-> n, line |-> program[n].line, frame |-> f, fetched |-> "NO",
                   branch_mispredicted |-> stalls]
<1>4. new \in IfetchEntry /\ new.id = n /\ new.branch_mispredicted = stalls
  BY <1>3 DEF IfetchEntry, FrontInv, Types
<1>5. page_table' \in [Line -> Frame \cup {Nil}]
  BY <1>1, <1>3 DEF Translate, FrontInv, Types
<1>6. ifetch \in Seq(IfetchEntry) /\ Len(ifetch) \in Nat /\ read \in Nat
  BY DEF FrontInv, Types
<1> HIDE DEF new, stalls
<1>7. /\ ifetch' \in Seq(IfetchEntry) /\ Len(ifetch') = Len(ifetch) + 1
      /\ \A i \in 1 .. Len(ifetch) : ifetch'[i] = ifetch[i]
      /\ ifetch'[Len(ifetch) + 1] = new
  BY <1>1, <1>4, <1>6, AppendProperties DEF new
<1>8. Types' /\ Room'
  BY <1>2, <1>5, <1>6, <1>7 DEF FrontInv, Types, Room, stalls
<1>9. Consecutive'
  <2>1. Len(decode) \in Nat /\ Len(rob) \in Nat
    BY DEF FrontInv, Types
  <2>2. \A i \in 1 .. Len(ifetch) + 1 : i \in 1 .. Len(ifetch) \/ i = Len(ifetch) + 1
    BY <1>6
  <2>3. \A i \in 1 .. Len(ifetch) : ifetch'[i].id = (read + 1) - (Len(ifetch) + 1) + i
    BY <1>6, <1>7 DEF FrontInv, Consecutive
  <2>4. ifetch'[Len(ifetch) + 1].id = (read + 1) - (Len(ifetch) + 1) + (Len(ifetch) + 1)
    BY <1>4, <1>6, <1>7
  <2>5. \A i \in 1 .. Len(decode) :
          decode[i].id = (read + 1) - (Len(ifetch) + 1) - Len(decode) + i
    BY <1>6, <2>1 DEF FrontInv, Consecutive
  <2>6. \A i \in 1 .. Len(rob) :
          rob[i].id = (read + 1) - (Len(ifetch) + 1) - Len(decode) - Len(rob) + i
    BY <1>6, <2>1 DEF FrontInv, Consecutive
  <2> QED
    BY <1>2, <1>7, <2>2, <2>3, <2>4, <2>5, <2>6 DEF Consecutive
<1>10. \A x : ~Pending(x)
  BY <1>2 DEF FrontInv, OneCause
<1>11. \A x : Pending(x)' <=> x = n /\ stalls
  <2> TAKE x
  <2>1. \A i \in 1 .. Len(ifetch) + 1 : i \in 1 .. Len(ifetch) \/ i = Len(ifetch) + 1
    BY <1>6
  <2>2. Len(ifetch) + 1 \in 1 .. Len(ifetch')
    BY <1>6, <1>7
  <2>3. PendingFetch(x)' <=> PendingFetch(x) \/ (new.id = x /\ new.branch_mispredicted)
    BY <1>7, <2>1, <2>2 DEF PendingFetch
  <2>4. (PendingDecode(x)' <=> PendingDecode(x)) /\ (PendingRob(x)' <=> PendingRob(x))
    BY <1>2 DEF PendingDecode, PendingRob
  <2> QED
    BY <1>4, <1>10, <2>3, <2>4 DEF Pending
<1>12. resume = Nil
  BY <1>2 DEF FrontInv, OneCause
<1>13. OneCause'
  BY <1>2, <1>11, <1>12 DEF OneCause
<1> QED
  BY <1>8, <1>9, <1>13 DEF FrontInv

LEMMA NextCycleKeepsFront ==
  ASSUME FrontInv, NextCycle
  PROVE  FrontInv'
<1>1. /\ resume' = Later(resume, 0)
      /\ decode' = [i \in DOMAIN decode |-> [decode[i] EXCEPT !.wait = Later(@, -1)]]
      /\ UNCHANGED <<program, read, ifetch, rob, fetch_stall, page_table>>
  BY DEF NextCycle, memory
<1>2. resume' \in Nat \cup {Nil} /\ (resume' = Nil <=> resume = Nil)
  BY <1>1, FrontEndAssumption DEF Later, FrontInv, Types
<1>3. decode \in [1 .. Len(decode) -> DecodeEntry] /\ Len(decode) \in Nat
  BY LenProperties DEF FrontInv, Types
<1>4. /\ decode' \in [1 .. Len(decode) -> DecodeEntry]
      /\ \A i \in 1 .. Len(decode) :
           /\ decode'[i].id = decode[i].id
           /\ decode'[i].branch_mispredicted = decode[i].branch_mispredicted
  <2>1. \A w \in Int \cup {Nil} : Later(w, -1) \in Int \cup {Nil}
    BY DEF Later
  <2> QED
    BY <1>1, <1>3, <2>1 DEF DecodeEntry
<1>5. decode' \in Seq(DecodeEntry) /\ Len(decode') = Len(decode)
  BY <1>3, <1>4
<1>6. \A x : Pending(x)' <=> Pending(x)
  BY <1>1, <1>4, <1>5 DEF Pending, PendingFetch, PendingDecode, PendingRob
<1> QED
  BY <1>1, <1>2, <1>4, <1>5, <1>6 DEF FrontInv, Types, Room, Consecutive, OneCause

LEMMA StepKeepsFront == FrontInv /\ [Next]_vars => FrontInv'
<1> SUFFICES ASSUME FrontInv, [Next]_vars PROVE FrontInv'
  OBVIOUS
<1>1. CASE UNCHANGED <<program, read, buffers, stall, page_table>>
  <2>1. UNCHANGED <<program, read, ifetch, decode, rob, fetch_stall, resume, page_table>>
    BY <1>1 DEF buffers, stall
  <2>2. \A x : Pending(x)' <=> Pending(x)
    BY <2>1 DEF Pending, PendingFetch, PendingDecode, PendingRob
  <2> QED
    BY <2>1, <2>2 DEF FrontInv, Types, Room, Consecutive, OneCause
<1>2. ASSUME NEW i \in 1 .. ROB_SIZE, complete_execution(i) PROVE FrontInv'
  BY <1>2, ExecutionKeepsFront
<1>3. CASE retire_rob
  BY <1>3, RetirementKeepsFront
<1>4. CASE WarmupCompletes \/ BackEndDone \/ NothingToRead \/ UNCHANGED vars
  BY <1>1, <1>4 DEF WarmupCompletes, BackEndDone, NothingToRead, vars, memory
<1>5. ASSUME NEW r \in l1i, complete_instr_fetch(r) PROVE FrontInv'
  BY <1>5, AnswersKeepFront
<1>6. CASE decode_and_dispatch
  BY <1>6, DispatchKeepsFront
<1>7. ASSUME NEW merges \in SUBSET (1 .. IFETCH_SIZE), fetch_instruction(merges) PROVE FrontInv'
  BY <1>7, FetchKeepsFront
<1>8. CASE read_from_trace
  BY <1>8, ReadingKeepsFront
<1>9. CASE NextCycle
  BY <1>9, NextCycleKeepsFront
<1> QED
  BY <1>2, <1>3, <1>4, <1>5, <1>6, <1>7, <1>8, <1>9 DEF Next

LEMMA InitIsFront ==
  ASSUME Init PROVE FrontInv
<1>0. /\ program \in Programs /\ read = 0 /\ ifetch = <<>> /\ decode = <<>> /\ rob = <<>>
      /\ ~fetch_stall /\ fetch_stall \in BOOLEAN /\ resume = Nil /\ page_table = [v \in Line |-> Nil]
  BY DEF Init
<1>1. Types /\ Room /\ Consecutive
  <2>1. /\ Len(<<>>) = 0 /\ <<>> \in Seq(IfetchEntry) /\ <<>> \in Seq(DecodeEntry)
        /\ <<>> \in Seq(RobEntry)
    OBVIOUS
  <2>2. Types
    BY <1>0, <2>1 DEF Types
  <2> QED
    BY <1>0, <2>1, <2>2, FrontEndAssumption DEF Room, Consecutive
<1>2. \A x : ~Pending(x)
  BY <1>0 DEF Pending, PendingFetch, PendingDecode, PendingRob
<1> QED
  BY <1>1, <1>2 DEF Init, FrontInv, OneCause

(***************************************************************************)
(* Fetch stalls exactly while the last instruction read is a mispredicted  *)
(* branch on its way to execution, or its penalty runs; no such branch and *)
(* no resume cycle is left behind (read_from_trace, complete_execution,    *)
(* fetch_instruction).                                                     *)
(***************************************************************************)
THEOREM StallAlwaysHasItsCause == Spec => []StallHasItsCause
<1>1. Init => FrontInv
  BY InitIsFront
<1>2. FrontInv => StallHasItsCause
  BY OneCauseIsStallHasItsCause DEF FrontInv
<1> QED
  BY <1>1, <1>2, StepKeepsFront, PTL DEF Spec

-----------------------------------------------------------------------------
(* The requests to the L1I *)

Asking == [lines : SUBSET Line, l1i : SUBSET Requests]

\* What one turn of the loop over the IFETCH_BUFFER asks for.
Turn(q, i, merges) ==
  IF ifetch[i].fetched = "NO" /\ ifetch[i].line \notin q.lines
  THEN Asked(q, ifetch[i], i \in merges) ELSE q

LEMMA RequestedByTurns ==
  ASSUME Types, l1i \subseteq Requests, NEW merges
  PROVE  \E ask \in [0 .. Len(ifetch) -> Asking] :
           /\ Requested(merges) = ask[Len(ifetch)]
           /\ ask[0] = [lines |-> {}, l1i |-> l1i]
           /\ \A i \in 1 .. Len(ifetch) : ask[i] = Turn(ask[i - 1], i, merges)
<1> DEFINE n == Len(ifetch)
           q0 == [lines |-> {}, l1i |-> l1i]
           step == [x \in (1 .. n) \X Asking |-> Turn(x[2], x[1], merges)]
           Loop(g) == [i \in 0 .. n |-> IF i = 0 THEN q0 ELSE Turn(g[i - 1], i, merges)]
           ask == CHOOSE g : g = Loop(g)
<1>1. n \in Nat /\ \A i \in 1 .. n : ifetch[i].line \in Line /\ ifetch[i].frame \in Frame
  <2>1. ifetch \in Seq(IfetchEntry)
    BY DEF Types
  <2>2. \A i \in 1 .. n : ifetch[i] \in IfetchEntry
    BY <2>1, ElementOfSeq
  <2> QED
    BY <2>1, <2>2 DEF IfetchEntry
<1>2. q0 \in Asking
  BY DEF Asking
<1>3. ASSUME NEW q \in Asking, NEW i \in 1 .. n PROVE Turn(q, i, merges) \in Asking
  BY <1>1 DEF Turn, Asked, Asking, Requests
<1>4. step \in [(1 .. n) \X Asking -> Asking]
  BY <1>3
<1>5. \A i \in 1 .. n : \A q \in Asking : step[<<i, q>>] = Turn(q, i, merges)
  OBVIOUS
<1> HIDE DEF n, q0, step, Loop, ask
<1>6. PICK f \in [0 .. n -> Asking] : Results(f, n, q0, step)
  BY <1>1, <1>2, <1>4, LoopResults
<1>7. \A i \in 1 .. n : f[i] = Turn(f[i - 1], i, merges)
  <2>1. \A i \in 1 .. n : i - 1 \in 0 .. n
    BY <1>1
  <2> QED
    BY <1>5, <1>6, <2>1 DEF Results
<1> USE DEF Loop, ask
<1>8. f = Loop(f)
  <2>1. \A i \in 0 .. n : i = 0 \/ i \in 1 .. n
    BY <1>1
  <2> QED
    BY <1>6, <1>7, <2>1 DEF Results
<1>9. ask = Loop(ask)
  <2> HIDE DEF Loop
  <2> QED
    BY <1>8
<1>10. Requested(merges) = ask[n]
  BY DEF Requested, Turn, q0, n
<1> HIDE DEF ask
<1>11. ask[0] = q0 /\ \A i \in 1 .. n : ask[i] = Turn(ask[i - 1], i, merges)
  <2>1. 0 \in 0 .. n /\ \A i \in 1 .. n : i \in 0 .. n /\ i # 0
    BY <1>1
  <2> QED
    BY <1>9, <2>1
<1>12. \A i \in 0 .. n : ask[i] \in Asking
  <2> DEFINE S == {i \in 0 .. n : ask[i] \in Asking}
  <2>1. 0 \in S
    BY <1>1, <1>2, <1>11
  <2>2. \A i \in 1 .. n : i - 1 \in S => i \in S
    BY <1>1, <1>3, <1>11
  <2> HIDE DEF S
  <2>3. \A i \in 0 .. n : i \in S
    BY <1>1, <2>1, <2>2, UpTo
  <2> QED
    BY <2>3 DEF S
<1>13. ask \in [0 .. n -> Asking]
  BY <1>9, <1>12
<1> QED
  BY <1>10, <1>11, <1>13 DEF n, q0

Fits(requests) ==
  requests \subseteq Requests /\ IsFiniteSet(requests) /\ Cardinality(requests) <= L1I_SIZE

LEMMA TurnFits ==
  ASSUME NEW q \in Asking, NEW i, NEW merges, Fits(q.l1i), Turn(q, i, merges) \in Asking
  PROVE  Fits(Turn(q, i, merges).l1i)
<1> DEFINE r == [line |-> ifetch[i].line, frame |-> ifetch[i].frame]
<1>1. CASE /\ Cardinality(q.l1i) < L1I_SIZE
           /\ Turn(q, i, merges) = [lines |-> q.lines \cup {ifetch[i].line}, l1i |-> q.l1i \cup {r}]
  <2> DEFINE l == q.l1i
             more == l \cup {r}
  <2>0. IsFiniteSet(l)
    BY DEF Fits
  <2> HIDE DEF l, r
  <2>1. /\ IsFiniteSet(more) /\ Cardinality(l) \in Nat
        /\ Cardinality(more) = IF r \in l THEN Cardinality(l) ELSE Cardinality(l) + 1
    BY <2>0, FS_AddElement, FS_CardinalityType
  <2> USE DEF l, r
  <2> HIDE DEF more
  <2>2. L1I_SIZE \in Nat
    BY FrontEndAssumption
  <2>3. Cardinality(more) <= L1I_SIZE
    BY <1>1, <2>1, <2>2
  <2>4. Turn(q, i, merges).l1i = more
    BY <1>1 DEF more
  <2> QED
    BY <2>1, <2>3, <2>4 DEF Fits, Asking
<1>2. CASE Turn(q, i, merges).l1i = q.l1i
  BY <1>2
<1> QED
  BY <1>1, <1>2 DEF Turn, Asked, Asking

\* The requests keep within the L1I and none is given up; the lines are lines of code.
LEMMA RequestedFits ==
  ASSUME Types, Fits(l1i), NEW merges
  PROVE  Requested(merges) \in Asking /\ Fits(Requested(merges).l1i)
<1> DEFINE n == Len(ifetch)
<1>1. PICK ask \in [0 .. n -> Asking] :
        /\ Requested(merges) = ask[n]
        /\ ask[0] = [lines |-> {}, l1i |-> l1i]
        /\ \A i \in 1 .. n : ask[i] = Turn(ask[i - 1], i, merges)
  BY RequestedByTurns DEF Fits
<1> DEFINE S == {i \in 0 .. n : Fits(ask[i].l1i)}
<1>2. n \in Nat
  BY DEF Types
<1> HIDE DEF n
<1>3. 0 \in S
  BY <1>1, <1>2
<1>4. ASSUME NEW i \in 1 .. n, i - 1 \in S PROVE i \in S
  <2>1. i - 1 \in 0 .. n /\ i \in 0 .. n /\ ask[i - 1] \in Asking /\ Turn(ask[i - 1], i, merges) \in Asking
    BY <1>1, <1>2
  <2> QED
    BY <1>1, <1>4, <2>1, TurnFits
<1> HIDE DEF S
<1>5. n \in S
  BY <1>2, <1>3, <1>4, UpTo
<1> QED
  BY <1>1, <1>2, <1>5 DEF S

-----------------------------------------------------------------------------
(* As long as no page is swapped out, a request for a frame is one for the *)
(* only line that is in it.                                                *)

Translated(requests) == \A r \in requests : r.frame = page_table[r.line]
EachAsked(q) == \A v \in q.lines : \E r \in q.l1i : r.line = v

OneLinePerFrame ==
  \A v, w \in Line : page_table[v] = page_table[w] /\ page_table[v] # Nil => v = w

FramesMatch ==
  /\ OneLinePerFrame
  /\ \A i \in 1 .. Len(ifetch) : ifetch[i].frame = page_table[ifetch[i].line]
  /\ Translated(l1i)

LEMMA TurnAsks ==
  ASSUME Types, FramesMatch, NEW q \in Asking, NEW i \in 1 .. Len(ifetch), NEW merges,
         Translated(q.l1i), EachAsked(q)
  PROVE  LET t == Turn(q, i, merges)
         IN Translated(t.l1i) /\ EachAsked(t) /\ q.l1i \subseteq t.l1i
<1> DEFINE e == ifetch[i]
<1>1. e.line \in Line /\ e.frame \in Frame /\ e.frame # Nil /\ e.frame = page_table[e.line]
  <2>1. ifetch \in Seq(IfetchEntry)
    BY DEF Types
  <2>2. e \in IfetchEntry
    BY <2>1, ElementOfSeq
  <2>3. e.line \in Line /\ e.frame \in Frame
    BY <2>2 DEF IfetchEntry
  <2> QED
    BY <2>3, FrontEndAssumption DEF FramesMatch
<1>2. CASE Turn(q, i, merges) = q
  BY <1>2
<1>3. CASE /\ \E r \in q.l1i : r.frame = e.frame
           /\ Turn(q, i, merges) = [q EXCEPT !.lines = @ \cup {e.line}]
  <2>1. PICK r \in q.l1i : r.frame = e.frame
    BY <1>3
  <2>2. r.line \in Line /\ page_table[r.line] = page_table[e.line]
    BY <1>1, <2>1 DEF Asking, Requests, Translated
  <2>3. r.line = e.line
    BY <1>1, <2>2 DEF FramesMatch, OneLinePerFrame
  <2>4. Turn(q, i, merges).l1i = q.l1i /\ Turn(q, i, merges).lines = q.lines \cup {e.line}
    BY <1>3 DEF Asking
  <2> QED
    BY <2>1, <2>3, <2>4 DEF EachAsked
<1>4. CASE Turn(q, i, merges) = [lines |-> q.lines \cup {e.line},
                                 l1i |-> q.l1i \cup {[line |-> e.line, frame |-> e.frame]}]
  <2> DEFINE r == [line |-> e.line, frame |-> e.frame]
  <2>1. /\ Turn(q, i, merges).l1i = q.l1i \cup {r}
        /\ Turn(q, i, merges).lines = q.lines \cup {e.line}
    BY <1>4
  <2>2. r.line = e.line /\ r.frame = page_table[r.line]
    BY <1>1
  <2> HIDE DEF e, r
  <2> QED
    BY <2>1, <2>2 DEF Translated, EachAsked
<1> QED
  BY <1>2, <1>3, <1>4 DEF Turn, Asked

\* Every line that is marked as asked for has a request, and no request is given up.
LEMMA RequestedAsks ==
  ASSUME Types, FramesMatch, Fits(l1i), NEW merges
  PROVE  /\ Translated(Requested(merges).l1i) /\ EachAsked(Requested(merges))
         /\ l1i \subseteq Requested(merges).l1i
<1> DEFINE n == Len(ifetch)
<1>1. PICK ask \in [0 .. n -> Asking] :
        /\ Requested(merges) = ask[n]
        /\ ask[0] = [lines |-> {}, l1i |-> l1i]
        /\ \A i \in 1 .. n : ask[i] = Turn(ask[i - 1], i, merges)
  BY RequestedByTurns DEF Fits
<1> DEFINE S == {i \in 0 .. n : /\ Translated(ask[i].l1i) /\ EachAsked(ask[i])
                                /\ l1i \subseteq ask[i].l1i}
<1>2. n \in Nat
  BY DEF Types
<1>3. 0 \in S
  BY <1>1, <1>2 DEF FramesMatch, EachAsked
<1>4. ASSUME NEW i \in 1 .. n, i - 1 \in S PROVE i \in S
  <2>1. i - 1 \in 0 .. n /\ i \in 0 .. n /\ ask[i - 1] \in Asking
    BY <1>1, <1>2
  <2>2. Translated(ask[i - 1].l1i) /\ EachAsked(ask[i - 1]) /\ l1i \subseteq ask[i - 1].l1i
    BY <1>4
  <2>3. LET t == Turn(ask[i - 1], i, merges)
        IN Translated(t.l1i) /\ EachAsked(t) /\ ask[i - 1].l1i \subseteq t.l1i
    BY <2>1, <2>2, TurnAsks
  <2> QED
    BY <1>1, <2>1, <2>2, <2>3
<1> HIDE DEF n, S
<1>5. n \in S
  BY <1>2, <1>3, <1>4, UpTo
<1> QED
  BY <1>1, <1>5 DEF S

-----------------------------------------------------------------------------
(* The bounds of the buffers and of the waits *)

Waits == {Nil} \cup -1 .. DECODE_LATENCY

Bounds ==
  /\ phase \in {"back end", "decode", "fetch", "read", "end"}
  /\ num_reads \in 0 .. FETCH_WIDTH /\ (phase = "read" => num_reads < FETCH_WIDTH)
  /\ Len(ifetch) <= IFETCH_SIZE
  /\ read <= Len(program) /\ Len(ifetch) + Len(decode) + Len(rob) <= read
  /\ \A i \in 1 .. Len(decode) : decode[i].wait \in Waits
  /\ resume \in {Nil} \cup 0 .. BRANCH_MISPREDICT_PENALTY
  /\ warmup_complete \in BOOLEAN
  /\ Fits(l1i)

LEMMA Lengths ==
  ASSUME Types
  PROVE  /\ Len(ifetch) \in Nat /\ Len(decode) \in Nat /\ Len(rob) \in Nat /\ read \in Nat
         /\ Len(program) \in Nat
  BY FrontEndAssumption DEF Types

LEMMA Places == Bounds => /\ Len(ifetch) <= IFETCH_SIZE
                          /\ read <= Len(program) /\ Len(ifetch) + Len(decode) + Len(rob) <= read
  BY DEF Bounds

LEMMA Sizes ==
  /\ IFETCH_SIZE \in Nat /\ DECODE_SIZE \in Nat /\ ROB_SIZE \in Nat /\ L1I_SIZE \in Nat
  /\ FETCH_WIDTH \in Nat \ {0} /\ BRANCH_MISPREDICT_PENALTY \in Nat /\ DECODE_LATENCY \in Nat
  BY FrontEndAssumption

LEMMA BoundsGiveTypeOK ==
  ASSUME FrontInv, Bounds
  PROVE  TypeOK
<1>1. Types /\ Room /\ Consecutive
  BY DEF FrontInv
<1>2. /\ Range(ifetch) = {ifetch[i] : i \in 1 .. Len(ifetch)}
      /\ Range(decode) = {decode[i] : i \in 1 .. Len(decode)}
      /\ Range(rob) = {rob[i] : i \in 1 .. Len(rob)}
  BY <1>1 DEF Types, Range
<1>3. /\ \A i \in 1 .. Len(ifetch) : ifetch[i] \in IfetchEntry /\ ifetch[i].id \in 1 .. read
      /\ \A i \in 1 .. Len(decode) : decode[i] \in DecodeEntry /\ decode[i].id \in 1 .. read
      /\ \A i \in 1 .. Len(rob) : rob[i] \in RobEntry /\ rob[i].id \in 1 .. read
  <2>1. /\ \A i \in 1 .. Len(ifetch) : ifetch[i] \in IfetchEntry
        /\ \A i \in 1 .. Len(decode) : decode[i] \in DecodeEntry
        /\ \A i \in 1 .. Len(rob) : rob[i] \in RobEntry
    BY <1>1, ElementOfSeq DEF Types
  <2>2. /\ Len(ifetch) \in Nat /\ Len(decode) \in Nat /\ Len(rob) \in Nat /\ read \in Nat
        /\ Len(ifetch) + Len(decode) + Len(rob) <= read
    BY <1>1, Lengths DEF Bounds
  <2>3. \A i \in 1 .. Len(ifetch) : ifetch[i].id \in 1 .. read
    BY <1>1, <2>2 DEF Consecutive
  <2>4. \A i \in 1 .. Len(decode) : decode[i].id \in 1 .. read
    BY <1>1, <2>2 DEF Consecutive
  <2>5. \A i \in 1 .. Len(rob) : rob[i].id \in 1 .. read
    BY <1>1, <2>2 DEF Consecutive
  <2> QED
    BY <2>1, <2>3, <2>4, <2>5
<1>4. Range(ifetch) \subseteq [id : 1 .. read, line : Line, frame : Frame,
                               fetched : {"NO", "INFLIGHT", "COMPLETED"},
                               branch_mispredicted : BOOLEAN]
  <2>1. \A i \in 1 .. Len(ifetch) :
          ifetch[i] \in [id : 1 .. read, line : Line, frame : Frame,
                         fetched : {"NO", "INFLIGHT", "COMPLETED"}, branch_mispredicted : BOOLEAN]
    BY <1>3 DEF IfetchEntry
  <2> QED
    BY <1>2, <2>1
<1>5. Range(decode) \subseteq [id : 1 .. read, wait : {Nil} \cup -1 .. DECODE_LATENCY,
                               branch_mispredicted : BOOLEAN]
  <2>1. \A i \in 1 .. Len(decode) :
          decode[i] \in [id : 1 .. read, wait : {Nil} \cup -1 .. DECODE_LATENCY,
                         branch_mispredicted : BOOLEAN]
    BY <1>3 DEF DecodeEntry, Bounds, Waits
  <2> QED
    BY <1>2, <2>1
<1>6. Range(rob) \subseteq [id : 1 .. read, executed : BOOLEAN, branch_mispredicted : BOOLEAN]
  <2>1. \A i \in 1 .. Len(rob) :
          rob[i] \in [id : 1 .. read, executed : BOOLEAN, branch_mispredicted : BOOLEAN]
    BY <1>3 DEF RobEntry
  <2> QED
    BY <1>2, <2>1
<1>7. read \in 0 .. Len(program) /\ Len(ifetch) <= IFETCH_SIZE
  BY <1>1, Lengths, Places
<1>8. Len(decode) <= DECODE_SIZE /\ Len(rob) <= ROB_SIZE /\ fetch_stall \in BOOLEAN
      /\ page_table \in [Line -> Frame \cup {Nil}]
  BY <1>1 DEF Types, Room
<1>9. /\ phase \in {"back end", "decode", "fetch", "read", "end"} /\ num_reads \in 0 .. FETCH_WIDTH
      /\ warmup_complete \in BOOLEAN /\ resume \in {Nil} \cup 0 .. BRANCH_MISPREDICT_PENALTY
      /\ l1i \subseteq Requests /\ Cardinality(l1i) <= L1I_SIZE
  BY DEF Bounds, Fits
<1> QED
  BY <1>4, <1>5, <1>6, <1>7, <1>8, <1>9 DEF TypeOK

LEMMA ExecutionKeepsBounds ==
  ASSUME Types, Bounds, NEW i, complete_execution(i)
  PROVE  Bounds'
<1>1. /\ rob' = [rob EXCEPT ![i].executed = TRUE] /\ i \in DOMAIN rob
      /\ resume' \in {BRANCH_MISPREDICT_PENALTY, resume}
      /\ UNCHANGED <<program, read, phase, num_reads, ifetch, decode, warmup_complete, l1i>>
  BY DEF complete_execution, memory
<1>2. Len(rob') = Len(rob)
  <2>1. rob \in [1 .. Len(rob) -> RobEntry] /\ Len(rob) \in Nat
    BY LenProperties DEF Types
  <2>2. DOMAIN rob' = 1 .. Len(rob)
    BY <1>1, <2>1
  <2>3. rob' = [j \in 1 .. Len(rob) |-> rob'[j]]
    BY <1>1, <2>1
  <2> QED
    BY <2>1, <2>3
<1>3. BRANCH_MISPREDICT_PENALTY \in 0 .. BRANCH_MISPREDICT_PENALTY
  BY FrontEndAssumption
<1> QED
  BY <1>1, <1>2, <1>3 DEF Bounds

LEMMA RetirementKeepsBounds ==
  ASSUME Types, Bounds, retire_rob
  PROVE  Bounds'
<1>1. /\ rob # <<>> /\ rob' = Tail(rob)
      /\ UNCHANGED <<program, read, phase, num_reads, ifetch, decode, resume, warmup_complete, l1i>>
  BY DEF retire_rob, memory, stall
<1>2. Len(rob') = Len(rob) - 1
  BY <1>1, HeadTailProperties DEF Types
<1>3. Len(ifetch) + Len(decode) + Len(rob') <= read
  BY <1>2, Lengths, Places
<1> QED
  BY <1>1, <1>3 DEF Bounds

LEMMA AnswersKeepBounds ==
  ASSUME Types, Bounds, NEW r, complete_instr_fetch(r)
  PROVE  Bounds'
<1>1. /\ l1i' = l1i \ {r}
      /\ ifetch' = [i \in DOMAIN ifetch |->
                      IF ifetch[i].line = r.line THEN [ifetch[i] EXCEPT !.fetched = "COMPLETED"]
                      ELSE ifetch[i]]
      /\ UNCHANGED <<program, read, phase, num_reads, decode, rob, resume, warmup_complete>>
  BY DEF complete_instr_fetch, stall
<1>2. Len(ifetch') = Len(ifetch)
  <2>1. ifetch \in [1 .. Len(ifetch) -> IfetchEntry] /\ Len(ifetch) \in Nat
    BY LenProperties DEF Types
  <2> QED
    BY <1>1, <2>1
<1>3. Fits(l1i')
  <2>1. IsFiniteSet(l1i') /\ Cardinality(l1i') <= Cardinality(l1i)
    BY <1>1, FS_Subset DEF Bounds, Fits
  <2>2. Cardinality(l1i) \in Nat /\ Cardinality(l1i') \in Nat /\ L1I_SIZE \in Nat
    BY <2>1, FS_CardinalityType, FrontEndAssumption DEF Bounds, Fits
  <2>3. Cardinality(l1i') <= L1I_SIZE /\ l1i' \subseteq Requests
    <3>1. Cardinality(l1i) <= L1I_SIZE /\ l1i \subseteq Requests
      BY DEF Bounds, Fits
    <3> QED
      BY <1>1, <2>1, <2>2, <3>1
  <2> QED
    BY <2>1, <2>3 DEF Fits
<1> QED
  BY <1>1, <1>2, <1>3 DEF Bounds

LEMMA DispatchKeepsBounds ==
  ASSUME Types, Room, Bounds, decode_and_dispatch
  PROVE  Bounds'
<1>1. /\ phase' = "fetch"
      /\ UNCHANGED <<program, read, num_reads, ifetch, resume, warmup_complete, l1i>>
  BY DEF decode_and_dispatch, stall, memory
<1>2. PICK k : DispatchesFirst(k)
  BY DispatchMoves
<1>3. Len(ifetch) + Len(decode') + Len(rob') <= read
  <2>1. k \in 0 .. Len(decode) /\ Len(decode') = Len(decode) - k /\ Len(rob') = Len(rob) + k
    BY <1>2 DEF DispatchesFirst
  <2> QED
    BY <2>1, Lengths, Places
<1>4. \A i \in 1 .. Len(decode') : decode'[i].wait \in Waits
  <2> TAKE i \in 1 .. Len(decode')
  <2>1. k + i \in 1 .. Len(decode) /\ i \in 1 .. Len(decode) - k
    BY <1>2, Lengths DEF DispatchesFirst
  <2>2. DECODE_LATENCY \in Waits
    BY FrontEndAssumption DEF Waits
  <2> QED
    BY <1>2, <2>1, <2>2 DEF DispatchesFirst, Bounds
<1> QED
  BY <1>1, <1>3, <1>4 DEF Bounds

LEMMA FetchKeepsBounds ==
  ASSUME Types, Room, Bounds, NEW merges, fetch_instruction(merges)
  PROVE  Bounds'
<1>1. /\ phase' = "read" /\ num_reads' = 0 /\ l1i' = Requested(merges).l1i
      /\ resume' \in {Nil, resume}
      /\ UNCHANGED <<program, read, rob, warmup_complete>>
  BY DEF fetch_instruction, Resume
<1>2. PICK k : SendsFirst(k, Requested(merges).lines)
  BY FetchMoves
<1>3. Len(ifetch') + Len(decode') + Len(rob) <= read /\ Len(ifetch') <= IFETCH_SIZE
  <2>1. k \in 0 .. Len(ifetch) /\ Len(decode') = Len(decode) + k /\ Len(ifetch') = Len(ifetch) - k
    BY <1>2 DEF SendsFirst
  <2> QED
    BY <2>1, Lengths, Places, Sizes
<1>4. \A i \in 1 .. Len(decode') : decode'[i].wait \in Waits
  <2> TAKE i \in 1 .. Len(decode')
  <2>1. CASE i <= Len(decode)
    <3>1. i \in 1 .. Len(decode)
      BY <2>1
    <3> QED
      BY <1>2, <3>1 DEF SendsFirst, Bounds
  <2>2. CASE ~(i <= Len(decode))
    <3>1. i - Len(decode) \in 1 .. k /\ Len(decode) + (i - Len(decode)) = i
      BY <1>2, <2>2, Lengths DEF SendsFirst
    <3>2. decode'[Len(decode) + (i - Len(decode))].wait = Nil
      BY <1>2, <3>1 DEF SendsFirst
    <3> QED
      BY <3>1, <3>2 DEF Waits
  <2> QED
    BY <2>1, <2>2
<1>5. Fits(l1i')
  BY <1>1, RequestedFits DEF Bounds
<1>6. num_reads' \in 0 .. FETCH_WIDTH /\ num_reads' < FETCH_WIDTH
  BY <1>1, FrontEndAssumption
<1> QED
  BY <1>1, <1>3, <1>4, <1>5, <1>6 DEF Bounds

LEMMA ReadingKeepsBounds ==
  ASSUME Types, Bounds, read_from_trace
  PROVE  Bounds'
<1>1. PICK f, b :
        ifetch' = Append(ifetch, [id |-> read + 1, line |-> program[read + 1].line, frame |-> f,
                                  fetched |-> "NO", branch_mispredicted |-> b])
  BY DEF read_from_trace
<1>2. /\ phase = "read" /\ read + 1 <= Len(program) /\ Len(ifetch) < IFETCH_SIZE
      /\ read' = read + 1 /\ num_reads' = num_reads + 1
      /\ phase' = IF ReadingStops(read + 1) THEN "end" ELSE "read"
      /\ UNCHANGED <<program, decode, rob, resume, warmup_complete, l1i>>
  BY DEF read_from_trace
<1>3. Len(ifetch') = Len(ifetch) + 1
  BY <1>1 DEF Types
<1>4. /\ num_reads' \in 0 .. FETCH_WIDTH
      /\ phase' = "read" => num_reads' < FETCH_WIDTH
  <2>1. num_reads \in 0 .. FETCH_WIDTH /\ num_reads < FETCH_WIDTH /\ FETCH_WIDTH \in Nat
    BY <1>2, FrontEndAssumption DEF Bounds
  <2> QED
    BY <1>2, <2>1 DEF ReadingStops
<1>5. /\ Len(ifetch') <= IFETCH_SIZE /\ read' <= Len(program)
      /\ Len(ifetch') + Len(decode) + Len(rob) <= read'
  BY <1>2, <1>3, Lengths, FrontEndAssumption DEF Bounds
<1> QED
  BY <1>2, <1>4, <1>5 DEF Bounds

LEMMA NextCycleKeepsBounds ==
  ASSUME Types, Bounds, NextCycle
  PROVE  Bounds'
<1>1. /\ phase' = "back end" /\ resume' = Later(resume, 0)
      /\ decode' = [i \in DOMAIN decode |-> [decode[i] EXCEPT !.wait = Later(@, -1)]]
      /\ UNCHANGED <<program, read, num_reads, ifetch, rob, warmup_complete, l1i>>
  BY DEF NextCycle, memory
<1>2. resume' \in {Nil} \cup 0 .. BRANCH_MISPREDICT_PENALTY
  <2>1. resume = Nil \/ resume \in 0 .. BRANCH_MISPREDICT_PENALTY
    BY DEF Bounds
  <2>2. CASE resume = Nil
    BY <1>1, <2>2 DEF Later
  <2>3. CASE resume \in 0 .. BRANCH_MISPREDICT_PENALTY
    <3>1. resume' \in {resume, resume - 1} /\ (resume = 0 => resume' = resume)
      BY <1>1 DEF Later
    <3> QED
      BY <2>3, <3>1, Sizes
  <2> QED
    BY <2>1, <2>2, <2>3
<1>3. decode \in [1 .. Len(decode) -> DecodeEntry] /\ Len(decode) \in Nat
  BY LenProperties DEF Types
<1>4. Len(decode') = Len(decode) /\ \A i \in 1 .. Len(decode) : decode'[i].wait = Later(decode[i].wait, -1)
  <2>1. /\ DOMAIN decode' = 1 .. Len(decode)
        /\ \A i \in 1 .. Len(decode) : decode'[i] = [decode[i] EXCEPT !.wait = Later(@, -1)]
        /\ decode' = [i \in 1 .. Len(decode) |-> decode'[i]]
    BY <1>1, <1>3
  <2>2. Len(decode') = Len(decode)
    BY <1>3, <2>1
  <2>3. \A i \in 1 .. Len(decode) : decode'[i].wait = Later(decode[i].wait, -1)
    BY <1>3, <2>1 DEF DecodeEntry
  <2> QED
    BY <2>2, <2>3
<1>5. \A w \in Waits : Later(w, -1) \in Waits
  BY FrontEndAssumption DEF Later, Waits
<1> QED
  BY <1>1, <1>2, <1>4, <1>5 DEF Bounds

LEMMA StepKeepsBounds == FrontInv /\ Bounds /\ [Next]_vars => Bounds'
<1> SUFFICES ASSUME FrontInv, Bounds, [Next]_vars PROVE Bounds'
  OBVIOUS
<1>0. Types /\ Room
  BY DEF FrontInv
<1>1. CASE UNCHANGED vars
  BY <1>1 DEF vars, buffers, stall, memory, Bounds
<1>2. ASSUME NEW i \in 1 .. ROB_SIZE, complete_execution(i) PROVE Bounds'
  BY <1>0, <1>2, ExecutionKeepsBounds
<1>3. CASE retire_rob
  BY <1>0, <1>3, RetirementKeepsBounds
<1>4. CASE WarmupCompletes \/ BackEndDone \/ NothingToRead
  <2>1. /\ UNCHANGED <<program, read, num_reads, ifetch, decode, rob, resume, l1i>>
        /\ warmup_complete' \in BOOLEAN /\ phase' \in {phase, "decode", "end"}
    BY <1>4 DEF WarmupCompletes, BackEndDone, NothingToRead, buffers, stall, memory, Bounds
  <2> QED
    BY <2>1 DEF Bounds
<1>5. ASSUME NEW r \in l1i, complete_instr_fetch(r) PROVE Bounds'
  BY <1>0, <1>5, AnswersKeepBounds
<1>6. CASE decode_and_dispatch
  BY <1>0, <1>6, DispatchKeepsBounds
<1>7. ASSUME NEW merges \in SUBSET (1 .. IFETCH_SIZE), fetch_instruction(merges) PROVE Bounds'
  BY <1>0, <1>7, FetchKeepsBounds
<1>8. CASE read_from_trace
  BY <1>0, <1>8, ReadingKeepsBounds
<1>9. CASE NextCycle
  BY <1>0, <1>9, NextCycleKeepsBounds
<1> QED
  BY <1>1, <1>2, <1>3, <1>4, <1>5, <1>6, <1>7, <1>8, <1>9 DEF Next

LEMMA InitIsBounded ==
  ASSUME Init PROVE Bounds
<1>1. /\ phase = "back end" /\ num_reads = 0 /\ ifetch = <<>> /\ decode = <<>> /\ rob = <<>>
      /\ read = 0 /\ resume = Nil /\ warmup_complete \in BOOLEAN /\ l1i = {}
      /\ program \in Programs
  BY DEF Init
<1>2. Len(<<>>) = 0 /\ Len(program) \in Nat
  <2>1. program \in Seq([line : Line, branch : {"no", "taken", "mispredicted"}])
    BY <1>1, FrontEndAssumption
  <2> QED
    BY <2>1
<1>3. Fits({})
  BY FS_EmptySet, FrontEndAssumption DEF Fits
<1>4. Len(ifetch) = 0 /\ Len(decode) = 0 /\ Len(rob) = 0
  BY <1>1, <1>2
<1>5. 0 \in 0 .. FETCH_WIDTH /\ 0 <= IFETCH_SIZE /\ 0 <= Len(program) /\ 0 + 0 + 0 <= 0
  BY <1>2, Sizes
<1>6. \A i \in 1 .. Len(decode) : FALSE
  BY <1>4
<1>7. Fits(l1i)
  BY <1>1, <1>3
<1> QED
  BY <1>1, <1>4, <1>5, <1>6, <1>7 DEF Bounds

(***************************************************************************)
(* The IFETCH_BUFFER, the DECODE_BUFFER, the ROB and the read queue of the *)
(* L1I never hold more than their sizes, however fetch, decode and         *)
(* dispatch take turns (the asserts of add_to_ifetch_buffer,               *)
(* add_to_decode_buffer and add_to_rob), and the waits stay in their       *)
(* ranges.                                                                 *)
(***************************************************************************)
THEOREM BuffersKeepTheirBounds == Spec => []TypeOK
<1>1. Init => FrontInv /\ Bounds
  BY InitIsFront, InitIsBounded
<1>2. FrontInv /\ Bounds /\ [Next]_vars => (FrontInv /\ Bounds)'
  BY StepKeepsFront, StepKeepsBounds
<1>3. FrontInv /\ Bounds => TypeOK
  BY BoundsGiveTypeOK
<1> QED
  BY <1>1, <1>2, <1>3, PTL DEF Spec

-----------------------------------------------------------------------------
(* Lines in flight have their requests *)

\* The memory holds every line of the trace: va_to_pa swaps no page of code out.
EnoughFrames ==
  IsFiniteSet(Line) /\ IsFiniteSet(Frame) /\ Cardinality(Line) <= Cardinality(Frame)

LEMMA AFrameIsFree ==
  ASSUME EnoughFrames, Types, NEW v \in Line, page_table[v] = Nil
  PROVE  Free # {}
<1> DEFINE used == {page_table[w] : w \in Mapped}
<1>1. Mapped \subseteq Line \ {v}
  BY DEF Mapped
<1>2. /\ IsFiniteSet(Line \ {v}) /\ Cardinality(Line \ {v}) = Cardinality(Line) - 1
      /\ Cardinality(Line) \in Nat /\ Cardinality(Frame) \in Nat
  BY FS_RemoveElement, FS_CardinalityType DEF EnoughFrames
<1>3. IsFiniteSet(Mapped) /\ Cardinality(Mapped) <= Cardinality(Line) - 1 /\ Cardinality(Mapped) \in Nat
  BY <1>1, <1>2, FS_Subset, FS_CardinalityType
<1>4. IsFiniteSet(used) /\ Cardinality(used) <= Cardinality(Mapped) /\ Cardinality(used) \in Nat
  <2> DEFINE f == [w \in Mapped |-> page_table[w]]
  <2>1. f \in Surjection(Mapped, used)
    BY DEF Surjection
  <2> HIDE DEF f, used
  <2>2. IsFiniteSet(used) /\ Cardinality(used) <= Cardinality(Mapped)
    BY <1>3, <2>1, FS_Surjection
  <2> QED
    BY <2>2, FS_CardinalityType
<1> HIDE DEF used
<1>5. CASE Frame \subseteq used
  <2>1. Cardinality(Frame) <= Cardinality(used)
    BY <1>4, <1>5, FS_Subset
  <2> QED
    BY <1>2, <1>3, <1>4, <2>1 DEF EnoughFrames
<1> QED
  BY <1>5 DEF Free, used

AskInv == FrontInv /\ Fits(l1i) /\ FramesMatch /\ InflightLinesAreAsked

\* InflightLinesAreAsked, with the indices of the buffer.
LEMMA InflightByIndex ==
  ASSUME Types
  PROVE  InflightLinesAreAsked <=>
           \A i \in 1 .. Len(ifetch) :
             ifetch[i].fetched = "INFLIGHT" => \E r \in l1i : r.line = ifetch[i].line
<1>1. DOMAIN ifetch = 1 .. Len(ifetch)
  BY LenProperties DEF Types
<1> QED
  BY <1>1 DEF InflightLinesAreAsked

Inflight(buffer, requests) ==
  \A i \in 1 .. Len(buffer) :
    buffer[i].fetched = "INFLIGHT" => \E r \in requests : r.line = buffer[i].line

LEMMA AskParts ==
  ASSUME AskInv
  PROVE  /\ FrontInv /\ Types /\ Room /\ Fits(l1i) /\ FramesMatch /\ Inflight(ifetch, l1i)
         /\ \A i \in 1 .. Len(ifetch) : ifetch[i] \in IfetchEntry
BY InflightByIndex, ElementOfSeq DEF AskInv, FrontInv, Types, Inflight

LEMMA AnswersKeepAsked ==
  ASSUME AskInv, NEW r \in l1i, complete_instr_fetch(r)
  PROVE  FramesMatch' /\ Inflight(ifetch', l1i')
<1>1. /\ l1i' = l1i \ {r} /\ page_table' = page_table
      /\ ifetch' = [i \in DOMAIN ifetch |->
                      IF ifetch[i].line = r.line THEN [ifetch[i] EXCEPT !.fetched = "COMPLETED"]
                      ELSE ifetch[i]]
  BY DEF complete_instr_fetch
<1>2. ifetch \in [1 .. Len(ifetch) -> IfetchEntry] /\ Len(ifetch) \in Nat
  BY LenProperties, AskParts DEF Types
<1>3. /\ Len(ifetch') = Len(ifetch)
      /\ \A i \in 1 .. Len(ifetch) :
           /\ ifetch'[i].line = ifetch[i].line /\ ifetch'[i].frame = ifetch[i].frame
           /\ ifetch'[i].fetched = IF ifetch[i].line = r.line THEN "COMPLETED" ELSE ifetch[i].fetched
  <2>1. /\ DOMAIN ifetch' = 1 .. Len(ifetch)
        /\ ifetch' = [i \in 1 .. Len(ifetch) |-> ifetch'[i]]
    BY <1>1, <1>2
  <2>2. Len(ifetch') = Len(ifetch)
    BY <1>2, <2>1
  <2> QED
    BY <1>1, <1>2, <2>2 DEF IfetchEntry
<1>4. FramesMatch'
  BY <1>1, <1>3, AskParts DEF FramesMatch, OneLinePerFrame, Translated
<1>5. Inflight(ifetch', l1i')
  <2> SUFFICES ASSUME NEW i \in 1 .. Len(ifetch), ifetch'[i].fetched = "INFLIGHT"
               PROVE  \E s \in l1i' : s.line = ifetch'[i].line
    BY <1>3 DEF Inflight
  <2>1. ifetch[i].line # r.line /\ ifetch[i].fetched = "INFLIGHT"
    BY <1>3
  <2>2. PICK s \in l1i : s.line = ifetch[i].line
    BY <2>1, AskParts DEF Inflight
  <2> QED
    BY <1>1, <1>3, <2>1, <2>2
<1> QED
  BY <1>4, <1>5

LEMMA FetchKeepsAsked ==
  ASSUME AskInv, NEW merges, fetch_instruction(merges)
  PROVE  FramesMatch' /\ Inflight(ifetch', l1i')
<1> DEFINE q == Requested(merges)
<1>1. l1i' = q.l1i /\ page_table' = page_table
  BY DEF fetch_instruction
<1>2. Translated(q.l1i) /\ EachAsked(q) /\ l1i \subseteq q.l1i
  BY AskParts, RequestedAsks
<1>3. PICK k : SendsFirst(k, q.lines)
  BY AskParts, FetchMoves
<1> HIDE DEF q
<1>4. /\ Len(ifetch') = Len(ifetch) - k
      /\ \A i \in 1 .. Len(ifetch) - k :
           /\ k + i \in 1 .. Len(ifetch)
           /\ ifetch'[i].line = ifetch[k + i].line /\ ifetch'[i].frame = ifetch[k + i].frame
           /\ ifetch'[i].fetched = IF ifetch[k + i].line \in q.lines THEN "INFLIGHT"
                                   ELSE ifetch[k + i].fetched
  <2>1. \A i \in 1 .. Len(ifetch) - k : k + i \in 1 .. Len(ifetch)
    <3>1. k \in 0 .. Len(ifetch) /\ Len(ifetch) \in Nat
      BY <1>3, AskParts, Lengths DEF SendsFirst
    <3> QED
      BY <3>1
  <2> QED
    BY <1>3, <2>1 DEF SendsFirst
<1>5. FramesMatch'
  BY <1>1, <1>2, <1>4, AskParts DEF FramesMatch, OneLinePerFrame, Translated
<1>6. Inflight(ifetch', l1i')
  <2> SUFFICES ASSUME NEW i \in 1 .. Len(ifetch) - k, ifetch'[i].fetched = "INFLIGHT"
               PROVE  \E s \in q.l1i : s.line = ifetch[k + i].line
    BY <1>1, <1>4 DEF Inflight
  <2>1. CASE ifetch[k + i].line \in q.lines
    BY <1>2, <2>1 DEF EachAsked
  <2>2. CASE ifetch[k + i].line \notin q.lines
    BY <1>2, <1>4, <2>2, AskParts DEF Inflight
  <2> QED
    BY <2>1, <2>2
<1> QED
  BY <1>5, <1>6

LEMMA ReadingKeepsAsked ==
  ASSUME EnoughFrames, AskInv, read_from_trace
  PROVE  FramesMatch' /\ Inflight(ifetch', l1i')
<1> DEFINE v == program[read + 1].line
<1> DEFINE b == Mispredicted(read + 1) /\ warmup_complete
<1>1. PICK f \in Frame :
        /\ Translate(v, f)
        /\ ifetch' = Append(ifetch, [id |-> read + 1, line |-> v, frame |-> f,
                                     fetched |-> "NO", branch_mispredicted |-> b])
  BY DEF read_from_trace
<1> HIDE DEF b
<1>2. l1i' = l1i /\ v \in Line /\ f # Nil
  <2>1. program \in Seq([line : Line, branch : {"no", "taken", "mispredicted"}]) /\ read \in Nat
    BY AskParts, FrontEndAssumption DEF Types
  <2>2. read + 1 \in 1 .. Len(program)
    BY <2>1 DEF read_from_trace
  <2>3. program[read + 1] \in [line : Line, branch : {"no", "taken", "mispredicted"}]
    BY <2>1, <2>2, ElementOfSeq
  <2> QED
    BY <2>3, FrontEndAssumption DEF read_from_trace
<1>3. /\ Len(ifetch') = Len(ifetch) + 1 /\ Len(ifetch) \in Nat
      /\ \A i \in 1 .. Len(ifetch) : ifetch'[i] = ifetch[i]
      /\ ifetch'[Len(ifetch) + 1].line = v /\ ifetch'[Len(ifetch) + 1].frame = f
      /\ ifetch'[Len(ifetch) + 1].fetched = "NO"
  <2> DEFINE e == [id |-> read + 1, line |-> v, frame |-> f,
                   fetched |-> "NO", branch_mispredicted |-> b]
  <2>1. e.line = v /\ e.frame = f /\ e.fetched = "NO"
    OBVIOUS
  <2>2. ifetch \in Seq(IfetchEntry) /\ ifetch' = Append(ifetch, e)
    BY <1>1, AskParts DEF Types
  <2> HIDE DEF e
  <2>3. /\ Len(ifetch') = Len(ifetch) + 1 /\ Len(ifetch) \in Nat
        /\ \A i \in 1 .. Len(ifetch) : ifetch'[i] = ifetch[i]
        /\ ifetch'[Len(ifetch) + 1] = e
    BY <2>2
  <2> QED
    BY <2>1, <2>3
<1> HIDE DEF v
\* No other line is in the frame, and no line loses its own.
<1>4. /\ page_table \in [Line -> Frame \cup {Nil}]
      /\ page_table'[v] = f
      /\ \A w \in Line : page_table[w] # Nil => page_table'[w] = page_table[w]
      /\ OneLinePerFrame'
  <2>1. page_table \in [Line -> Frame \cup {Nil}] /\ OneLinePerFrame
    BY AskParts DEF Types, FramesMatch
  <2>2. CASE page_table[v] # Nil
    BY <1>1, <2>1, <2>2 DEF Translate, OneLinePerFrame
  <2>3. CASE page_table[v] = Nil
    <3>1. Free # {}
      BY <1>2, <2>3, AFrameIsFree, AskParts
    <3>2. f \in Free /\ page_table' = [page_table EXCEPT ![v] = f]
      BY <1>1, <2>3, <3>1 DEF Translate
    <3>3. \A w \in Line : page_table[w] # f
      BY <1>2, <3>2 DEF Free, Mapped
    <3> QED
      BY <1>2, <2>1, <2>3, <3>2, <3>3 DEF OneLinePerFrame
  <2> QED
    BY <2>2, <2>3
<1>5. FramesMatch'
  <2>1. \A i \in 1 .. Len(ifetch') : ifetch'[i].frame = page_table'[ifetch'[i].line]
    <3> TAKE i \in 1 .. Len(ifetch')
    <3>1. i \in 1 .. Len(ifetch) \/ i = Len(ifetch) + 1
      BY <1>3
    <3>2. CASE i \in 1 .. Len(ifetch)
      <4>1. /\ ifetch[i].line \in Line /\ ifetch[i].frame \in Frame
            /\ ifetch[i].frame = page_table[ifetch[i].line]
        BY <3>2, AskParts DEF IfetchEntry, FramesMatch
      <4> QED
        BY <1>3, <1>4, <3>2, <4>1, FrontEndAssumption
    <3>3. CASE i = Len(ifetch) + 1
      BY <1>3, <1>4, <3>3
    <3> QED
      BY <3>1, <3>2, <3>3
  <2>2. \A r \in l1i : r.frame = page_table'[r.line]
    <3> TAKE r \in l1i
    <3>1. r \in Requests /\ r.frame = page_table[r.line]
      BY AskParts DEF Fits, FramesMatch, Translated
    <3>2. r.line \in Line /\ r.frame # Nil
      BY <3>1, FrontEndAssumption DEF Requests
    <3> QED
      BY <1>4, <3>1, <3>2
  <2> QED
    BY <1>2, <1>4, <2>1, <2>2 DEF FramesMatch, Translated
<1>6. Inflight(ifetch', l1i')
  <2>1. \A i \in 1 .. Len(ifetch') : i \in 1 .. Len(ifetch) \/ i = Len(ifetch) + 1
    BY <1>3
  <2> QED
    BY <1>2, <1>3, <2>1, AskParts DEF Inflight
<1> QED
  BY <1>5, <1>6

LEMMA StepKeepsAsked == EnoughFrames /\ AskInv /\ Bounds /\ [Next]_vars => AskInv'
<1> SUFFICES ASSUME EnoughFrames, AskInv, Bounds, [Next]_vars PROVE AskInv'
  OBVIOUS
<1>1. FrontInv' /\ Types' /\ Fits(l1i)'
  BY StepKeepsFront, StepKeepsBounds, AskParts DEF FrontInv, Bounds
<1>2. FramesMatch' /\ Inflight(ifetch', l1i')
  <2>1. CASE UNCHANGED <<ifetch, l1i, page_table>>
    BY <2>1, AskParts DEF FramesMatch, OneLinePerFrame, Translated, Inflight
  <2>2. ASSUME NEW i \in 1 .. ROB_SIZE, complete_execution(i)
        PROVE  UNCHANGED <<ifetch, l1i, page_table>>
    BY <2>2 DEF complete_execution, memory
  <2>3. CASE retire_rob \/ WarmupCompletes \/ BackEndDone
    BY <2>1, <2>3 DEF retire_rob, WarmupCompletes, BackEndDone, buffers, memory
  <2>4. CASE decode_and_dispatch \/ NothingToRead \/ NextCycle \/ UNCHANGED vars
    BY <2>1, <2>4 DEF decode_and_dispatch, NothingToRead, NextCycle, vars, buffers, memory
  <2> QED
    BY <2>1, <2>2, <2>3, <2>4, AnswersKeepAsked, FetchKeepsAsked, ReadingKeepsAsked DEF Next
<1>3. InflightLinesAreAsked'
  <2>1. DOMAIN ifetch' = 1 .. Len(ifetch')
    BY <1>1, LenProperties DEF Types
  <2> QED
    BY <1>2, <2>1 DEF InflightLinesAreAsked, Inflight
<1> QED
  BY <1>1, <1>2, <1>3 DEF AskInv

(***************************************************************************)
(* When the memory holds all lines of the trace, an instruction that is    *)
(* marked as being fetched has a request in the L1I that completes its     *)
(* line, through merged and refused requests and answers in any order      *)
(* (fetch_instruction, complete_instr_fetch).                              *)
(***************************************************************************)
THEOREM InflightLinesStayAsked == EnoughFrames => (Spec => []InflightLinesAreAsked)
<1> SUFFICES ASSUME EnoughFrames PROVE Spec => []InflightLinesAreAsked
  OBVIOUS
<1>1. Init => AskInv /\ Bounds
  <2> SUFFICES ASSUME Init PROVE AskInv /\ Bounds
    OBVIOUS
  <2>1. FrontInv /\ Types /\ Bounds /\ Fits(l1i)
    BY InitIsFront, InitIsBounded DEF FrontInv, Bounds
  <2>2. ifetch = <<>> /\ l1i = {} /\ page_table = [v \in Line |-> Nil]
    BY DEF Init
  <2>3. OneLinePerFrame /\ Translated(l1i)
    BY <2>2 DEF OneLinePerFrame, Translated
  <2>4. \A i \in 1 .. Len(ifetch) : FALSE
    BY <2>2
  <2> QED
    BY <2>1, <2>3, <2>4, InflightByIndex DEF AskInv, FramesMatch
<1>2. AskInv /\ Bounds /\ [Next]_vars => (AskInv /\ Bounds)'
  BY StepKeepsAsked, StepKeepsBounds DEF AskInv
<1>3. AskInv => InflightLinesAreAsked
  BY DEF AskInv
<1> QED
  BY <1>1, <1>2, <1>3, PTL DEF Spec

=============================================================================
