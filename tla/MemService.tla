----------------------------- MODULE MemService -----------------------------
(***************************************************************************)
(* What the memory below the last-level cache promises it.  A read of a    *)
(* block whose write is pending is answered from that write; any other     *)
(* read stays pending until its data is returned; an accepted write stays  *)
(* pending until memory has it.  Requests are served one at a time, and    *)
(* nothing else makes a request appear or disappear.                       *)
(***************************************************************************)
CONSTANT Addr

VARIABLES reads, writes   \* the blocks with a pending read, a pending write

Init == reads = {} /\ writes = {}

Read(a) ==
  /\ a \notin reads
  /\ a \notin writes
  /\ reads' = reads \cup {a}
  /\ UNCHANGED writes

Write(a) == writes' = writes \cup {a} /\ UNCHANGED reads

ReturnRead(a) == a \in reads /\ reads' = reads \ {a} /\ UNCHANGED writes

RetireWrite(a) == a \in writes /\ writes' = writes \ {a} /\ UNCHANGED reads

Next == \E a \in Addr : Read(a) \/ Write(a) \/ ReturnRead(a) \/ RetireWrite(a)

vars == <<reads, writes>>
Spec == Init /\ [][Next]_vars

\* Every pending request is served in the end.
FairSpec == Spec /\ \A a \in Addr : WF_vars(ReturnRead(a)) /\ WF_vars(RetireWrite(a))

=============================================================================
