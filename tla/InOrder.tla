------------------------------ MODULE InOrder ------------------------------
(***************************************************************************)
(* What the core promises to the traced program: the instructions seem to  *)
(* execute one by one, in the order of the trace.  Each load returns the   *)
(* store that wrote its address last, each store replaces it.  A store is  *)
(* named by the instruction it belongs to, 0 stands for the initial        *)
(* contents of memory.                                                     *)
(***************************************************************************)
EXTENDS Naturals, Sequences

CONSTANTS Programs, Addr

VARIABLES
  program,    \* the trace: a sequence of instructions
  memory,     \* the instruction that wrote each address last
  results     \* what the loads of each executed instruction returned

InOrderVars == <<program, memory, results>>

OrderedInit ==
  /\ program \in Programs
  /\ memory = [a \in Addr |-> 0]
  /\ results = <<>>

StoresTo(instr) == {instr.stores[k] : k \in DOMAIN instr.stores}

\* The next instruction reads its operands, then writes them.
ExecuteNext ==
  LET n == Len(results) + 1
      instr == program[n]
  IN /\ n <= Len(program)
     /\ results' = Append(results, [j \in DOMAIN instr.loads |-> memory[instr.loads[j]]])
     /\ memory' = [a \in Addr |-> IF a \in StoresTo(instr) THEN n ELSE memory[a]]
     /\ UNCHANGED program

InOrderSpec == OrderedInit /\ [][ExecuteNext]_InOrderVars

=============================================================================
