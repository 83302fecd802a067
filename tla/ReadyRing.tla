----------------------------- MODULE ReadyRing -----------------------------
(***************************************************************************)
(* The rings of inc/ooo_cpu.h that hand indices from one stage of the core *)
(* to the next: RTE0 and RTE1 (ready to execute), RTL0 and RTL1 (ready to  *)
(* load), RTS0 and RTS1 (ready to store) and STA (the order of stores).    *)
(* An empty slot holds a sentinel no index is equal to.  Nothing counts    *)
(* the indices in a ring: a push writes at the tail and moves it, whatever *)
(* the slot holds, and a pop writes the sentinel at the head and moves it. *)
(***************************************************************************)
EXTENDS Naturals, Sequences, FiniteSets

CONSTANT Nil       \* the sentinel

EmptyRing(size) == [at |-> [i \in 0 .. size - 1 |-> Nil], head |-> 0, tail |-> 0]

RingSize(r) == Cardinality(DOMAIN r.at)

\* head++ or tail++, back to 0 past the last slot.
After(r, i) == IF i + 1 = RingSize(r) THEN 0 ELSE i + 1

First(r) == r.at[r.head]

Push(r, v) == [r EXCEPT !.at[r.tail] = v, !.tail = After(r, r.tail)]

Pop(r) == [r EXCEPT !.at[r.head] = Nil, !.head = After(r, r.head)]

\* The elements of seq pushed one after the other.
PushAll(r, seq) ==
  LET push[n \in 0 .. Len(seq)] == IF n = 0 THEN r ELSE Push(push[n - 1], seq[n])
  IN push[Len(seq)]

\* A set of indices as fastset lists them.
Ascending(S) ==
  CHOOSE f \in [1 .. Cardinality(S) -> S] : \A i, j \in DOMAIN f : i < j => f[i] < f[j]

\* A slot that does not hold the sentinel.
Taken(r) == {i \in DOMAIN r.at : r.at[i] # Nil}

\* The taken slots are those from the head up to the tail: nothing was overwritten
\* and nothing lost.
Contiguous(r) ==
  LET n == RingSize(r)
  IN \A i \in 0 .. n - 1 :
       LET s == (r.head + i) % n
       IN r.at[s] # Nil <=> i < Cardinality(Taken(r))

=============================================================================
