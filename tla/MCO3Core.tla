----------------------------- MODULE MCO3Core -----------------------------
(***************************************************************************)
(* Traces for O3Core.  Registers are r1, r2, ...; a1 and a2 are addresses.   *)
(***************************************************************************)
EXTENDS O3Core

CONSTANTS a1, a2

I(src, dst, loads, stores) == [src |-> src, dst |-> dst, loads |-> loads, stores |-> stores]

Alu(src, r) == I(src, {r}, <<>>, <<>>)
Load(src, x, r) == I(src, {r}, <<x>>, <<>>)
Store(src, x) == I(src, {}, <<>>, <<x>>)
LoadStore(src, x, y) == I(src, {}, <<x>>, <<y>>)
TwoLoads(src, r) == I(src, {r}, <<a1, a2>>, <<>>)
TwoStores(src) == I(src, {}, <<>>, <<a1, a2>>)

\* Loads between and after stores to their address, ready in and out of order.
Forwarding ==
  { <<Alu(<<>>, 1), Store(<<1>>, a1), Load(<<>>, a1, 2), Store(<<>>, a1), Load(<<>>, a1, 1),
      Store(<<2>>, a1), Load(<<>>, a1, 2)>>,
    <<Load(<<>>, a2, 1), Store(<<1>>, a1), LoadStore(<<>>, a1, a2), TwoLoads(<<>>, 1)>>,
    <<Store(<<>>, a1), Store(<<>>, a2), TwoLoads(<<>>, 1), Store(<<1>>, a1), Load(<<>>, a1, 2)>> }

\* Chains of registers, overwritten registers, one register read twice.
Registers ==
  { <<Alu(<<>>, 1), Load(<<>>, a1, 2), Alu(<<1, 2>>, 1), Load(<<1, 2>>, a1, 2)>>,
    <<Alu(<<>>, 1), Alu(<<1>>, 1), Alu(<<1, 1>>, 2), Alu(<<>>, 1), Alu(<<1, 2>>, 1), Alu(<<2, 1>>, 2)>>,
    <<Load(<<>>, a1, 1), Alu(<<1>>, 2), Load(<<2>>, a2, 2), Alu(<<1, 2>>, 1), Store(<<1, 2>>, a2)>> }

\* An instruction with two stores in the window, and loads of one instruction that
\* wait for both.
Pairs ==
  { <<TwoStores(<<>>), TwoLoads(<<>>, 1), TwoStores(<<1>>), Load(<<>>, a2, 2)>>,
    <<LoadStore(<<>>, a1, a1), LoadStore(<<>>, a1, a2), TwoLoads(<<>>, 1)>> }

\* Every trace of three instructions of these kinds in which no store follows the
\* instruction with two (see Overwritten).
Kinds ==
  { Alu(<<1>>, 1), Load(<<>>, a1, 1), Load(<<1>>, a2, 1), Store(<<>>, a1), Store(<<1>>, a1),
    LoadStore(<<1>>, a1, a2), TwoLoads(<<>>, 1), TwoStores(<<>>) }
Short == {p \in [1 .. 3 -> Kinds] :
            \A i, j \in 1 .. 3 : (i < j /\ Len(p[i].stores) = 2) => p[j].stores = <<>>}

\* A load that waits for its address, a store that waits for the load, and loads of a later
\* instruction that wait for the store and fill the load queue.
Clogging == { <<Alu(<<>>, 1), Load(<<1>>, a2, 2), TwoStores(<<2>>), TwoLoads(<<>>, 1)>> }

LongPrograms == Forwarding \cup Registers \cup Pairs \cup Clogging
AllPrograms == Short \cup LongPrograms

\* Two stores of one instruction, one of them overwritten before the loads.
Overwritten == { <<TwoStores(<<>>), Store(<<>>, a1), TwoLoads(<<>>, 1)>> }

\* That is where they differ, for the assert of execute_store.
ASSUME StoresAreApart == \A p \in AllPrograms : StoresAreDistinct(p) /\ NoneOverwritten(p)
ASSUME StoresAreOverwritten == \A p \in Overwritten : StoresAreDistinct(p) /\ ~NoneOverwritten(p)

\* As many loads as the load queue takes wait for two stores, of which the second waits
\* in STA for the first and the first for a load that is not in the queue.
LqFull ==
  LET pair == TwoLoads(<<>>, 1)
  IN { <<Alu(<<>>, 1), Load(<<1>>, a2, 2), Store(<<2>>, a2), Store(<<>>, a1), pair, pair, pair, pair>> }

=============================================================================
