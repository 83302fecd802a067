-------------------------------- MODULE Lru ---------------------------------
(***************************************************************************)
(* Least-recently-used replacement (replacement/base_replacement.cc, and   *)
(* lru.llc_repl, which calls it) for one set of a cache.  Each way has a   *)
(* recency, 0 for the way used last.                                       *)
(***************************************************************************)
EXTENDS Integers

CONSTANT NUM_WAY
ASSUME WaysAssumption == NUM_WAY \in Nat \ {0}

Way == 0 .. NUM_WAY - 1
Type == {"LOAD", "RFO", "PREFETCH", "WRITEBACK"}

VARIABLES
  lru,      \* block[set][way].lru
  valid     \* block[set][way].valid

vars == <<lru, valid>>

-----------------------------------------------------------------------------
FirstInvalid(w) == ~valid[w] /\ \A v \in 0 .. w - 1 : valid[v]

\* Mutants: off by one; the search for an invalid way is skipped.
IsVictim_PastTheEnd(w) ==
  IF \E v \in Way : ~valid[v] THEN FirstInvalid(w) ELSE lru[w] = NUM_WAY
IsVictim_Oldest(w) == lru[w] = NUM_WAY - 1

\* lru_victim returns the first way that is invalid, else the one with the last recency.
IsVictim(w) ==
  IF \E v \in Way : ~valid[v] THEN FirstInvalid(w) ELSE lru[w] = NUM_WAY - 1

lru_update(w) ==
  lru' = [v \in Way |-> IF v = w THEN 0
                        ELSE IF lru[v] < lru[w] THEN lru[v] + 1 ELSE lru[v]]

\* update_replacement_state after a hit: a writeback's does not count as a use.
Hit(w, type) ==
  /\ valid[w]
  /\ IF type = "WRITEBACK" THEN UNCHANGED lru ELSE lru_update(w)
  /\ UNCHANGED valid

\* handle_fill, or handle_writeback that allocates: the victim's way is used.
Fill(w) ==
  /\ IsVictim(w)
  /\ lru_update(w)
  /\ valid' = [valid EXCEPT ![w] = TRUE]

invalidate_entry(w) ==
  /\ valid[w]
  /\ valid' = [valid EXCEPT ![w] = FALSE]
  /\ UNCHANGED lru

Init ==
  /\ lru = [w \in Way |-> w]
  /\ valid = [w \in Way |-> FALSE]

Next ==
  \/ \E w \in Way, type \in Type : Hit(w, type)
  \/ \E w \in Way : Fill(w) \/ invalidate_entry(w)

Spec == Init /\ [][Next]_vars

-----------------------------------------------------------------------------
\* Type correctness: aging never runs past the last recency.
TypeOK ==
  /\ lru \in [Way -> Way]
  /\ valid \in [Way -> BOOLEAN]

\* No two ways of a set have the same recency: the order of use is total.
RecenciesDistinct == \A v, w \in Way : lru[v] = lru[w] => v = w

(***************************************************************************)
(* lru_victim finds exactly one way: its "no victim!" assert never fails,  *)
(* and which way a fill takes is determined.                               *)
(***************************************************************************)
OneVictim ==
  /\ \E w \in Way : IsVictim(w)
  /\ \A v, w \in Way : IsVictim(v) /\ IsVictim(w) => v = w

(***************************************************************************)
(* The recencies implement the order of last use: a fill into a full set   *)
(* evicts the block that was used longest ago, through any sequence of     *)
(* hits, writeback hits, fills and invalidations.                          *)
(***************************************************************************)
Order == INSTANCE RecencyOrder WITH
  newer <- {p \in Way \X Way : lru[p[1]] < lru[p[2]]},
  valid <- {w \in Way : valid[w]}

ImplementsRecencyOrder == Order!Spec

=============================================================================
