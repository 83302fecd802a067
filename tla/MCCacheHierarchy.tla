-------------------------- MODULE MCCacheHierarchy --------------------------
(***************************************************************************)
(* Instances of CacheHierarchy for TLC.  A lower read queue is as large as *)
(* the MSHRs above it together, as in inc/cache.h.                         *)
(***************************************************************************)
EXTENDS CacheHierarchy, TLC

OfAll(n) == [c \in Cache \cup {Memory} |-> n]
OneEach == OfAll(1)
TwoEach == OfAll(2)
OfCaches(n) == [c \in Cache |-> n]
TwoWays == OfCaches(2)
TwoMisses == OfCaches(2)
OneWay == OfCaches(1)

\* One miss in each cache the core reads, so that two fit into the read queue below.
SplitMisses == [c \in Cache |-> IF c \in CoreCache THEN 1 ELSE 2]

\* Two misses in each, and room for all four of the caches above.
ReadQueues == [c \in Cache \cup {Memory} |-> IF c \in CoreCache THEN 2 ELSE 4]

\* Two ways below the caches the core reads.
SplitWays == [c \in Cache |-> IF c \in CoreCache THEN 1 ELSE 2]
RequestSymmetry == Permutations(Request)

\* Where no code block is a data block: requests, code blocks and data blocks are
\* interchangeable among themselves.
Symmetry == Permutations(Request) \cup Permutations(CodeBlock) \cup Permutations(DataBlock)

=============================================================================
