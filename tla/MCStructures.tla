---------------------------- MODULE MCStructures ----------------------------
(***************************************************************************)
(* The parts of the simulator that keep a data structure of their own and  *)
(* call no other part.  No step of one concerns another, so a behaviour is *)
(* one of a single part, chosen at the start, the others staying as they   *)
(* were: the states are the sum of theirs, not the product.                *)
(***************************************************************************)
EXTENDS Lru, PageTable, PacketQueue, FastSet, CodeInformer

CONSTANTS set1, set2, fn1, fn2

\* One page more than there are frames.
ThreeAndTwoPages == [c \in {0, 1} |-> IF c = 0 THEN {0, 1, 2} ELSE {0, 1}]

VARIABLE part

structureVars == <<vars, translationVars, queueVars, setVars, informerVars, part>>

StructuresInit ==
  /\ part \in {"Lru", "PageTable", "PacketQueue", "FastSet", "CodeInformer"}
  /\ Init /\ TranslationInit /\ QueueInit
  /\ SetInit /\ (part # "FastSet" => \A s \in Fastset : fastset[s].data = {})
  /\ InformerInit /\ (part # "CodeInformer" => frames = <<Library>>)

ReplacementStep ==
  part = "Lru" /\ Next
  /\ UNCHANGED <<translationVars, queueVars, setVars, informerVars, part>>

TranslationStep ==
  part = "PageTable" /\ TranslationNext
  /\ UNCHANGED <<vars, queueVars, setVars, informerVars, part>>

QueueStep ==
  part = "PacketQueue" /\ QueueNext
  /\ UNCHANGED <<vars, translationVars, setVars, informerVars, part>>

SetStep ==
  part = "FastSet" /\ SetNext
  /\ UNCHANGED <<vars, translationVars, queueVars, informerVars, part>>

InformerStep ==
  part = "CodeInformer" /\ InformerNext
  /\ UNCHANGED <<vars, translationVars, queueVars, setVars, part>>

StructuresNext ==
  ReplacementStep \/ TranslationStep \/ QueueStep \/ SetStep \/ InformerStep

StructuresSpec == StructuresInit /\ [][StructuresNext]_structureVars

=============================================================================
