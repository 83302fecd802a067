---------------------------- MODULE RecencyOrder ----------------------------
(***************************************************************************)
(* What least-recently-used replacement promises of one cache set: a fill  *)
(* takes the first way that holds nothing, and if every way holds a block, *)
(* the one whose last use lies furthest back.                              *)
(***************************************************************************)
EXTENDS Integers

CONSTANT NUM_WAY
Way == 0 .. NUM_WAY - 1

VARIABLES newer, valid   \* <<v, w>> \in newer: v was used after w

StrictOrder(R) ==
  /\ R \subseteq Way \X Way
  /\ \A v, w \in Way : v # w => (<<v, w>> \in R <=> <<w, v>> \notin R)
  /\ \A v \in Way : <<v, v>> \notin R
  /\ \A u, v, w \in Way : <<u, v>> \in R /\ <<v, w>> \in R => <<u, w>> \in R

Oldest(w) == \A v \in Way : v # w => <<v, w>> \in newer

Touch(w) ==
  newer' = {p \in newer : p[1] # w /\ p[2] # w} \cup {p \in Way \X Way : p[1] = w /\ p[2] # w}

\* A hit counts as a use or, if it is a writeback's, does not.
Hit(w) == w \in valid /\ Touch(w) /\ UNCHANGED valid

Fill(w) ==
  /\ IF valid = Way THEN Oldest(w)
                    ELSE w \notin valid /\ \A v \in Way : v < w => v \in valid
  /\ Touch(w)
  /\ valid' = valid \cup {w}

Invalidate(w) == valid' = valid \ {w} /\ UNCHANGED newer

Init == StrictOrder(newer) /\ valid = {}

Next == \E w \in Way : Hit(w) \/ Fill(w) \/ Invalidate(w)

Spec == Init /\ [][Next]_<<newer, valid>>

=============================================================================
