------------------------------ MODULE FastSet -------------------------------
(***************************************************************************)
(* fastset (inc/set.h), in which packets and ROB entries collect the       *)
(* instructions to release.  A small set is a sorted array of values; when *)
(* it has SMALL_SIZE it becomes one bit per value, in the same memory.     *)
(* The memory is the set of its bits that are 1.                           *)
(***************************************************************************)
EXTENDS Integers

CONSTANTS
  Fastset,         \* the sets of the model
  MAX_SIZE,        \* bits of the large representation
  SMALL_SIZE,      \* values of the small one
  SMALLER_SIZE,    \* from here on a small set is searched by bisection
  TYPE_BITS,       \* bits of a value
  WORD_BITS,       \* bits of a word of the large representation
  LIMIT            \* the n of join and expand: every value is below it

ASSUME FastsetAssumption ==
  /\ TYPE_BITS \in Nat /\ LIMIT \in Nat /\ WORD_BITS \in Nat \ {0} /\ SMALLER_SIZE \in Nat
  /\ SMALL_SIZE \in Nat \ {0} /\ MAX_SIZE \in Nat
  /\ LIMIT <= 2 ^ TYPE_BITS /\ SMALL_SIZE * TYPE_BITS <= MAX_SIZE
  /\ (LIMIT \div WORD_BITS + 1) * WORD_BITS <= MAX_SIZE   \* join reads no word past the last

VARIABLES
  fastset,         \* [data : set of bits, card : Nat]
  members          \* history: what was inserted and joined

setVars == <<fastset, members>>

-----------------------------------------------------------------------------
(* The union of values[] and bits[] *)

Value(data, i) ==
  CHOOSE x \in 0 .. 2 ^ TYPE_BITS - 1 :
    \A b \in 0 .. TYPE_BITS - 1 : (x \div 2 ^ b) % 2 = 1 <=> i * TYPE_BITS + b \in data

ValueBits(i) == i * TYPE_BITS .. i * TYPE_BITS + TYPE_BITS - 1

BitsOf(i, x) == {i * TYPE_BITS + b : b \in {c \in 0 .. TYPE_BITS - 1 : (x \div 2 ^ c) % 2 = 1}}

\* values[i] = at[i] for every i in the domain of at.
Assigned(data, at) ==
  (data \ UNION {ValueBits(i) : i \in DOMAIN at}) \cup UNION {BitsOf(i, at[i]) : i \in DOMAIN at}

Bits == 0 .. MAX_SIZE - 1

\* Mutant: the old values stay behind.
smalltobit_NoMemset(s) == [s EXCEPT !.data = @ \cup {Value(s.data, i) : i \in 0 .. s.card - 1}]

\* The values are copied to tmp, the bits cleared, and the bit of each value set.
smalltobit(s) ==
  [s EXCEPT !.data = (@ \ Bits) \cup {Value(s.data, i) : i \in 0 .. s.card - 1}]

-----------------------------------------------------------------------------
(* insert *)

insert_small(s, x) ==
  LET old(i) == Value(s.data, i)
      place == CHOOSE i \in 0 .. s.card : /\ \A j \in 0 .. i - 1 : old(j) < x
                                          /\ i < s.card => old(i) >= x
      moved == [i \in place .. s.card |-> IF i = place THEN x ELSE old(i - 1)]
  IN IF place < s.card /\ old(place) = x THEN s
     ELSE [data |-> Assigned(s.data, moved), card |-> s.card + 1]

insert(s, x) ==
  IF s.card = 0 THEN [data |-> Assigned(s.data, [i \in {0} |-> x]), card |-> 1]
  ELSE IF s.card < SMALL_SIZE
       THEN LET t == insert_small(s, x) IN IF t.card = SMALL_SIZE THEN smalltobit(t) ELSE t
       ELSE [s EXCEPT !.data = @ \cup {x}]

-----------------------------------------------------------------------------
(* join *)

\* The words of bits up to the next multiple of the word size above n.
WordsUpTo(n) == 0 .. (n \div WORD_BITS + 1) * WORD_BITS - 1

join(s, other) ==
  IF other.card < SMALL_SIZE
  THEN LET joined[i \in 0 .. other.card] ==
             IF i = 0 THEN s ELSE insert(joined[i - 1], Value(other.data, i - 1))
       IN joined[other.card]
  ELSE LET large == IF s.card < SMALL_SIZE THEN [smalltobit(s) EXCEPT !.card = SMALL_SIZE] ELSE s
       IN [large EXCEPT !.data = @ \cup (other.data \cap WordsUpTo(LIMIT))]

-----------------------------------------------------------------------------
(* search and expand *)

search_small_linear(s, x) ==
  \E i \in 0 .. s.card - 1 : Value(s.data, i) = x /\ \A j \in 0 .. i - 1 : Value(s.data, j) <= x

bisect(s, x) ==
  LET found[begin \in 0 .. s.card, end \in -1 .. s.card - 1] ==
        LET middle == (begin + end) \div 2
            y == Value(s.data, middle)
        IN IF end < begin THEN FALSE
           ELSE IF x < y THEN found[begin, middle - 1]
           ELSE IF x > y THEN found[middle + 1, end]
           ELSE TRUE
  IN found[0, s.card - 1]

search(s, x) ==
  IF s.card = 0 THEN FALSE
  ELSE IF s.card = 1 THEN Value(s.data, 0) = x
  ELSE IF s.card < SMALLER_SIZE THEN search_small_linear(s, x)
  ELSE IF s.card < SMALL_SIZE THEN bisect(s, x)
  ELSE x \in s.data

\* What expand puts into the array.
expand(s) ==
  IF s.card < SMALL_SIZE THEN {Value(s.data, i) : i \in 0 .. s.card - 1}
  ELSE s.data \cap (0 .. LIMIT - 1)

-----------------------------------------------------------------------------
Item == 0 .. LIMIT - 1

InsertInto(f, x) ==
  /\ fastset' = [fastset EXCEPT ![f] = insert(@, x)]
  /\ members' = [members EXCEPT ![f] = @ \cup {x}]

JoinInto(f, g) ==
  /\ f # g
  /\ fastset[g].card # 0
  /\ fastset' = [fastset EXCEPT ![f] = join(@, fastset[g])]
  /\ members' = [members EXCEPT ![f] = @ \cup members[g]]

\* A new packet or ROB entry: the memory is not initialized.
Construct(f) ==
  /\ \E garbage \in {{}, Bits} : fastset' = [fastset EXCEPT ![f] = [data |-> garbage, card |-> 0]]
  /\ members' = [members EXCEPT ![f] = {}]

SetInit ==
  /\ fastset \in [Fastset -> {[data |-> garbage, card |-> 0] : garbage \in {{}, Bits}}]
  /\ members = [f \in Fastset |-> {}]

SetNext ==
  \E f \in Fastset :
    \/ \E x \in Item : InsertInto(f, x)
    \/ \E g \in Fastset : JoinInto(f, g)
    \/ Construct(f)

SetSpec == SetInit /\ [][SetNext]_setVars

-----------------------------------------------------------------------------
(***************************************************************************)
(* search and expand give exactly what was inserted and joined, whichever  *)
(* representation the set and those joined to it had, whatever the memory  *)
(* held: the values and the bits they become share it.                     *)
(***************************************************************************)
HoldsItsMembers ==
  \A f \in Fastset :
    /\ {x \in Item : search(fastset[f], x)} = members[f]
    /\ expand(fastset[f]) = members[f]

=============================================================================
