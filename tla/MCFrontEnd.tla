----------------------------- MODULE MCFrontEnd -----------------------------
(***************************************************************************)
(* Traces for FrontEnd: lines are 1, 2, ...; an instruction is a plain one *)
(* or a branch that is predicted taken or mispredicted.                    *)
(***************************************************************************)
EXTENDS FrontEnd

P(line) == [line |-> line, branch |-> "no"]
T(line) == [line |-> line, branch |-> "taken"]
M(line) == [line |-> line, branch |-> "mispredicted"]

\* Code that fits the frames: loops over lines, branches in a row and apart, more
\* instructions than a buffer holds.
Fitting ==
  { <<P(1), P(1), M(1), P(2), P(1), P(2)>>,
    <<M(1), M(2), P(1), M(1)>>,
    <<P(1), T(2), P(1), T(2), M(1), P(2)>>,
    <<P(1), P(2), P(2), P(1), P(1), P(1), P(2)>> }

\* A third line takes the frame of the first while that is being fetched.
Swapping == { <<P(1), P(2), P(3), P(2), P(2), P(2)>> }

=============================================================================
