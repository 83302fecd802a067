---------------------------- MODULE CodeInformer ----------------------------
(***************************************************************************)
(* The code informer (codeinfo/): at the retirement of each instruction it *)
(* brings its code infos up to date, the stack of calls between user       *)
(* functions among them, and answers the query that waits for the          *)
(* instruction.  A prefetcher asks ahead, or too late, about instructions  *)
(* past or to come.                                                        *)
(*                                                                         *)
(* An instruction is [func, does, to]: the function it belongs to, where   *)
(* Library stands for all code without LLVM information, and what it does. *)
(* The record serves as its ip, and as what loop_info says of it.          *)
(***************************************************************************)
EXTENDS Integers, Sequences

CONSTANTS
  Function,        \* user functions
  Library,
  Does,            \* of "plain", "call", "ret", "tail call", "hidden call": see Calls
  STK_SIZE,        \* calls a result holds
  MaxInstr,        \* bound: instructions retired, and with MaxQuery queries those less
  MaxQuery, MaxDepth,               \* bounds
  Near             \* bound: a query names instructions this near to those retiring

Instruction == [func : Function \cup {Library}, does : Does, to : Function \cup {Library}]

ASSUME InformerAssumption ==
  /\ Library \notin Function
  /\ Library \notin Instruction      \* as the ip of the instruction before the first
  /\ {STK_SIZE, MaxInstr, MaxQuery, MaxDepth, Near} \subseteq Nat

VARIABLES
  retired,         \* instructions retired: instr_id counts from 1
  frames,          \* the program's stack of functions when the next instruction executes
  call_stk, prev_func, prev_call, prev_ret,
  past_ip, past_results,
  todo,            \* trigger |-> iid
  answers,         \* <<trigger, iid, result of the trigger, result of the iid>>
  trace,           \* history: instructions retired and the stacks they executed with
  asked, queries   \* history: the queries accepted before their trigger retired; bound

callStackVars == <<call_stk, prev_func, prev_call, prev_ret>>
informerVars == <<retired, frames, callStackVars, past_ip, past_results, todo, answers,
                  trace, asked, queries>>

-----------------------------------------------------------------------------
(* The program *)

Top(s) == s[Len(s)]
Popped(s) == SubSeq(s, 1, Len(s) - 1)

\* An instruction the function on top of the stack may execute.
MayExecute(i) == i.func = Top(frames) /\ (i.does \in {"plain", "ret"} => i.to = i.func)

\* The stack after it.  A tail call gives up its frame.  The trace may begin deep in the
\* program, so a return may reach any function.
FramesAfter(i) ==
  CASE i.does = "plain" -> {frames}
    [] i.does \in {"call", "hidden call"} -> {Append(frames, i.to)}
    [] i.does = "tail call" -> {Append(Popped(frames), i.to)}
    [] i.does = "ret" -> IF Len(frames) > 1 THEN {Popped(frames)}
                         ELSE {<<f>> : f \in Function \cup {Library}}

-----------------------------------------------------------------------------
(* llvm_info::get_llvm_instrs and is_instr_type *)

\* The range of LLVM instructions holds a call, and no intrinsic beside it.
Calls(i) == i.func # Library /\ i.does \in {"call", "tail call"}
Returns(i) == i.func # Library /\ i.does = "ret"

-----------------------------------------------------------------------------
(* code_info_impl<call_stack>::update_impl *)

\* Mutant: returns from library code count, too.
Crosses_Any(i) == prev_func # i.func

\* The instruction is in another user function than the one before it.
Crosses(i) == prev_func # Library /\ i.func # Library /\ prev_func # i.func

CallStackAfter(i) ==
  IF ~Crosses(i) THEN call_stk
  ELSE IF prev_call THEN Append(call_stk, i.func)
  ELSE IF prev_ret /\ call_stk # <<>> THEN Popped(call_stk)
  ELSE call_stk

TopCalls(s) == SubSeq(s, IF Len(s) > STK_SIZE THEN Len(s) - STK_SIZE + 1 ELSE 1, Len(s))

\* What the infos say of an instruction that executes with calls s, and the result of an
\* instruction they know nothing of.
InfoOf(i, s) == [valid |-> i.func # Library, calls |-> TopCalls(s), loop |-> i]
NoInfo == [valid |-> FALSE, calls |-> <<>>, loop |-> Library]

\* Mutant: recorded before the call stack is brought up to date.
Recorded_First(i, id) == [past_results EXCEPT ![id] = InfoOf(i, call_stk)]

Recorded(i, id) == [past_results EXCEPT ![id] = InfoOf(i, CallStackAfter(i))]

\* code_info::update, which leaves out an instruction with the ip of the one before.
update(i, id) ==
  IF i = past_ip THEN UNCHANGED <<callStackVars, past_ip, past_results>>
  ELSE /\ past_results' = Recorded(i, id)
       /\ call_stk' = CallStackAfter(i)
       /\ prev_func' = i.func /\ prev_call' = Calls(i) /\ prev_ret' = Returns(i)
       /\ past_ip' = i

-----------------------------------------------------------------------------
handle_retire(i) ==
  LET id == retired + 1
  IN /\ retired + queries < MaxInstr
     /\ retired' = id
     /\ MayExecute(i)
     /\ frames' \in FramesAfter(i) /\ Len(frames') <= MaxDepth
     /\ update(i, id)
     /\ IF todo[id] = -1 THEN UNCHANGED <<todo, answers>>
        ELSE /\ answers' = answers \cup
                  {<<id, todo[id], past_results'[id], past_results'[todo[id]]>>}
             /\ todo' = [todo EXCEPT ![id] = -1]
     /\ trace' = Append(trace, [ip |-> i, frames |-> frames])
     /\ UNCHANGED <<asked, queries>>

\* The prefetcher names an instruction it saw earlier, or 0 if it saw none.  A second
\* query of a trigger takes the place of the first.
accept_query(trigger, iid) ==
  /\ queries < MaxQuery /\ retired + queries < MaxInstr
  /\ queries' = queries + 1
  /\ todo' = [todo EXCEPT ![trigger] = iid]
  /\ asked' = IF trigger > retired THEN [asked EXCEPT ![trigger] = iid] ELSE asked
  /\ UNCHANGED <<retired, frames, callStackVars, past_ip, past_results, answers, trace>>

InformerInit ==
  /\ retired = 0 /\ queries = 0
  /\ frames \in {<<f>> : f \in Function \cup {Library}}
  /\ call_stk = <<>> /\ prev_func = Library /\ prev_call = FALSE /\ prev_ret = FALSE
  /\ past_ip = Library /\ past_results = [id \in 0 .. MaxInstr |-> NoInfo]
  /\ todo = [id \in 1 .. MaxInstr |-> -1] /\ asked = [id \in 1 .. MaxInstr |-> -1]
  /\ answers = {} /\ trace = <<>>

InformerNext ==
  \/ \E i \in Instruction : handle_retire(i)
  \/ LET near == (1 .. MaxInstr) \cap (retired + 1 - Near .. retired + Near)
     IN \E trigger \in near, iid \in near \cup {0} : accept_query(trigger, iid)

InformerSpec == InformerInit /\ [][InformerNext]_informerVars

-----------------------------------------------------------------------------
\* The calls from a user function to another on a stack, oldest first.
UserCalls(s) ==
  LET calls[n \in 1 .. Len(s)] ==
        IF n = 1 THEN <<>>
        ELSE IF Library \in {s[n - 1], s[n]} \/ s[n - 1] = s[n] THEN calls[n - 1]
        ELSE Append(calls[n - 1], s[n])
  IN calls[Len(s)]

(***************************************************************************)
(* call_stk is the program's stack as the last instruction saw it, reduced *)
(* to the calls between different user functions: recursion, library code, *)
(* its callbacks, repeated instructions and a trace that begins deep in    *)
(* the program leave no call behind and take none away.                    *)
(***************************************************************************)
CallStackIsExact == retired > 0 => call_stk = UserCalls(trace[retired].frames)

\* What is to be said of an instruction when n have retired: nothing, if it has not or
\* if it repeats the one before.
Known(id, n) ==
  IF id \in 1 .. n /\ (id > 1 => trace[id].ip # trace[id - 1].ip)
  THEN InfoOf(trace[id].ip, UserCalls(trace[id].frames)) ELSE NoInfo

(***************************************************************************)
(* The answers given are those due: one for each instruction that retired  *)
(* after a query named it as trigger, of its last query, and each tells of *)
(* the trigger and of the instruction asked for what was true when that    *)
(* retired, however much later the answer is given.                        *)
(***************************************************************************)
AnswersAreExact ==
  answers = {<<id, asked[id], Known(id, id), Known(asked[id], id)>> :
               id \in {t \in 1 .. retired : asked[t] # -1}}

=============================================================================
