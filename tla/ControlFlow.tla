----------------------------- MODULE ControlFlow -----------------------------
(***************************************************************************)
(* The control-flow analysis of a flat function: which variables may be    *)
(* undefined where they are read, which outputs where the function         *)
(* returns, and which statements are not reachable.  The data-flow sets    *)
(* hold the variables that may be undefined.                               *)
(***************************************************************************)
EXTENDS ZkAst

CONSTANTS Functions     \* the functions [nin, nout, nvars, code] analysed

VARIABLES fn,
          visited,      \* the statements reached
          states,       \* the variables that may be undefined at each of them
          stack,        \* the statements to look at again
          errors        \* what was reported: a statement and a variable

vars == <<fn, visited, states, stack, errors>>

Outputs(f) == (f.nin + 1)..(f.nin + f.nout)

Init ==
    /\ fn \in Functions
    /\ visited = {1}
    /\ states = [pc \in DOMAIN fn.code |-> IF pc = 1 THEN (fn.nin + 1)..fn.nvars ELSE {}]
    /\ stack = <<1>>
    /\ errors = {}

Successors(f, pc) ==
    CASE f.code[pc].s = "goto" -> <<f.code[pc].j>>
      [] f.code[pc].s = "ifgoto" -> <<f.code[pc].j, pc + 1>>
      [] f.code[pc].s \in {"return", "fail"} -> <<>>
      [] OTHER -> <<pc + 1>>

(* What is read is taken to be defined from then on.                       *)
Transfer(s, state) == (state \ Uses(s)) \ Definitions(s)
Reported(f, pc, state) ==
    {<<pc, v>> : v \in Uses(f.code[pc]) \cap state}
    \cup (IF f.code[pc].s = "return" THEN {<<pc, v>> : v \in Outputs(f) \cap Transfer(f.code[pc], state)} ELSE {})

(* A faulty join: a statement is looked at once.                           *)
JoinOnce(work, pc, state) ==
    [visited |-> work.visited \cup {pc},
     states |-> [work.states EXCEPT ![pc] = @ \cup state],
     stack |-> IF pc \notin work.visited THEN Append(work.stack, pc) ELSE work.stack]
Join(work, pc, state) ==
    LET again == ~(state \subseteq work.states[pc]) \/ pc \notin work.visited
    IN  [visited |-> IF again THEN work.visited \cup {pc} ELSE work.visited,
         states |-> [work.states EXCEPT ![pc] = @ \cup state],
         stack |-> IF again THEN Append(work.stack, pc) ELSE work.stack]

(* The last statement pushed is looked at first.                           *)
ApplyInstruction ==
    /\ stack /= <<>>
    /\ LET pc == Last(stack)
           after == Transfer(fn.code[pc], states[pc])
           work == FoldLeft(LAMBDA acc, next : Join(acc, next, after),
                            [visited |-> visited, states |-> states, stack |-> Front(stack)], Successors(fn, pc))
       IN  /\ visited' = work.visited
           /\ states' = work.states
           /\ stack' = work.stack
           /\ errors' = errors \cup Reported(fn, pc, states[pc])
    /\ UNCHANGED fn

Unreachable == DOMAIN fn.code \ visited

Next == ApplyInstruction
Spec == Init /\ [][Next]_vars /\ WF_vars(Next)

-----------------------------------------------------------------------------
(* Where a path leads on which a variable was neither written nor read.    *)
RECURSIVE Untouched(_, _, _)
Untouched(f, v, pcs) ==
    LET onward == {pc \in pcs : v \notin Uses(f.code[pc]) \cup Definitions(f.code[pc])}
        more == pcs \cup UNION {Range(Successors(f, pc)) : pc \in onward}
    IN  IF more = pcs THEN pcs ELSE Untouched(f, v, more)
RECURSIVE Reachable(_, _)
Reachable(f, pcs) ==
    LET more == pcs \cup UNION {Range(Successors(f, pc)) : pc \in pcs}
    IN  IF more = pcs THEN pcs ELSE Reachable(f, more)

Exposed(f, v) ==
    {pc \in Untouched(f, v, {1}) : v \in Uses(f.code[pc]) \/ (f.code[pc].s = "return" /\ v \in Outputs(f))}

(* The analysis reports a variable exactly where some path reads it, or    *)
(* returns it, before it is written (applyInstructionSemantics, Join):     *)
(* however branches and loops meet, nothing is missed or invented.         *)
Exact ==
    stack = <<>> =>
        errors = UNION {{<<pc, v>> : pc \in Exposed(fn, v)} : v \in (fn.nin + 1)..fn.nvars}

(* A statement is reported unreachable exactly when no path leads to it    *)
(* (validateFunctionFlow).                                                 *)
UnreachableExact == stack = <<>> => Unreachable = DOMAIN fn.code \ Reachable(fn, {1})

(* The work list runs empty, loops or not (validateFunctionFlow).          *)
Terminates == <>(stack = <<>>)

=============================================================================
