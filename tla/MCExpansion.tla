---------------------------- MODULE MCExpansion ----------------------------
(***************************************************************************)
(* A schema with two functions, f calling g, an inverse over f's result    *)
(* column, and two computed columns of another module in a chain.          *)
(***************************************************************************)
EXTENDS Expansion

MCModules == {"f", "g", "m"}
MCFunctions == {"F", "G"}
MCAssignments == MCFunctions \cup {"Inv", "Y", "Z"}

MCWrites == [F |-> <<"f.arg", "f.res", "f.ret">>, G |-> <<"g.arg", "g.res", "g.ret">>,
             Inv |-> <<"f.inv">>, Y |-> <<"m.y">>, Z |-> <<"m.z">>]
MCReads == [F |-> <<"f.arg", "f.res">>, G |-> <<"g.arg", "g.res">>,
            Inv |-> <<"f.res">>, Y |-> <<"m.x">>, Z |-> <<"m.x", "m.y">>]
MCExpands == [a \in MCAssignments |-> IF a \in MCFunctions THEN Range(MCReads[a]) ELSE {}]
MCCallee == [F |-> "G", G |-> "none"]

MCRegisters == UNION {Range(MCWrites[a]) : a \in MCAssignments} \cup {"m.x"}
MCModuleOf == [r \in MCRegisters |->
                  CASE r \in {"f.arg", "f.res", "f.ret", "f.inv"} -> "f"
                    [] r \in {"g.arg", "g.res", "g.ret"} -> "g"
                    [] OTHER -> "m"]
MCMultiplier == [m \in MCModules |-> IF m = "m" THEN 2 ELSE 1]

(* Functions take one or two steps, depending on the argument.             *)
MCSteps(a, arg) == IF a = "F" THEN 2 ELSE 1 + (arg % 2)

(* The instances <<argument, result>> of g, those of f that call them, and *)
(* the column x: with rows, and empty.                                     *)
TraceOf(fargs, gargs, x) ==
    [data |-> [r \in MCRegisters |->
                  CASE r = "f.arg" -> fargs
                    [] r = "f.res" -> [i \in DOMAIN fargs |-> 2 * (fargs[i] + 1)]
                    [] r = "g.arg" -> gargs
                    [] r = "g.res" -> [i \in DOMAIN gargs |-> gargs[i] + 1]
                    [] r = "m.x" -> x
                    [] OTHER -> NoData],
     height |-> [f |-> Len(fargs), g |-> Len(gargs), m |-> Len(x)]]
MCTraces == {TraceOf(<<1, 2>>, <<1, 2, 3>>, <<5, 6>>), TraceOf(<<>>, <<2>>, <<>>)}

AllOrders == {o \in [1..Cardinality(MCAssignments) -> MCAssignments] :
                 Range(o) = MCAssignments}

(* The schema and the traces are ones that the pipeline produces.          *)
ASSUME SoundAssumption == SoundSchema /\ \A t \in InitialTraces : SoundTrace(t)

(* What a computed column holds: it tells its sources apart.               *)
MCValue(a, values) == IF Len(values) = 2 THEN values[1] + 2 * values[2] ELSE 1 + values[1]

MCFaultySets == {{}, {"Y"}, {"Inv", "Z"}}
=============================================================================
