---------------------------- MODULE MCAssembler ----------------------------
(***************************************************************************)
(* The assembler, from source text to constraints, on small programs:      *)
(*  - three source files that include each other, of which main's function *)
(*    f takes MaxBody statements from a list, so that labels, branches,    *)
(*    calls and assignments come in every order;                           *)
(*  - functions to lower: all short bodies over a few instructions that    *)
(*    are accepted and terminate, and some that call, divide, choose, cast *)
(*    and subtract.  Limbs have two bits;                                  *)
(*  - functions to compile, small enough for all rows of their traces to   *)
(*    be tried;                                                            *)
(*  - conditions, built step by step from equalities of a few variables as *)
(*    a branch table builds them.                                          *)
(***************************************************************************)
EXTENDS AsmCompile

CONSTANTS MaxBody,        \* statements of a source function
          MaxOperations   \* that build a condition

VARIABLES part,
          files, asmStage, queue, seen, parsed, decls, env, item, components, linked, failed,
          condition,      \* the proposition
          truth,          \* the environments in which it ought to hold
          operations

asmVars == <<files, asmStage, queue, seen, parsed, decls, env, item, components, linked, failed>>
condVars == <<condition, truth, operations>>
fnVars == <<vars, compiled>>
allVars == <<part, asmVars, fnVars, condVars>>

(* Both devices return their argument plus one, in three bits or in two,   *)
(* and its parity.                                                         *)
MCDevice(bus, address) == <<(address[1] + 1) % (IF bus = 1 THEN 8 ELSE 4), address[1] % 2>>
-----------------------------------------------------------------------------
(* Source files.                                                           *)

Arg(n, width) == [name |-> n, width |-> width, padding |-> 0]
TopLevelFiles == <<"main">>

(* g(a) has one result, h(a, b) two of different widths.                   *)
G == DFn("g", <<Arg("a", 2)>>, <<Arg("r", 3)>>,
         <<SAssign(<<"r">>, Add(<<Name("a"), Name("two")>>)), SReturn>>)
H == DFn("h", <<Arg("a", 1), Arg("b", 2)>>, <<Arg("r", 1), Arg("s", 2)>>,
         <<SVar(<<"x">>, 3), SCall(<<"x">>, "g", <<Name("b")>>),
           SAssign(<<"r">>, Name("a")), SAssign(<<"s">>, Name("b")), SReturn>>)
Two == DConst("two", 2)

WithMain(main) == "main" :> main @@ "lib" :> File(<<"main", "util", "util">>, <<Two, G>>)
                             @@ "util" :> File(<<"lib">>, <<H>>)
Main(body) == WithMain(File(<<"lib", "util">>, <<DFn("f", <<Arg("n", 2)>>, <<Arg("r", 3)>>, body)>>))

Statements ==
    {SLabel("l"), SLabel("m"), SGoto("l"), SGoto("m"), SIf("==", Name("n"), Num(0), "m"),
     SIf("!=", Name("two"), Name("n"), "l"), SVar(<<"x", "y">>, 3), SAssign(<<"r">>, Name("n")),
     SAssign(<<"r">>, Name("x")), SAssign(<<"x">>, Mul(<<Name("two"), Name("two")>>)),
     SCall(<<"r">>, "g", <<Name("n")>>), SFail, SReturn}
SourceBodies == {Append(b, SReturn) : b \in [1..MaxBody -> Statements]}
            \cup {<<SVar(<<"x", "y">>, 3)>> \o b \o <<SAssign(<<"r">>, Name("x")), SReturn>> : b \in [1..MaxBody - 1 -> Statements]}

(* SourceBodies with errors and without, and files that are wrong.               *)
SourcePrograms ==
    {Main(b) : b \in SourceBodies}
    \cup {Main(b) : b \in
        {<<>>, <<SVar(<<"x">>, 1)>>, <<SVar(<<"x", "x">>, 1), SReturn>>,
         <<SVar(<<"x">>, 1), SCall(<<"x", "r">>, "h", <<Num(1), Name("n")>>), SReturn>>,
         <<SVar(<<"x">>, 2), SVar(<<"y">>, 1), SCall(<<"y", "x">>, "h", <<Num(1), Name("n")>>),
           SCall(<<"r">>, "g", <<Name("x")>>), SCall(<<"r">>, "g", <<Name("n")>>), SReturn>>,
         <<SCall(<<"r">>, "nothing", <<Name("n")>>), SReturn>>,
         <<SCall(<<"r">>, "two", <<Name("n")>>), SReturn>>,
         <<SCall(<<"r">>, "f", <<Name("n")>>), SReturn>>,
         <<STernary(<<"r">>, "==", Name("n"), Num(0), Name("two"), Name("n")), SReturn>>,
         <<STernary(<<"r">>, "==", Name("two"), Num(0), Name("two"), Name("n")), SReturn>>,
         <<SAssign(<<"r">>, Name("nothing")), SReturn>>,
         <<SVar(<<"q", "w">>, 2), SVar(<<"s">>, 6), SVar(<<"t">>, 3), SVar(<<"m">>, 2),
           SDiv(<<"q", "m", "w", "s", "t">>, Name("n"), Name("two")), SAssign(<<"r">>, Name("q")), SReturn>>,
         <<SVar(<<"q">>, 2), SDiv(<<"q", "r">>, Name("n"), Name("two")), SReturn>>,
         <<SVar(<<"x">>, 3), SIf("==", Name("n"), Num(0), "l"), SAssign(<<"x">>, Num(4)), SLabel("m"),
           SAssign(<<"r">>, Name("x")), SReturn, SLabel("l"), SGoto("m")>>,
         <<SVar(<<"x">>, 3), SIf("==", Name("n"), Num(0), "l"), SAssign(<<"x">>, Num(4)), SLabel("m"),
           SAssign(<<"r">>, Name("x")), SReturn, SLabel("l"), SAssign(<<"x">>, Num(3)), SGoto("m")>>,
         <<SCast(<<"r">>, 1, "n"), SReturn>>, <<SCast(<<"r">>, 1, "two"), SReturn>>}}
    \cup {WithMain(File(<<"lib", "none">>, <<Two>>)), WithMain(File(<<"util", "util">>, <<Two>>)),
          WithMain(File(<<"util">>, <<Two>>)), WithMain(File(<<"util">>, <<H>>)),
          WithMain(File(<<"util">>, <<DFn("f", <<Arg("n", 2), Arg("n", 1)>>, <<>>, <<SReturn>>)>>)),
          WithMain(File(<<>>, <<DFn("f", <<Arg("n", 2)>>, <<>>, <<SReturn>>)>>))}
-----------------------------------------------------------------------------
(* Functions to lower.                                                     *)

In(w) == [width |-> w, kind |-> "in", padding |-> 0]
Out(w) == [width |-> w, kind |-> "out", padding |-> 0]
Tmp(w) == [width |-> w, kind |-> "tmp", padding |-> 0]
PaddedIn(w, v) == [width |-> w, kind |-> "in", padding |-> v]
Padded(w, v) == [width |-> w, kind |-> "tmp", padding |-> v]
Fn(rs, code) == [regs |-> rs, buses |-> <<>>, code |-> code]

(* Bodies of four instructions and a return, over x, y, r, t and c.        *)
FlowRegs == <<In(2), In(1), Out(2), Tmp(2), Tmp(1)>>
Straight == {MAssign(<<3>>, Reg(1)), MAssign(<<4>>, Reg(3)),
             MAssign(<<3, 5>>, Add(<<Reg(3), Num(1)>>)), MFail}
Branches == {MIfGoto("==", Reg(1), Num(0), k) : k \in {1, 3, 5}}
              \cup {MIfGoto("!=", Reg(1), Reg(2), k) : k \in {2, 4}} \cup {MGoto(3), MGoto(5)}
Flow == {[regs |-> FlowRegs, buses |-> <<>>, code |-> Append(body, MReturn)] :
            body \in [1..4 -> Straight \cup Branches]}

(* r counts x up to zero, in a loop.                                       *)
Counting == [regs |-> <<In(2), Out(2), Tmp(2), Tmp(1)>>, buses |-> <<>>,
             code |-> <<MAssign(<<3>>, Reg(1)), MAssign(<<2>>, Num(0)),
                        MIfGoto("==", Num(0), Reg(3), 7),
                        MAssign(<<3, 4>>, Sub(<<Reg(3), Num(1)>>)),
                        MAssign(<<2, 4>>, Add(<<Reg(2), Num(1)>>)),
                        MGoto(3), MReturn>>]

(* x - y - 1 with a sign, of which the magnitude is returned.              *)
Distance == [regs |-> <<In(3), In(3), Out(4), Out(1), Tmp(4), Tmp(1)>>, buses |-> <<>>,
             code |-> <<MAssign(<<5, 4>>, Sub(<<Reg(1), Reg(2), Num(1)>>)),
                        MIfGoto("!=", Reg(4), Num(1), 5),
                        MAssign(<<3, 6>>, Add(<<Sub(<<Num(15), Reg(5)>>), Num(1)>>)),
                        MReturn,
                        MAssign(<<3>>, Reg(5)),
                        MReturn>>]

(* Two calls, on lines of which there is one set.                          *)
CallBus == [id |-> 1, address |-> <<5>>, data |-> <<6, 7>>, ins |-> <<3>>, outs |-> <<3, 1>>, split |-> FALSE]
Calling == [regs |-> <<In(2), Out(3), Out(3), Tmp(1), Tmp(3), Tmp(3), Tmp(1)>>, buses |-> <<CallBus>>,
            code |-> <<MCall(CallBus, <<4, 2>>, <<Add(<<Reg(1), Num(1)>>)>>),
                       MCall(CallBus, <<4, 3>>, <<Reg(2)>>),
                       MIte(<<3>>, "!=", Reg(4), Num(0), Reg(2), Reg(3)),
                       MReturn>>]

Dividing == [regs |-> <<In(3), In(2), Out(3), Out(2), Tmp(2), Tmp(6), Tmp(3)>>, buses |-> <<>>,
             code |-> <<MDivision(3, 4, 5, 6, 7, Reg(1), Reg(2)), MReturn>>]

Choosing == {[regs |-> <<In(3), In(3), Out(4)>>, buses |-> <<>>,
              code |-> <<MIte(<<3>>, cond, Reg(1), rhs, Add(<<Reg(1), Reg(2)>>), Mul(<<Num(2), Reg(2)>>)),
                         MReturn>>] : cond \in {"==", "!="}, rhs \in {Reg(2), Num(5)}}

(* From five bits down to limbs of the source.                             *)
Casting == {[regs |-> <<In(5), Out(2), Out(2)>>, buses |-> <<>>,
             code |-> <<MCast(4, <<2, 3>>, 1), MReturn>>],
            [regs |-> <<In(4), Out(2)>>, buses |-> <<>>, code |-> <<MCast(2, <<2>>, 1), MReturn>>]}

(* Rejected: an argument is overwritten.                                   *)
Overwriting == [regs |-> <<In(2), Out(2), Tmp(1)>>, buses |-> <<>>,
                code |-> <<MAssign(<<1, 3>>, Add(<<Reg(1), Num(1)>>)), MAssign(<<2>>, Reg(1)), MReturn>>]

Bodies == Flow \cup {Counting, Distance, Calling, Dividing, Overwriting} \cup Choosing \cup Casting
LoweredFunctions == {f \in Bodies : Accepted(f) /\ Terminates(f)}
-----------------------------------------------------------------------------
(* Functions to compile.                                                   *)

(* x is counted down, while r counts up or, when y is zero, stays.         *)
SmallCounting == Fn(<<In(2), In(1), Out(2), Tmp(2), Tmp(1), Tmp(1)>>,
               <<MAssign(<<4>>, Reg(1)), MAssign(<<3>>, Num(0)),
                 MIfGoto("==", Num(0), Reg(4), 8),
                 MAssign(<<4, 5>>, Sub(<<Reg(4), Num(1)>>)),
                 MIfGoto("==", Reg(2), Num(0), 7),
                 MAssign(<<3, 6>>, Add(<<Reg(3), Num(1)>>)),
                 MGoto(3), MReturn>>)

(* The difference and its sign.                                            *)
Differing == Fn(<<In(2), In(2), Out(2), Out(1)>>,
                <<MAssign(<<3, 4>>, Sub(<<Reg(1), Reg(2)>>)), MReturn>>)

(* A sum of two limbs with a carry.                                        *)
Adding == Fn(<<In(3), In(1), Out(4)>>, <<MAssign(<<3>>, Add(<<Reg(1), Reg(2)>>)), MReturn>>)

(* r is written on some paths only, and the second test reads what the     *)
(* first may have written.                                                 *)
Keeping == Fn(<<In(2), In(1), Out(2), Tmp(1)>>,
              <<MAssign(<<3>>, Reg(1)), MAssign(<<4>>, Num(0)),
                MIfGoto("==", Reg(2), Num(0), 5),
                MAssign(<<3, 4>>, Add(<<Reg(3), Num(1)>>)),
                MIfGoto("!=", Reg(4), Num(1), 7),
                MAssign(<<3>>, Num(2)),
                MReturn>>)

SmallCallBus == [id |-> 2, address |-> <<5>>, data |-> <<6, 7>>, ins |-> <<2>>, outs |-> <<2, 1>>, split |-> FALSE]
SmallCalling == [regs |-> <<In(1), Out(2), Out(2), Tmp(1), Tmp(2), Padded(2, 1), Tmp(1)>>, buses |-> <<SmallCallBus>>,
            code |-> <<MCall(SmallCallBus, <<4, 2>>, <<Add(<<Reg(1), Num(1)>>)>>),
                       MCall(SmallCallBus, <<4, 3>>, <<Reg(2)>>),
                       MIte(<<3>>, "!=", Reg(4), Num(0), Reg(2), Reg(3)),
                       MReturn>>]

SmallDividing == Fn(<<In(1), PaddedIn(1, 1), Out(1), Out(1), Tmp(1), Tmp(2), Tmp(2)>>,
               <<MDivision(3, 4, 5, 6, 7, Reg(1), Reg(2)), MReturn>>)
SmallCasting == Fn(<<In(4), Out(2)>>, <<MCast(2, <<2>>, 1), MReturn>>)

ProvedFunctions == {SmallCounting, Differing, Adding, Keeping, SmallCalling, SmallCasting, SmallDividing}
-----------------------------------------------------------------------------
(* Conditions over two variables.                                          *)

CondVars == {<<1>>, <<2>>}
CondEnv == [CondVars -> 0..2]

Atoms == {EqualsConst(v, c) : v \in CondVars, c \in {0, 1}}
            \cup {EqualsVar(v, w) : v, w \in CondVars}
Literals == Atoms \cup {NegateAtom(a) : a \in Atoms}

AtomHolds(a, e) == (e[a.left] = IF a.right.const THEN a.right.val ELSE e[a.right.var]) = a.sign
PropHolds(p, e) ==
    IsTrue(p) \/ \E i \in DOMAIN p : p[i] # <<>> /\ \A k \in DOMAIN p[i] : AtomHolds(p[i][k], e)
TruthOf(a) == {e \in CondEnv : AtomHolds(a, e)}

CondInit == /\ \E a \in Literals : condition = NewProposition(a) /\ truth = TruthOf(a)
            /\ operations = 0

Conjoin == \E a \in Literals : /\ condition' = PropAnd(condition, NewProposition(a))
                               /\ truth' = truth \cap TruthOf(a)
Disjoin == \E a \in Literals : /\ condition' = PropOr(condition, NewProposition(a))
                               /\ truth' = truth \cup TruthOf(a)
Negation == condition' = PropNegate(condition) /\ truth' = CondEnv \ truth
(* The branches of a skip join: this one, or another one.                  *)
JoinPair == \E a, b \in Literals :
                LET q == PropAnd(NewProposition(a), NewProposition(b))
                IN  condition' = PropOr(q, condition) /\ truth' = truth \cup (TruthOf(a) \cap TruthOf(b))

CondNext == /\ operations < MaxOperations /\ operations' = operations + 1
            /\ Conjoin \/ Disjoin \/ Negation \/ JoinPair
-----------------------------------------------------------------------------
A == INSTANCE AsmAssemble WITH stage <- asmStage, Programs <- SourcePrograms, TopLevel <- TopLevelFiles

Idle == <<>>
NoSource == /\ files = Idle /\ asmStage = "idle" /\ queue = Idle /\ seen = Idle /\ parsed = Idle /\ decls = Idle
            /\ env = Idle /\ item = Idle /\ components = Idle /\ linked = Idle /\ failed = FALSE
NoFunction == /\ fn = Idle /\ vectorize = FALSE /\ stage = "idle" /\ insns = Idle /\ merged = Idle /\ visited = Idle
              /\ worklist = Idle /\ regs = Idle /\ table = Idle /\ row = Idle /\ next = Idle
NoCondition == condition = Idle /\ truth = Idle /\ operations = 0

(* A function to lower stops when its registers are split.                 *)
MCInit ==
    \/ part = "source" /\ A!Init /\ NoFunction /\ NoCondition
    \/ part = "lower" /\ NoSource /\ CompileInit /\ fn \notin Proving /\ NoCondition
    \/ part = "compile" /\ NoSource /\ CompileInit /\ fn \in Proving /\ NoCondition
    \/ part = "condition" /\ NoSource /\ NoFunction /\ CondInit

AllFunctions == LoweredFunctions \cup ProvedFunctions

ReadSource == part = "source" /\ A!Read /\ UNCHANGED <<part, fnVars, condVars>>

MCNext ==
    \/ part = "source" /\ A!Next /\ UNCHANGED <<part, fnVars, condVars>>
    \/ part = "lower" /\ Lowering /\ UNCHANGED <<part, asmVars, condVars>>
    \/ part = "compile" /\ CompileNext /\ UNCHANGED <<part, asmVars, condVars>>
    \/ part = "condition" /\ CondNext /\ UNCHANGED <<part, asmVars, fnVars>>

MCSpec == MCInit /\ [][MCNext]_allVars /\ WF_allVars(ReadSource)
-----------------------------------------------------------------------------
(* Each file is parsed once however files include each other, a branch     *)
(* leads to the instruction after its label, a call to the function it     *)
(* names over lines of its own, a function is accepted exactly when no     *)
(* path of it reads what it has not assigned or runs off the end, and what *)
(* is wrong is reported: only a declaration that repeats a name panics     *)
(* (assemble.go, assembler).                                               *)
AssembledRight ==
    part = "source" =>
        /\ A!TypeOK /\ A!IncludedOnce /\ A!BranchesFollowLabels /\ A!CallsAreLinked
        /\ A!ControlFlowIsExact /\ A!ReportsErrors

(* Parsing ends, also when files include each other (assemble.go).         *)
ParsingEnds == part = "source" => <>(asmStage = "panic" \/ (asmStage = "files" /\ queue = <<>>))

(* A function compiles to constraints that are those of its executions.    *)
(* At every stage of lowering the function returns what its source does,   *)
(* for all arguments, or fails as it does; what validation accepts is      *)
(* lowered without a panic, every jump lands, and one row can hold all the *)
(* values of an instruction (lower.go, concretize.go).  What tracing       *)
(* records satisfies them, and whatever fills the rows, a row that returns *)
(* holds arguments and the results that executing the function gives for   *)
(* them.  On the way the operations on branch conditions keep their truth  *)
(* tables (compiler, program, logic).                                      *)
CompiledExactly ==
    /\ part \in {"lower", "compile"} => AcceptedLowers /\ SameOutcome /\ OneValuePerRow /\ JumpsLand
    /\ part = "lower" => TypeOK
    /\ part = "compile" => CompileTypeOK /\ Complete /\ Sound /\ PaddingIsWitness
    /\ part = "condition" => \A e \in CondEnv : PropHolds(condition, e) = (e \in truth)
=============================================================================
