------------------------------- MODULE MCZkc -------------------------------
(***************************************************************************)
(* The zkc compiler and its machine on small programs:                     *)
(*  - functions made of nested blocks, functions over fixed-size arrays    *)
(*    and assignments of every kind of expression are lowered, typed,      *)
(*    compiled and run, against what the source means;                     *)
(*  - compiled functions are vectorised, and native instructions lowered   *)
(*    to arithmetic, and run before and after; single instructions are     *)
(*    executed on every frame;                                             *)
(*  - flat functions of a few statements are analysed;                     *)
(*  - programs of two functions run on the machine, twice, observed or     *)
(*    not.                                                                 *)
(***************************************************************************)
EXTENDS Codegen

CONSTANTS WIDTH,        \* width of the variables of blocks and arrays
          LoopBound,    \* bound on the iterations of all loops together
          Fuel,         \* bound on the instructions of a run
          Size,         \* statements of a function that is analysed or vectorised
          Main, Roms, Statics, Rams, Woms, StaticData, Registers, MaxWord, MaxSteps, MaxBoots,
          RebootAfterFailure

VARIABLES part,
          source, lowered, inputs, results,          \* what is compiled, and the two runs
          fn, visited, states, stack, errors,        \* the analysis
          prog, callstack, memory, status, observed, obs, steps, boots, input, bundles  \* the machine

runVars == <<source, lowered, inputs, results>>
flowVars == <<fn, visited, states, stack, errors>>
machineVars == <<prog, callstack, memory, status, observed, obs, steps, boots, input, bundles>>
allVars == <<part, runVars, flowVars, machineVars>>

V == INSTANCE Vectorise
-----------------------------------------------------------------------------
(* Assignments of expressions.  Variables: 1 and 2 are inputs of two bits, *)
(* 3 of one bit, 4 a field element, 5 the output and 6 a local of one bit. *)

X == LocalAccess(1)
Y == LocalAccess(2)
Z == LocalAccess(3)
F == LocalAccess(4)
One == Const(1)
Two == Const(2)
LIMIT == 1                                  \* a constant declaration, of value 2
SUBTRACT == 2                               \* a function of two inputs

Decls ==
    <<[d |-> "const", ty |-> UnsignedInt(2, FALSE), e |-> [Two EXCEPT !.ty = UnsignedInt(2, FALSE)], args |-> <<>>, outs |-> <<>>, module |-> 0],
      [d |-> "fun", ty |-> NOTYPE, e |-> One, args |-> <<UnsignedInt(2, FALSE), UnsignedInt(2, FALSE)>>,
       outs |-> <<UnsignedInt(2, FALSE)>>, module |-> 2]>>
Subtract == [nin |-> 2, nout |-> 1, size |-> <<0, 0, 0>>, w |-> <<2, 2, 2>>,
             code |-> <<Assign(<<Variable(<<3>>)>>, Sub(<<LocalAccess(1), LocalAccess(2)>>)), Returns>>]
Declared(id, xs) == IF id = LIMIT THEN <<2>> ELSE Within(xs[1] - xs[2], UnsignedInt(2, FALSE))

Limit == ExternAccess(LIMIT, <<>>)
Atoms == {X, Y, One, Const(0), Limit}
Binary(args) == {Add(args), Sub(args), Mul(args), Div(args), Rem(args), BitwiseAnd(args), BitwiseOr(args),
                 BitwiseXor(args), Shl(args), Shr(args), ExternAccess(SUBTRACT, args)}
Pairs(es) == UNION {UNION {Binary(<<a, b>>) : b \in es} : a \in es}
Inner == {Add(<<X, Y>>), Sub(<<X, One>>), Div(<<X, Y>>), BitwiseNot(Y), Shl(<<X, Z>>),
          Ternary(Cmp("lt", X, Y), Sub(<<Y, X>>), Two), Cast(Concat(<<Z, X>>), 2), ExternAccess(SUBTRACT, <<X, Y>>)}
Chains == UNION {{Div(<<X, a, b>>), Rem(<<X, a, b>>), Shl(<<Y, Z, One>>), Shr(<<X, Z, Z>>), Shr(<<Y, a, b>>), Sub(<<X, a, b>>),
                  Sub(<<Two, a, b>>), Add(<<a, One, b>>), BitwiseAnd(<<a, Const(3), b>>), BitwiseOr(<<One, a, b>>),
                  BitwiseXor(<<a, b, Two>>)} : a, b \in {X, Y, One, Two}}
Narrow == Atoms \cup Pairs(Atoms \cup {Const(3)}) \cup Pairs(Inner \cup {X}) \cup Chains \cup Inner
          \cup {Ternary(Cmp(op, a, b), Y, One) : op \in Comparisons, a \in {X, Y}, b \in {Y, Two, Sub(<<Y, One>>)}}
          \cup {BitwiseNot(e) : e \in Inner}
Wide == {Concat(<<X, Z>>), Concat(<<Z, X>>), Cast(X, 3), Cast(Add(<<X, Y>>), 3), Add(<<Cast(X, 3), Cast(Y, 3)>>),
         Mul(<<Cast(X, 3), Two>>), Concat(<<Sub(<<X, Y>>), Z>>)}
Fields == {F, Add(<<F, F, One>>), Sub(<<F, Const(6)>>), Sub(<<One, F>>), Mul(<<F, F, Two>>), Mul(<<Add(<<F, Two>>), F>>),
           Ternary(Cmp("eq", F, Const(3)), Add(<<F, F>>), Const(5))}

Sources(widths, targets, es) == [w : widths, t : targets, e : es]
Plain == <<Variable(<<5>>)>>
Split == <<Variable(<<5, 6>>)>>
Together == <<Variable(<<5>>), Variable(<<6>>)>>
WellTyped ==
    Sources({2}, {Plain}, Narrow) \cup Sources({3}, {Plain}, Wide) \cup Sources({NATIVE}, {Plain}, Fields)
    \cup Sources({2}, {Split}, Wide \cup {Const(5)})
    \cup Sources({2}, {Together}, {TupleInitialiser(<<Sub(<<X, Y>>), Z>>), TupleInitialiser(<<Shr(<<X, Z>>), One>>)})
IllTyped ==
    Sources({1}, {Plain}, {Add(<<X, Y>>), X, Two}) \cup Sources({2}, {Plain}, {Concat(<<X, Z>>), F, Add(<<X, Z>>)})
    \cup Sources({2}, {Plain}, {Const(4), Add(<<X, Const(7)>>), ExternAccess(SUBTRACT, <<X>>), ExternAccess(SUBTRACT, <<Z, X>>)})
    \cup Sources({2}, {<<Variable(<<1>>)>>, <<Variable(<<5, 5>>)>>}, {Y})
ExpressionSources == WellTyped \cup IllTyped

ExpressionFunction(src) ==
    [nin |-> 4, nout |-> 1, size |-> [i \in 1..6 |-> 0], w |-> <<2, 2, 1, NATIVE, src.w, 1>>,
     code |-> <<Assign(src.t, src.e), Returns>>]

RECURSIVE Complete(_)
(* Every operand of an operation has a type.                               *)
Complete(e) == e.ty /= NOTYPE /\ \A i \in DOMAIN e.a :
                   IF e.k = "ternary" /\ i = 1 THEN \A j \in DOMAIN e.a[1].a : Complete(e.a[1].a[j]) ELSE Complete(e.a[i])
-----------------------------------------------------------------------------
(* Nested blocks.  Variables: 1 and 2 are the inputs, 3 the output, 4 a    *)
(* local.  A block statement over simple ones may stand in another one.    *)

Uint == UnsignedInt(WIDTH, FALSE)
Plus(a, b) == [Add(<<a, b>>) EXCEPT !.ty = Uint]
Out == LocalAccess(3)
Index == LocalAccess(4)
Set(id, e) == Assign(<<Variable(<<id>>)>>, e)

Conds ==
    {Cmp("eq", X, Y), LogicalNot(Cmp("lt", X, Y)),
     LogicalAnd(<<Cmp("neq", X, Const(0)), LogicalNot(LogicalOr(<<Cmp("eq", Y, Const(1)), Cmp("gt", X, Y)>>))>>),
     LogicalOr(<<LogicalAnd(<<Cmp("eq", X, Const(1)), Cmp("neq", Y, Const(0))>>), Cmp("gteq", Y, Const(2)), Cmp("eq", X, Const(3))>>)}
Choice == Set(3, Ternary(LogicalAnd(<<Cmp("lteq", X, Y), LogicalNot(Cmp("eq", X, Const(0))), Cmp("neq", Y, Const(2))>>),
                         Const(2), Y))
BlockInputs == {<<0, 0>>, <<1, 2>>, <<3, 1>>, <<2, 2>>}
Simple == {Set(3, X), Choice, Returns, Fail(<<>>)}
InLoop == {Break, Continue, Set(3, Plus(Out, Const(1)))}
Bump == Set(4, Plus(Index, Const(1)))

Ifs(inner) ==
    {IfElse(c, <<a>>, b) : c \in Conds, a \in inner, b \in {<<>>} \cup {<<b>> : b \in inner}}
Switches(inner) ==
    UNION {{Switch(X, <<<<Const(1), Const(3)>>, <<>>, <<Const(0)>>>>, <<<<a>>, <<b>>, <<Set(3, Const(3))>>>>),
            Switch(X, <<<<Const(2)>>, <<Const(1), Const(2)>>>>, <<<<a>>, <<b>>>>)} : a, b \in inner}
Loops(inner) ==
    UNION {{While(LogicalAnd(<<Cmp("lt", Index, Const(3)), c>>), <<Bump, a, Set(3, Index)>>),
            For(VarDecl(4, <<Const(1)>>), Cmp("lteq", Index, Const(2)), Bump, <<IfElse(c, <<a>>, <<>>), Set(3, Index)>>)} :
               c \in Conds, a \in inner}

(* A loop in a loop, and one after another, with a break or a continue of  *)
(* the outer loop before, between or after the inner ones.                 *)
Leaves == {Break, Continue, IfElse(Cmp("eq", X, Y), <<Break>>, <<Continue>>)}
InnerLoops == {While(Cmp("lt", Out, Const(2)), <<Set(3, Plus(Out, Const(1))), a>>) : a \in Leaves}
              \cup {For(Set(3, Const(0)), Cmp("lt", Out, Const(2)), Set(3, Plus(Out, Const(1))), <<a>>) : a \in Leaves}
Guarded(a) == IfElse(Cmp("lt", Y, Index), <<a>>, <<>>)
OuterLoops(bodies) ==
    UNION {{While(Cmp("lt", Index, Const(2)), <<Bump>> \o b),
            For(VarDecl(4, <<Const(0)>>), Cmp("lt", Index, Const(2)), Bump, b)} : b \in bodies}
LoopsInLoops ==
    OuterLoops({<<l, Guarded(a), Set(3, X)>> : l \in InnerLoops, a \in {Break, Continue}}
               \cup {<<Guarded(a), k, l, c>> : a, c \in {Break, Continue}, k, l \in {CHOOSE w \in InnerLoops : w.s = kind : kind \in {"while", "for"}}})

Nested == LoopsInLoops \cup Loops(InLoop \cup Simple)
          \cup Loops(Ifs({Break, Returns}) \cup {Switch(X, <<<<Const(1)>>, <<>>>>, <<<<Continue>>, <<Break>>>>)})
          \cup Ifs(Simple \cup {IfElse(Cmp("eq", X, Y), <<Returns>>, <<Fail(<<>>)>>)}) \cup Switches(Simple)
          \cup Ifs(Loops({Break}) \cup {Returns})
BlockBodies == {<<VarDecl(4, <<Const(0)>>), Set(3, Y), s, Set(3, Const(1)), Returns>> : s \in Nested}
          \cup {<<VarDecl(4, <<>>), Set(4, X), s, Returns>> : s \in Nested}
BlockFunction(code) == [nin |-> 2, nout |-> 1, size |-> <<0, 0, 0, 0>>, w |-> [i \in 1..4 |-> WIDTH], code |-> code]
-----------------------------------------------------------------------------
(* Fixed-size arrays.  Variables: 1 and 2 are the inputs, 3 the output, 4  *)
(* and 5 arrays of two elements, 6 and 7 scalars.                          *)

T == LocalAccess(6)
A(i) == ArrayAccess(4, i)
B(i) == ArrayAccess(5, i)
SetA(i, e) == Assign(<<Array(4, i)>>, e)
Whole == Set(5, LocalAccess(4))             \* one array assigned to another
Back == Set(4, LocalAccess(5))

Start == {<<SetA(1, a), SetA(2, b)>> : a, b \in {X, Y, Const(1)}}
Finish == {<<Set(6, a), Set(3, b), Returns>> : a, b \in {A(1), A(2), B(1), B(2), T}}
ArrayConds == {Cmp("eq", A(1), Y), Cmp("lt", X, A(2))}
ArrayBranches == {IfElse(c, <<SetA(1, B(2))>>, e) : c \in ArrayConds, e \in {<<>>, <<Set(6, A(2)), SetA(2, Const(3))>>}}
            \cup {Switch(A(1), <<<<Const(0)>>, <<Const(1), Const(2)>>, <<>>>>, <<<<SetA(2, X)>>, <<Set(6, Y)>>, <<>>>>)}
ArrayLoops == {For(Set(7, Const(0)), Cmp("lt", LocalAccess(7), Const(2)), Set(7, [Add(<<LocalAccess(7), Const(1)>>) EXCEPT !.ty = UnsignedInt(WIDTH, FALSE)]),
              <<IfElse(c, <<SetA(2, LocalAccess(7))>>, <<Set(6, A(2))>>)>>) : c \in ArrayConds}

(* Arrays are copied before anything jumps, and no node stands twice.      *)
StraightBodies == {s \o <<Whole>> \o f : s \in Start, f \in Finish}
                  \cup {s \o <<SetA(1, A(2)), Whole, Back, t>> \o <<Set(3, A(2)), Returns>> :
                           s \in Start, t \in {SetA(2, B(1)), Set(6, A(1))}}
                  \cup {s \o <<b, Set(3, v), Returns>> : s \in Start, b \in ArrayBranches \cup ArrayLoops, v \in {A(1), A(2), T}}
TupleBodies == {s \o <<Assign(<<Variable(<<3>>), Variable(<<6>>)>>, TupleInitialiser(<<A(1), a>>)), Returns>> :
                   s \in Start, a \in {X, A(2)}}
ArrayFunction(code) ==
    [nin |-> 2, nout |-> 1, size |-> <<0, 0, 0, 2, 2, 0, 0>>, w |-> [i \in 1..7 |-> WIDTH], code |-> code]
-----------------------------------------------------------------------------
(* Native instructions: one bitwise instruction with every constant, two   *)
(* shifts that share a helper, and a relational skip.                      *)

NARY == {<<1, 2>>, <<1, 3>>, <<2, 1>>, <<2, 2>>, <<2, 3>>, <<3, 0>>, <<3, 2>>}   \* width and number of sources
SHIFTS == {<<1, 1, 2>>, <<2, 1, 2>>, <<2, 2, 2>>, <<3, 3, 2>>, <<4, 2, 3>>}     \* width, and the widths of two amounts

Single(nin, w, vectors) == <<[nin |-> nin, nout |-> 1, w |-> w, code |-> vectors]>>

Nary(op, width, arity, c) ==
    Single(arity, [i \in 1..(arity + 1) |-> width],
         <<<<Insn(op, <<arity + 1>>, [i \in 1..arity |-> i], c), Return>>>>)
NaryPrograms ==
    {Nary(x[1], x[2][1], x[2][2], x[3]) :
        x \in {y \in {"and", "or", "xor"} \X NARY \X (0..15) :
                  /\ y[3] <= Mask(y[2][1])
                  /\ y[2][2] > 0 \/ y[3] /= V!IdentityOf(y[1], y[2][1])}}
NotPrograms == {Single(1, <<width, width>>, <<<<Insn("not", <<2>>, <<1>>, 0), Return>>>>) : width \in 1..3}
ShiftPrograms ==
    {Single(3, <<sh[1], sh[2], sh[3], sh[1], sh[1]>>,
          <<<<Insn(op1, <<5>>, <<1, 2>>, 0)>>, <<Insn(op2, <<4>>, <<5, 3>>, 0), Return>>>>) :
        sh \in SHIFTS, op1 \in {"shl", "shr"}, op2 \in {"shl", "shr"}}
SkipPrograms ==
    {Single(2, <<l, r, 1>>, <<<<SkipIf(cond, 1, 2, 1), Jump(2), Jump(3)>>, <<Load(3, 0), Return>>,
                            <<Load(3, 1), Return>>>>) :
        l \in (1..3), r \in (1..3), cond \in V!Relational \cup {"eq", "neq"}}

NativePrograms == NaryPrograms \cup NotPrograms \cup ShiftPrograms \cup SkipPrograms

InputsOf(f) == {x \in [1..f.nin -> 0..(2^Max({f.w[i] : i \in 1..Len(f.w)}) - 1)] :
                   \A i \in 1..f.nin : x[i] < 2^f.w[i]}
-----------------------------------------------------------------------------
(* Functions to vectorise, over three one-bit registers, as the code       *)
(* generator makes them.                                                   *)

IfJump(cond, pc, target) == <<SkipIf(cond, 1, 2, 1), Jump(pc + 1), Jump(target)>>

(* Registers: 1 is the input, 2 the output, 3 a local.                     *)
PlainCodes ==
    {<<Copy(3, 1)>>, <<Copy(2, 3)>>, <<Insn("sub", <<1>>, <<1>>, 1)>>,
     <<SkipIf("eq", 1, 3, 2), Copy(2, 1), Skip(1), Copy(2, 3)>>}
JumpCodes(pc) ==
    {IfJump("neq", pc, t) : t \in 1..Size} \cup {<<Jump(t)>> : t \in 1..Size}
FinalCodes == {<<Return>>, <<Load(2, 1), Return>>}

VectorFunctions ==
    {[nin |-> 1, nout |-> 1, w |-> <<1, 1, 1>>, code |-> before \o <<last>>] :
        before \in {c \in [1..(Size - 1) -> PlainCodes \cup UNION {JumpCodes(pc) : pc \in 1..(Size - 1)}] :
                       \A pc \in 1..(Size - 1) : c[pc] \in PlainCodes \cup JumpCodes(pc)},
        last \in FinalCodes}
-----------------------------------------------------------------------------
(* Single instructions on every frame.  Registers 1 and 2 are sources, 3   *)
(* is the target, the rest are parts of the first source.                  *)

InsnWidth == 3
PartWidths == {<<1, 2>>, <<2, 1>>, <<1, 1, 1>>}
InsnWidths(split) == <<InsnWidth, InsnWidth, InsnWidth>> \o split
Parts(split) == [i \in DOMAIN split |-> 3 + i]
Insns ==
    {Insn(op, <<3>>, <<1, 2>>, c) : op \in {"add", "sub", "mul", "and", "or", "xor"}, c \in 0..Mask(InsnWidth)}
    \cup {Insn(op, <<3>>, <<1, 2>>, 0) : op \in {"div", "rem", "shl", "shr"}}
    \cup {Insn(op, <<3>>, <<1, 2>>, c) : op \in {"addmod", "submod", "mulmod"}, c \in 0..Mask(InsnWidth)}
    \cup {Insn(op, <<3>>, <<1>>, c) : op \in {"cast", "not", "castmod"}, c \in 1..InsnWidth}
    \cup {Insn("destruct", Parts(split), <<1>>, 0) : split \in PartWidths}
WidthsOf(insn) == IF insn.op = "destruct" THEN InsnWidths(CHOOSE split \in PartWidths : Parts(split) = insn.t)
                  ELSE InsnWidths(<<>>)
-----------------------------------------------------------------------------
(* Flat functions over one input, one output and one local.                *)

FlowStraight == {Set(2, LocalAccess(3)), Set(3, LocalAccess(1)), Set(2, Add(<<LocalAccess(2), LocalAccess(1)>>))}
FlowJumps == {Goto(pc) : pc \in 1..Size} \cup {Returns, Fail(<<>>)}
FlowTests == {IfGoto(Cmp("eq", LocalAccess(1), LocalAccess(v)), pc) : pc \in 1..Size, v \in {1, 3}}
FlowFunctions ==
    {[nin |-> 1, nout |-> 1, nvars |-> 3, code |-> [pc \in 1..Size |-> IF pc = Size THEN last ELSE rest[pc]]] :
        last \in FlowJumps, rest \in [1..(Size - 1) -> FlowStraight \cup FlowJumps \cup FlowTests]}
-----------------------------------------------------------------------------
(* Programs of the machine: a main function of one or two vectors that     *)
(* calls a function of one or two vectors.  Vectors end with an            *)
(* instruction that fixes what is executed next, as vectorised code does,  *)
(* or fall through.                                                        *)

CallF == [op |-> "call", fn |-> "f", args |-> <<2>>, returns |-> <<1>>]
AddOne(to, from) == [op |-> "add", to |-> to, from |-> from, by |-> 1]
WriteOut == [op |-> "write", mem |-> "out", at |-> 2, reg |-> 1]
WriteRam == [op |-> "write", mem |-> "ram", at |-> 1, reg |-> 2]
ReadRam == [op |-> "read", mem |-> "ram", at |-> 2, reg |-> 1]
ReadIn == [op |-> "read", mem |-> "in", at |-> 2, reg |-> 1]
ReadTable == [op |-> "read", mem |-> "table", at |-> 1, reg |-> 2]
SkipDiffers == [op |-> "skipif", left |-> 1, right |-> 2, by |-> 1]
SkipOne == [op |-> "skip", by |-> 1]
JumpTo(k) == [op |-> "jump", to |-> k]
Ret == [op |-> "return"]
FailNow == [op |-> "fail"]

(* MainBodies: what a vector of main may do before its last instruction.       *)
MainBody == {CallF, AddOne(2, 1), WriteOut, WriteRam, ReadRam, ReadIn, ReadTable}
MainBodies == {<<a>> : a \in MainBody} \cup {<<a, b>> : a, b \in MainBody}
              \cup {<<SkipDiffers, a>> : a \in MainBody}
              \cup {<<SkipOne, FailNow, CallF>>, <<SkipDiffers, FailNow>>, <<>>}

Callees == {<< <<Ret>> >>,
            << <<AddOne(2, 1), Ret>> >>,
            << <<AddOne(3, 1), JumpTo(2)>>, <<AddOne(2, 3), ReadTable, Ret>> >>}

Mains == {<< Append(b, Ret) >> : b \in MainBodies}
            \cup {<< <<AddOne(2, 1), JumpTo(2)>>, Append(b, Ret) >> : b \in MainBodies}
            \cup {<< Append(b, JumpTo(2)), <<CallF, WriteOut, Ret>> >> : b \in MainBodies}
            \cup {<< b, <<WriteRam, Ret>> >> : b \in MainBodies \ {<<>>}}

MCPrograms == [main : Mains, f : Callees]
MCInputs == {[in |-> <<>>], [in |-> <<0>>], [in |-> <<1, 2>>]}
MCStatic == [table |-> <<0, 1, 3>>]

(* A reference: what a call of a function does, by recursion over the tree *)
(* of calls.  The machine state is <<registers, memories>>, or "stuck".    *)

RECURSIVE EvalFrom(_, _, _, _, _)
EvalFrom(f, macro, micro, regs, mems) ==
    LET vec == prog[f][macro]
        i == vec[micro]
        Onward(rs, ms, by) ==
            IF micro + by + 1 > Len(vec) THEN EvalFrom(f, macro + 1, 1, rs, ms)
                                         ELSE EvalFrom(f, macro, micro + by + 1, rs, ms)
    IN  CASE i.op = "return" -> <<regs, mems>>
          [] i.op = "fail" -> <<>>
          [] i.op = "jump" -> EvalFrom(f, i.to, 1, regs, mems)
          [] i.op = "skip" -> Onward(regs, mems, i.by)
          [] i.op = "skipif" -> Onward(regs, mems, IF regs[i.left] = regs[i.right] THEN 0 ELSE i.by)
          [] i.op = "add" ->
               IF regs[i.from] + i.by > MaxWord THEN <<>>
               ELSE Onward([regs EXCEPT ![i.to] = regs[i.from] + i.by], mems, 0)
          [] i.op = "read" ->
               LET a == regs[i.at] + 1
               IN  IF a \in DOMAIN mems[i.mem] THEN Onward([regs EXCEPT ![i.reg] = mems[i.mem][a]], mems, 0)
                   ELSE IF i.mem = "ram" THEN Onward([regs EXCEPT ![i.reg] = 0], mems, 0) ELSE <<>>
          [] i.op = "write" ->
               LET a == regs[i.at] + 1
                   s == mems[i.mem]
                   n == IF a > Len(s) THEN a ELSE Len(s)
                   w == [j \in 1..n |-> IF j = a THEN regs[i.reg] ELSE IF j <= Len(s) THEN s[j] ELSE 0]
               IN  Onward(regs, [mems EXCEPT ![i.mem] = w], 0)
          [] i.op = "call" ->
               LET callee == EvalFrom(i.fn, 1, 1,
                                [r \in 1..Registers |-> IF r = 1 THEN regs[i.args[1]] ELSE 0], mems)
               IN  IF callee = <<>> THEN <<>>
                   ELSE Onward([regs EXCEPT ![i.returns[1]] = callee[1][2]], callee[2], 0)

FreshMemories(in) ==
    [m \in Roms \cup Statics \cup Rams \cup Woms |->
        CASE m \in Roms -> in[m] [] m \in Statics -> StaticData[m] [] OTHER -> <<>>]
-----------------------------------------------------------------------------
C == INSTANCE ControlFlow WITH Functions <- FlowFunctions
M == INSTANCE ZkMachine WITH Functions <- {"main", "f"}, Programs <- MCPrograms, Inputs <- MCInputs

ASSUME MachineAssumption == M!MemoriesAssumption /\ M!MainAssumption /\ M!BoundsAssumption

RunParts == {"blocks", "arrays", "expression", "native", "vector", "execute"}
SourcesOf == [blocks |-> BlockBodies, arrays |-> StraightBodies \cup TupleBodies, expression |-> ExpressionSources,
            native |-> NativePrograms, vector |-> VectorFunctions,
            execute |-> Insns \X {<<a, b, 0, 0, 0, 0>> : a, b \in 0..Mask(InsnWidth)}]

(* What the source of a part is compiled to.                               *)
OnlyScalars(typed) == [typed EXCEPT !.f = FlattenFixedArrays(typed.f)]
FunctionOf ==
    CASE part = "blocks" -> BlockFunction(source)
      [] part = "arrays" -> ArrayFunction(source)
      [] part = "expression" -> ExpressionFunction(source)
Lowered ==
    CASE part \in {"blocks", "arrays", "expression"} ->
            <<OnlyScalars(TypeFunction(FlattenFunction(FunctionOf), IF part = "expression" THEN Decls ELSE <<>>))>>
      [] part = "native" -> V!LowerNatives(source)
      [] part = "vector" -> <<V!VectoriseFunction(source)>>

(* What a block, run on the inputs, gives for the output.                  *)
Output(meant) == IF meant.how = "fail" THEN FAILED ELSE meant.store[3]

RunStatements ==
    LET zeros == [i \in 1..2 |-> 0]
        Store(x) == IF part = "blocks" THEN <<<<x[1]>>, <<x[2]>>, <<0>>, <<0>>>>
                    ELSE <<<<x[1]>>, <<x[2]>>, <<0>>, zeros, zeros, <<0>>, <<0>>>>
    IN  /\ part \in {"blocks", "arrays"}
        /\ ~RewritePanics(lowered[1].f.code)
        /\ \E compiled \in {CompileFunction(lowered[1].f, <<>>)},
              x \in IF part = "blocks" THEN BlockInputs ELSE (0..(2^WIDTH - 1)) \X (0..(2^WIDTH - 1)) :
              \E meant \in {Exec(source, Store(x), LoopBound)} :
                  /\ meant.how /= "unfinished"
                  /\ inputs' = x
                  /\ results' = <<Output(meant), Run(<<compiled>>, 1, x, Fuel)>>
RunExpression ==
    /\ part = "expression"
    /\ ~lowered[1].errs /\ Complete(lowered[1].f.code[1].e[1])
    /\ \E compiled \in {[i \in 1..2 |->
              CompileFunction(IF i = 1 THEN lowered[1].f ELSE TypeFunction(Subtract, Decls).f, Decls)]} :
          /\ ~Panics(compiled[1].code[1])
          /\ \E x, y \in 0..3, z \in 0..1, f \in IF source.w = NATIVE THEN 0..(Prime - 1) ELSE {3} :
                LET e == lowered[1].f.code[1].e[1]
                    store == <<<<x>>, <<y>>, <<z>>, <<f>>>>
                    parts == [i \in 1..(IF e.k = "tuple" THEN Len(e.a) ELSE 1) |->
                                 Meaning(IF e.k = "tuple" THEN e.a[i] ELSE e, store)]
                    First(v) == IF Len(source.t[1].ids) = 2 THEN v \div 2 ELSE v
                    Value(vs) == IF \E i \in DOMAIN vs : vs[i] = STUCK THEN FAILED ELSE <<First(vs[1][1])>>
                IN  /\ inputs' = <<x, y, z, f>>
                    /\ results' = <<Value(parts), Run(compiled, 1, <<x, y, z, f>>, Fuel)>>
RunNative ==
    /\ part = "native"
    /\ \E x \in InputsOf(source[1]) :
          inputs' = x /\ results' = <<Run(source, 1, x, Fuel), Run(lowered, 1, x, Fuel)>>
RunVector ==
    /\ part = "vector"
    /\ \E x \in 0..1 : inputs' = <<x>> /\ results' = <<Run(<<source>>, 1, <<x>>, Fuel), Run(lowered, 1, <<x>>, Fuel)>>

Lower == part /= "execute" /\ lowered = <<>> /\ lowered' = Lowered /\ UNCHANGED <<source, inputs, results>>
RunBoth ==
    /\ lowered /= <<>> /\ results = <<>>
    /\ RunStatements \/ RunExpression \/ RunNative \/ RunVector
    /\ UNCHANGED <<source, lowered>>
Execute ==
    /\ part = "execute" /\ inputs = <<>>
    /\ inputs' = source[2]
    /\ results' = ResultOf(source[1], source[2], WidthsOf(source[1]))
    /\ UNCHANGED <<source, lowered>>

Idle == <<>>
NoRun == source = Idle /\ lowered = Idle /\ inputs = Idle /\ results = Idle
NoFlow == fn = Idle /\ visited = Idle /\ states = Idle /\ stack = Idle /\ errors = Idle
NoMachine == /\ prog = Idle /\ callstack = Idle /\ memory = Idle /\ status = "none" /\ observed = FALSE
             /\ obs = Idle /\ steps = 0 /\ boots = 0 /\ input = Idle /\ bundles = Idle

MCInit ==
    \/ part = "machine" /\ NoRun /\ NoFlow /\ M!Init
    \/ /\ part \in RunParts
       /\ source \in SourcesOf[part]
       /\ lowered = <<>> /\ inputs = <<>> /\ results = <<>>
       /\ NoFlow /\ NoMachine
    \/ part = "flow" /\ NoRun /\ C!Init /\ NoMachine

MCNext ==
    \/ part \in RunParts /\ (Lower \/ RunBoth \/ Execute) /\ UNCHANGED <<part, flowVars, machineVars>>
    \/ part = "flow" /\ C!Next /\ UNCHANGED <<part, runVars, machineVars>>
    \/ part = "machine" /\ M!Next /\ UNCHANGED <<part, runVars, flowVars>>

MCSpec == MCInit /\ [][MCNext]_allVars
-----------------------------------------------------------------------------
FlatKinds == {"assign", "ifgoto", "goto", "return", "fail", "printf"}

(* A function, flattened, typed and compiled, computes what its source     *)
(* means or fails where that has no value: short-circuit conditions, the   *)
(* breaks and continues of the right loop also where loops follow or       *)
(* contain one another, elements and copies of arrays, chains from the     *)
(* left.  The compiler panics exactly at tuples in functions with arrays;  *)
(* only statements the code generator knows are left; typing rejects       *)
(* exactly what does not match; and the control-flow analysis reports a    *)
(* variable exactly where some path reads or returns it before it is       *)
(* written, and a statement as unreachable exactly when no path leads to   *)
(* it (flatten.go, typing, codegen, control_flow.go).  It is not claimed   *)
(* of switches with a default branch alone, whose body is not lowered      *)
(* (flatten.go:788), nor of an array copied after a jump, whose targets    *)
(* are not moved (flatten.go:113).                                         *)
SourceKept ==
    /\ part \in {"blocks", "arrays", "expression"} /\ results /= <<>> => results[1] = results[2]
    /\ part \in {"blocks", "arrays"} /\ lowered /= <<>> =>
          LET code == lowered[1].f.code
          IN  \A pc \in DOMAIN code :
                  /\ code[pc].s \in FlatKinds
                  /\ code[pc].s \in {"goto", "ifgoto"} => code[pc].j \in DOMAIN code
                  /\ 0 \notin Uses(code[pc])
    /\ part = "arrays" /\ lowered /= <<>> =>
          (RewritePanics(lowered[1].f.code) <=> source \in TupleBodies)
    /\ part = "expression" /\ lowered /= <<>> =>
          (lowered[1].errs <=> source \in IllTyped)
    /\ part = "flow" => C!Exact /\ C!UnreachableExact

RECURSIVE PathsTo(_, _)
(* The paths, as sets of offsets, from the first code up to code i.        *)
PathsTo(codes, i) ==
    IF i = 1 THEN {{}}
    ELSE UNION {{p \cup {j} : p \in PathsTo(codes, j)} :
                    j \in {k \in 1..(i - 1) : \E n \in DOMAIN V!Transfers(k, codes[k], V!NONE) :
                                                  V!Transfers(k, codes[k], V!NONE)[n][1] = i}}
WrittenOn(codes, path) == UNION {Range(codes[j].t) : j \in path}

(* The write map says of a register that it is definitely, or maybe,       *)
(* assigned exactly when all, or some, paths write it; and a vector can be *)
(* read as codes that run in parallel: no path writes a register twice or  *)
(* reads what only some paths have written.                                *)
Parallel(codes) ==
    \A i \in DOMAIN codes :
        LET into == PathsTo(codes, i)
            st == V!WriteMap(codes)[i]
        IN  /\ st.reached <=> into /= {}
            /\ st.maybe = UNION {WrittenOn(codes, p) : p \in into}
            /\ into /= {} => \A r \in 1..3 : r \in st.definitely <=> \A p \in into : r \in WrittenOn(codes, p)
            /\ \A p \in into :
                  /\ Range(codes[i].t) \cap WrittenOn(codes, p) = {}
                  /\ \A q \in into :
                        Range(codes[i].s) \cap WrittenOn(codes, p) = Range(codes[i].s) \cap WrittenOn(codes, q)
VectorWellFormed(codes, f) ==
    /\ Last(codes).op \in Terminators
    /\ \A i \in DOMAIN codes :
          /\ codes[i].op = "jump" => codes[i].c \in DOMAIN f.code
          /\ codes[i].op \in {"skip", "skip_if"} => i + codes[i].c + 1 <= Len(codes)

CodesOf(f) == UNION {Range(f.code[i]) : i \in DOMAIN f.code}

(* Nothing is left that lowering is there to remove, a helper is called    *)
(* with registers of the widths it was made for, and comes after the       *)
(* helpers it calls, but for itself.                                       *)
Arithmetic(fs, helpers) ==
    \A i \in DOMAIN fs : \A c \in CodesOf(fs[i]) :
        /\ c.op \notin V!Bitwises \cup {"panic"} /\ c.k \notin V!Relational
        /\ c.op = "call" =>
              /\ Len(c.s) = fs[c.c].nin
              /\ \A k \in DOMAIN c.s : fs[i].w[c.s[k]] = fs[c.c].w[k]
              /\ i > helpers => c.c <= i /\ c.c > helpers

(* An instruction fails exactly when the exact integer leaves the target   *)
(* or a divisor is zero, products also on their way; otherwise its result  *)
(* fits, and what destruct takes apart concat puts together.  Nothing is   *)
(* said of a cast of a value that does not fit.                            *)
ExecutedRight(insn, frame, widths, result) ==
    LET a == frame[1]
        b == frame[2]
        c == insn.c
    IN  /\ \A i \in DOMAIN result : result[i] \in 0..Mask(widths[insn.t[i]])
        /\ insn.op = "destruct" =>
              ConcatResult(result, [i \in DOMAIN insn.t |-> widths[insn.t[i]]], InsnWidth) = <<a>>
        /\ insn.op = "cast" => a > Mask(c) \/ result = <<a>>
        /\ insn.op # "cast" =>
           (result = FAILS <=> CASE insn.op = "add" -> a + b + c > Mask(InsnWidth)
                                [] insn.op = "sub" -> a - b - c < 0
                                [] insn.op = "mul" -> a * c > Mask(InsnWidth) \/ a * b * c > Mask(InsnWidth)
                                [] insn.op \in {"div", "rem"} -> b = 0
                                [] insn.op = "castmod" -> a >= Prime
                                [] OTHER -> FALSE)

(* Compiled code does the same before and after vectorisation and before   *)
(* and after native instructions are lowered, for all inputs, whatever was *)
(* spliced or shared, and the executor computes with exact integers, casts *)
(* of values that do not fit aside (vectorize.go, lower natives,           *)
(* executor).                                                              *)
CodeKept ==
    /\ part \in {"native", "vector"} /\ results /= <<>> => results[1] = results[2]
    /\ part = "native" => Arithmetic(lowered, Len(source))
    /\ part = "native" /\ results /= <<>> => results[1] \notin {FAILED, UNFINISHED}
    /\ part = "vector" /\ lowered /= <<>> =>
          \A codes \in Range(lowered[1].code) : Parallel(codes) /\ VectorWellFormed(codes, lowered[1])
    /\ part = "execute" /\ inputs /= <<>> => ExecutedRight(source[1], source[2], WidthsOf(source[1]), results)

(* However often the machine was booted and halted before, an execution    *)
(* that halts has computed what the call tree of main computes from fresh  *)
(* memories.  A machine whose execution failed is not booted again here:   *)
(* main would run on top of the frames left behind (base.go:77).  The      *)
(* observer stays in step with the call stack, and every row of the trace  *)
(* is a bundle that was executed, in that order (machine, observer).       *)
MachineComputes ==
    part = "machine" =>
        /\ M!TypeOK /\ M!ObserverInStep /\ M!RowsAreBundles
        /\ status = "halted" =>
              LET r == EvalFrom(Main, 1, 1, [k \in 1..Registers |-> 0], FreshMemories(input))
              IN  r # <<>> /\ memory = r[2]
=============================================================================
