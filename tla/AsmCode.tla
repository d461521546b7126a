------------------------------ MODULE AsmCode -------------------------------
(***************************************************************************)
(* Micro instructions of the assembler (pkg/asm/io/micro).  A micro        *)
(* instruction is a vector of codes that is executed in one step; inside   *)
(* it control moves forwards only, by skips.  Registers are numbered from  *)
(* 1, w gives their widths, and a state st their values.                   *)
(*                                                                         *)
(* Splitting replaces registers wider than RegisterWidth by limbs; the     *)
(* fresh registers it needs are added to the allocator, the sequence of    *)
(* the widths of all registers.                                            *)
(***************************************************************************)
EXTENDS Polynomials, Limbs

CONSTANTS RegisterWidth, BandWidth, Modulus,
          Device(_, _)  \* the values a function returns for given arguments

Splits(w) == INSTANCE AssignmentChunks WITH Widths <- w

CombinedWidth(rids, w) == Splits(w)!CombinedWidth(rids, w)
-----------------------------------------------------------------------------
(* Program counters that end a function; PANIC stands for an abort.        *)

RETURN == 1000
FAIL == 999
PANIC == 998
Ends == {RETURN, FAIL, PANIC}

(* What a code does: the codes to move on by or, when 0, the next          *)
(* instruction.                                                            *)
Continue(st) == [skip |-> 1, pc |-> 0, st |-> st]
Leave(pc, st) == [skip |-> 0, pc |-> pc, st |-> st]

LoadN(st, rids) == [i \in DOMAIN rids |-> st[rids[i]]]

FitsIn(rids, values, w) == \A i \in DOMAIN rids : values[i] < 2^w[rids[i]]

(* Store panics when a value exceeds the width of its register.            *)
StoreN(st, rids, values) ==
    [r \in DOMAIN st |->
        IF \E i \in DOMAIN rids : rids[i] = r
        THEN values[Max({i \in DOMAIN rids : rids[i] = r})]
        ELSE st[r]] @@ <<>>

StoreAcross(st, value, rids, w) == Splits(w)!StoreAcross(st, value, rids, w) @@ <<>>
-----------------------------------------------------------------------------
(* Vectors: registers side by side, the least significant first; and the   *)
(* right-hand sides that are a vector or a constant.                       *)

VectorValue(rids, st, w) ==
    SumFunctionOnSet([i \in DOMAIN rids |-> st[rids[i]] * 2^CombinedWidth(SubSeq(rids, 1, i - 1), w)],
                     DOMAIN rids)

VecReg(rids) == [regs |-> rids, const |-> FALSE, val |-> 0]
VecConst(c) == [regs |-> <<>>, const |-> TRUE, val |-> c]

EvalVec(e, st, w) == IF e.const THEN e.val ELSE VectorValue(e.regs, st, w)
VecWidth(e, w) == IF e.const THEN BitLen(e.val) ELSE CombinedWidth(e.regs, w)
SplitVec(e, w) == IF e.const THEN e ELSE VecReg(Splits(w)!ApplyLimbsMap(e.regs))
-----------------------------------------------------------------------------
(* Codes.                                                                  *)

Assign(targets, source) == [op |-> "assign", targets |-> targets, source |-> source]
Cast(width, targets, source) == [op |-> "cast", width |-> width, targets |-> targets, source |-> source]
Division(quot, rem, wit, dividend, divisor) ==
    [op |-> "div", quot |-> quot, rem |-> rem, wit |-> wit, dividend |-> dividend, divisor |-> divisor]
InOut(bus) == [op |-> "inout", bus |-> bus]
SkipIf(left, right, skip) == [op |-> "skip_if", left |-> left, right |-> right, skip |-> skip]
Skip(skip) == [op |-> "skip", skip |-> skip]
Jmp(target) == [op |-> "jmp", target |-> target]
Ret == [op |-> "ret"]
Fail == [op |-> "fail"]

ExecAssign(code, st, w) ==
    Continue(StoreAcross(st, Eval(code.source, st), code.targets, w))

(* Casting a value that does not fit fails.                                *)
ExecCast(code, st, w) ==
    IF BitLen(st[code.source]) > code.width THEN Leave(FAIL, st)
    ELSE Continue(StoreAcross(st, st[code.source], code.targets, w))

ExecDivision(code, st, w) ==
    LET lhs == EvalVec(code.dividend, st, w)
        rhs == EvalVec(code.divisor, st, w)
        st1 == StoreAcross(st, lhs \div rhs, code.quot, w)
        st2 == StoreAcross(st1, lhs % rhs, code.rem, w)
    IN  IF rhs = 0 THEN Leave(FAIL, st)
        ELSE Continue(StoreAcross(st2, (rhs - (lhs % rhs)) - 1, code.wit, w))

(* The limbs of a function's values, and its values from their limbs.      *)
LimbsOfWidth(width) == Splits(<<width>>)!LimbWidthsOf(1)
LimbsOf(value, width) ==
    LET ws == LimbsOfWidth(width)
    IN  [i \in DOMAIN ws |-> (value \div 2^BitsBelow(ws, i)) % 2^ws[i]]
SplitValues(values, widths) ==
    FoldLeft(LAMBDA acc, i : acc \o LimbsOf(values[i], widths[i]), <<>>, [i \in DOMAIN values |-> i])
JoinValues(limbs, widths) ==
    LET before(i) == SumFunctionOnSet([k \in DOMAIN widths |-> Len(LimbsOfWidth(widths[k]))], 1..(i - 1))
    IN  [i \in DOMAIN widths |->
            LET ws == LimbsOfWidth(widths[i])
            IN  SumFunctionOnSet([k \in DOMAIN ws |-> limbs[before(i) + k] * 2^BitsBelow(ws, k)], DOMAIN ws)]

(* A call: after splitting, the lines are the limbs of the values of a     *)
(* function whose own registers are split in the same way.                 *)
ReadBus(bus, address) ==
    IF bus.split
    THEN SplitValues(Device(bus.id, JoinValues(address, bus.ins)), bus.outs)
    ELSE Device(bus.id, address)

ExecInOut(code, st, w) ==
    LET values == ReadBus(code.bus, LoadN(st, code.bus.address))
    IN  IF FitsIn(code.bus.data, values, w) THEN Continue(StoreN(st, code.bus.data, values))
        ELSE Leave(PANIC, st)

ExecSkipIf(code, st, w) ==
    [skip |-> IF VectorValue(code.left, st, w) # EvalVec(code.right, st, w) THEN 1 + code.skip ELSE 1,
     pc |-> 0, st |-> st]

ExecSkip(code, st) == [skip |-> 1 + code.skip, pc |-> 0, st |-> st]
ExecJmp(code, st) == Leave(code.target, st)
ExecRet(st) == Leave(RETURN, st)
ExecFail(st) == Leave(FAIL, st)

MicroExecute(code, st, w) ==
    CASE code.op = "assign" -> ExecAssign(code, st, w)
      [] code.op = "cast" -> ExecCast(code, st, w)
      [] code.op = "div" -> ExecDivision(code, st, w)
      [] code.op = "inout" -> ExecInOut(code, st, w)
      [] code.op = "skip_if" -> ExecSkipIf(code, st, w)
      [] code.op = "skip" -> ExecSkip(code, st)
      [] code.op = "jmp" -> ExecJmp(code, st)
      [] code.op = "ret" -> ExecRet(st)
      [] code.op = "fail" -> ExecFail(st)

(* Instruction.Execute, from a code on: [pc, st].                          *)
RECURSIVE ExecuteFrom(_, _, _, _)
ExecuteFrom(codes, cc, st, w) ==
    LET After(next) == IF next.skip = 0 THEN [pc |-> next.pc, st |-> next.st]
                       ELSE ExecuteFrom(codes, cc + next.skip, next.st, w)
    IN  After(MicroExecute(codes[cc], st, w))
-----------------------------------------------------------------------------
(* The registers that a code reads and writes.                             *)

AssignUses(code) == [reads |-> RegistersRead(code.source), writes |-> Range(code.targets)]
CastUses(code) == [reads |-> {code.source}, writes |-> Range(code.targets)]
DivisionUses(code) ==
    [reads |-> Range(code.dividend.regs) \cup Range(code.divisor.regs),
     writes |-> Range(code.quot) \cup Range(code.rem) \cup Range(code.wit)]
InOutUses(code) == [reads |-> Range(code.bus.address), writes |-> Range(code.bus.data)]
SkipIfUses(code) == [reads |-> Range(code.left) \cup Range(code.right.regs), writes |-> {}]

Uses(code) ==
    CASE code.op = "assign" -> AssignUses(code)
      [] code.op = "cast" -> CastUses(code)
      [] code.op = "div" -> DivisionUses(code)
      [] code.op = "inout" -> InOutUses(code)
      [] code.op = "skip_if" -> SkipIfUses(code)
      [] OTHER -> [reads |-> {}, writes |-> {}]
-----------------------------------------------------------------------------
(* Validation, for a field that is wide enough.  inputs are the registers  *)
(* of the function that hold its arguments.                                *)

CheckTargetRegisters(targets, inputs) ==
    /\ Range(targets) \cap inputs = {}
    /\ \A i, j \in DOMAIN targets : i # j => targets[i] # targets[j]

ValidAssign(code, w, inputs) ==
    /\ WidthOfPolynomial(code.source, w).bits <= CombinedWidth(code.targets, w)
    /\ CheckTargetRegisters(code.targets, inputs)
ValidCast(code, w, inputs) ==
    /\ code.width <= CombinedWidth(code.targets, w)
    /\ CheckTargetRegisters(code.targets, inputs)
ValidDivision(code, w) ==
    /\ VecWidth(code.dividend, w) <= CombinedWidth(code.quot, w)
    /\ VecWidth(code.divisor, w) <= CombinedWidth(code.rem, w)
    /\ VecWidth(code.divisor, w) <= CombinedWidth(code.wit, w)
ValidSkipIf(code, w) == code.right.const => BitLen(code.right.val) <= CombinedWidth(code.left, w)

ValidCode(code, w, inputs) ==
    CASE code.op = "assign" -> ValidAssign(code, w, inputs)
      [] code.op = "cast" -> ValidCast(code, w, inputs)
      [] code.op = "div" -> ValidDivision(code, w)
      [] code.op = "skip_if" -> ValidSkipIf(code, w)
      [] OTHER -> TRUE

(* The registers written before a code on some path, and on all paths, as  *)
(* a pair of sets; no path reaches a code that is not in the domain.       *)
Arcs(i, code, st) ==
    LET next == <<i + 1, [maybe |-> st.maybe \cup Uses(code).writes, surely |-> st.surely \cup Uses(code).writes]>>
    IN  CASE code.op \in {"jmp", "ret", "fail"} -> <<>>
          [] code.op = "skip" -> <<<<i + code.skip + 1, st>>>>
          [] code.op = "skip_if" -> <<<<i + code.skip + 1, st>>, next>>
          [] OTHER -> <<next>>

JoinInto(states, arc) ==
    LET old == states[arc[1]]
    IN  (arc[1] :> (IF arc[1] \in DOMAIN states
                    THEN [maybe |-> old.maybe \cup arc[2].maybe, surely |-> old.surely \cap arc[2].surely]
                    ELSE arc[2])) @@ states

Writes(codes) ==
    FoldLeft(LAMBDA states, i :
                IF i \in DOMAIN states THEN FoldLeft(JoinInto, states, Arcs(i, codes[i], states[i])) ELSE states,
             1 :> [maybe |-> {}, surely |-> {}], [i \in DOMAIN codes |-> i])

(* Instruction.Validate: a register is written once, and read where it is  *)
(* written on every path to the read or on none.                           *)
ValidInstruction(codes, w, inputs) ==
    /\ \A i \in DOMAIN codes : ValidCode(codes[i], w, inputs)
    /\ LET written == Writes(codes)
       IN  \A i \in DOMAIN written :
            /\ Uses(codes[i]).reads \cap written[i].maybe \subseteq written[i].surely
            /\ Uses(codes[i]).writes \cap written[i].maybe = {}
-----------------------------------------------------------------------------
(* Splitting: the codes over limbs, and the allocator afterwards.  w are   *)
(* the widths before the split and alloc those of all limbs so far.        *)

(* Assignment.chunkUp, for the assignment a over limbs.                    *)
RECURSIVE ChunkUp(_, _, _)
ChunkUp(a, alloc, divs) ==
    LET Attempt(sp, cut) ==
            IF cut.reads = {} THEN [codes |-> sp.codes \o cut.out, alloc |-> cut.regs]
            ELSE ChunkUp(a, alloc, Splits(alloc)!Subdivide(divs, sp, cut.reads))
        chunks == Splits(alloc)!InitialiseLhsChunks(a.lhs, WidthOfPolynomial(a.rhs, alloc).signed, alloc)
        AttemptWith(sp) == Attempt(sp, Splits(alloc)!DetermineRhsChunks(Substitute(a.rhs, sp.sub), chunks, sp.regs))
    IN  AttemptWith(Splits(alloc)!SplitRegisters(divs, alloc))

SplitAssign(code, w, alloc) ==
    LET Parts(cut) == [codes |-> [i \in DOMAIN cut.codes |-> Assign(cut.codes[i].lhs, cut.codes[i].rhs)],
                       alloc |-> cut.alloc]
        Split(a) == Parts(IF Splits(alloc)!AssignmentWidth(a, alloc).bits <= BandWidth
                          THEN [codes |-> <<a>>, alloc |-> alloc]
                          ELSE ChunkUp(a, alloc, [r \in DOMAIN alloc |-> 1]))
    IN  Split(Splits(w)!NewAssignment(Splits(w)!ApplyLimbsMap(code.targets), Splits(w)!SplitPolynomial(code.source)))

(* Limb by limb.  The limbs of the source beyond those of the targets must *)
(* be zero; there must be no fewer limbs in the source than in the targets.*)
SplitCast(code, w, alloc) ==
    LET lhs == Splits(w)!ApplyLimbsMap(code.targets)
        rhs == Splits(w)!LimbIds(code.source)
        moves == [i \in DOMAIN lhs |-> Assign(<<lhs[i]>>, Variable(rhs[i]))]
        checks == <<SkipIf(SubSeq(rhs, Len(lhs) + 1, Len(rhs)), VecConst(0), 1), Skip(1), Fail>>
    IN  [codes |-> IF Len(lhs) < Len(rhs) THEN moves \o checks ELSE moves, alloc |-> alloc]

SplitDivision(code, w) ==
    Division(Splits(w)!ApplyLimbsMap(code.quot), Splits(w)!ApplyLimbsMap(code.rem),
             Splits(w)!ApplyLimbsMap(code.wit), SplitVec(code.dividend, w), SplitVec(code.divisor, w))

SplitBus(bus, w) ==
    [bus EXCEPT !.address = Splits(w)!ApplyLimbsMap(bus.address),
                !.data = Splits(w)!ApplyLimbsMap(bus.data), !.split = TRUE]
SplitInOut(code, w) == InOut(SplitBus(code.bus, w))

SplitSkipIf(code, w) == SkipIf(Splits(w)!ApplyLimbsMap(code.left), SplitVec(code.right, w), code.skip)

SplitCode(code, w, alloc) ==
    LET one(c) == [codes |-> <<c>>, alloc |-> alloc]
    IN  CASE code.op = "assign" -> SplitAssign(code, w, alloc)
          [] code.op = "cast" -> SplitCast(code, w, alloc)
          [] code.op = "div" -> one(SplitDivision(code, w))
          [] code.op = "inout" -> one(SplitInOut(code, w))
          [] code.op = "skip_if" -> one(SplitSkipIf(code, w))
          [] OTHER -> one(code)

(* A skip that leaves its packet goes to the packet of its target.         *)
RetargetInsn(i, j, packets, code) ==
    LET at(k) == SumFunctionOnSet([p \in DOMAIN packets |-> Len(packets[p])], 1..(k - 1))
        left == Len(packets[i]) - j
        target == i + 1 + (code.skip - left)
    IN  IF code.op \in {"skip", "skip_if"} /\ code.skip >= left
        THEN [code EXCEPT !.skip = at(target) - (at(i) + j)]
        ELSE code

(* Instruction.SplitRegisters: [codes, alloc].                             *)
SplitRegisters(codes, w, alloc) ==
    LET Joined(acc, s) == [packets |-> Append(acc.packets, s.codes), alloc |-> s.alloc]
        packet(ps, i) == [j \in DOMAIN ps[i] |-> RetargetInsn(i, j, ps, ps[i][j])]
        Flat(split) ==
            [codes |-> FoldLeft(LAMBDA acc, i : acc \o packet(split.packets, i), <<>>,
                                [i \in DOMAIN split.packets |-> i]),
             alloc |-> split.alloc]
    IN  Flat(FoldLeft(LAMBDA acc, c : Joined(acc, SplitCode(c, w, acc.alloc)),
                      [packets |-> <<>>, alloc |-> alloc], codes))
-----------------------------------------------------------------------------
(* Macro instructions of the assembler (pkg/asm/io/macro): what the source *)
(* of a function consists of, how it executes, what is accepted, and the   *)
(* micro instruction each is lowered to.                                   *)
(*                                                                         *)
(* An expression is a constant, a register, or a sum, product or           *)
(* difference of expressions.  A function is a record [regs, buses, code]; *)
(* a register is [width, kind, padding].  Target registers are listed with *)
(* the least significant first.                                            *)
-----------------------------------------------------------------------------
(* Expressions.                                                            *)

Num(c) == [kind |-> "const", c |-> c]
Reg(r) == [kind |-> "reg", r |-> r]
Add(es) == [kind |-> "add", es |-> es]
Mul(es) == [kind |-> "mul", es |-> es]
Sub(es) == [kind |-> "sub", es |-> es]

IsConst(e) == e.kind = "const"

RECURSIVE EvalExpr(_, _)
EvalAdd(e, st) == FoldLeft(LAMBDA acc, x : acc + EvalExpr(x, st), EvalExpr(Head(e.es), st), Tail(e.es))
EvalMul(e, st) == FoldLeft(LAMBDA acc, x : acc * EvalExpr(x, st), EvalExpr(Head(e.es), st), Tail(e.es))
EvalSub(e, st) == FoldLeft(LAMBDA acc, x : acc - EvalExpr(x, st), EvalExpr(Head(e.es), st), Tail(e.es))
EvalExpr(e, st) ==
    CASE e.kind = "const" -> e.c
      [] e.kind = "reg" -> st[e.r]
      [] e.kind = "add" -> EvalAdd(e, st)
      [] e.kind = "mul" -> EvalMul(e, st)
      [] e.kind = "sub" -> EvalSub(e, st)

RECURSIVE Polynomial(_)
AddPolynomial(e) == FoldLeft(LAMBDA acc, x : PolyAdd(acc, Polynomial(x)), Polynomial(Head(e.es)), Tail(e.es))
MulPolynomial(e) == FoldLeft(LAMBDA acc, x : PolyMul(acc, Polynomial(x)), Polynomial(Head(e.es)), Tail(e.es))
SubPolynomial(e) == FoldLeft(LAMBDA acc, x : PolySub(acc, Polynomial(x)), Polynomial(Head(e.es)), Tail(e.es))
ConstPolynomial(e) == Const(e.c)
RegPolynomial(e) == Variable(e.r)
Polynomial(e) ==
    CASE e.kind = "const" -> ConstPolynomial(e)
      [] e.kind = "reg" -> RegPolynomial(e)
      [] e.kind = "add" -> AddPolynomial(e)
      [] e.kind = "mul" -> MulPolynomial(e)
      [] e.kind = "sub" -> SubPolynomial(e)

RECURSIVE ExprReads(_)
ExprReads(e) ==
    CASE e.kind = "const" -> {}
      [] e.kind = "reg" -> {e.r}
      [] OTHER -> UNION {ExprReads(x) : x \in Range(e.es)}

RECURSIVE ValueRange(_, _)
AddRange(e, w) == FoldLeft(LAMBDA acc, x : IntervalAdd(acc, ValueRange(x, w)), ValueRange(Head(e.es), w), Tail(e.es))
MulRange(e, w) == FoldLeft(LAMBDA acc, x : IntervalMul(acc, ValueRange(x, w)), ValueRange(Head(e.es), w), Tail(e.es))
SubRange(e, w) == FoldLeft(LAMBDA acc, x : IntervalSub(acc, ValueRange(x, w)), ValueRange(Head(e.es), w), Tail(e.es))
ValueRange(e, w) ==
    CASE e.kind = "const" -> NewInterval(e.c, e.c)
      [] e.kind = "reg" -> IntegerRangeOfRegister(e.r, w)
      [] e.kind = "add" -> AddRange(e, w)
      [] e.kind = "mul" -> MulRange(e, w)
      [] e.kind = "sub" -> SubRange(e, w)

(* The bits an expression needs, with one more for the sign of a           *)
(* difference.                                                             *)
BitWidth(e, w) ==
    LET WithSign(raw) == [bits |-> raw.bits + (IF raw.signed THEN 1 ELSE 0), signed |-> raw.signed]
    IN  WithSign(BitsOfRange(ValueRange(e, w)))

ToVec(e) == IF IsConst(e) THEN VecConst(e.c) ELSE VecReg(<<e.r>>)
-----------------------------------------------------------------------------
(* Instructions, except those that are the same as a micro code.           *)

MAssign(targets, source) == [op |-> "assign", targets |-> targets, source |-> source]
MCall(bus, targets, sources) == [op |-> "call", bus |-> bus, targets |-> targets, sources |-> sources]
MCast(width, targets, source) == [op |-> "cast", width |-> width, targets |-> targets, source |-> source]
MDivision(quot, rem, wit, sum, witsum, dividend, divisor) ==
    [op |-> "div", quot |-> quot, rem |-> rem, wit |-> wit, sum |-> sum, witsum |-> witsum,
     dividend |-> dividend, divisor |-> divisor]
MFail == [op |-> "fail"]
MGoto(target) == [op |-> "goto", target |-> target]
MIfGoto(cond, left, right, target) ==
    [op |-> "if_goto", cond |-> cond, left |-> left, right |-> right, target |-> target]
MIte(targets, cond, left, right, then, else) ==
    [op |-> "ite", targets |-> targets, cond |-> cond, left |-> left, right |-> right,
     then |-> then, else |-> else]
MReturn == [op |-> "return"]

Conditions == {"==", "!=", "<", "<=", ">", ">="}
Taken(cond, lhs, rhs) ==
    CASE cond = "==" -> lhs = rhs
      [] cond = "!=" -> lhs # rhs
      [] cond = "<" -> lhs < rhs
      [] cond = "<=" -> lhs <= rhs
      [] cond = ">" -> lhs > rhs
      [] cond = ">=" -> lhs >= rhs
-----------------------------------------------------------------------------
(* Execution: the next state and program counter.                          *)

Then(pc, st) == [pc |-> pc, st |-> st]

ExecuteAssign(insn, st, pc, w) == Then(pc + 1, StoreAcross(st, EvalExpr(insn.source, st), insn.targets, w))

(* The values returned go to the targets in reverse order.                 *)
ExecuteCall(insn, st, pc, w) ==
    LET args == [i \in DOMAIN insn.sources |-> EvalExpr(insn.sources[i], st)]
        st1 == StoreN(st, insn.bus.address, args)
        out == ReadBus(insn.bus, args)
        st2 == StoreN(st1, insn.bus.data, out)
    IN  IF FitsIn(insn.bus.address, args, w) /\ FitsIn(insn.bus.data, out, w)
            /\ FitsIn(insn.targets, Reverse(out), w)
        THEN Then(pc + 1, StoreN(st2, insn.targets, Reverse(out)))
        ELSE Then(PANIC, st)

ExecuteCast(insn, st, pc, w) ==
    IF BitLen(st[insn.source]) > insn.width THEN Then(FAIL, st)
    ELSE Then(pc + 1, StoreAcross(st, st[insn.source], insn.targets, w))

(* The sum and the witness sum are not stored.                             *)
ExecuteDivision(insn, st, pc, w) ==
    LET lhs == EvalExpr(insn.dividend, st)
        rhs == EvalExpr(insn.divisor, st)
        out == <<lhs \div rhs, lhs % rhs, rhs - (lhs % rhs) - 1>>
        targets == <<insn.quot, insn.rem, insn.wit>>
    IN  IF rhs = 0 THEN Then(FAIL, st)
        ELSE IF FitsIn(targets, out, w) THEN Then(pc + 1, StoreN(st, targets, out))
        ELSE Then(PANIC, st)

ExecuteIfGoto(insn, st, pc) ==
    Then(IF Taken(insn.cond, EvalExpr(insn.left, st), EvalExpr(insn.right, st)) THEN insn.target ELSE pc + 1, st)

ExecuteIte(insn, st, pc, w) ==
    LET branch == IF Taken(insn.cond, EvalExpr(insn.left, st), EvalExpr(insn.right, st))
                  THEN insn.then ELSE insn.else
    IN  Then(pc + 1, StoreAcross(st, EvalExpr(branch, st), insn.targets, w))

ExecuteGoto(insn, st) == Then(insn.target, st)
ExecuteReturn(st) == Then(RETURN, st)
ExecuteFail(st) == Then(FAIL, st)

Execute(insn, st, pc, w) ==
    CASE insn.op = "assign" -> ExecuteAssign(insn, st, pc, w)
      [] insn.op = "call" -> ExecuteCall(insn, st, pc, w)
      [] insn.op = "cast" -> ExecuteCast(insn, st, pc, w)
      [] insn.op = "div" -> ExecuteDivision(insn, st, pc, w)
      [] insn.op = "if_goto" -> ExecuteIfGoto(insn, st, pc)
      [] insn.op = "ite" -> ExecuteIte(insn, st, pc, w)
      [] insn.op = "goto" -> ExecuteGoto(insn, st)
      [] insn.op = "return" -> ExecuteReturn(st)
      [] insn.op = "fail" -> ExecuteFail(st)
-----------------------------------------------------------------------------
(* The registers that an instruction reads and writes.                     *)

MAssignUses(insn) == [reads |-> ExprReads(insn.source), writes |-> Range(insn.targets)]
MCallUses(insn) == [reads |-> UNION {ExprReads(e) : e \in Range(insn.sources)}, writes |-> Range(insn.targets)]
MCastUses(insn) == [reads |-> {insn.source}, writes |-> Range(insn.targets)]
MDivisionUses(insn) ==
    [reads |-> ExprReads(insn.dividend) \cup ExprReads(insn.divisor),
     writes |-> {insn.quot, insn.rem, insn.wit, insn.sum, insn.witsum}]
MIfGotoUses(insn) == [reads |-> ExprReads(insn.left) \cup ExprReads(insn.right), writes |-> {}]
MIteUses(insn) ==
    [reads |-> UNION {ExprReads(e) : e \in {insn.left, insn.right, insn.then, insn.else}},
     writes |-> Range(insn.targets)]

MacroUses(insn) ==
    CASE insn.op = "assign" -> MAssignUses(insn)
      [] insn.op = "call" -> MCallUses(insn)
      [] insn.op = "cast" -> MCastUses(insn)
      [] insn.op = "div" -> MDivisionUses(insn)
      [] insn.op = "if_goto" -> MIfGotoUses(insn)
      [] insn.op = "ite" -> MIteUses(insn)
      [] OTHER -> [reads |-> {}, writes |-> {}]
-----------------------------------------------------------------------------
(* Validation, for a field that is wide enough.                            *)

CheckSignBit(targets, w) == targets # <<>> /\ w[targets[Len(targets)]] = 1

ValidateAssign(insn, w, inputs) ==
    LET rhs == BitWidth(insn.source, w)
    IN  /\ rhs.bits <= CombinedWidth(insn.targets, w)
        /\ rhs.signed => CheckSignBit(insn.targets, w)
        /\ CheckTargetRegisters(insn.targets, inputs)

(* Nothing is said of the targets but their widths.                        *)
ValidateCall(insn, w) ==
    LET bus == insn.bus
    IN  /\ Len(insn.sources) = Len(bus.address) /\ Len(insn.targets) = Len(bus.data)
        /\ \A i \in DOMAIN insn.sources :
                LET src == BitWidth(insn.sources[i], w)
                IN  src.bits <= w[bus.address[i]] /\ ~src.signed
        /\ \A i \in DOMAIN insn.targets : w[Reverse(bus.data)[i]] <= w[insn.targets[i]]

ValidateCast(insn, w, inputs) ==
    /\ insn.width <= CombinedWidth(insn.targets, w)
    /\ CheckTargetRegisters(insn.targets, inputs)

SumCalc(insn) == Add(<<Reg(insn.rem), Mul(<<Reg(insn.quot), insn.divisor>>)>>)
WitSumCalc(insn) == Add(<<Num(1), Reg(insn.rem), Reg(insn.wit)>>)

ValidateDivision(insn, w) ==
    /\ BitWidth(insn.dividend, w).bits <= w[insn.quot]
    /\ BitWidth(insn.divisor, w).bits <= w[insn.rem]
    /\ BitWidth(insn.divisor, w).bits <= w[insn.wit]
    /\ BitWidth(SumCalc(insn), w).bits <= w[insn.sum]
    /\ BitWidth(WitSumCalc(insn), w).bits <= w[insn.witsum]

ValidateIfGoto(insn) == insn.left # insn.right /\ ~(IsConst(insn.left) /\ IsConst(insn.right))

ValidateIte(insn, w, inputs) ==
    LET then == BitWidth(insn.then, w)
        else == BitWidth(insn.else, w)
    IN  /\ Max({then.bits, else.bits}) <= CombinedWidth(insn.targets, w)
        /\ ~then.signed /\ ~else.signed
        /\ CheckTargetRegisters(insn.targets, inputs)

ValidateInsn(insn, w, inputs) ==
    CASE insn.op = "assign" -> ValidateAssign(insn, w, inputs)
      [] insn.op = "call" -> ValidateCall(insn, w)
      [] insn.op = "cast" -> ValidateCast(insn, w, inputs)
      [] insn.op = "div" -> ValidateDivision(insn, w)
      [] insn.op = "if_goto" -> ValidateIfGoto(insn)
      [] insn.op = "ite" -> ValidateIte(insn, w, inputs)
      [] OTHER -> TRUE
-----------------------------------------------------------------------------
(* Control flow: which registers may be undefined at each instruction.     *)

RegWidths(fn) == [r \in DOMAIN fn.regs |-> fn.regs[r].width]
RegsOf(fn, kind) == {r \in DOMAIN fn.regs : fn.regs[r].kind = kind}

(* A worklist: a stack of instructions and the registers that may be       *)
(* undefined before each.                                                  *)
NewWorklist(fn) ==
    [visited |-> {1}, stack |-> <<1>>, errors |-> {}, panic |-> FALSE,
     states |-> [pc \in DOMAIN fn.code |-> IF pc = 1 THEN DOMAIN fn.regs \ RegsOf(fn, "in") ELSE {}]]

(* Beyond the last instruction there is no state to join with.             *)
Join(wl, pc, state) ==
    IF pc \notin DOMAIN wl.states THEN [wl EXCEPT !.panic = TRUE]
    ELSE [wl EXCEPT !.states[pc] = @ \cup state, !.visited = @ \cup {pc},
                    !.stack = IF pc \in wl.visited /\ state \subseteq wl.states[pc] THEN @ ELSE Append(@, pc)]

(* A register that is read while undefined is reported once.               *)
ApplyInstructionFlow(fn, wl, pc) ==
    LET uses == MacroUses(fn.code[pc])
        undefined == uses.reads \cap wl.states[pc]
    IN  [state |-> (wl.states[pc] \ undefined) \ uses.writes,
         errors |-> {<<pc, r, "possibly undefined">> : r \in undefined}]

CheckOutputsAssigned(fn, pc, state) ==
    {<<pc, r, "output possibly undefined">> : r \in RegsOf(fn, "out") \cap state}

ApplyInstructionSemantics(fn, wl) ==
    LET pc == Last(wl.stack)
        insn == fn.code[pc]
        flow == ApplyInstructionFlow(fn, wl, pc)
        wl1 == [wl EXCEPT !.stack = Front(@), !.errors = @ \cup flow.errors]
    IN  CASE insn.op = "goto" -> Join(wl1, insn.target, flow.state)
          [] insn.op = "if_goto" -> Join(Join(wl1, insn.target, flow.state), pc + 1, flow.state)
          [] insn.op = "return" ->
                [wl1 EXCEPT !.errors = @ \cup CheckOutputsAssigned(fn, pc, flow.state)]
          [] insn.op = "fail" -> wl1
          [] OTHER -> IF pc = Len(fn.code) THEN [wl1 EXCEPT !.errors = @ \cup {<<pc, 0, "missing ret">>}]
                      ELSE Join(wl1, pc + 1, flow.state)

RECURSIVE RunWorklist(_, _)
RunWorklist(fn, wl) ==
    IF wl.stack = <<>> \/ wl.panic THEN wl ELSE RunWorklist(fn, ApplyInstructionSemantics(fn, wl))

ValidateControlFlow(fn) ==
    LET WithUnreachable(wl) ==
            [wl EXCEPT !.errors = @ \cup {<<pc, 0, "unreachable">> : pc \in DOMAIN fn.code \ wl.visited}]
    IN  WithUnreachable(RunWorklist(fn, NewWorklist(fn)))

ValidateInstructions(fn) ==
    \A pc \in DOMAIN fn.code : ValidateInsn(fn.code[pc], RegWidths(fn), RegsOf(fn, "in"))

Accepted(fn) ==
    LET Clean(wl) == wl.errors = {} /\ ~wl.panic
    IN  ValidateInstructions(fn) /\ Clean(ValidateControlFlow(fn))
-----------------------------------------------------------------------------
(* Lowering: the codes of the micro instruction at pc.                     *)

LowerAssign(insn, pc) == <<Assign(insn.targets, Polynomial(insn.source)), Jmp(pc + 1)>>

LowerCall(insn, pc) ==
    [i \in DOMAIN insn.sources |-> Assign(<<insn.bus.address[i]>>, Polynomial(insn.sources[i]))]
      \o <<InOut(insn.bus)>>
      \o [i \in DOMAIN insn.targets |->
            Assign(<<insn.targets[i]>>, Variable(insn.bus.data[Len(insn.targets) - i + 1]))]
      \o <<Jmp(pc + 1)>>

LowerCast(insn, pc) == <<Cast(insn.width, insn.targets, insn.source), Jmp(pc + 1)>>

(* Compute, then check: quot * divisor + rem is the dividend and           *)
(* rem + wit + 1 the divisor.                                              *)
LowerDivision(insn, pc) ==
    LET quot == Variable(insn.quot)
        rem == Variable(insn.rem)
    IN  <<Division(<<insn.quot>>, <<insn.rem>>, <<insn.wit>>, ToVec(insn.dividend), ToVec(insn.divisor)),
          Assign(<<insn.sum>>, PolyAdd(PolyMul(quot, Polynomial(insn.divisor)), rem)),
          Assign(<<insn.witsum>>, PolyAdd(PolyAdd(rem, Variable(insn.wit)), Const(1))),
          SkipIf(<<insn.sum>>, ToVec(insn.dividend), 2),
          SkipIf(<<insn.witsum>>, ToVec(insn.divisor), 1),
          Jmp(pc + 1),
          Fail>>

(* A constant goes to the right.                                           *)
Normalised(insn) ==
    IF IsConst(insn.left) THEN [left |-> <<insn.right.r>>, right |-> VecConst(insn.left.c)]
    ELSE [left |-> <<insn.left.r>>, right |-> ToVec(insn.right)]

(* Only equality and inequality are implemented.                           *)
LowerIfGoto(insn, pc) ==
    LET n == Normalised(insn)
    IN  IF insn.cond = "==" THEN <<SkipIf(n.left, n.right, 1), Jmp(insn.target), Jmp(pc + 1)>>
        ELSE <<SkipIf(n.left, n.right, 1), Jmp(pc + 1), Jmp(insn.target)>>

LowerIte(insn, pc) ==
    LET n == Normalised(insn)
        then == Assign(insn.targets, Polynomial(insn.then))
        else == Assign(insn.targets, Polynomial(insn.else))
    IN  IF insn.cond = "==" THEN <<SkipIf(n.left, n.right, 2), then, Jmp(pc + 1), else, Jmp(pc + 1)>>
        ELSE <<SkipIf(n.left, n.right, 2), else, Jmp(pc + 1), then, Jmp(pc + 1)>>

(* Lower panics at any other condition.                                    *)
Lowers(insn) == insn.op \in {"if_goto", "ite"} => insn.cond \in {"==", "!="}

Lower(insn, pc) ==
    CASE insn.op = "assign" -> LowerAssign(insn, pc)
      [] insn.op = "call" -> LowerCall(insn, pc)
      [] insn.op = "cast" -> LowerCast(insn, pc)
      [] insn.op = "div" -> LowerDivision(insn, pc)
      [] insn.op = "if_goto" -> LowerIfGoto(insn, pc)
      [] insn.op = "ite" -> LowerIte(insn, pc)
      [] insn.op = "goto" -> <<Jmp(insn.target)>>
      [] insn.op = "return" -> <<Ret>>
      [] insn.op = "fail" -> <<Fail>>
-----------------------------------------------------------------------------
(* Source text.                                                            *)

File(includes, ds) == [includes |-> includes, decls |-> ds]
DConst(name, value) == [kind |-> "const", name |-> name, value |-> value]
DFn(name, args, rets, body) == [kind |-> "fn", name |-> name, args |-> args, rets |-> rets, body |-> body]

Name(n) == [kind |-> "name", name |-> n]
SVar(names, width) == [st |-> "var", names |-> names, width |-> width]
SLabel(l) == [st |-> "label", label |-> l]
SGoto(l) == [st |-> "goto", label |-> l]
SIf(cond, left, right, l) == [st |-> "if", cond |-> cond, left |-> left, right |-> right, label |-> l]
SAssign(targets, source) == [st |-> "assign", targets |-> targets, source |-> source]
SCall(targets, f, args) == [st |-> "call", targets |-> targets, fn |-> f, args |-> args]
STernary(targets, cond, left, right, then, else) ==
    [st |-> "ternary", targets |-> targets, cond |-> cond, left |-> left, right |-> right, then |-> then, else |-> else]
SDiv(targets, left, right) == [st |-> "div", targets |-> targets, left |-> left, right |-> right]
SCast(targets, width, source) == [st |-> "cast", targets |-> targets, width |-> width, source |-> source]
SReturn == [st |-> "return"]
SFail == [st |-> "fail"]
=============================================================================
