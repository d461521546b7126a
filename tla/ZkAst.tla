------------------------------- MODULE ZkAst --------------------------------
(***************************************************************************)
(* What zkc means, before and after compilation: the instructions of the   *)
(* word machine and the functions made of them; then the syntax tree of    *)
(* the language and the meaning of its expressions and blocks.             *)
(*                                                                         *)
(* A compiled function is a record [nin, nout, w, code]: its registers are *)
(* the inputs, then the outputs, then the computed ones, w gives their     *)
(* widths, and code is a sequence of vectors, each a sequence of           *)
(* instructions.  An instruction has an opcode, targets, sources, a        *)
(* constant (also the width of a cast, the distance of a skip, the target  *)
(* of a jump and the callee of a call) and a condition.  A program is a    *)
(* sequence of functions.                                                  *)
(***************************************************************************)
EXTENDS Integers, Sequences, SequencesExt, FiniteSetsExt, Bitwise

CONSTANT Prime      \* modulus of the native field instructions

ASSUME PrimeAssumption == Prime \in Nat /\ Prime > 1

Insn(op, t, s, c) == [op |-> op, t |-> t, s |-> s, c |-> c, k |-> "none"]
Skip(n) == Insn("skip", <<>>, <<>>, n)
SkipIf(cond, l, r, n) == [Insn("skip_if", <<>>, <<l, r>>, n) EXCEPT !.k = cond]
Jump(pc) == Insn("jump", <<>>, <<>>, pc)
Return == Insn("return", <<>>, <<>>, 0)
Load(target, constant) == Insn("add", <<target>>, <<>>, constant)
Copy(target, source) == Insn("add", <<target>>, <<source>>, 0)

Terminators == {"jump", "return", "fail"}

Mask(width) == 2^width - 1
SumOf(xs) == FoldLeft(LAMBDA a, b : a + b, 0, xs)
BitwiseOf(op, a, b) == CASE op = "and" -> a & b [] op = "or" -> a | b [] op = "xor" -> a ^^ b

-----------------------------------------------------------------------------
(* The executor.  An instruction gives the values of its targets, or fails *)
(* with the empty sequence.                                                *)

FAILS == <<>>

(* Every intermediate product is checked, so a later zero saves nothing.   *)
MulPrefixes(c, xs) == {FoldLeft(LAMBDA a, b : a * b, c, SubSeq(xs, 1, k)) : k \in 1..Len(xs)}

IntegerResult(insn, xs, width) ==
    LET c == insn.c
        sum == c + SumOf(xs)
        difference == IF xs = <<>> THEN 0 - c ELSE Head(xs) - SumOf(Tail(xs)) - c
    IN  CASE insn.op = "add" -> IF xs /= <<>> /\ sum >= 2^width THEN FAILS ELSE <<sum>>
          [] insn.op = "sub" -> IF difference < 0 THEN FAILS ELSE <<difference>>
          [] insn.op = "mul" -> IF \E p \in MulPrefixes(c, xs) : p >= 2^width THEN FAILS
                                ELSE <<FoldLeft(LAMBDA a, b : a * b, c, xs)>>
          [] insn.op = "div" -> IF xs[2] = 0 THEN FAILS ELSE <<xs[1] \div xs[2]>>
          [] insn.op = "rem" -> IF xs[2] = 0 THEN FAILS ELSE <<xs[1] % xs[2]>>
          [] insn.op = "cast" -> IF xs[1] >= 2^c THEN FAILS ELSE <<xs[1]>>

FieldResult(insn, xs) ==
    CASE insn.op = "addmod" -> <<IF xs = <<>> THEN insn.c ELSE (insn.c + SumOf(xs)) % Prime>>
      [] insn.op = "submod" -> <<(Head(xs) - SumOf(Tail(xs)) - insn.c) % Prime>>
      [] insn.op = "mulmod" ->
            <<IF xs = <<>> THEN insn.c ELSE FoldLeft(LAMBDA a, b : a * b, insn.c, xs) % Prime>>
      [] insn.op = "castmod" -> IF xs[1] >= Prime THEN FAILS ELSE <<xs[1]>>

BitResult(insn, xs, width) ==
    CASE insn.op \in {"and", "or", "xor"} ->
            <<FoldLeft(LAMBDA a, b : BitwiseOf(insn.op, a, b), insn.c, xs)>>
      [] insn.op = "not" -> <<xs[1] ^^ Mask(width)>>
      [] insn.op = "shl" -> <<(xs[1] * 2^xs[2]) % 2^width>>
      [] insn.op = "shr" -> <<xs[1] \div 2^xs[2]>>

BitsBelow(widths, i) == SumOf(SubSeq(widths, 1, i - 1))

(* The first source is the least significant one.                          *)
ConcatResult(xs, widths, width) ==
    <<FoldLeft(LAMBDA a, i : a | ((xs[i] * 2^BitsBelow(widths, i)) % 2^width), 0, [i \in DOMAIN xs |-> i])>>
DestructResult(x, widths) ==
    [i \in DOMAIN widths |-> (x \div 2^BitsBelow(widths, i)) % 2^widths[i]]

ResultOf(insn, frame, w) ==
    LET xs == [i \in DOMAIN insn.s |-> frame[insn.s[i]]]
        width == w[insn.t[1]]
    IN  CASE insn.op \in {"add", "sub", "mul", "div", "rem", "cast"} -> IntegerResult(insn, xs, width)
          [] insn.op \in {"addmod", "submod", "mulmod", "castmod"} -> FieldResult(insn, xs)
          [] insn.op \in {"and", "or", "xor", "not", "shl", "shr"} -> BitResult(insn, xs, width)
          [] insn.op = "concat" -> ConcatResult(xs, [i \in DOMAIN insn.s |-> w[insn.s[i]]], width)
          [] insn.op = "destruct" -> DestructResult(xs[1], [i \in DOMAIN insn.t |-> w[insn.t[i]]])

(* Targets are stored in order: the last of two equal ones wins.           *)
StoreAll(frame, targets, values) ==
    [r \in DOMAIN frame |->
        IF r \in Range(targets) THEN values[Max({i \in DOMAIN targets : targets[i] = r})] ELSE frame[r]]

Holds(cond, a, b) ==
    CASE cond = "eq" -> a = b [] cond = "neq" -> a /= b [] cond = "lt" -> a < b
      [] cond = "gt" -> a > b [] cond = "lteq" -> a <= b [] cond = "gteq" -> a >= b

-----------------------------------------------------------------------------
(* Running a function.  The result is the sequence of its outputs, or      *)
(* FAILED; one that is still going after fuel instructions is UNFINISHED.  *)

FAILED == <<-1>>
UNFINISHED == <<-2>>

RECURSIVE Step(_, _, _, _, _, _)
(* The function at (pc, cc) with the given frame; both count from one.     *)
Step(prog, f, pc, cc, frame, fuel) ==
    LET vector == f.code[pc]
        insn == vector[cc]
        GoTo(n, g) == IF cc + n > Len(vector) THEN Step(prog, f, pc + 1, 1, g, fuel - 1)
                      ELSE Step(prog, f, pc, cc + n, g, fuel - 1)
        Called ==
            LET callee == prog[insn.c]
                arguments == [i \in DOMAIN callee.w |-> IF i <= Len(insn.s) THEN frame[insn.s[i]] ELSE 0]
            IN  Step(prog, callee, 1, 1, arguments, fuel - 1)
    IN  CASE fuel = 0 -> UNFINISHED
          [] fuel > 0 /\ insn.op = "return" -> SubSeq(frame, f.nin + 1, f.nin + f.nout)
          [] fuel > 0 /\ insn.op = "fail" -> FAILED
          [] fuel > 0 /\ insn.op = "jump" -> Step(prog, f, insn.c, 1, frame, fuel - 1)
          [] fuel > 0 /\ insn.op = "skip" -> GoTo(insn.c + 1, frame)
          [] fuel > 0 /\ insn.op = "skip_if" ->
                GoTo(IF Holds(insn.k, frame[insn.s[1]], frame[insn.s[2]]) THEN insn.c + 1 ELSE 1, frame)
          [] fuel > 0 /\ insn.op = "call" ->
                LET result == Called
                IN  IF result \in {FAILED, UNFINISHED} THEN result
                    ELSE GoTo(1, StoreAll(frame, insn.t, result))
          [] OTHER ->
                LET result == ResultOf(insn, frame, f.w)
                IN  IF result = FAILS THEN FAILED ELSE GoTo(1, StoreAll(frame, insn.t, result))

Run(prog, id, inputs, fuel) ==
    LET f == prog[id]
    IN  Step(prog, f, 1, 1, [i \in DOMAIN f.w |-> IF i <= f.nin THEN inputs[i] ELSE 0], fuel)
-----------------------------------------------------------------------------
(* The syntax tree of zkc functions after linking.  An expression has a    *)
(* kind, a number (a constant, a variable or a declaration), the identity  *)
(* of its node, its operands and, once typed, a type.  A statement has a   *)
(* kind, targets, expressions, blocks, the labels of its cases and a jump  *)
(* target.  Variables are numbered from one.                               *)

(* Types: integers, open when only constants gave them, field elements,    *)
(* tuples and fixed-size arrays; NOTYPE stands for none.                   *)
UnsignedInt(width, open) == [k |-> "uint", w |-> width, open |-> open, ts |-> <<>>]
FieldElement == [k |-> "field", w |-> 0, open |-> FALSE, ts |-> <<>>]
TupleType(types) == IF Len(types) = 1 THEN types[1] ELSE [k |-> "tuple", w |-> Len(types), open |-> FALSE, ts |-> types]
FixedArray(type, size) == [k |-> "fixed_array", w |-> size, open |-> FALSE, ts |-> <<type>>]
NATIVE == 0 - 1                             \* width of a field variable
NOTYPE == [k |-> "none", w |-> 0, open |-> FALSE, ts |-> <<>>]

Node(kind, v, args) == [k |-> kind, v |-> v, n |-> 0, a |-> args, i |-> 0, ty |-> NOTYPE]

(* Expressions.                                                            *)
Const(c) == Node("const", c, <<>>)
LocalAccess(id) == Node("local", id, <<>>)
ArrayAccess(id, index) == [Node("array", id, <<>>) EXCEPT !.i = index]
ExternAccess(name, args) == Node("extern", name, args)
Add(args) == Node("add", 0, args)
Sub(args) == Node("sub", 0, args)
Mul(args) == Node("mul", 0, args)
Div(args) == Node("div", 0, args)
Rem(args) == Node("rem", 0, args)
BitwiseAnd(args) == Node("and", 0, args)
BitwiseOr(args) == Node("or", 0, args)
BitwiseXor(args) == Node("xor", 0, args)
BitwiseNot(arg) == Node("not", 0, <<arg>>)
Shl(args) == Node("shl", 0, args)
Shr(args) == Node("shr", 0, args)
Concat(args) == Node("concat", 0, args)
Cast(arg, width) == Node("cast", width, <<arg>>)
Ternary(cond, ifTrue, ifFalse) == Node("ternary", 0, <<cond, ifTrue, ifFalse>>)
TupleInitialiser(args) == Node("tuple", 0, args)

(* Conditions.                                                             *)
Cmp(op, left, right) == Node(op, 0, <<left, right>>)
LogicalAnd(args) == Node("&&", 0, args)
LogicalOr(args) == Node("||", 0, args)
LogicalNot(arg) == Node("!", 0, <<arg>>)

Comparisons == {"eq", "neq", "lt", "gt", "lteq", "gteq"}
Negate(cond) ==
    LET op == CASE cond.k = "eq" -> "neq" [] cond.k = "neq" -> "eq" [] cond.k = "lt" -> "gteq"
                [] cond.k = "lteq" -> "gt" [] cond.k = "gt" -> "lteq" [] cond.k = "gteq" -> "lt"
    IN  [cond EXCEPT !.k = op]

RECURSIVE LocalUses(_)
LocalUses(e) ==
    (IF e.k \in {"local", "array"} THEN {e.v} ELSE {}) \cup UNION {LocalUses(e.a[i]) : i \in DOMAIN e.a}
RECURSIVE ExternUses(_)
ExternUses(e) ==
    (IF e.k = "extern" THEN {e.v} ELSE {}) \cup UNION {ExternUses(e.a[i]) : i \in DOMAIN e.a}

(* Targets of an assignment: variables, more than one when the value is    *)
(* split among them, an element of an array, or a cell of a memory.        *)
Variable(ids) == [l |-> "variable", ids |-> ids, a |-> <<>>, i |-> 0]
Array(id, index) == [l |-> "array", ids |-> <<id>>, a |-> <<>>, i |-> index]
MemAccess(name, args) == [l |-> "memory", ids |-> <<name>>, a |-> args, i |-> 0]
LocalDefs(lval) == IF lval.l = "memory" THEN {} ELSE Range(lval.ids)

(* Statements.                                                             *)
Statement(kind, targets, exprs, blocks, labels, jump) ==
    [s |-> kind, t |-> targets, e |-> exprs, b |-> blocks, c |-> labels, j |-> jump]
Assign(targets, source) == Statement("assign", targets, <<source>>, <<>>, <<>>, 0)
VarDecl(id, init) == Statement("vardecl", <<Variable(<<id>>)>>, init, <<>>, <<>>, 0)
IfElse(cond, trueBranch, falseBranch) == Statement("if", <<>>, <<cond>>, <<trueBranch, falseBranch>>, <<>>, 0)
(* A branch without labels is the default one.                             *)
Switch(discriminant, labels, bodies) == Statement("switch", <<>>, <<discriminant>>, bodies, labels, 0)
While(cond, body) == Statement("while", <<>>, <<cond>>, <<body>>, <<>>, 0)
For(init, cond, post, body) == Statement("for", <<>>, <<cond>>, <<<<init>>, body, <<post>>>>, <<>>, 0)
Break == Statement("break", <<>>, <<>>, <<>>, <<>>, 0)
Continue == Statement("continue", <<>>, <<>>, <<>>, <<>>, 0)
Returns == Statement("return", <<>>, <<>>, <<>>, <<>>, 0)
Fail(args) == Statement("fail", <<>>, args, <<>>, <<>>, 0)
Printf(args) == Statement("printf", <<>>, args, <<>>, <<>>, 0)
Goto(target) == Statement("goto", <<>>, <<>>, <<>>, <<>>, target)
IfGoto(cond, target) == Statement("ifgoto", <<>>, <<cond>>, <<>>, <<>>, target)

(* The variables read and written by a flat statement; what the address of *)
(* a target reads is not among the uses.                                   *)
Uses(stmt) == UNION {LocalUses(stmt.e[i]) : i \in DOMAIN stmt.e}
Definitions(stmt) == UNION {LocalDefs(stmt.t[i]) : i \in DOMAIN stmt.t}
-----------------------------------------------------------------------------
(* What expressions and blocks of zkc mean, whatever they are compiled to. *)
(* A store gives every variable the sequence of its elements, one for a    *)
(* scalar.                                                                 *)

CONSTANT External(_, _)     \* what a declaration gives for its arguments

Compare(op, a, b) ==
    CASE op = "eq" -> a = b [] op = "neq" -> a /= b [] op = "lt" -> a < b
      [] op = "gt" -> a > b [] op = "lteq" -> a <= b [] op = "gteq" -> a >= b

STUCK == <<>>
(* A field element, or a value that must fit its type.                     *)
Within(v, type) ==
    IF type.k = "field" THEN <<v % Prime>> ELSE IF v < 0 \/ v >= 2^type.w THEN STUCK ELSE <<v>>

RECURSIVE Meaning(_, _)
(* The value of a typed expression, or STUCK; all operands are evaluated.  *)
Meaning(e, store) ==
    LET width == e.ty.w
        subs == IF e.k = "ternary" THEN <<e.a[2], e.a[3]>> \o e.a[1].a ELSE e.a
        vs == [i \in DOMAIN subs |-> Meaning(subs[i], store)]
        x == [i \in DOMAIN vs |-> vs[i][1]]
        rest == Tail(x)
        Sum(xs) == FoldLeft(LAMBDA a, b : a + b, 0, xs)
    IN  CASE \E i \in DOMAIN vs : vs[i] = STUCK -> STUCK
          [] e.k = "const" -> <<e.v>>
          [] e.k = "local" -> <<store[e.v][1]>>
          [] e.k = "array" -> <<store[e.v][e.i]>>
          [] e.k = "add" -> Within(Sum(x), e.ty)
          [] e.k = "sub" -> Within(x[1] - Sum(rest), e.ty)
          [] e.k = "mul" -> Within(FoldLeft(LAMBDA a, b : a * b, 1, x), e.ty)
          [] e.k = "div" -> IF 0 \in Range(rest) THEN STUCK ELSE <<FoldLeft(LAMBDA a, b : a \div b, x[1], rest)>>
          [] e.k = "rem" -> IF 0 \in Range(rest) THEN STUCK ELSE <<FoldLeft(LAMBDA a, b : a % b, x[1], rest)>>
          [] e.k = "and" -> <<FoldLeft(LAMBDA a, b : a & b, x[1], rest)>>
          [] e.k = "or" -> <<FoldLeft(LAMBDA a, b : a | b, x[1], rest)>>
          [] e.k = "xor" -> <<FoldLeft(LAMBDA a, b : a ^^ b, x[1], rest)>>
          [] e.k = "not" -> <<2^width - 1 - x[1]>>
          [] e.k = "shl" -> <<FoldLeft(LAMBDA a, b : (a * 2^b) % 2^width, x[1], rest)>>
          [] e.k = "shr" -> <<FoldLeft(LAMBDA a, b : a \div 2^b, x[1], rest)>>
          [] e.k = "concat" -> <<FoldLeft(LAMBDA a, i : a * 2^e.a[i].ty.w + x[i], 0, [i \in DOMAIN x |-> i])>>
          [] e.k = "cast" -> Within(x[1], UnsignedInt(e.v, FALSE))
          [] e.k = "extern" -> External(e.v, x)
          [] e.k = "ternary" -> <<IF Compare(e.a[1].k, x[3], x[4]) THEN x[1] ELSE x[2]>>

RECURSIVE Truth(_, _)
Truth(cond, store) ==
    CASE cond.k = "&&" -> \A i \in DOMAIN cond.a : Truth(cond.a[i], store)
      [] cond.k = "||" -> \E i \in DOMAIN cond.a : Truth(cond.a[i], store)
      [] cond.k = "!" -> ~Truth(cond.a[1], store)
      [] OTHER -> Compare(cond.k, Meaning(cond.a[1], store)[1], Meaning(cond.a[2], store)[1])

(* The outcome of a block is how it was left and the store; fuel bounds    *)
(* the iterations of all loops together.                                   *)
Outcome(how, store, fuel) == [how |-> how, store |-> store, fuel |-> fuel]
Updated(store, lval, values) ==
    [id \in DOMAIN store |->
        IF id /= lval.ids[1] THEN store[id]
        ELSE IF lval.l = "array" THEN [k \in DOMAIN store[id] |-> IF k = lval.i THEN values[1] ELSE store[id][k]]
        ELSE values]

(* An assignment of an expression, with any condition in a ternary, or of  *)
(* a whole array.                                                          *)
RECURSIVE Assigned(_, _)
Assigned(e, store) ==
    IF e.k = "ternary" THEN (IF Truth(e.a[1], store) THEN Assigned(e.a[2], store) ELSE Assigned(e.a[3], store))
    ELSE IF e.k = "local" THEN store[e.v] ELSE Meaning(e, store)

RECURSIVE Exec(_, _, _)
RECURSIVE Loop(_, _, _, _, _)
Loop(cond, block, post, store, fuel) ==
    IF ~Truth(cond, store) THEN Outcome("next", store, fuel)
    ELSE IF fuel = 0 THEN Outcome("unfinished", store, 0)
    ELSE LET once == Exec(block, store, fuel - 1)
             stepped == Exec(post, once.store, once.fuel)
         IN  CASE once.how = "break" -> [once EXCEPT !.how = "next"]
               [] once.how \in {"next", "continue"} ->
                     IF stepped.how = "next" THEN Loop(cond, block, post, stepped.store, stepped.fuel) ELSE stepped
               [] OTHER -> once
ExecOne(s, store, fuel) ==
    CASE s.s \in {"assign", "vardecl"} ->
            IF s.e = <<>> THEN Outcome("next", store, fuel)
            ELSE LET With(v) == IF v = STUCK THEN Outcome("fail", store, fuel)
                                ELSE Outcome("next", Updated(store, s.t[1], v), fuel)
                 IN  With(Assigned(s.e[1], store))
      [] s.s = "if" -> Exec(IF Truth(s.e[1], store) THEN s.b[1] ELSE s.b[2], store, fuel)
      [] s.s = "switch" ->
            LET hit == {k \in DOMAIN s.c : \E i \in DOMAIN s.c[k] : Meaning(s.e[1], store)[1] = s.c[k][i].v}
                default == {k \in DOMAIN s.c : s.c[k] = <<>>}
            IN  IF hit /= {} THEN Exec(s.b[Min(hit)], store, fuel)
                ELSE IF default /= {} THEN Exec(s.b[Min(default)], store, fuel)
                ELSE Outcome("next", store, fuel)
      [] s.s = "while" -> Loop(s.e[1], s.b[1], <<>>, store, fuel)
      [] s.s = "for" -> LET init == Exec(s.b[1], store, fuel)
                        IN  IF init.how /= "next" THEN init ELSE Loop(s.e[1], s.b[2], s.b[3], init.store, init.fuel)
      [] OTHER -> Outcome(s.s, store, fuel)
Exec(stmts, store, fuel) ==
    IF stmts = <<>> THEN Outcome("next", store, fuel)
    ELSE LET After(first) == IF first.how = "next" THEN Exec(Tail(stmts), first.store, first.fuel) ELSE first
         IN  After(ExecOne(stmts[1], store, fuel))
=============================================================================
