------------------------------ MODULE Codegen -------------------------------
(***************************************************************************)
(* The passes of the zkc compiler from blocks to vectors                   *)
(* (pkg/zkc/compiler): block statements become gotos, arrays of fixed size *)
(* become scalars, expressions are given types, and every flat statement   *)
(* becomes a vector of instructions.                                       *)
(*                                                                         *)
(* Statements are numbered from one; labels that are not patched yet are   *)
(* negative.  A lowering pass gives the code and the next label.           *)
(***************************************************************************)
EXTENDS ZkAst

-----------------------------------------------------------------------------
(* Expressions: conditions of ternaries become single comparisons.         *)

RECURSIVE LowerTernaryCondition(_, _, _)
LowerTernaryCondition(cond, ifTrue, ifFalse) ==
    LET rest == IF Len(cond.a) = 2 THEN cond.a[2] ELSE [cond EXCEPT !.a = Tail(cond.a)]
    IN  CASE cond.k \in Comparisons -> Ternary(cond, ifTrue, ifFalse)
          [] cond.k = "!" -> LowerTernaryCondition(cond.a[1], ifFalse, ifTrue)
          [] cond.k = "&&" ->
                LowerTernaryCondition(cond.a[1], LowerTernaryCondition(rest, ifTrue, ifFalse), ifFalse)
          [] cond.k = "||" ->
                LowerTernaryCondition(cond.a[1], ifTrue, LowerTernaryCondition(rest, ifTrue, ifFalse))

RECURSIVE LowerExpr(_)
(* Constants, accesses and tuples are left alone.                          *)
LowerExpr(e) ==
    IF e.k \in {"const", "local", "array", "tuple"} THEN e
    ELSE LET args == [i \in DOMAIN e.a |-> LowerExpr(e.a[i])]
         IN  IF e.k = "ternary" THEN LowerTernaryCondition(args[1], args[2], args[3])
             ELSE [Node(e.k, e.v, args) EXCEPT !.i = e.i, !.ty = e.ty]

(* Code followed by code that was made with the next label of the first.   *)
Then(first, rest) == [code |-> first.code \o rest.code, next |-> rest.next]

-----------------------------------------------------------------------------
(* Conditions: control reaches the target when the condition has the sign, *)
(* and falls through otherwise.                                            *)

PatchBranches(label, code, target) ==
    [i \in DOMAIN code |->
        IF code[i].s \in {"goto", "ifgoto"} /\ code[i].j = label THEN [code[i] EXCEPT !.j = target] ELSE code[i]]

RECURSIVE FlattenCondition(_, _, _, _, _)
RECURSIVE FlattenAll(_, _, _, _, _)
(* One after the other (flatternLogicalOr).                                *)
FlattenAll(args, pc, sign, target, next) ==
    IF args = <<>> THEN [code |-> <<>>, next |-> next]
    ELSE LET After(first) ==
                 Then(first, FlattenAll(Tail(args), pc + Len(first.code), sign, target, first.next))
         IN  After(FlattenCondition(args[1], pc, sign, target, next))

(* Any argument without the sign leaves for the end.                       *)
FlattenLogicalAnd(args, pc, sign, target, next) ==
    LET Ended(tests) ==
            [code |-> PatchBranches(next, Append(tests.code, Goto(target)), pc + Len(tests.code) + 1),
             next |-> tests.next]
    IN  Ended(FlattenAll(args, pc, ~sign, next, next - 1))

FlattenCondition(cond, pc, sign, target, next) ==
    CASE cond.k \in Comparisons -> [code |-> <<IfGoto(IF sign THEN cond ELSE Negate(cond), target)>>, next |-> next]
      [] cond.k = "!" -> FlattenCondition(cond.a[1], pc, ~sign, target, next)
      [] (cond.k = "&&") = sign -> FlattenLogicalAnd(cond.a, pc, sign, target, next)
      [] OTHER -> FlattenAll(cond.a, pc, sign, target, next)

-----------------------------------------------------------------------------
(* Statements.  brk and cont are the labels of the innermost loop.         *)

RECURSIVE BranchTerminates(_)
BranchTerminates(stmts) ==
    /\ stmts /= <<>>
    /\ LET last == Last(stmts)
       IN  \/ last.s \in {"break", "continue", "return", "fail", "goto"}
           \/ last.s = "if" /\ last.b[2] /= <<>> /\ BranchTerminates(last.b[1]) /\ BranchTerminates(last.b[2])

LogicalOrOfCases(discriminant, labels) ==
    LogicalOr([i \in DOMAIN labels |-> Cmp("eq", discriminant, labels[i])])

(* The nested conditionals of the branches k, k + 1, ..; the default       *)
(* branch, wherever it stands, is the innermost alternative.               *)
RECURSIVE EquivalentIfElse(_, _)
EquivalentIfElse(s, branches) ==
    LET default == SelectSeq([k \in DOMAIN s.b |-> k], LAMBDA k : s.c[k] = <<>>)
        k == branches[1]
        otherwise == IF Len(branches) > 1 THEN <<EquivalentIfElse(s, Tail(branches))>>
                     ELSE IF default = <<>> THEN <<>> ELSE s.b[default[1]]
    IN  IfElse(LogicalOrOfCases(s.e[1], s.c[k]), s.b[k], otherwise)

RECURSIVE LowerStatements(_, _, _)
RECURSIVE LowerStatement(_, _, _)

LowerIfElse(pc, s, env) ==
    LET bypassed == s.b[2] /= <<>> /\ ~BranchTerminates(s.b[1])
        Joined(taken, falseTarget, whenFalse) ==
            LET bypass == IF bypassed THEN <<Goto(falseTarget + Len(whenFalse.code))>> ELSE <<>>
            IN  [code |-> PatchBranches(env.next, taken.code \o bypass \o whenFalse.code, falseTarget),
                 next |-> whenFalse.next]
        Otherwise(taken, falseTarget) ==
            Joined(taken, falseTarget, LowerStatements(falseTarget, s.b[2], [env EXCEPT !.next = taken.next]))
        Taken(taken) == Otherwise(taken, pc + Len(taken.code) + (IF bypassed THEN 1 ELSE 0))
        After(cond) ==
            Taken(Then(cond, LowerStatements(pc + Len(cond.code), s.b[1], [env EXCEPT !.next = cond.next])))
    IN  After(FlattenCondition(s.e[1], pc, FALSE, env.next, env.next - 1))

(* A switch with a default branch alone is replaced by the body itself,    *)
(* which is not lowered.                                                   *)
LowerSwitch(pc, s, env) ==
    LET cases == SelectSeq([k \in DOMAIN s.b |-> k], LAMBDA k : s.c[k] /= <<>>)
    IN  IF Len(s.b) - Len(cases) > 1 \/ s.b = <<>> THEN [code |-> <<>>, next |-> env.next]
        ELSE IF cases = <<>> THEN [code |-> s.b[1], next |-> env.next]
        ELSE LowerIfElse(pc, EquivalentIfElse(s, cases), env)

(* A loop whose condition stands at pc; a while loop has no step.          *)
LowerLoop(pc, cond, body, post, env) ==
    LET brk == env.next
        cont == env.next - 1
        leave == env.next - 2
        Closed(all, postPC) ==
            LET code == Append(all.code, Goto(pc))
                exit == pc + Len(code)
                again == IF post = <<>> THEN pc ELSE postPC
            IN  [code |-> PatchBranches(cont, PatchBranches(brk, PatchBranches(leave, code, exit), exit), again),
                 next |-> all.next]
        Stepped(once) ==
            Closed(Then(once, LowerStatements(pc + Len(once.code), post, [env EXCEPT !.next = once.next])),
                   pc + Len(once.code))
        After(test) ==
            Stepped(Then(test, LowerStatements(pc + Len(test.code), body,
                                               [next |-> test.next, brk |-> brk, cont |-> cont])))
    IN  After(FlattenCondition(cond, pc, FALSE, leave, env.next - 3))

LowerFor(pc, s, env) ==
    LET After(init) ==
            Then(init, LowerLoop(pc + Len(init.code), s.e[1], s.b[2], s.b[3], [env EXCEPT !.next = init.next]))
    IN  After(LowerStatements(pc, s.b[1], env))

(* Sources of assignments and arguments of printf are lowered, those of    *)
(* fail and the addresses of targets are not.                              *)
LowerStatementExprs(s) ==
    IF s.s \in {"assign", "printf"} THEN [s EXCEPT !.e = [i \in DOMAIN s.e |-> LowerExpr(s.e[i])]] ELSE s

LowerStatement(pc, s, env) ==
    LET Just(stmt) == [code |-> <<stmt>>, next |-> env.next]
    IN  CASE s.s = "if" -> LowerIfElse(pc, s, env)
          [] s.s = "switch" -> LowerSwitch(pc, s, env)
          [] s.s = "while" -> LowerLoop(pc, s.e[1], s.b[1], <<>>, env)
          [] s.s = "for" -> LowerFor(pc, s, env)
          [] s.s = "break" -> Just(Goto(env.brk))
          [] s.s = "continue" -> Just(Goto(env.cont))
          [] s.s = "vardecl" -> IF s.e = <<>> THEN [code |-> <<>>, next |-> env.next]
                                ELSE Just(Assign(s.t, LowerExpr(s.e[1])))
          [] OTHER -> Just(LowerStatementExprs(s))

(* A faulty sequence: what follows a loop has the labels of that loop.     *)
LowerStatementsLeaky(pc, stmts, env) ==
    IF stmts = <<>> THEN [code |-> <<>>, next |-> env.next]
    ELSE LET inner == IF stmts[1].s \in {"while", "for"} THEN [env EXCEPT !.brk = env.next, !.cont = env.next - 1] ELSE env
             After(first) ==
                 Then(first, LowerStatements(pc + Len(first.code), Tail(stmts), [inner EXCEPT !.next = first.next]))
         IN  After(LowerStatement(pc, stmts[1], env))

(* Only the body of a loop has its labels.                                 *)
LowerStatements(pc, stmts, env) ==
    IF stmts = <<>> THEN [code |-> <<>>, next |-> env.next]
    ELSE LET After(first) ==
                 Then(first, LowerStatements(pc + Len(first.code), Tail(stmts), [env EXCEPT !.next = first.next]))
         IN  After(LowerStatement(pc, stmts[1], env))

(* A function is [nin, nout, size, w, code]: the size of a scalar is zero. *)
FlattenFunction(f) == [f EXCEPT !.code = LowerStatements(1, f.code, [next |-> -1, brk |-> 0, cont |-> 0]).code]
-----------------------------------------------------------------------------
(* Variables of array type become one scalar per element.  The pass works  *)
(* in place on code whose gotos have their targets, and on a tree in which *)
(* lowering may have used a node more than once.                           *)

IsArray(f, id) == f.size[id] > 0
Scalars(f, id) == IF IsArray(f, id) THEN f.size[id] ELSE 1
NewBase(f, id) == 1 + FoldLeft(LAMBDA n, i : n + Scalars(f, i), 0, [i \in 1..(id - 1) |-> i])

ExpandVariables(f) ==
    FoldLeft(LAMBDA ws, id : ws \o [i \in 1..Scalars(f, id) |-> f.w[id]], <<>>, [i \in DOMAIN f.w |-> i])
CountVars(f, ids) == FoldLeft(LAMBDA n, id : n + Scalars(f, id), 0, ids)

RECURSIVE ExpandArrayArgs(_, _)
(* A whole array as an argument of a call becomes its elements.            *)
ExpandArrayArgs(f, e) ==
    LET Elements(arg) ==
            IF arg.k = "local" /\ IsArray(f, arg.v) THEN [i \in 1..f.size[arg.v] |-> ArrayAccess(arg.v, i)]
            ELSE <<ExpandArrayArgs(f, arg)>>
        args == IF e.k = "extern" THEN FlattenSeq([i \in DOMAIN e.a |-> Elements(e.a[i])])
                ELSE [i \in DOMAIN e.a |-> ExpandArrayArgs(f, e.a[i])]
    IN  [Node(e.k, e.v, args) EXCEPT !.i = e.i, !.n = e.n, !.ty = e.ty]

IsWholeArrayAssign(f, s) ==
    /\ s.s = "assign" /\ Len(s.t) = 1
    /\ s.t[1].l = "variable" /\ Len(s.t[1].ids) = 1 /\ s.e[1].k = "local"
    /\ IsArray(f, s.t[1].ids[1]) /\ f.size[s.t[1].ids[1]] = f.size[s.e[1].v]
ExpandWholeArrayAssign(f, s) ==
    [i \in 1..f.size[s.e[1].v] |-> Assign(<<Array(s.t[1].ids[1], i)>>, ArrayAccess(s.e[1].v, i))]

(* Statements are put in front of later ones; no goto is adjusted.         *)
ExpandStatement(f, s) ==
    IF IsWholeArrayAssign(f, s) THEN ExpandWholeArrayAssign(f, s)
    ELSE IF s.s \in {"assign", "ifgoto", "printf"}
         THEN <<[s EXCEPT !.e = [i \in DOMAIN s.e |-> ExpandArrayArgs(f, s.e[i])]]>>
         ELSE <<s>>
ExpandFixedArrays(f, code) == FlattenSeq([pc \in DOMAIN code |-> ExpandStatement(f, code[pc])])

(* How often the pass comes across a node: a node without an identity is   *)
(* found once.                                                             *)
RECURSIVE Occurrences(_, _)
Occurrences(e, n) ==
    (IF e.n = n THEN 1 ELSE 0) + FoldLeft(LAMBDA t, arg : t + Occurrences(arg, n), 0, e.a)
Visits(code, n) ==
    IF n = 0 THEN 1
    ELSE FoldLeft(LAMBDA t, s : IF s.s = "fail" THEN t ELSE t + FoldLeft(LAMBDA u, e : u + Occurrences(e, n), 0, s.e),
                  0, code)

RECURSIVE Remap(_, _, _)
(* e.Variable = mapping[e.Variable].newBase, once per visit; zero when the *)
(* mapping is left.                                                        *)
Remap(f, id, visits) ==
    IF visits = 0 THEN id
    ELSE IF id \notin DOMAIN f.w THEN 0 ELSE Remap(f, NewBase(f, id), visits - 1)

(* The pass knows no tuples, and no array as a target that is not assigned *)
(* from another: it panics at them.                                        *)
RECURSIVE RewriteExpr(_, _, _)
RewriteExpr(f, code, e) ==
    CASE e.k = "tuple" -> Node("panic", 0, <<>>)
      [] e.k = "local" -> [e EXCEPT !.v = Remap(f, e.v, Visits(code, e.n))]
      [] e.k = "array" -> [LocalAccess(NewBase(f, e.v) + e.i - 1) EXCEPT !.ty = e.ty]
      [] OTHER -> LET args == [i \in DOMAIN e.a |-> RewriteExpr(f, code, e.a[i])]
                  IN  [Node(e.k, e.v, args) EXCEPT !.ty = e.ty]

RewriteLVal(f, lval) ==
    CASE lval.l = "variable" /\ \E id \in Range(lval.ids) : IsArray(f, id) -> [lval EXCEPT !.l = "panic"]
      [] lval.l = "variable" /\ \A id \in Range(lval.ids) : ~IsArray(f, id) -> [lval EXCEPT !.ids = [i \in DOMAIN lval.ids |-> NewBase(f, lval.ids[i])]]
      [] lval.l = "array" -> Variable(<<NewBase(f, lval.ids[1]) + lval.i - 1>>)
      [] OTHER -> lval

(* Return, goto and fail are left as they are.                             *)
RewriteStatement(f, code, s) ==
    IF s.s \notin {"assign", "ifgoto", "printf"} THEN s
    ELSE [s EXCEPT !.t = [i \in DOMAIN s.t |-> RewriteLVal(f, s.t[i])],
                   !.e = [i \in DOMAIN s.e |-> RewriteExpr(f, code, s.e[i])]]

RECURSIVE ExprPanics(_)
ExprPanics(e) == e.k = "panic" \/ \E i \in DOMAIN e.a : ExprPanics(e.a[i])
RewritePanics(code) ==
    \E pc \in DOMAIN code : \/ \E i \in DOMAIN code[pc].t : code[pc].t[i].l = "panic"
                            \/ \E i \in DOMAIN code[pc].e : ExprPanics(code[pc].e[i])

FlattenFixedArrays(f) ==
    IF \A id \in DOMAIN f.w : ~IsArray(f, id) THEN f
    ELSE LET code == ExpandFixedArrays(f, f.code)
         IN  [nin |-> CountVars(f, [i \in 1..f.nin |-> i]),
              nout |-> CountVars(f, [i \in 1..f.nout |-> f.nin + i]),
              w |-> ExpandVariables(f),
              size |-> [i \in DOMAIN ExpandVariables(f) |-> 0],
              code |-> [pc \in DOMAIN code |-> RewriteStatement(f, code, code[pc])]]
-----------------------------------------------------------------------------
(* The types of expressions.  Typing gives the expression with its types,  *)
(* its own type and whether an error was reported.  Declarations are       *)
(* constants [d, ty, value], and functions [d, args, outs].                *)

RECURSIVE EquiTypes(_, _)
EquiTypes(t1, t2) ==
    CASE t1.k /= t2.k -> FALSE
      [] t1.k = "uint" /\ t2.k = "uint" ->
            \/ t1.w = t2.w
            \/ t1.open /\ t1.w <= t2.w
            \/ t2.open /\ t2.w <= t1.w
      [] OTHER -> t1.w = t2.w /\ \A i \in DOMAIN t1.ts : EquiTypes(t1.ts[i], t2.ts[i])
RECURSIVE SubtypeOf(_, _)
SubtypeOf(t1, t2) ==
    CASE t1.k \in {"uint", "field"} /\ t2.k \in {"uint", "field"} -> t1.k = "field" \/ t2.k = "field" \/ t1.w <= t2.w
      [] OTHER -> t1.k = t2.k /\ t1.w = t2.w /\ \A i \in DOMAIN t1.ts : SubtypeOf(t1.ts[i], t2.ts[i])

RECURSIVE WellFormed(_)
WellFormed(t) == t /= NOTYPE /\ \A i \in DOMAIN t.ts : WellFormed(t.ts[i])
Mismatch(t1, t2) == WellFormed(t1) /\ WellFormed(t2) /\ ~EquiTypes(t1, t2)

Join(t1, t2) ==
    CASE t1.open /\ t2.open -> UnsignedInt(Max({t1.w, t2.w}), TRUE)
      [] t1.open /\ ~t2.open -> t2
      [] OTHER -> t1

BitLen(c) == Min({n \in 0..c : c < 2^n})

(* The first type that is more than a guess from a constant.               *)
Anchor(types) ==
    LET firm == {i \in DOMAIN types : WellFormed(types[i]) /\ ~(types[i].k = "uint" /\ types[i].open)}
    IN  IF firm = {} THEN NOTYPE ELSE types[Min(firm)]

Typed(e, type, errs) == [e |-> [e EXCEPT !.ty = type], ty |-> type, errs |-> errs]
WithArgs(e, rs) == [e EXCEPT !.a = [i \in DOMAIN rs |-> rs[i].e]]
AnyError(rs) == \E i \in DOMAIN rs : rs[i].errs

RECURSIVE TypeExpression(_, _, _, _)

TypeAll(expected, es, vars, decls) == [i \in DOMAIN es |-> TypeExpression(expected, es[i], vars, decls)]

(* The type of integer operands and whether one does not fit the others;   *)
(* operands that failed, or have no type, are passed over.                 *)
JoinOperands(rs) ==
    LET fine == {i \in DOMAIN rs : ~rs[i].errs /\ WellFormed(rs[i].ty)}
        Next(acc, i) ==
            IF i = 1 THEN (IF i \notin fine THEN acc
                           ELSE IF rs[i].ty.k = "uint" THEN [ty |-> rs[i].ty, bad |-> FALSE]
                           ELSE [ty |-> NOTYPE, bad |-> TRUE])
            ELSE IF i \notin fine \/ acc.ty = NOTYPE THEN acc
            ELSE IF ~EquiTypes(rs[i].ty, acc.ty) THEN [acc EXCEPT !.bad = TRUE]
            ELSE [acc EXCEPT !.ty = Join(acc.ty, rs[i].ty)]
    IN  FoldLeft(Next, [ty |-> NOTYPE, bad |-> FALSE], [i \in DOMAIN rs |-> i])

(* The type an operation gets from its typed operands, one operator each.  *)
UintOf(e, rs) ==
    LET Over(joined) == Typed(WithArgs(e, rs), joined.ty, joined.bad \/ AnyError(rs)) IN Over(JoinOperands(rs))
FieldOf(e, fs, anchor) ==
    Typed(WithArgs(e, fs), anchor, AnyError(fs) \/ \E i \in DOMAIN fs : Mismatch(fs[i].ty, anchor))
ConcatOf(e, rs) ==
    LET badly == \E i \in DOMAIN rs : WellFormed(rs[i].ty) /\ (rs[i].ty.k /= "uint" \/ rs[i].ty.open)
        untypeable == \E i \in DOMAIN rs : ~rs[i].errs /\ ~WellFormed(rs[i].ty)
        width == FoldLeft(LAMBDA n, r : n + r.ty.w, 0, rs)
    IN  Typed(WithArgs(e, rs), IF badly \/ untypeable THEN NOTYPE ELSE UnsignedInt(width, FALSE),
              badly \/ AnyError(rs))
CastOf(e, r, type) ==
    Typed(WithArgs(e, <<r>>), type,
          \/ r.errs
          \/ WellFormed(r.ty) /\ ~SubtypeOf(type, r.ty) /\ ~SubtypeOf(r.ty, type))
NotInteger(r) == ~r.errs /\ WellFormed(r.ty) /\ r.ty.k /= "uint"
(* The amounts are typed on their own; what they are does not matter.      *)
ShiftOf(e, first, amounts) ==
    Typed(WithArgs(e, <<first>> \o amounts), IF NotInteger(first) THEN NOTYPE ELSE first.ty,
          NotInteger(first) \/ first.errs \/ AnyError(amounts) \/ JoinOperands(amounts).bad)
BitwiseNotOf(e, r) ==
    Typed(WithArgs(e, <<r>>), IF NotInteger(r) \/ r.errs THEN NOTYPE ELSE r.ty, NotInteger(r) \/ r.errs)
CallOf(e, rs, d) ==
    Typed(WithArgs(e, rs), TupleType(d.outs), AnyError(rs) \/ \E i \in DOMAIN rs : Mismatch(rs[i].ty, d.args[i]))
ComparisonOf(cond, rs, kind) ==
    LET Strange(r) == ~r.errs /\ WellFormed(r.ty) /\ r.ty.k /= kind
    IN  [e |-> WithArgs(cond, rs), ty |-> NOTYPE,
         errs |-> AnyError(rs) \/ (\E i \in 1..2 : Strange(rs[i])) \/ Mismatch(rs[2].ty, rs[1].ty)]
TernaryOf(e, cond, whenTrue, whenFalse) ==
    LET errs == cond.errs \/ whenTrue.errs \/ whenFalse.errs \/ Mismatch(whenFalse.ty, whenTrue.ty)
        type == CASE ~WellFormed(whenTrue.ty) \/ ~WellFormed(whenFalse.ty) -> NOTYPE
                  [] errs \/ whenTrue.ty.k /= "uint" -> whenTrue.ty
                  [] OTHER -> Join(whenTrue.ty, whenFalse.ty)
    IN  Typed(WithArgs(e, <<cond, whenTrue, whenFalse>>), type, errs)
InitialiserOf(e, rs) == Typed(WithArgs(e, rs), TupleType([i \in DOMAIN rs |-> rs[i].ty]), AnyError(rs))

TypeUintExpressions(expected, e, vars, decls) == UintOf(e, TypeAll(expected, e.a, vars, decls))

TypeUintOrFieldExpression(expected, e, vars, decls) ==
    LET Anchored(rs, anchor) ==
            CASE anchor.k = "uint" -> TypeUintExpressions(anchor, e, vars, decls)
              [] anchor.k = "none" -> Typed(WithArgs(e, rs), NOTYPE, AnyError(rs))
              [] OTHER -> FieldOf(e, TypeAll(FieldElement, e.a, vars, decls), anchor)
        First(rs) == Anchored(rs, Anchor([i \in DOMAIN rs |-> rs[i].ty]))
    IN  First(TypeAll(expected, e.a, vars, decls))

TypeConcatExpression(expected, e, vars, decls) == ConcatOf(e, TypeAll(expected, e.a, vars, decls))

TypeCastExpression(e, vars, decls) ==
    CastOf(e, TypeExpression(NOTYPE, e.a[1], vars, decls), UnsignedInt(e.v, FALSE))

TypeShiftExpression(expected, e, vars, decls) ==
    ShiftOf(e, TypeExpression(expected, e.a[1], vars, decls), TypeAll(NOTYPE, Tail(e.a), vars, decls))

TypeBitwiseNot(expected, e, vars, decls) == BitwiseNotOf(e, TypeExpression(expected, e.a[1], vars, decls))

TypeConst(expected, e) ==
    LET actual == UnsignedInt(BitLen(e.v), TRUE)
    IN  CASE expected = NOTYPE -> Typed(e, actual, FALSE)
          [] expected.k = "field" -> Typed(e, expected, FALSE)
          [] OTHER -> Typed(e, expected, Mismatch(actual, expected))

TypeExternAccess(e, vars, decls) ==
    LET d == decls[e.v]
    IN  CASE d.d = "const" -> Typed(e, d.ty, FALSE)
          [] Len(e.a) /= Len(d.args) -> Typed(e, NOTYPE, TRUE)
          [] OTHER -> CallOf(e, [i \in DOMAIN e.a |-> TypeExpression(d.args[i], e.a[i], vars, decls)], d)

(* Comparisons of field elements are equalities; constants then are field  *)
(* elements too.  Any other comparison is one of integers.                 *)
TypeComparison(cond, vars, decls) ==
    LET Both(left, right) ==
            IF Anchor(<<left.ty, right.ty>>).k = "field" /\ cond.k \in {"eq", "neq"}
            THEN ComparisonOf(cond, TypeAll(FieldElement, cond.a, vars, decls), "field")
            ELSE ComparisonOf(cond, <<left, right>>, "uint")
        After(left) == Both(left, TypeExpression(left.ty, cond.a[2], vars, decls))
    IN  After(TypeExpression(NOTYPE, cond.a[1], vars, decls))

TypeTernaryExpr(expected, e, vars, decls) ==
    TernaryOf(e, TypeComparison(e.a[1], vars, decls), TypeExpression(expected, e.a[2], vars, decls),
              TypeExpression(expected, e.a[3], vars, decls))

TypeTupleExpr(expected, e, vars, decls) ==
    LET Expected(i) == IF expected.k = "tuple" /\ i \in DOMAIN expected.ts THEN expected.ts[i] ELSE NOTYPE
    IN  InitialiserOf(e, [i \in DOMAIN e.a |-> TypeExpression(Expected(i), e.a[i], vars, decls)])

TypeExpression(expected, e, vars, decls) ==
    CASE e.k = "const" -> TypeConst(expected, e)
      [] e.k = "local" -> Typed(e, vars[e.v], FALSE)
      [] e.k = "array" -> Typed(e, vars[e.v].ts[1], e.i > vars[e.v].w)
      [] e.k \in {"add", "sub", "mul"} -> TypeUintOrFieldExpression(expected, e, vars, decls)
      [] e.k \in {"div", "rem", "and", "or", "xor"} -> TypeUintExpressions(expected, e, vars, decls)
      [] e.k \in {"shl", "shr"} -> TypeShiftExpression(expected, e, vars, decls)
      [] e.k = "not" -> TypeBitwiseNot(expected, e, vars, decls)
      [] e.k = "concat" -> TypeConcatExpression(expected, e, vars, decls)
      [] e.k = "cast" -> TypeCastExpression(e, vars, decls)
      [] e.k = "extern" -> TypeExternAccess(e, vars, decls)
      [] e.k = "ternary" -> TypeTernaryExpr(expected, e, vars, decls)
      [] e.k = "tuple" -> TypeTupleExpr(expected, e, vars, decls)

(* Targets may not be parameters and may not be named twice.               *)
CheckTargets(targets, nin) ==
    LET ids == FlattenSeq([i \in DOMAIN targets |-> SetToSeq(LocalDefs(targets[i]))])
    IN  /\ \A i \in DOMAIN ids : ids[i] > nin
        /\ \A i, j \in DOMAIN ids : i /= j => ids[i] /= ids[j]

(* What printf and fail are given must have a width.                       *)
TypeFormatArgs(s, vars, decls) ==
    LET Strange(r) == WellFormed(r.ty) /\ (r.ty.k \notin {"uint", "field"} \/ r.ty.open)
        Formatted(rs) == [es   |-> [i \in DOMAIN rs |-> rs[i].e],
                          errs |-> AnyError(rs) \/ \E i \in DOMAIN rs : Strange(rs[i])]
    IN  Formatted(TypeAll(NOTYPE, s.e, vars, decls))

TypeLval(lval, vars) ==
    CASE Len(lval.ids) > 1 -> UnsignedInt(FoldLeft(LAMBDA n, id : n + vars[id].w, 0, lval.ids), FALSE)
      [] lval.l = "array" -> vars[lval.ids[1]].ts[1]
      [] OTHER -> vars[lval.ids[1]]

TypeAssignment(s, vars, nin, decls) ==
    LET Taking(target, source) ==
            [es |-> <<source.e>>, errs |-> source.errs \/ Mismatch(source.ty, target) \/ ~CheckTargets(s.t, nin)]
        To(target) == Taking(target, TypeExpression(target, s.e[1], vars, decls))
    IN  To(TupleType([i \in DOMAIN s.t |-> TypeLval(s.t[i], vars)]))

(* The types of the variables of a function [nin, nout, size, w, code].    *)
VariableTypes(f) ==
    [id \in DOMAIN f.w |->
        LET scalar == IF f.w[id] = NATIVE THEN FieldElement ELSE UnsignedInt(f.w[id], FALSE)
        IN  IF f.size[id] > 0 THEN FixedArray(scalar, f.size[id]) ELSE scalar]
TypeIfGoto(s, vars, decls) ==
    LET Branch(r) == [es |-> <<r.e>>, errs |-> r.errs] IN Branch(TypeComparison(s.e[1], vars, decls))
TypeStatement(s, vars, nin, decls) ==
    LET Retyped(r) == [s |-> [s EXCEPT !.e = r.es], errs |-> r.errs]
    IN  CASE s.s = "assign" -> Retyped(TypeAssignment(s, vars, nin, decls))
          [] s.s = "ifgoto" -> Retyped(TypeIfGoto(s, vars, decls))
          [] s.s \in {"printf", "fail"} -> Retyped(TypeFormatArgs(s, vars, decls))
          [] OTHER -> [s |-> s, errs |-> FALSE]
(* The typed function and whether an error was reported.                   *)
TypeFunction(f, decls) ==
    LET types == VariableTypes(f)
        Whole(rs) == [f |-> [f EXCEPT !.code = [pc \in DOMAIN rs |-> rs[pc].s]], errs |-> AnyError(rs)]
    IN  Whole([pc \in DOMAIN f.code |-> TypeStatement(f.code[pc], types, f.nin, decls)])
-----------------------------------------------------------------------------
(* Code generation: every flat statement of a function becomes one vector. *)
(* A compilation carries the widths w of the registers, to which it adds   *)
(* temporaries; variables have the numbers of their registers.  Memories   *)
(* and messages are left out.                                              *)

(* The compiler panics.                                                    *)
PANIC == <<Insn("panic", <<>>, <<>>, 0)>>
Panics(code) == \E i \in DOMAIN code : code[i].op = "panic"

-----------------------------------------------------------------------------
(* Constant expressions.  An error within an operand is not handed up.     *)

RECURSIVE EvalConstant(_, _, _)
EvalConstant(e, definition, decls) ==
    LET width == e.ty.w
        args == [i \in DOMAIN e.a |-> EvalConstant(e.a[i], definition, decls)]
        values == [i \in DOMAIN args |-> args[i].v]
        Chain(F(_, _)) == FoldLeft(F, values[1], Tail(values))
        Carried(F(_, _)) == \E k \in 2..Len(values) :
            LET part == FoldLeft(F, values[1], SubSeq(values, 2, k)) IN part < 0 \/ part >= 2^width
        Plus(a, b) == a + b
        Minus(a, b) == a - b
        Times(a, b) == a * b
        Zero == \E k \in 2..Len(values) : values[k] = 0
        Result(v, err, panic) == [v |-> v, err |-> err, panic |-> panic \/ \E i \in DOMAIN args : args[i].panic]
    IN  CASE e.k = "const" -> Result(e.v, FALSE, FALSE)
          [] e.k = "add" -> Result(Chain(Plus) % 2^width, definition /\ Carried(Plus), FALSE)
          [] e.k = "sub" -> Result(Chain(Minus) % 2^width, definition /\ Carried(Minus), FALSE)
          [] e.k = "mul" -> Result(Chain(Times) % 2^width, definition /\ Carried(Times), FALSE)
          [] e.k = "div" -> Result(IF Zero THEN 0 ELSE FoldLeft(LAMBDA a, b : a \div b, values[1], Tail(values)),
                                   FALSE, Zero)
          [] e.k = "rem" -> Result(IF Zero THEN 0 ELSE FoldLeft(LAMBDA a, b : a % b, values[1], Tail(values)),
                                   FALSE, Zero)
          [] e.k \in {"and", "or", "xor"} ->
                Result(FoldLeft(LAMBDA a, b : BitwiseOf(e.k, a, b), values[1], Tail(values)), FALSE, FALSE)
          [] e.k = "not" -> Result(values[1] ^^ Mask(width), FALSE, FALSE)
          [] e.k = "shl" -> Result(FoldLeft(LAMBDA a, b : (a * 2^b) % 2^width, values[1], Tail(values)), FALSE, FALSE)
          [] e.k = "shr" -> Result(FoldLeft(LAMBDA a, b : a \div 2^b, values[1], Tail(values)), FALSE, FALSE)
          [] e.k = "cast" -> Result(values[1] % 2^e.v, definition /\ values[1] >= 2^e.v, FALSE)
          [] e.k = "extern" /\ decls[e.v].d = "const" ->
                Result(EvalConstant(decls[e.v].e, FALSE, decls).v, FALSE, FALSE)
          [] OTHER -> Result(0, TRUE, FALSE)

-----------------------------------------------------------------------------
(* Expressions.                                                            *)

IsConstant(e, decls) == e.k = "const" \/ (e.k = "extern" /\ decls[e.v].d = "const")
ConstantsOf(es, decls) ==
    LET found == SelectSeq(es, LAMBDA e : IsConstant(e, decls))
    IN  [i \in DOMAIN found |-> EvalConstant(found[i], FALSE, decls).v]
OthersOf(es, decls) == SelectSeq(es, LAMBDA e : ~IsConstant(e, decls))

(* The constant an instruction starts from, folded over the values; FAILS  *)
(* when it outgrows the target.                                            *)
Folded(op, values, width) ==
    LET sums == FoldLeft(LAMBDA a, b : a + b, 0, values)
        product == FoldLeft(LAMBDA a, b : a * b, 1, values)
    IN  CASE op \in {"add", "sub"} -> IF sums >= 2^width THEN FAILS ELSE <<sums>>
          [] op = "mul" -> IF \E k \in DOMAIN values : FoldLeft(LAMBDA a, b : a * b, 1, SubSeq(values, 1, k)) >= 2^width
                           THEN FAILS ELSE <<product>>
          [] op \in {"addmod", "submod"} -> <<sums % Prime>>
          [] op = "mulmod" -> <<product % Prime>>
          [] op = "and" -> <<FoldLeft(LAMBDA a, b : a & b, Mask(width), values)>>
          [] op = "or" -> <<FoldLeft(LAMBDA a, b : a | b, 0, values)>>
          [] op = "xor" -> <<FoldLeft(LAMBDA a, b : a ^^ b, 0, values)>>

ModularOf(op) == CASE op = "add" -> "addmod" [] op = "sub" -> "submod" [] op = "mul" -> "mulmod"

RECURSIVE CompileExpr(_, _, _, _)
RECURSIVE CompileArgs(_, _, _)
(* Variables are used where they are, anything else gets a temporary.      *)
CompileArgs(es, w, decls) ==
    IF es = <<>> THEN [regs |-> <<>>, code |-> <<>>, w |-> w]
    ELSE LET e == es[1]
             reg == IF e.k = "local" THEN e.v ELSE Len(w) + 1
             width == IF e.k = "const" THEN BitLen(e.v) ELSE IF e.ty.k = "field" THEN NATIVE ELSE e.ty.w
             Before(first, rest) == [regs |-> <<reg>> \o rest.regs, code |-> first.code \o rest.code, w |-> rest.w]
             After(first) == Before(first, CompileArgs(Tail(es), first.w, decls))
         IN  After(IF e.k = "local" THEN [code |-> <<>>, w |-> w]
                   ELSE CompileExpr(e, <<reg>>, Append(w, width), decls))

(* Sums, differences, products and bitwise operations fold the constants,  *)
(* except the one others are subtracted from.                              *)
CompileNary(op, es, target, w, decls) ==
    LET spared == IF op \in {"sub", "submod"} THEN SubSeq(es, 1, 1) ELSE <<>>
        foldable == IF spared = <<>> THEN es ELSE Tail(es)
        Over(args, constant) ==
            [code |-> IF constant = FAILS THEN PANIC
                      ELSE Append(args.code, Insn(op, <<target>>, args.regs, constant[1])),
             w |-> args.w]
    IN  Over(CompileArgs(spared \o OthersOf(foldable, decls), w, decls),
             Folded(op, ConstantsOf(foldable, decls), w[target]))

(* Quotients, remainders and shifts are chained from left to right.        *)
CompileChain(op, es, target, w, decls) ==
    LET n == Len(es)
        Chained(args) ==
            LET Temporary(i) == IF i = n THEN target ELSE Len(args.w) + i - 1
                Source(k) == IF k = 1 THEN args.regs[1] ELSE Temporary(k)
                steps == [k \in 1..(n - 1) |-> Insn(op, <<Temporary(k + 1)>>, <<Source(k), args.regs[k + 1]>>, 0)]
            IN  [code |-> args.code \o steps, w |-> args.w \o [i \in 1..(n - 2) |-> w[target]]]
    IN  Chained(CompileArgs(es, w, decls))

NewLoad(target, source, w) == Insn(IF w[target] = NATIVE THEN "addmod" ELSE "add", <<target>>, <<source>>, 0)

(* Both branches are evaluated, then one is chosen.                        *)
CompileTernary(e, target, w, decls) ==
    LET Choosing(args, r) ==
            [code |-> args.code \o <<SkipIf(e.a[1].k, r[3], r[4], 2), NewLoad(target, r[2], w), Skip(1), NewLoad(target, r[1], w)>>,
             w |-> args.w]
        Chosen(args) == Choosing(args, args.regs)
    IN  Chosen(CompileArgs(<<e.a[2], e.a[3], e.a[1].a[1], e.a[1].a[2]>>, w, decls))

CompileConcat(es, target, w, decls) ==
    LET Joined(args) == [code |-> Append(args.code, Insn("concat", <<target>>, Reverse(args.regs), 0)), w |-> args.w]
    IN  Joined(CompileArgs(es, w, decls))

(* One component after the other.                                          *)
CompileTupleInitialiser(es, targets, w, decls) ==
    LET With(acc, part) == [code |-> acc.code \o part.code, w |-> part.w]
        Next(acc, i) == With(acc, CompileExpr(es[i], <<targets[i]>>, acc.w, decls))
    IN  FoldLeft(Next, [code |-> <<>>, w |-> w], [i \in DOMAIN targets |-> i])

CompileExpr(e, targets, w, decls) ==
    LET target == targets[1]
        modular == w[target] = NATIVE
        Ending(args, op, ts, c) == [code |-> Append(args.code, Insn(op, ts, args.regs, c)), w |-> args.w]
        Ends(op, ts, c) == Ending(CompileArgs(e.a, w, decls), op, ts, c)
    IN  CASE e.k \in {"add", "sub", "mul"} ->
                CompileNary(IF modular THEN ModularOf(e.k) ELSE e.k, e.a, target, w, decls)
          [] e.k \in {"and", "or", "xor"} -> CompileNary(e.k, e.a, target, w, decls)
          [] e.k \in {"div", "rem", "shl", "shr"} -> CompileChain(e.k, e.a, target, w, decls)
          [] e.k = "const" -> [code |-> <<Insn(IF modular THEN "addmod" ELSE "add", <<target>>, <<>>, e.v)>>, w |-> w]
          [] e.k = "local" -> [code |-> <<NewLoad(target, e.v, w)>>, w |-> w]
          [] e.k = "not" -> Ends("not", <<target>>, 0)
          [] e.k = "cast" -> Ends("cast", <<target>>, e.v)
          [] e.k = "concat" -> CompileConcat(e.a, target, w, decls)
          [] e.k = "ternary" -> CompileTernary(e, target, w, decls)
          [] e.k = "tuple" -> CompileTupleInitialiser(e.a, targets, w, decls)
          [] e.k = "extern" -> IF IsConstant(e, decls) THEN [code |-> <<Load(target, EvalConstant(e, FALSE, decls).v)>>, w |-> w]
                               ELSE Ends("call", targets, decls[e.v].module)

-----------------------------------------------------------------------------
(* Statements.                                                             *)

(* A value split among variables is put into a temporary first.            *)
MapLVals(targets, w) ==
    FoldLeft(LAMBDA acc, lval :
                LET parts == [i \in DOMAIN lval.ids |-> w[lval.ids[i]]]
                    temp == Len(acc.w) + 1
                IN  IF Len(lval.ids) = 1 THEN [acc EXCEPT !.regs = Append(@, lval.ids[1])]
                    ELSE [regs |-> Append(acc.regs, temp), w |-> Append(acc.w, SumOf(parts)),
                          post |-> Append(acc.post, Insn("destruct", Reverse(lval.ids), <<temp>>, 0))],
             [regs |-> <<>>, w |-> w, post |-> <<>>], targets)

CompileCondition(pc, cond, target, w, decls) ==
    LET Branch(args) ==
            [code |-> args.code \o <<SkipIf(cond.k, args.regs[1], args.regs[2], 1), Jump(pc + 1), Jump(target)>>,
             w |-> args.w]
    IN  Branch(CompileArgs(cond.a, w, decls))

CompileStatement(pc, s, w, decls) ==
    CASE s.s = "assign" ->
            LET Stored(lvals, source) == [code |-> source.code \o lvals.post, w |-> source.w]
                To(lvals) == Stored(lvals, CompileExpr(s.e[1], lvals.regs, lvals.w, decls))
            IN  To(MapLVals(s.t, w))
      [] s.s = "ifgoto" -> CompileCondition(pc, s.e[1], s.j, w, decls)
      [] s.s = "goto" -> [code |-> <<Jump(s.j)>>, w |-> w]
      [] s.s = "return" -> [code |-> <<Return>>, w |-> w]
      [] s.s = "fail" -> [code |-> <<Insn("fail", <<>>, <<>>, 0)>>, w |-> w]
      [] OTHER -> [code |-> PANIC, w |-> w]

CompileFunction(f, decls) ==
    LET With(acc, compiled) == [code |-> Append(acc.code, compiled.code), w |-> compiled.w]
        Next(acc, pc) == With(acc, CompileStatement(pc, f.code[pc], acc.w, decls))
        Whole(all) == [nin |-> f.nin, nout |-> f.nout, w |-> all.w, code |-> all.code]
    IN  Whole(FoldLeft(Next, [code |-> <<>>, w |-> f.w], [pc \in DOMAIN f.code |-> pc]))
=============================================================================
