-------------------------- MODULE CorsetTranslate ---------------------------
(***************************************************************************)
(* From a resolved Corset circuit to constraints: the trees of expressions *)
(* and what they mean on a trace (pkg/corset/ast/expression.go);           *)
(* preprocessing, which expands functions, lets, loops and reductions; and *)
(* translation to terms over registers (pkg/corset/compiler).              *)
(*                                                                         *)
(* A node has an operation, a symbol, a number k (a constant, the width of *)
(* a cast, the first value of a loop, or a shift), a bound n (the last     *)
(* value of a loop), the variables it binds or reads with their indices,   *)
(* and its operands.  Truth is zero, as in the code.                       *)
(***************************************************************************)
EXTENDS Integers, Sequences, SequencesExt, FiniteSetsExt

(* A sequence given by a function of its positions, evaluated once.             *)
Tuple(s) == s \o <<>>

Node(op, sym, k, n, vars, idx, args) ==
  [op |-> op, sym |-> sym, k |-> k, n |-> n, vars |-> vars, idx |-> idx, args |-> args]
Plain(op, args) == Node(op, "", 0, 0, <<>>, <<>>, args)

(* An absent expression (nil), and the result of code that panics.              *)
Void == Plain("void", <<>>)
Panic == Plain("panic", <<>>)

Const(v) == Node("const", "", v, 0, <<>>, <<>>, <<>>)
Column(c) == Node("column", c, 0, 0, <<>>, <<>>, <<>>)
Local(x) == Node("local", "", 0, 0, <<x>>, <<0>>, <<>>)
ArrayAccess(c, e) == Node("array", c, 0, 0, <<>>, <<>>, <<e>>)
Add(args) == Plain("add", args)
Sub(args) == Plain("sub", args)
Mul(args) == Plain("mul", args)
Exp(e, p) == Plain("exp", <<e, p>>)
Normalise(e) == Plain("normalise", <<e>>)
Cast(w, e) == Node("cast", "safe", w, 0, <<>>, <<>>, <<e>>)
UnsafeCast(w, e) == [Cast(w, e) EXCEPT !.sym = "unsafe"]
Concat(args) == Plain("concat", args)   \* least significant operand first
Equation(kind, l, r) == Plain(kind, <<l, r>>)
Connective(kind, args) == Plain(kind, args)
Not(e) == Plain("not", <<e>>)
If(c, t, f) == Plain("if", <<c, t, f>>)
Shift(e, s) == Plain("shift", <<e, s>>)
List(args) == Plain("list", args)
Debug(e) == Plain("debug", <<e>>)
For(x, lo, hi, body) == Node("for", "", lo, hi, <<x>>, <<0>>, <<body>>)
(* The operands of a let are the values of its variables, then its body.        *)
Let(vars, vals, body) == Node("let", "", 0, 0, vars, [i \in DOMAIN vars |-> 0], Append(vals, body))
Invoke(f, args) == Node("invoke", f, 0, 0, <<>>, <<>>, args)
Reduce(f, e) == Node("reduce", f, 0, 0, <<>>, <<>>, <<e>>)

--------------------------------------------------------------------------------
(* Constant evaluation.  A value is a sequence: empty when the expression is not *)
(* constant.                                                                    *)

Power(b, e) == FoldLeft(LAMBDA a, i : a * b, 1, [i \in 1..e |-> i])

Folded(op, vs) ==
  IF \E i \in DOMAIN vs : vs[i] = <<>> THEN <<>>
  ELSE IF vs = <<>> THEN <<0>>
  ELSE <<FoldLeft(LAMBDA a, v : CASE op = "add" -> a + v[1] [] op = "sub" -> a - v[1] [] OTHER -> a * v[1],
                  Head(vs)[1], Tail(vs))>>

(* Both connectives multiply: with truth as zero, that is a disjunction.        *)
ConstantOfConnective(vs) == Folded("mul", vs)

(* An equation compares its left-hand side with itself.                         *)
ConstantOfEquation(kind, lhs, rhs) ==
  IF lhs = <<>> THEN <<>> ELSE IF kind = "eq" THEN <<0>> ELSE <<1>>

ConstantOfExp(arg, pow) == IF arg = <<>> \/ pow = <<>> THEN <<>> ELSE <<Power(arg[1], pow[1])>>
ConstantOfNormalise(arg) == IF arg \in {<<>>, <<0>>} THEN arg ELSE <<1>>
ConstantOfNot(arg) == IF arg = <<>> THEN <<>> ELSE IF arg = <<0>> THEN <<1>> ELSE <<0>>
ConstantOfIf(cond, t, f) ==
  IF cond = <<>> THEN <<>> ELSE IF cond = <<0>> THEN t ELSE f

RECURSIVE AsConstant(_)
AsConstant(e) ==
  LET vs == Tuple([i \in DOMAIN e.args |-> AsConstant(e.args[i])])
  IN  CASE e.op = "const" -> <<e.k>>
        [] e.op \in {"add", "sub", "mul"} -> Folded(e.op, vs)
        [] e.op \in {"and", "or"} -> ConstantOfConnective(vs)
        [] e.op \in {"eq", "ne"} -> ConstantOfEquation(e.op, vs[1], vs[2])
        [] e.op = "exp" -> ConstantOfExp(vs[1], vs[2])
        [] e.op = "normalise" -> ConstantOfNormalise(vs[1])
        [] e.op = "not" -> ConstantOfNot(vs[1])
        [] e.op = "if" -> ConstantOfIf(vs[1], vs[2], vs[3])
        [] e.op \in {"cast", "shift", "for"} -> vs[1]
        [] OTHER -> <<>>

--------------------------------------------------------------------------------
(* Substitution of expressions for the variables of given indices.  Every other  *)
(* node is copied, binders included: an index that a binder below also uses is    *)
(* not protected.                                                                *)

IsVariable(e) == e.op = "local"

Copied(e) == IF e.op \in {"void", "let"} THEN Panic ELSE e   \* ShallowCopy

Variable(e, mapping) == IF e.idx[1] \in DOMAIN mapping THEN Copied(mapping[e.idx[1]]) ELSE e

RECURSIVE Substitute(_, _)
Substitute(e, mapping) ==
  IF IsVariable(e) THEN Variable(e, mapping)
  ELSE [e EXCEPT !.args = Tuple([i \in DOMAIN e.args |->
          IF e.args[i].op = "void" THEN (IF e.op = "if" THEN Void ELSE Panic)
          ELSE Substitute(e.args[i], mapping)])]

(* Indices of local variables.  A scope has the number each name was given and   *)
(* the index of every variable declared so far; the number given is how many      *)
(* distinct names there are.                                                     *)
NoLocals == [names |-> [x \in {} |-> 0], bindings |-> <<>>]

DeclareLocal(scope, x) ==
  LET index == Cardinality(DOMAIN scope.names)
  IN  [names    |-> [y \in DOMAIN scope.names \cup {x} |-> IF y = x THEN index ELSE scope.names[y]],
       bindings |-> Append(scope.bindings, index)]

DeclareLocals(scope, xs) == FoldLeft(DeclareLocal, scope, xs)

IndexOf(scope, x) == scope.bindings[scope.names[x] + 1]

(* The variables of a node under their new indices: each is told the index it   *)
(* was declared with.                                                            *)
DeclaredIndices(scope, xs) ==
  LET all == DeclareLocals(scope, xs).bindings
  IN  SubSeq(all, Len(all) - Len(xs) + 1, Len(all))

RECURSIVE Resolved(_, _)
Resolved(e, scope) ==
  LET inner == DeclareLocals(scope, e.vars) IN
  CASE e.op = "local" -> [e EXCEPT !.idx = <<IndexOf(scope, e.vars[1])>>]
    [] e.op \in {"let", "for"} ->
         [e EXCEPT !.idx = DeclaredIndices(scope, e.vars),
                   !.args = Tuple([i \in DOMAIN e.args |->
                               Resolved(e.args[i], IF i = Len(e.args) THEN inner ELSE scope)])]
    [] OTHER -> [e EXCEPT !.args = Tuple([i \in DOMAIN e.args |-> Resolved(e.args[i], scope)])]

--------------------------------------------------------------------------------
(* What an expression means (the reference): variables stand for expressions in   *)
(* the scope they were written in, functions for their bodies, and shifts look    *)
(* at a later or an earlier row.  A value is a sequence of numbers, of which a     *)
(* list has any number; funs gives parameters and bodies by name, and debug says   *)
(* whether debug constraints exist.                                              *)

(* The value of a column, or of an element of an array column, at a row; zero     *)
(* above and below the trace.  No element has a number that is not an index.      *)
OUT_OF_BOUNDS == 99
Cell(trace, c, i, row) ==
  IF i \notin DOMAIN trace.columns[c] THEN OUT_OF_BOUNDS
  ELSE IF row \in DOMAIN trace.columns[c][i] THEN trace.columns[c][i][row] ELSE 0

Closure(e, env) == [e |-> e, env |-> env]
Binding(xs, closures, env) ==
  [y \in DOMAIN env \cup ToSet(xs) |->
     IF y \in ToSet(xs) THEN closures[Max({i \in DOMAIN xs : xs[i] = y})] ELSE env[y]]

Truth(v) == \A i \in DOMAIN v : v[i] = 0
AsTruth(b) == IF b THEN <<0>> ELSE <<1>>
Holds(vs) == \A i \in DOMAIN vs : Truth(vs[i])

(* The elements of a list expression, each in its scope.                         *)
RECURSIVE Elements(_, _, _)
Elements(e, env, funs) ==
  CASE e.op = "list" -> Tuple([i \in DOMAIN e.args |-> Closure(e.args[i], env)])
    [] e.op = "for" ->
         Tuple([i \in 1..(e.n - e.k + 1) |->
            Closure(e.args[1], Binding(e.vars, <<Closure(Const(e.k + i - 1), [y \in {} |-> 0])>>, env))])
    [] e.op = "let" ->
         Elements(Last(e.args), Binding(e.vars, Tuple([i \in DOMAIN e.vars |-> Closure(e.args[i], env)]), env), funs)
    [] e.op = "invoke" ->
         Elements(funs[e.sym].body,
                  Binding(funs[e.sym].params, Tuple([i \in DOMAIN e.args |-> Closure(e.args[i], env)]), [y \in {} |-> 0]), funs)
    [] e.op = "local" -> LET c == env[e.vars[1]] IN Elements(c.e, c.env, funs)

(* A reduction applies a function of two parameters from the left.              *)
Reduction(f, cs, funs) ==
  FoldLeft(LAMBDA a, c : Closure(funs[f].body, Binding(funs[f].params, <<a, c>>, [y \in {} |-> 0])),
           Head(cs), Tail(cs))

RECURSIVE Meaning(_, _, _, _, _, _)
Meaning(e, env, funs, trace, row, debug) ==
  LET V(i) == Meaning(e.args[i], env, funs, trace, row, debug)
      vs == Tuple([i \in DOMAIN e.args |-> V(i)])
      total(op) == FoldLeft(LAMBDA a, v : CASE op = "add" -> a + v[1] [] op = "sub" -> a - v[1] [] OTHER -> a * v[1],
                            Head(vs)[1], Tail(vs))
      in(c) == Meaning(c.e, c.env, funs, trace, row, debug)
  IN
  CASE e.op = "void" -> <<>>
    [] e.op = "const" -> <<e.k>>
    [] e.op = "column" -> <<Cell(trace, e.sym, 0, row)>>
    [] e.op = "array" -> <<Cell(trace, e.sym, V(1)[1], row)>>
    [] e.op = "local" -> in(env[e.vars[1]])
    [] e.op \in {"add", "sub", "mul"} -> <<total(e.op)>>
    [] e.op = "exp" -> <<Power(V(1)[1], V(2)[1])>>
    [] e.op = "normalise" -> IF V(1)[1] = 0 THEN <<0>> ELSE <<1>>
    [] e.op = "cast" -> V(1)
    [] e.op = "concat" ->
         <<FoldLeft(LAMBDA a, i : a + vs[i][1] * trace.base^(i - 1), 0, [i \in DOMAIN vs |-> i])>>
    [] e.op = "eq" -> AsTruth(V(1)[1] = V(2)[1])
    [] e.op = "ne" -> AsTruth(V(1)[1] # V(2)[1])
    [] e.op = "and" -> AsTruth(Holds(vs))
    [] e.op = "or" -> AsTruth(\E i \in DOMAIN vs : Truth(vs[i]))
    [] e.op = "not" -> AsTruth(~Truth(V(1)))
    [] e.op = "if" -> IF Truth(V(1)) THEN V(2) ELSE V(3)
    [] e.op = "list" -> FlattenSeq(vs)
    [] e.op = "debug" -> IF debug THEN V(1) ELSE <<>>
    [] e.op = "shift" -> Meaning(e.args[1], env, funs, trace, row + V(2)[1], debug)
    [] e.op = "for" -> FlattenSeq(Tuple([i \in 1..(e.n - e.k + 1) |-> in(Elements(e, env, funs)[i])]))
    [] e.op = "let" -> in(Closure(Last(e.args), Binding(e.vars, Tuple([i \in DOMAIN e.vars |-> Closure(e.args[i], env)]), env)))
    [] e.op = "invoke" ->
         in(Closure(funs[e.sym].body,
                    Binding(funs[e.sym].params, Tuple([i \in DOMAIN e.args |-> Closure(e.args[i], env)]), [y \in {} |-> 0])))
    [] e.op = "reduce" -> in(Reduction(e.sym, Elements(e.args[1], env, funs), funs))
-----------------------------------------------------------------------------
(* Preprocessing of a resolved Corset circuit (pkg/corset/compiler/               *)
(* preprocessor.go): invocations, reductions, lets and loops are expanded, one    *)
(* declaration after the other.  The body of a function is replaced by its         *)
(* expansion when its declaration is reached, so what an earlier declaration       *)
(* applied is the body as it was written.                                         *)

(* A declaration: its kind, name and parameters, its expressions, and a guard or   *)
(* selector that may be absent.  Those of a call are its arguments, of which there *)
(* are n, and what it returns to; its name is that of the function.               *)
Declaration(kind, name, params, exprs, guard) ==
  [kind |-> kind, name |-> name, params |-> params, exprs |-> exprs, guard |-> guard, n |-> 0]
DefCall(rets, f, args, sel) == [Declaration("call", f, <<>>, args \o rets, sel) EXCEPT !.n = Len(args)]

(* The bodies of intrinsics, applied to two operands.                            *)
IntrinsicBody(f) ==
  LET x(i) == [Local("$") EXCEPT !.idx = <<i>>]
  IN  Plain(CASE f = "+" -> "add" [] f = "-" -> "sub" [] f = "*" -> "mul", <<x(0), x(1)>>)
Intrinsics == {"+", "-", "*"}

(* The result of a step of preprocessing: an expression, and whether errors were   *)
(* reported.                                                                      *)
Result(e, bad) == [e |-> e, bad |-> bad]
Bad(rs) == \E i \in DOMAIN rs : rs[i].bad
Exprs(rs) == Tuple([i \in DOMAIN rs |-> rs[i].e])
BodyOf(f, bodies) == IF f \in Intrinsics THEN IntrinsicBody(f) ELSE bodies[f]

(* Arguments replace the parameters, which have the first indices.               *)
Apply(f, args, bodies) == Substitute(BodyOf(f, bodies), [i \in 0..(Len(args) - 1) |-> args[i + 1]])

(* Operands that must not be void, and operands of which void ones are dropped.    *)
Strict(rs, args) ==
  \E i \in DOMAIN rs : args[i].op # "void" /\ rs[i].e.op = "void"
Stripped(rs) == SelectSeq(Exprs(rs), LAMBDA e : e.op # "void")

RECURSIVE Preprocess(_, _, _)

PreprocessNary(e, bodies, debug) ==
  LET rs == Tuple([i \in DOMAIN e.args |-> Preprocess(e.args[i], bodies, debug)])
      strict == e.op \in {"add", "sub", "mul", "and", "or", "concat"}
  IN  Result([e EXCEPT !.args = Exprs(rs)], Bad(rs) \/ (strict /\ Strict(rs, e.args)))

PreprocessIf(e, bodies, debug) ==
  LET rs == Tuple([i \in 1..3 |-> IF e.args[i].op = "void" THEN Result(Void, FALSE)
                            ELSE Preprocess(e.args[i], bodies, debug)])
  IN  Result([e EXCEPT !.args = Exprs(rs)], Bad(rs) \/ Strict(Tail(rs), Tail(e.args)))

PreprocessList(e, bodies, debug) ==
  LET rs == Tuple([i \in DOMAIN e.args |-> Preprocess(e.args[i], bodies, debug)])
  IN  Result([e EXCEPT !.args = Stripped(rs)], Bad(rs))

PreprocessDebug(e, bodies, debug) ==
  IF debug THEN Preprocess(e.args[1], bodies, debug) ELSE Result(Void, FALSE)

(* A loop becomes the list of its iterations; void ones are kept.               *)
PreprocessFor(e, bodies, debug) ==
  LET ith(i) == Substitute(e.args[1], [x \in {e.idx[1]} |-> Const(e.k + i - 1)])
      rs == Tuple([i \in 1..(e.n - e.k + 1) |-> Preprocess(ith(i), bodies, debug)])
  IN  IF Bad(rs) THEN Result(Void, TRUE) ELSE Result(List(Exprs(rs)), FALSE)

(* The last of several variables with one index wins.                            *)
PreprocessLet(e, bodies, debug) ==
  LET rs == Tuple([i \in DOMAIN e.vars |-> Preprocess(e.args[i], bodies, debug)])
      value(x) == rs[Max({i \in DOMAIN e.idx : e.idx[i] = x})].e
      body == Preprocess(Substitute(Last(e.args), [x \in ToSet(e.idx) |-> value(x)]), bodies, debug)
  IN  Result(body.e, Bad(rs) \/ body.bad)

PreprocessInvoke(e, bodies, debug) ==
  LET rs == Tuple([i \in DOMAIN e.args |-> Preprocess(e.args[i], bodies, debug)])
      body == Preprocess(Apply(e.sym, Exprs(rs), bodies), bodies, debug)
  IN  Result(body.e, Bad(rs) \/ body.bad)

(* What a reduction applies is not preprocessed once more.                       *)
PreprocessReduce(e, bodies, debug) ==
  LET list == Preprocess(e.args[1], bodies, debug)
      rs == Tuple([i \in DOMAIN list.e.args |-> Preprocess(list.e.args[i], bodies, debug)])
  IN  IF list.e.op # "list" THEN Result(Void, TRUE)
      ELSE IF rs = <<>> THEN Result(Void, list.bad)
      ELSE Result(FoldLeft(LAMBDA a, r : Apply(e.sym, <<a, r.e>>, bodies), rs[1].e, Tail(rs)),
                  list.bad \/ Bad(rs))

Preprocess(e, bodies, debug) ==
  CASE e.op \in {"const", "column", "local"} -> Result(e, FALSE)
    [] e.op = "debug" -> PreprocessDebug(e, bodies, debug)
    [] e.op = "for" -> PreprocessFor(e, bodies, debug)
    [] e.op = "if" -> PreprocessIf(e, bodies, debug)
    [] e.op = "invoke" -> PreprocessInvoke(e, bodies, debug)
    [] e.op = "let" -> PreprocessLet(e, bodies, debug)
    [] e.op = "list" -> PreprocessList(e, bodies, debug)
    [] e.op = "reduce" -> PreprocessReduce(e, bodies, debug)
    [] e.op \in {"void", "panic"} -> Result(Panic, FALSE)
    [] OTHER -> PreprocessNary(e, bodies, debug)

PreprocessOptional(e, bodies, debug) ==
  IF e.op = "void" THEN Result(Void, FALSE) ELSE Preprocess(e, bodies, debug)

PreprocessExpressions(es, bodies, debug) ==
  LET rs == Tuple([i \in DOMAIN es |-> Preprocess(es[i], bodies, debug)])
  IN  [es |-> Exprs(rs), bad |-> Bad(rs) \/ Strict(rs, es)]

--------------------------------------------------------------------------------
(* Declarations, one operator per kind: the declaration with its expressions       *)
(* expanded, and whether errors were reported.                                    *)

Preprocessed(d, es, guard, bad) == [d |-> [d EXCEPT !.exprs = es, !.guard = guard], bad |-> bad]

PreprocessDefCall(d, bodies, debug) ==
  LET es == PreprocessExpressions(d.exprs, bodies, debug)
      sel == PreprocessOptional(d.guard, bodies, debug)
  IN  Preprocessed(d, es.es, sel.e, es.bad \/ sel.bad)

(* A constraint that is void becomes an empty list.                              *)
PreprocessDefConstraint(d, bodies, debug) ==
  LET r == Preprocess(d.exprs[1], bodies, debug)
      guard == PreprocessOptional(d.guard, bodies, debug)
  IN  Preprocessed(d, <<IF r.e.op = "void" THEN List(<<>>) ELSE r.e>>, guard.e, r.bad \/ guard.bad)

PreprocessDefLookup(d, bodies, debug) ==
  LET es == PreprocessExpressions(d.exprs, bodies, debug)
      sel == PreprocessOptional(d.guard, bodies, debug)
  IN  Preprocessed(d, es.es, sel.e, es.bad \/ sel.bad)

(* Functions, ranges, properties, perspectives and computed columns have a       *)
(* single expression.                                                             *)
PreprocessSingle(d, bodies, debug) ==
  LET r == Preprocess(d.exprs[1], bodies, debug) IN Preprocessed(d, <<r.e>>, d.guard, r.bad)

(* The sources of a sorting constraint are columns.                              *)
PreprocessDefSorted(d, bodies, debug) ==
  LET sel == PreprocessOptional(d.guard, bodies, debug)
  IN  Preprocessed(d, d.exprs, sel.e, sel.bad)

PreprocessDeclaration(d, bodies, debug) ==
  CASE d.kind = "call" -> PreprocessDefCall(d, bodies, debug)
    [] d.kind = "constraint" -> PreprocessDefConstraint(d, bodies, debug)
    [] d.kind = "lookup" -> PreprocessDefLookup(d, bodies, debug)
    [] d.kind = "sorted" -> PreprocessDefSorted(d, bodies, debug)
    [] d.kind \in {"fun", "inrange", "property", "perspective", "computedcolumn"} ->
         PreprocessSingle(d, bodies, debug)
-----------------------------------------------------------------------------
(* From a resolved Corset circuit to constraints (pkg/corset/compiler.go,         *)
(* preprocessor.go, translator.go): every declaration is preprocessed, in the      *)
(* order of the circuit, and then every declaration is translated to terms over    *)
(* registers.  Errors of a phase are collected and stop compilation at its end.    *)

CONSTANTS
  Circuits,        \* circuits to compile: sequences of declarations
  Valid,           \* those of them that should compile
  Traces,          \* traces on which constraints are compared with their source
  Arrays,          \* first and last index of each array column
  Widths,          \* bits of each column
  ModuleOf,        \* the module of each column
  Externs,         \* the registers of each external module: what they are, and their bits
  REGISTER_WIDTH   \* bits of the registers of the target field

VARIABLES
  source,   \* the circuit, as written
  debug,    \* whether debug constraints exist
  decls,    \* its declarations, as preprocessed so far
  phase,    \* "preprocess", "translate", "accept", "reject" or "panic"
  at,       \* the declaration to visit next
  bad,      \* whether the phase has reported an error
  out       \* what each declaration was translated to

vars == <<source, debug, decls, phase, at, bad, out>>

I == INSTANCE Intervals
L == INSTANCE Limbs

--------------------------------------------------------------------------------
(* Terms over registers: nodes whose columns carry an element and a shift.       *)

RegisterAccess(c, i, shift) == Node("register", c, shift, i, <<>>, <<>>, <<>>)
IsRegister(t) == t.op = "register"

Translated(t, isBad) == [e |-> t, bad |-> isBad]
Failure == Translated(Void, TRUE)

RegisterOfVariable(e, shift) == Translated(RegisterAccess(e.sym, 0, shift), FALSE)

(* The index is taken modulo the size of a machine word, which drops its sign.    *)
Uint64(v) == IF v < 0 THEN -v ELSE v
RegisterOfArrayAccess(e, shift) ==
  LET index == AsConstant(e.args[1])
      i == Uint64(index[1])
  IN  IF index = <<>> \/ i \notin Arrays[e.sym][1]..Arrays[e.sym][2] THEN Failure
      ELSE Translated(RegisterAccess(e.sym, i, shift), FALSE)

RECURSIVE TranslateExpression(_, _), TranslateLogical(_, _)

(* Operands that were translated, and the terms made of them.                    *)
Gathered(rs) == [es |-> Exprs(rs), bad |-> Bad(rs)]
TermOf(op, rs) == Translated(Plain(op, rs.es), rs.bad)
VectorOf(rs) == Translated(Plain("vector", rs.es), rs.bad \/ \E i \in DOMAIN rs.es : ~IsRegister(rs.es[i]))
PowerOf(arg, pow) ==
  IF arg.bad \/ pow = <<>> THEN Failure
  ELSE IF pow[1] < 0 THEN Failure
  ELSE Translated(Plain("exp", <<arg.e, Const(pow[1])>>), FALSE)
ChoiceOf(cond, rs) ==
  IF cond.bad \/ rs.bad THEN Failure
  ELSE IF rs.es = <<Void, Void>> THEN Translated(Void, FALSE)
  ELSE Translated(Plain("ite", <<cond.e>> \o rs.es), FALSE)

TranslateExpressions(es, shift) ==
  Gathered(Tuple([i \in DOMAIN es |-> IF es[i].op = "void" THEN Translated(Void, FALSE)
                                       ELSE TranslateExpression(es[i], shift)]))

TranslateNary(e, op, shift) == TermOf(op, TranslateExpressions(e.args, shift))

(* Casts that are not unsafe have been checked, and leave nothing.              *)
CastOf(e, r) == IF e.sym = "unsafe" THEN Translated([e EXCEPT !.args = <<r.e>>], r.bad) ELSE r
TranslateCast(e, shift) == CastOf(e, TranslateExpression(e.args[1], shift))

TranslateConcat(e, shift) == VectorOf(TranslateExpressions(e.args, shift))

TranslateExp(e, shift) == PowerOf(TranslateExpression(e.args[1], shift), AsConstant(e.args[2]))

TranslateIf(e, shift) ==
  ChoiceOf(TranslateLogical(e.args[1], shift), TranslateExpressions(Tail(e.args), shift))

(* A faulty TranslateShift, that forgets the shifts around it.                   *)
TranslateShiftOnly(e, shift) ==
  LET s == AsConstant(e.args[2])
  IN  IF s = <<>> THEN Failure ELSE TranslateExpression(e.args[1], s[1])

(* A shift leaves no trace but on the registers below it.                        *)
TranslateShift(e, shift) ==
  LET s == AsConstant(e.args[2])
  IN  IF s = <<>> THEN Failure ELSE TranslateExpression(e.args[1], shift + s[1])

TranslateConstant(e) == IF e.k < 0 THEN Translated(Panic, FALSE) ELSE Translated(e, FALSE)

TranslateExpression(e, shift) ==
  CASE e.op = "column" -> RegisterOfVariable(e, shift)
    [] e.op = "array" -> RegisterOfArrayAccess(e, shift)
    [] e.op \in {"add", "sub", "mul", "normalise"} -> TranslateNary(e, e.op, shift)
    [] e.op = "cast" -> TranslateCast(e, shift)
    [] e.op = "const" -> TranslateConstant(e)
    [] e.op = "concat" -> TranslateConcat(e, shift)
    [] e.op = "exp" -> TranslateExp(e, shift)
    [] e.op = "if" -> TranslateIf(e, shift)
    [] e.op = "shift" -> TranslateShift(e, shift)
    [] e.op \in {"void", "panic"} -> Translated(Panic, FALSE)
    [] OTHER -> Failure

TranslateLogicals(es, shift) == Gathered(Tuple([i \in DOMAIN es |-> TranslateLogical(es[i], shift)]))

TranslateOptionalLogical(e, shift) ==
  IF e.op = "void" THEN Translated(Void, FALSE) ELSE TranslateLogical(e, shift)

TranslateConnective(e, shift) ==
  TermOf(e.op, TranslateLogicals(e.args, shift))

EquationOf(op, rs) == IF rs.bad THEN Failure ELSE Translated(Plain(op, rs.es), FALSE)
TranslateEquation(e, shift) == EquationOf(e.op, TranslateExpressions(e.args, shift))

TranslateIte(e, shift) ==
  ChoiceOf(TranslateLogical(e.args[1], shift),
           Gathered(Tuple([i \in 1..2 |-> TranslateOptionalLogical(e.args[i + 1], shift)])))

(* An empty list is no constraint at all.                                        *)
TranslateList(e, shift) ==
  IF e.args = <<>> THEN Translated(Void, FALSE) ELSE TermOf("and", TranslateLogicals(e.args, shift))

TranslateNot(e, shift) == TermOf("not", TranslateLogicals(e.args, shift))

TranslateLogicalShift(e, shift) ==
  LET s == AsConstant(e.args[2])
  IN  IF s = <<>> THEN Failure ELSE TranslateLogical(e.args[1], shift + s[1])

TranslateLogical(e, shift) ==
  CASE e.op = "cast" -> TranslateLogical(e.args[1], shift)
    [] e.op \in {"and", "or"} -> TranslateConnective(e, shift)
    [] e.op \in {"eq", "ne"} -> TranslateEquation(e, shift)
    [] e.op = "if" -> TranslateIte(e, shift)
    [] e.op = "list" -> TranslateList(e, shift)
    [] e.op = "not" -> TranslateNot(e, shift)
    [] e.op = "shift" -> TranslateLogicalShift(e, shift)
    [] e.op \in {"void", "panic"} -> Translated(Panic, FALSE)
    [] OTHER -> Failure

--------------------------------------------------------------------------------
(* Declarations.                                                                *)

RECURSIVE Anywhere(_, _)
Anywhere(e, ops) == e.op \in ops \/ \E i \in DOMAIN e.args : Anywhere(e.args[i], ops)
Panicked(es) == \E i \in DOMAIN es : Anywhere(es[i], {"panic"})

(* The values a term may take.                                                  *)
Bits(w) == I!NewInterval(0, 2^w - 1)
RECURSIVE ValueRange(_)
ValueRange(t) ==
  LET rs == Tuple([i \in DOMAIN t.args |-> ValueRange(t.args[i])])
      over(op) == FoldLeft(LAMBDA a, r : CASE op = "add" -> I!IntervalAdd(a, r) [] op = "sub" -> I!IntervalSub(a, r)
                                           [] OTHER -> I!IntervalMul(a, r), Head(rs), Tail(rs))
  IN  CASE t.op = "register" -> Bits(Widths[t.sym])
        [] t.op = "const" -> I!NewInterval(t.k, t.k)
        [] t.op \in {"add", "sub", "mul"} -> over(t.op)
        [] t.op = "vector" -> Bits(FoldLeft(LAMBDA a, x : a + Widths[x.sym], 0, t.args))
        [] t.op = "normalise" -> Bits(1)
        [] t.op = "cast" -> IF I!Within(rs[1], Bits(t.k)) THEN rs[1] ELSE Bits(t.k)
        [] t.op = "exp" -> I!IntervalExp(rs[1], t.args[2].k)
        [] t.op = "ite" -> I!Union(rs[2], rs[3])
Signed(t) == ValueRange(t).min.val < 0
BitLen(v) == Min({w \in 0..16 : v < 2^w})
BitWidth(t) == BitLen(ValueRange(t).max.val)

(* What a declaration is translated to: terms, and a guard or selector.          *)
Output(ts, sel, isBad) == [terms |-> ts, sel |-> sel, bad |-> isBad]
Nothing == Output(<<>>, Void, FALSE)

(* The guard of a constraint, and the selector of its perspective, switch it off  *)
(* where they are zero.                                                          *)
Guarded(guard, t) == Plain("ite", <<Plain("eq", <<guard, Const(0)>>), Void, t>>)

SelectorOf(p, ds) == ds[CHOOSE i \in DOMAIN ds : ds[i].kind = "perspective" /\ ds[i].name = p].exprs[1]

Under(guard, r) == Translated(Guarded(guard.e, r.e), r.bad \/ guard.bad)
OutputOf(r) == Output(<<r.e>>, Void, r.bad)

(* A constraint that says nothing is left out, whatever its guard.               *)
TranslateDefConstraint(d, ds) ==
  LET guarded(r) == IF d.guard.op = "void" THEN r ELSE Under(TranslateExpression(d.guard, 0), r)
      selected(r) == IF d.name = "" THEN r ELSE Under(TranslateExpression(SelectorOf(d.name, ds), 0), r)
      output(body) == IF body.e = Void THEN Output(<<>>, Void, body.bad) ELSE OutputOf(selected(guarded(body)))
  IN  output(TranslateLogical(d.exprs[1], 0))

TranslateDefProperty(d) == OutputOf(TranslateLogical(d.exprs[1], 0))

TranslateDefComputedColumn(d) == OutputOf(TranslateExpression(d.exprs[1], 0))

TranslateDefInRange(d) ==
  LET unsigned(r) == IF r.bad THEN OutputOf(r) ELSE Output(<<r.e>>, Void, Signed(r.e))
  IN  unsigned(TranslateExpression(d.exprs[1], 0))

(* The modules whose columns are used: none for constants, several in conflict.  *)
RECURSIVE Context(_)
Context(e) ==
  (IF e.op \in {"column", "array"} THEN {ModuleOf[e.sym]} ELSE {}) \cup UNION {Context(e.args[i]) : i \in DOMAIN e.args}
ContextOf(es) == UNION {Context(es[i]) : i \in DOMAIN es}
IsConflicted(context) == Cardinality(context) > 1
IsExtern(context) == context # {} /\ context \subseteq DOMAIN Externs

(* In a vector of a lookup the terms are unsigned, and those of an external module *)
(* no more than registers or the constants 0 and 1; its selector is binary.        *)
IsConstantRegister(t) == IsRegister(t) \/ (t.op = "const" /\ t.k \in {0, 1})
CheckLookupVector(extern, ts, sel) ==
  \/ \E i \in DOMAIN ts : Signed(ts[i]) \/ (extern /\ ~IsConstantRegister(ts[i]))
  \/ sel # Void /\ (Signed(sel) \/ BitWidth(sel) > 1)

(* Source and target are irregular when they split at different bits, other than  *)
(* because one of them ends there.                                               *)
IsIrregularLookup(w, v) ==
  LET s == L!LimbWidths(REGISTER_WIDTH, w)
      t == L!LimbWidths(REGISTER_WIDTH, v)
  IN  \E i \in 1..Min({Len(s), Len(t)}) :
         (s[i] > t[i] /\ i # Len(t)) \/ (t[i] > s[i] /\ i # Len(s))

(* The expressions of a lookup are the targets followed by the sources; its       *)
(* selector is that of the sources.                                              *)
Sources(xs) == SubSeq(xs, Len(xs) \div 2 + 1, Len(xs))
Targets(xs) == SubSeq(xs, 1, Len(xs) \div 2)
TranslateOptional(e, shift) == IF e.op = "void" THEN Translated(Void, FALSE) ELSE TranslateExpression(e, shift)

Regular(es) ==
  LET n == Len(es) \div 2 IN \A k \in 1..n : ~IsIrregularLookup(BitWidth(es[n + k]), BitWidth(es[k]))
(* One side of a lookup.  One without any column has no module, and panics.      *)
LookupVector(context, rs, sel) ==
  CASE IsConflicted(context) -> Output(<<>>, Void, TRUE)
    [] context = {} -> Output(<<Panic>>, Void, FALSE)
    [] OTHER -> Output(rs.es, sel.e, IF rs.bad \/ sel.bad THEN TRUE ELSE CheckLookupVector(IsExtern(context), rs.es, sel.e))
TranslateDefLookupSources(es, sel) ==
  LookupVector(ContextOf(Append(es, sel)), TranslateExpressions(es, 0), TranslateOptional(sel, 0))
LookupOf(targets, sources) ==
  LET terms == targets.terms \o sources.terms
  IN  Output(terms, sources.sel,
             IF targets.bad \/ sources.bad \/ Panicked(terms) THEN TRUE ELSE ~Regular(terms))
TranslateDefLookup(d) ==
  LookupOf(TranslateDefLookupSources(Targets(d.exprs), Void), TranslateDefLookupSources(Sources(d.exprs), d.guard))

(* The selector of a sorting constraint is a term, that of a call a condition.    *)
Selected(rs, sel) == Output(rs.es, sel.e, rs.bad \/ sel.bad)
TranslateDefSorted(d) == Selected(TranslateExpressions(d.exprs, 0), TranslateOptional(d.guard, 0))

(* The first n terms go to the inputs of the callee, in order, the others come     *)
(* from its outputs, and each fits where it is written.  Checking stops at the     *)
(* first term without such a register, and panics at one not translated.           *)
CheckArgsReturns(ts, n, callee) ==
  LET Aligned(i) == i \in DOMAIN callee /\ callee[i].kind = (IF i <= n THEN "input" ELSE "output")
      Fits(i) == /\ ~Signed(ts[i])
                 /\ IF i <= n THEN BitWidth(ts[i]) <= callee[i].width ELSE BitWidth(ts[i]) >= callee[i].width
      checked == {i \in DOMAIN ts : \A j \in 1..i : Aligned(j)}
  IN  CASE \E i \in checked : Anywhere(ts[i], {"void"}) -> "panic"
        [] checked # DOMAIN ts -> "error"
        [] OTHER -> IF \A i \in checked : Fits(i) THEN "none" ELSE "error"

(* A call whose arguments are all constants has no module to be a constraint of.   *)
CallOf(rs, n, callee, sel, caller) ==
  LET check == CheckArgsReturns(rs.es, n, callee)
      isBad == rs.bad \/ sel.bad \/ check = "error"
  IN  IF check = "panic" \/ (~isBad /\ caller = {}) THEN Output(<<Panic>>, Void, isBad)
      ELSE Output(rs.es, sel.e, isBad)

(* Only functions of external modules are called.                                *)
TranslateDefCall(d) ==
  LET caller == ContextOf(SubSeq(d.exprs, 1, d.n))
  IN  IF IsConflicted(caller) \/ d.name \notin DOMAIN Externs THEN Output(<<>>, Void, TRUE)
      ELSE CallOf(TranslateExpressions(d.exprs, 0), d.n, Externs[d.name],
                  TranslateOptionalLogical(d.guard, 0), caller)

TranslateDeclaration(d, ds) ==
  CASE d.kind \in {"fun", "perspective"} -> Nothing
    [] d.kind = "constraint" -> TranslateDefConstraint(d, ds)
    [] d.kind = "property" -> TranslateDefProperty(d)
    [] d.kind = "computedcolumn" -> TranslateDefComputedColumn(d)
    [] d.kind = "inrange" -> TranslateDefInRange(d)
    [] d.kind = "lookup" -> TranslateDefLookup(d)
    [] d.kind = "sorted" -> TranslateDefSorted(d)
    [] d.kind = "call" -> TranslateDefCall(d)

--------------------------------------------------------------------------------
(* Compilation.                                                                 *)

ResolveDeclaration(d) ==
  LET scope == DeclareLocals(NoLocals, d.params)
  IN  [d EXCEPT !.exprs = Tuple([i \in DOMAIN d.exprs |-> Resolved(d.exprs[i], scope)]),
                !.guard = Resolved(d.guard, NoLocals)]

BodiesOf(ds) ==
  LET named == {i \in DOMAIN ds : ds[i].kind = "fun"}
  IN  [f \in {ds[i].name : i \in named} |-> ds[CHOOSE i \in named : ds[i].name = f].exprs[1]]

Init ==
  /\ source \in Circuits /\ debug \in BOOLEAN
  /\ decls = [i \in DOMAIN source |-> ResolveDeclaration(source[i])]
  /\ phase = "preprocess" /\ at = 1 /\ bad = FALSE
  /\ out = [i \in DOMAIN source |-> Nothing]

PreprocessNext ==
  /\ phase = "preprocess" /\ at <= Len(decls)
  /\ \E r \in {PreprocessDeclaration(decls[at], BodiesOf(decls), debug)} :
         /\ decls' = [decls EXCEPT ![at] = r.d]
         /\ bad' = (bad \/ r.bad)
         /\ phase' = IF Panicked(Append(r.d.exprs, r.d.guard)) THEN "panic" ELSE phase
  /\ at' = at + 1
  /\ UNCHANGED <<source, debug, out>>

TranslateNext ==
  /\ phase = "translate" /\ at <= Len(decls)
  /\ \E r \in {TranslateDeclaration(decls[at], decls)} :
         /\ out' = [out EXCEPT ![at] = r]
         /\ bad' = (bad \/ r.bad)
         /\ phase' = IF Panicked(Append(r.terms, r.sel)) THEN "panic" ELSE phase
  /\ at' = at + 1
  /\ UNCHANGED <<source, debug, decls>>

EndPhase ==
  /\ phase \in {"preprocess", "translate"} /\ at > Len(decls)
  /\ phase' = IF bad THEN "reject" ELSE IF phase = "preprocess" THEN "translate" ELSE "accept"
  /\ at' = 1
  /\ UNCHANGED <<source, debug, decls, bad, out>>

Next == PreprocessNext \/ TranslateNext \/ EndPhase

(* The compiler is sequential code: it takes its next step until it returns.  This   *)
(* is weak fairness of Next, which is enabled until then.                          *)
Ended == phase \in {"accept", "reject", "panic"}
Fairness == []<>Ended \/ []<><<Next>>_vars

Spec == Init /\ [][Next]_vars /\ Fairness

--------------------------------------------------------------------------------
(* What the results mean.                                                       *)

Phases == {"preprocess", "translate", "accept", "reject", "panic"}
NoEnv == [y \in {} |-> 0]
ROWS == 1..3

Funs ==
  LET named == {i \in DOMAIN source : source[i].kind = "fun"}
      x(i) == Local(i)
      intrinsic(f) == [params |-> <<"l", "r">>,
                       body |-> Plain(CASE f = "+" -> "add" [] f = "-" -> "sub" [] f = "*" -> "mul", <<x("l"), x("r")>>)]
      fun(f) == LET d == source[CHOOSE i \in named : source[i].name = f]
                IN  [params |-> d.params, body |-> d.exprs[1]]
  IN  [f \in Intrinsics \cup {source[i].name : i \in named} |->
         IF f \in Intrinsics THEN intrinsic(f) ELSE fun(f)]

SourceMeaning(e, tr, row) == Meaning(e, NoEnv, Funs, tr, row, debug)

RECURSIVE TermMeaning(_, _, _)
TermMeaning(t, tr, row) ==
  LET V(i) == TermMeaning(t.args[i], tr, row)
      vs == Tuple([i \in DOMAIN t.args |-> V(i)])
      over(op) == FoldLeft(LAMBDA a, v : CASE op = "add" -> a + v[1] [] op = "sub" -> a - v[1] [] OTHER -> a * v[1],
                           Head(vs)[1], Tail(vs))
      below(i) == FoldLeft(LAMBDA a, x : a + Widths[x.sym], 0, SubSeq(t.args, 1, i - 1))
  IN
  CASE t.op = "register" -> <<Cell(tr, t.sym, t.n, row + t.k)>>
    [] t.op = "const" -> <<t.k>>
    [] t.op = "void" -> <<>>
    [] t.op \in {"add", "sub", "mul"} -> <<over(t.op)>>
    [] t.op = "normalise" -> IF V(1)[1] = 0 THEN <<0>> ELSE <<1>>
    [] t.op = "cast" -> V(1)
    [] t.op = "exp" -> <<Power(V(1)[1], t.args[2].k)>>
    [] t.op = "vector" -> <<FoldLeft(LAMBDA a, i : a + vs[i][1] * 2^below(i), 0, [i \in DOMAIN vs |-> i])>>
    [] t.op = "ite" -> IF Truth(V(1)) THEN V(2) ELSE V(3)
    [] t.op = "eq" -> AsTruth(V(1)[1] = V(2)[1])
    [] t.op = "ne" -> AsTruth(V(1)[1] # V(2)[1])
    [] t.op = "and" -> AsTruth(Holds(vs))
    [] t.op = "or" -> AsTruth(\E i \in DOMAIN vs : Truth(vs[i]))
    [] t.op = "not" -> AsTruth(~Truth(V(1)))

(* Where a constraint of the source must hold.                                   *)
Active(d, tr, row) ==
  /\ d.guard.op = "void" \/ SourceMeaning(d.guard, tr, row) # <<0>>
  /\ d.name = "" \/ SourceMeaning(SelectorOf(d.name, source), tr, row) # <<0>>

SameConstraint(d, o) ==
  \A tr \in Traces, row \in ROWS :
     (\A i \in DOMAIN o.terms : Truth(TermMeaning(o.terms[i], tr, row)))
       <=> (Active(d, tr, row) => Truth(SourceMeaning(d.exprs[1], tr, row)))

SameTerms(d, o) ==
  \A tr \in Traces, row \in ROWS :
     /\ Len(o.terms) = Len(d.exprs)
     /\ \A i \in DOMAIN o.terms : TermMeaning(o.terms[i], tr, row) = SourceMeaning(d.exprs[i], tr, row)
     /\ d.guard # Void => TermMeaning(o.sel, tr, row) = SourceMeaning(d.guard, tr, row)

--------------------------------------------------------------------------------
(* Properties.                                                                  *)

(* The state of compilation is well formed. *)
TypeOK ==
  /\ source \in Circuits /\ debug \in BOOLEAN /\ bad \in BOOLEAN
  /\ phase \in Phases /\ at \in 1..(Len(source) + 1)
  /\ Len(decls) = Len(source) /\ Len(out) = Len(source)
  /\ \A i \in DOMAIN decls : decls[i].kind = source[i].kind

(* What compilation makes of a declaration means, on every trace and at every row, *)
(* what the declaration says: expanding functions, lets, loops and reductions,      *)
(* dropping debug constraints, folding shifts into register accesses, and applying  *)
(* guards and selectors changes nothing (PreprocessCircuit, TranslateCircuit).      *)
SameMeaning ==
  phase = "accept" =>
    \A i \in DOMAIN source :
      CASE source[i].kind \in {"constraint", "property"} -> SameConstraint(source[i], out[i])
        [] source[i].kind \in {"fun", "perspective"} -> TRUE
        [] OTHER -> SameTerms(source[i], out[i])

(* Once a circuit is preprocessed, nothing is left in it to expand outside          *)
(* functions, and in functions nothing but their parameters: translation need not    *)
(* know of invocations, reductions, lets and loops (preprocessor.go).              *)
FullyExpanded ==
  phase \in {"translate", "accept"} =>
    \A i \in DOMAIN decls :
      LET es == Append(decls[i].exprs, decls[i].guard) IN
      \A j \in DOMAIN es :
        /\ ~Anywhere(es[j], {"invoke", "reduce", "let", "for", "debug"})
        /\ decls[i].kind # "fun" => ~Anywhere(es[j], {"local"})

(* No constraint has a hole: what is void was dropped with everything that consists of *)
(* it, and only one branch of a conditional may be missing (translateIte,              *)
(* translateLogical).                                                                *)
RECURSIVE IsWhole(_)
IsWhole(t) ==
  /\ t.op # "void"
  /\ t.op = "ite" => <<t.args[2], t.args[3]>> # <<Void, Void>>
  /\ \A i \in DOMAIN t.args : (t.op = "ite" /\ t.args[i].op = "void") \/ IsWhole(t.args[i])
TermsAreWhole ==
  phase = "accept" => \A i \in DOMAIN out, j \in 1..2 : j \in DOMAIN out[i].terms => IsWhole(out[i].terms[j])

(* Compilation succeeds for the circuits that are well formed, whatever the order of  *)
(* their declarations, and for no other: it neither rejects a circuit for a node it    *)
(* failed to expand, nor panics, nor lets pass a void operand, an index out of bounds, *)
(* a signed term or a selector that is not binary.                                   *)
AcceptedIffValid == Ended => (phase = "accept" <=> <<source, debug>> \in Valid)

(* Every circuit ends up accepted, rejected, or with a panic.                     *)
Terminates == <>Ended
=============================================================================
