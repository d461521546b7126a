------------------------------ MODULE MCCorset ------------------------------
(***************************************************************************)
(* The Corset compiler on small circuits:                                  *)
(*  - resolution of every order of every subset of a few themes;           *)
(*  - preprocessing and translation of functions declared before or after  *)
(*    they are used, and one declaration of each kind and form that uses   *)
(*    them;                                                                *)
(*  - allocation of registers for two modules: one of module columns, an   *)
(*    array and a computed column, and three perspectives of up to two     *)
(*    columns of every width and provability; one of two perspectives.     *)
(***************************************************************************)
EXTENDS CorsetTranslate

CONSTANTS
  ResolverCircuits, LIMIT, UINT,
  SIZE,   \* the largest number of declarations in a circuit to resolve
  MCEnvironments, ENFORCE_TYPES, ENFORCE_LIMB_TYPES

VARIABLES
  part,
  circ, rPhase, rAt, scope, mult, fin, done, failed, completed, uncompleted, changed, count, errors,
  scopes, allocator, aPhase, registers, columnMap, todo, groups, pass, aAt, schema

R == INSTANCE CorsetResolver WITH Circuits <- ResolverCircuits, phase <- rPhase, at <- rAt
D == INSTANCE CorsetResolver WITH Circuits <- {}, phase <- rPhase, at <- rAt   \* for its declarations
A == INSTANCE CorsetAllocation WITH Environments <- MCEnvironments, phase <- aPhase, at <- aAt

resolverVars == <<circ, rPhase, rAt, scope, mult, fin, done, failed, completed, uncompleted, changed, count, errors>>
allocationVars == <<scopes, allocator, aPhase, registers, columnMap, todo, groups, pass, aAt, schema>>
allVars == <<part, vars, resolverVars, allocationVars>>
-----------------------------------------------------------------------------
(* Circuits to resolve.                                                    *)

Root == <<>>
M1 == <<"m1">>

Sym(x) == [abs |-> FALSE, path |-> <<x>>, arity |-> D!NonFunction]
V(x) == D!VariableAccess(Sym(x))
At(m, x) == D!VariableAccess([abs |-> TRUE, path |-> <<m, x>>, arity |-> D!NonFunction])

ColX == D!DefColumns(Root, <<"X">>)
ColY == D!DefColumns(Root, <<"Y">>)
ColXY == D!DefColumns(Root, <<"X", "Y">>)
ConstOf(x, e) == D!DefConst(Root, <<x>>, <<e>>, FALSE)
FunOf(f, ps, pure, e) == D!DefFun(Root, f, ps, pure, e)
ConstraintIn(mod, args) == D!DefConstraint(mod, << >>, D!Compound(args))
ColZ == D!DefInterleaved(Root, "Z", FALSE, V("X") \o V("Y"))

(* Constants that depend on each other, in a chain, a cycle, or twice defined.  *)
ConstantChain == {ConstOf("J", D!Constant), ConstOf("K", D!Compound(<<V("J"), D!Constant>>)), ConstOf("L", V("K")),
              D!DefConst(Root, <<"H", "G">>, <<V("L"), V("H")>>, FALSE),
              D!DefConstraint(Root, V("X"), D!Exp(V("X"), V("L"))), ColX}
Cycle == {ConstOf("J", D!Constant), ConstOf("J", V("L")), ConstOf("K", V("J")), ConstOf("L", V("K")),
          D!DefProperty(Root, V("Y")), ColY}
ExternConstants == {D!DefConst(Root, <<"E">>, <<D!Constant>>, TRUE), ConstOf("K", V("E")), ColX,
            ConstraintIn(Root, <<V("X"), V("E")>>), ConstraintIn(Root, <<D!Shift(V("X"), V("E"))>>)}

(* Functions, pure ones, overloaded ones, and variables they bind.               *)
Calls == {FunOf("f", <<"x">>, FALSE, D!Compound(<<V("x"), V("X")>>)),
              FunOf("g", <<"X">>, TRUE, D!Invoke("h", <<V("X")>>)),
              FunOf("h", <<"x">>, TRUE, D!Invoke("f", <<V("x")>>)),
              ConstraintIn(Root, <<D!Let({"v"}, <<V("X")>>, D!Invoke("g", <<V("v")>>))>>), ColX}
Overloads == {FunOf("f", <<"x">>, TRUE, D!Invoke("f", <<V("x"), V("x")>>)), FunOf("f", <<"x", "y">>, TRUE, V("y")),
              FunOf("f", <<"x", "y">>, TRUE, D!Invoke("f", <<V("y"), V("x")>>)),
              ConstraintIn(<<"m1">>, <<D!For("i", D!Invoke("f", <<V("X")>>))>>), D!DefColumns(M1, <<"X">>)}
Reductions == {ColX, FunOf("f", <<"x", "y">>, FALSE, D!Compound(<<V("x"), V("X")>>)),
               ConstraintIn(Root, <<D!Reduce("f", D!List(<<V("X"), D!Constant>>))>>),
               FunOf("g", <<"x">>, TRUE, D!Reduce("f", V("x"))),
               ConstraintIn(Root, <<D!ArrayAccess(Sym("X"), D!Constant)>>), ConstOf("K", D!ArrayAccess(Sym("K"), D!Constant))}

(* Assignments and the multipliers they fix.                                    *)
Multipliers == {ColX, ColY, ColZ, D!DefInterleaved(Root, "W", FALSE, V("Z") \o V("Z")),
                D!DefPermutation(Root, <<"P">>, FALSE, V("W"))}
Mixed == {ColXY, ColZ, D!DefInterleaved(Root, "W", TRUE, V("Z") \o V("Z")),
          D!DefPermutation(Root, <<"P", "Q">>, FALSE, V("Z") \o V("X")),
          D!DefProperty(Root, D!Compound(<<V("Z"), V("P")>>)), D!DefSorted(Root, <<V("Z")>>, << >>)}
Selves == {ColX, D!DefInterleaved(Root, "Z", FALSE, V("Z") \o V("X")), ConstOf("K", D!Constant),
           D!DefPermutation(Root, <<"P", "Q">>, FALSE, V("X") \o V("K")), ConstraintIn(Root, <<V("P")>>),
           D!DefComputedColumn(Root, "R", TRUE, D!Compound(<<V("R"), V("X")>>))}
Computations == {ColXY, ColZ, D!DefComputed(Root, <<"N">>, FALSE, "filter", V("Z") \o V("Z")),
             D!DefComputed(Root, <<"O">>, TRUE, "id", V("N")),
             D!DefComputedColumn(Root, "R", FALSE, D!Compound(<<V("R"), V("X")>>)),
             D!DefLookup(Root, <<V("N"), V("X")>>, V("X"))}

(* Modules, perspectives and aliases.                                           *)
Submodules == {ColX, D!DefColumns(M1, <<"X", "U">>), ConstraintIn(M1, <<V("X"), V("U")>>), ConstraintIn(Root, <<V("X"), V("U")>>),
            D!DefLookup(M1, <<At("m1", "U"), V("X")>>, << >>), D!DefCall(Root, <<V("X")>>, <<At("m1", "U")>>, << >>)}
PerspectiveColumns == {ColX, D!DefPerspective(Root, "p", V("X"), <<"B">>),
                 D!DefPerspectiveConstraint(Root, "p", << >>, D!Compound(<<V("B"), V("X")>>)),
                 ConstraintIn(Root, <<V("B")>>), D!DefColumns(Root, <<"p">>), D!DefInRange(Root, V("X"))}
AliasChains == {ColX, D!DefAliases(Root, <<<<"A", Sym("B")>>>>), D!DefAliases(Root, <<<<"B", Sym("X")>>>>),
                ConstraintIn(Root, <<V("A")>>), D!DefAliases(Root, <<<<"A", Sym("X")>>>>), ColY}

AllThemes == {ConstantChain, Cycle, ExternConstants, Calls, Overloads, Reductions, Multipliers, Mixed,
              Selves, Computations, Submodules, PerspectiveColumns, AliasChains}

Orders(theme) == UNION {SetToSeqs(S) : S \in {S \in SUBSET theme : Cardinality(S) \in 1 .. SIZE}}
Written == UNION {Orders(t) : t \in AllThemes}
-----------------------------------------------------------------------------
(* Circuits to translate.                                                  *)

X == Column("X")
Y == Column("Y")
B == Column("B")
P == Column("P")   \* the input of an external function
x == Local("x")
y == Local("y")

Fun(f, params, body) == Declaration("fun", f, params, <<body>>, Void)
Constraint(body) == Declaration("constraint", "", <<>>, <<body>>, Void)
GuardedBy(g, body) == Declaration("constraint", "", <<>>, <<body>>, g)
Perspective(p, sel) == Declaration("perspective", p, <<>>, <<sel>>, Void)
In(p, body) == Declaration("constraint", p, <<>>, <<body>>, Void)
Lookup(target, src, sel) == Declaration("lookup", "", <<>>, <<target, src>>, sel)
Eq(l, r) == Equation("eq", l, r)
Ne(l, r) == Equation("ne", l, r)

Inc == Fun("inc", <<"x">>, Add(<<x, Const(1)>>))
Dbl == Fun("dbl", <<"x">>, Let(<<"v">>, <<Add(<<x, x>>)>>, Mul(<<Local("v"), x>>)))
Mix == Fun("mix", <<"x", "y">>, Add(<<Invoke("dbl", <<y>>), Invoke("inc", <<x>>)>>))
Win == Fun("win", <<"x">>, For("i", 0, 2, Shift(x, Local("i"))))
Join == Fun("join", <<"x", "y">>, Add(<<Mul(<<x, Const(2)>>), y>>))
Select == Fun("select", <<"c", "x", "y">>, If(Eq(Local("c"), Const(0)), x, y))
Vanishes == Fun("vanishes", <<"x">>, Eq(Const(0), Let(<<"x">>, <<Invoke("inc", <<x>>)>>, x)))

Fold == Fun("fold", <<"x", "y">>, Add(<<Mul(<<x, Const(2)>>), Invoke("inc", <<y>>)>>))
Half == Fun("half", <<"x", "y">>, Mul(<<Invoke("dbl", <<x>>), y>>))

(* Functions in orders with and without uses before their declaration.           *)
Libraries == {<<Inc, Dbl, Mix, Win, Join, Fold, Half, Select, Vanishes>>, <<Dbl, Inc, Vanishes, Join, Mix, Select, Win, Half, Fold>>,
              <<Vanishes, Select, Fold, Half, Mix, Win, Join, Dbl, Inc>>, <<Half, Dbl, Fold, Inc, Mix, Win, Join, Select, Vanishes>>}

Debugs == List(<<Debug(Eq(X, Const(0))), Ne(X, Y)>>)

Bodies == {
  Eq(X, Invoke("inc", <<Y>>)),
  Eq(Invoke("mix", <<X, Invoke("inc", <<Y>>)>>), Const(4)),
  Eq(Reduce("+", Invoke("win", <<X>>)), Y),
  Eq(Reduce("-", List(<<X, Y, Const(1)>>)), Const(0)),
  Eq(Reduce("join", For("i", 1, 2, ArrayAccess("A", Local("i")))), X),
  Eq(Reduce("fold", List(<<X, Y>>)), Invoke("half", <<Y, X>>)),
  For("i", 1, 2, Eq(ArrayAccess("A", Local("i")), Shift(X, Local("i")))),
  Let(<<"c">>, <<X>>, Let(<<"d">>, <<Add(<<Y, Local("c")>>)>>, Ne(Local("c"), Local("d")))),
  Let(<<"c">>, <<Y>>, Let(<<"c">>, <<Invoke("inc", <<Local("c")>>)>>, Eq(Local("c"), Const(2)))),
  Let(<<"c">>, <<Y>>, Let(<<"c">>, <<Invoke("inc", <<Local("c")>>)>>, Let(<<"d">>, <<X>>, Eq(Local("c"), Local("d"))))),
  Let(<<"c", "d">>, <<X, Y>>, Invoke("vanishes", <<Invoke("mix", <<Local("d"), Local("c")>>)>>)),
  Debugs, Debug(Eq(X, Const(0))),
  If(Eq(X, Const(0)), List(<<Debug(Eq(Y, Const(1)))>>), Eq(Y, Const(2))),
  If(Ne(X, Y), Eq(Y, Const(0)), Void), If(Ne(X, Y), List(<<Debug(Eq(Y, Const(0)))>>), Void),
  Shift(Eq(X, Shift(Y, Const(1))), Sub(<<Const(0), Const(1)>>)),
  Connective("or", <<Eq(X, Y), Not(Connective("and", <<Eq(X, Const(0)), Ne(Y, Const(1))>>))>>),
  Eq(Exp(X, Const(2)), Concat(<<X, Y>>)),
  Eq(Normalise(Cast(4, X)), Invoke("select", <<X, Const(0), UnsafeCast(1, Const(1))>>)),
  Eq(Sub(<<X, Y>>), Invoke("select", <<Shift(Y, Const(1)), Sub(<<X, Y>>), Const(0)>>))}

Others(body) == {
  GuardedBy(B, body), GuardedBy(Invoke("dbl", <<X>>), body),
  Declaration("property", "", <<>>, <<body>>, Void)}

Single == {
  Lookup(X, Invoke("inc", <<B>>), B), Lookup(Concat(<<X, Y>>), Mul(<<X, Invoke("inc", <<X>>)>>), Void),
  Lookup(Concat(<<X, Y, B>>), Concat(<<X, Y>>), Normalise(X)),
  Lookup(P, X, B), Declaration("lookup", "", <<>>, <<P, Const(1), X, B>>, Void),
  Declaration("inrange", "", <<>>, <<Invoke("mix", <<X, Y>>)>>, Void),
  Declaration("computedcolumn", "", <<>>, <<Reduce("+", For("i", 0, 1, Shift(X, Local("i"))))>>, Void),
  Declaration("sorted", "", <<>>, <<X, Y>>, Invoke("inc", <<B>>)),
  DefCall(<<Y>>, "f", <<Invoke("inc", <<X>>)>>, Eq(B, Invoke("inc", <<Const(0)>>))), DefCall(<<>>, "f", <<Shift(X, Const(1))>>, Void)}

Uses == {<<Constraint(b)>> : b \in Bodies} \cup {<<d>> : d \in Single}
        \cup {<<d>> : d \in Others(Debugs) \cup Others(Eq(X, Invoke("inc", <<Y>>)))}
        \cup {<<Perspective("p", B), In("p", Eq(X, Y))>>, <<In("p", Eq(X, Y)), Perspective("p", Invoke("dbl", <<B>>))>>}

(* Constraints may come before, after, or between the functions they use.        *)
Placed(lib, use) == {lib \o use, SubSeq(lib, 1, 3) \o use \o SubSeq(lib, 4, Len(lib)), use \o lib}
Good == UNION {Placed(lib, use) : lib \in Libraries, use \in Uses}

(* Circuits that are not well formed.                                            *)
Faulty == {<<Inc, u>> : u \in {
  Constraint(Eq(ArrayAccess("A", Const(0)), X)), Constraint(Eq(ArrayAccess("A", Const(3)), X)),
  Constraint(Eq(X, Shift(Y, X))), Constraint(Eq(X, Exp(Y, Sub(<<Const(0), Const(1)>>)))),
  Lookup(X, Sub(<<X, Y>>), Void), Lookup(Sub(<<X, Y>>), X, Void), Lookup(X, Y, Invoke("inc", <<B>>)), Lookup(X, Y, Sub(<<B, Const(1)>>)),
  Declaration("inrange", "", <<>>, <<Sub(<<X, Const(1)>>)>>, Void),
  Constraint(Eq(Reduce("+", X), Y)), Constraint(Eq(Concat(<<X, Const(1)>>), Y)),
  Lookup(Invoke("inc", <<P>>), X, Void), Declaration("lookup", "", <<>>, <<P, Const(2), X, Y>>, Void),
  Declaration("lookup", "", <<>>, <<P, X, X, Y>>, Void), Lookup(P, X, P), Lookup(Const(1), X, Void),
  DefCall(<<Y>>, "g", <<X>>, Void), DefCall(<<Y>>, "m", <<X>>, Void), DefCall(<<Y>>, "f", <<>>, Void),
  DefCall(<<>>, "f", <<X, Y>>, Void), DefCall(<<Y, X>>, "f", <<X>>, Void), DefCall(<<Y, X, X>>, "f", <<X>>, Void),
  DefCall(<<Y>>, "f", <<Add(<<X, Mul(<<Y, Y>>)>>)>>, Void), DefCall(<<B>>, "f", <<X>>, Void),
  DefCall(<<Y>>, "f", <<Sub(<<X, Y>>)>>, Void), DefCall(<<Y>>, "f", <<Add(<<X, P>>)>>, Void),
  DefCall(<<Y>>, "f", <<Const(1)>>, Void), DefCall(<<Y>>, "f", <<Shift(X, Y)>>, Void), DefCall(<<Y>>, "f", <<X>>, B)}}

(* A void operand is an error, and only when debug constraints are switched off.    *)
Voids == {<<Inc, Constraint(Eq(Add(<<Debug(X), Y>>), X))>>,
          <<Inc, Constraint(If(Eq(X, Y), Debug(Eq(X, Const(0))), Void))>>}

MCValid == (Good \X BOOLEAN) \cup (Voids \X {TRUE})

MCCircuits == Good \cup Faulty \cup Voids

MCArrays == [A |-> <<1, 2>>]
MCWidths == [X |-> 2, Y |-> 2, B |-> 1, A |-> 2, P |-> 3]
MCModules == [c \in DOMAIN MCWidths |-> IF c = "P" THEN "f" ELSE "m"]
MCExterns ==
  LET Register(kind, width) == [kind |-> kind, width |-> width]
  IN  [f |-> <<Register("input", 3), Register("output", 2), Register("computed", 1)>>]

OneColumn(vs) == [i \in {0} |-> vs]
MCTraces == {
  [base |-> 4, columns |-> [X |-> OneColumn(<<1, 0, 3>>), Y |-> OneColumn(<<0, 2, 2>>), B |-> OneColumn(<<1, 0, 1>>), P |-> OneColumn(<<5, 0, 1>>),
                            A |-> [i \in 1..2 |-> IF i = 1 THEN <<0, 3, 1>> ELSE <<3, 0, 0>>]]],
  [base |-> 4, columns |-> [X |-> OneColumn(<<2, 1, 1>>), Y |-> OneColumn(<<1, 1, 0>>), B |-> OneColumn(<<0, 1, 1>>), P |-> OneColumn(<<1, 7, 0>>),
                            A |-> [i \in 1..2 |-> IF i = 1 THEN <<1, 1, 2>> ELSE <<1, 0, 3>>]]]}
-----------------------------------------------------------------------------
(* Columns to allocate.                                                    *)

Kinds == {<<1, TRUE, 0>>, <<8, TRUE, 1>>, <<1, FALSE, 1>>, <<4, FALSE, 0>>}

(* A column of some kind.                                                        *)
ColumnOf(name, kind) ==
  [name |-> name, dims |-> <<>>, width |-> kind[1], prove |-> kind[2],
   computed |-> FALSE, pad |-> kind[3], mult |-> 1]

NoAliases == [c \in {} |-> <<>>]
ScopeOf(m, p, cols) == [m |-> m, p |-> p, columns |-> cols, aliases |-> NoAliases]

UpTo(n) == UNION {[1..k -> Kinds] : k \in 0..n}
ColumnsOf(kinds) == [i \in DOMAIN kinds |-> ColumnOf(<<i>>, kinds[i])]

ModuleScope ==
  [m |-> 1, p |-> <<>>,
   columns |-> <<[ColumnOf(<<7>>, <<8, TRUE, 0>>) EXCEPT !.computed = TRUE],
                 [ColumnOf(<<8>>, <<1, TRUE, 0>>) EXCEPT !.dims = <<0, 1>>],
                 [ColumnOf(<<6>>, <<8, FALSE, 0>>) EXCEPT !.computed = TRUE, !.mult = 2]>>,
   aliases |-> [c \in {<<9>>} |-> <<7>>]]

OtherModule ==
  <<ScopeOf(2, <<>>, <<>>),
    ScopeOf(2, <<2>>, <<ColumnOf(<<1>>, <<8, TRUE, 1>>)>>),
    ScopeOf(2, <<3>>, <<ColumnOf(<<1>>, <<4, FALSE, 0>>)>>)>>

SmallEnvironments ==
  {<<ModuleScope, ScopeOf(1, <<3>>, ColumnsOf(a)), ScopeOf(1, <<1>>, ColumnsOf(b)),
     ScopeOf(1, <<2>>, ColumnsOf(c))>> \o OtherModule : a \in UpTo(2), b \in UpTo(2), c \in UpTo(1)}
-----------------------------------------------------------------------------
Idle == <<>>
NoResolution == /\ circ = Idle /\ rPhase = "idle" /\ rAt = 0 /\ scope = Idle /\ mult = Idle /\ fin = Idle /\ done = Idle
                /\ failed = Idle /\ completed = Idle /\ uncompleted = 0 /\ changed = FALSE /\ count = 0 /\ errors = Idle
NoTranslation == source = Idle /\ debug = FALSE /\ decls = Idle /\ phase = "idle" /\ at = 0 /\ bad = FALSE /\ out = Idle
NoAllocation == /\ scopes = Idle /\ allocator = "none" /\ aPhase = "idle" /\ registers = Idle /\ columnMap = Idle
                /\ todo = Idle /\ groups = Idle /\ pass = Idle /\ aAt = Idle /\ schema = Idle

MCInit ==
    \/ part = "resolve" /\ R!Init /\ NoTranslation /\ NoAllocation
    \/ part = "translate" /\ NoResolution /\ Init /\ NoAllocation
    \/ part = "allocate" /\ NoResolution /\ NoTranslation /\ A!Init

MCNext ==
    \/ part = "resolve" /\ R!Next /\ UNCHANGED <<part, vars, allocationVars>>
    \/ part = "translate" /\ Next /\ UNCHANGED <<part, resolverVars, allocationVars>>
    \/ part = "allocate" /\ A!Next /\ UNCHANGED <<part, resolverVars, vars>>

(* Each part is sequential code: it takes its next step until it returns.  *)
(* This is weak fairness of MCNext, which is enabled until then.           *)
Returned == R!Returned \/ Ended \/ A!Ended
MCSpec == MCInit /\ [][MCNext]_allVars /\ ([]<>Returned \/ []<><<MCNext>>_allVars)
-----------------------------------------------------------------------------
(* Resolution accepts a circuit only with every symbol bound to something  *)
(* finalised and no recursion, gives up only on circuits that cannot be    *)
(* resolved, whatever the order of declarations, and nothing that a        *)
(* declaration was judged by changes later (resolver.go, scope.go).        *)
ResolvedRight ==
    part = "resolve" =>
        /\ R!TypeOK /\ R!AcceptedIsBound /\ R!AcceptedIsFinalised /\ R!AcceptedIsAcyclic
        /\ R!StuckForCause /\ R!VerdictsStand

(* Circuits that come out wrong.  A variable and another one below it have *)
(* the same index (scope.go:679), or the argument of a function that is    *)
(* declared later has a variable of the index of one that is bound there:  *)
(* the inner one captures the outer (expression.go:1264).                  *)
RECURSIVE Within(_)
Within(e) == {e} \cup UNION {Within(e.args[i]) : i \in DOMAIN e.args}
Binders(e) == {b \in Within(e) : b.op \in {"let", "for"}}
Indices(bs) == UNION {ToSet(b.idx) : b \in bs}
Expressions(d) == Append(d.exprs, d.guard)
Later(ds, i, f) == {ds[j] : j \in {k \in DOMAIN ds : k > i /\ ds[k].kind = "fun" /\ ds[k].name = f}}

Captures(circuit) ==
    LET ds == Tuple([i \in DOMAIN circuit |-> ResolveDeclaration(circuit[i])])
    IN  \E i \in DOMAIN ds : \E e \in UNION {Within(Expressions(ds[i])[j]) : j \in DOMAIN Expressions(ds[i])} :
            \/ e \in Binders(e) /\ ToSet(e.idx) \cap Indices(Binders(Last(e.args))) # {}
            \/ /\ ds[i].kind = "fun" /\ e.op = "invoke"
               /\ \E f \in Later(ds, i, e.sym), j \in DOMAIN e.args :
                      Indices({v \in Within(e.args[j]) : v.op = "local"}) \cap Indices(Binders(f.exprs[1])) # {}

(* A reduction applies a function declared later, which is not expanded    *)
(* yet and not after either (preprocessor.go:507): it is rejected.         *)
ReducesLate(circuit) ==
    \E i \in DOMAIN circuit, j \in 1..2 : j \in DOMAIN circuit[i].exprs /\
        \E e \in Within(circuit[i].exprs[j]) : e.op = "reduce" /\ \E f \in Later(circuit, i, e.sym) :
            Anywhere(f.exprs[1], {"invoke", "reduce", "let", "for"})

(* What compilation makes of a declaration means, on every trace and row,  *)
(* what the declaration says, nothing is left to expand, no constraint has *)
(* a hole, and exactly the well formed circuits compile, whether functions *)
(* are declared before or after their uses (preprocessor.go,               *)
(* translator.go).  Two kinds of circuits are excepted: where a variable   *)
(* captures another nothing is claimed of the meaning, and a reduction by  *)
(* a later function with something to expand is rejected.                  *)
TranslatedRight ==
    part = "translate" =>
        /\ TypeOK /\ TermsAreWhole
        /\ ~Captures(source) => SameMeaning
        /\ IF ReducesLate(source) THEN Ended => phase = "reject" ELSE FullyExpanded /\ AcceptedIffValid

(* Allocation keeps every column in a register of its own perspective or   *)
(* in none else, as wide and proved as its type, registers that could be   *)
(* shared are, and allocating never panics (environment.go,                *)
(* allocation.go).                                                         *)
AllocatedRight ==
    part = "allocate" =>
        /\ A!TypeOK /\ A!ColumnsHeld /\ A!NoOverlap /\ A!RegistersFit /\ A!Compacted
        /\ A!InputsFirst /\ A!NeverPanics

(* Resolution ends, also when declarations report a change in every        *)
(* iteration, and so do translation and allocation (resolver.go,           *)
(* translator.go, allocation.go).                                          *)
CompilationEnds == <>Returned
=============================================================================
