---------------------------- MODULE MCConstraints ----------------------------
(***************************************************************************)
(* What the compiler and the checker do with constraints, on small inputs: *)
(*  - terms of up to three levels over a register X of two bits (which is  *)
(*    split into limbs of one bit), a bit Y and a labelled constant, on    *)
(*    traces of two rows, are simplified;                                  *)
(*  - constraints of every kind over a module m with registers X and Y,    *)
(*    and a module n with register A, are checked on all small traces;     *)
(*  - a file with every kind of term, in every kind of constraint, one     *)
(*    constraint and one term at a time, is saved and loaded.              *)
(***************************************************************************)
EXTENDS BinaryFile

CONSTANTS Exponents,   \* the exponents in use
          Constants,   \* the constants in use
          Heights      \* the heights of module m

VARIABLES part,        \* "term", "constraint" or "file"
          input,       \* a term or a constraint, and the trace it is about
          result       \* the simplified term or the verdict, Pending until then

allVars == <<part, input, result, vars>>

Idle == [op |-> "idle"]
Pending == [op |-> "pending", fail |-> "pending"]
-----------------------------------------------------------------------------
(* Terms.                                                                  *)

X(s) == RawRegisterAccess("X", 2, s)
Y(s) == RawRegisterAccess("Y", 1, s)
LX(s) == Mask(X(s), 1)
K == LabelledConstant("K", 1)
Cast(a) == WithNumber("cast", a, 1)
Eq(a, b) == Term("eq", <<a, b>>)

Atoms == {Const(c) : c \in Constants} \union {X(0), X(-1), Y(1), K, LX(0)}
Few == {Const(c) : c \in Constants} \union {X(0), Y(1)}

Binary(As, Bs) == {Term(op, <<a, b>>) : op \in {"add", "sub", "mul"}, a \in As, b \in Bs}
Unary(As) == UNION {{WithNumber("exp", a, n) : n \in Exponents} : a \in As}
             \union {Term("norm", <<a>>) : a \in As} \union {Cast(a) : a \in As}
Vectors == {Term("vec", <<Y(0), X(1)>>), Term("vec", <<LX(0), Y(-1)>>)}
Tests(As, Bs) == {Term(op, <<a, b>>) : op \in {"eq", "ne"}, a \in As, b \in Bs}
Branch == Tests({X(0)}, {Const(1), Y(0)}) \union {Truth, Falsehood}
Conditionals(Bs, op) == {Term(op, <<c, t, f>>) : c \in Branch, t \in Bs, f \in Bs}

OneLevel == Binary(Atoms, Few) \union Unary(Atoms) \union Vectors
            \union Conditionals({X(0), Const(2), Cast(X(-1))}, "if")
Core == Binary({X(0), Const(2), K}, {Y(1), Const(1)}) \union Unary({X(-1)}) \union Vectors
        \union Conditionals({X(0), Cast(X(-1))}, "if")
Sums == Binary({X(0), Const(2)}, {Y(1), Const(1)})
WithX == {t \in Sums : t.args[1] = X(0)}
Expressions ==
    Atoms \union OneLevel \union Binary(Core, {Y(0), Const(1)})
    \union Binary({X(0), Const(2)}, Core) \union Unary(Core)
    \union {Term(op, <<X(0), b, c>>) : op \in {"add", "sub", "mul"}, b \in Sums, c \in WithX}
    \union {Term("sub", <<a, b, c>>) : a \in {Cast(X(-1)), Const(1), Const(2)},
                                      b \in WithX \union {Const(1)}, c \in WithX \union {Y(0)}}
Formulas ==
    LET Bits == Tests({X(0), Cast(X(-1))}, {Const(1), Y(0)}) \union {Truth, Falsehood}
        Two == {Term(op, <<a, b>>) : op \in {"and", "or"}, a \in Bits, b \in Bits}
               \union Conditionals(Bits \union {Nil}, "ite") \union {Term("not", <<a>>) : a \in Bits}
        Inner == {t \in Two : t.op # "ite" /\ t.args[1] = Eq(X(0), Const(1))}
    IN  Tests(Few, Core) \union Two \union {Term("not", <<t>>) : t \in Two}
        \union {Term(op, <<a, b>>) : op \in {"and", "or"}, a \in Inner, b \in Inner}
        \union {Term("ite", <<a, b, c>>) : a \in Inner, b \in {Nil, Truth}, c \in {Nil, Falsehood}}

ColumnOf(data) == [data |-> data, pad |-> 0]
Columns(x, y) == [X |-> ColumnOf(x), Y |-> ColumnOf(y)]
TwoRows == {Columns(<<0, 1>>, <<1, 0>>), Columns(<<1, 2>>, <<0, 1>>), Columns(<<3, 0>>, <<1, 1>>)}

ATerm == {[term |-> t, cols |-> c] : t \in Expressions \union Formulas, c \in TwoRows}
-----------------------------------------------------------------------------
(* Constraints.                                                            *)

A == RawRegisterAccess("A", 2, 0)
Plus(a, b) == Term("add", <<a, b>>)

Vanishing(kind, domain, t) == [kind |-> kind, module |-> "m", domain |-> domain, term |-> t]
Vector(m, selector, ts) == [module |-> m, selector |-> selector, terms |-> ts]
Lookup(targets, sources) == [kind |-> "lookup", targets |-> targets, sources |-> sources]
Sorted(ts, signs, strict, selector) ==
    [kind |-> "sorted", module |-> "m", terms |-> ts, signs |-> signs, strict |-> strict,
     width |-> 2, selector |-> selector]

GlobalConstraints ==
    {Vanishing(kind, None, t) : kind \in {"vanishing", "assertion"},
        t \in {Eq(Term("mul", <<Y(0), Term("sub", <<X(0), X(-1)>>)>>), Const(0)),
               Term("or", <<Eq(X(0), Y(1)), Eq(X(-1), Const(2))>>), Eq(Cast(X(0)), Y(0))}}
LocalConstraints ==
    {Vanishing(kind, d, t) : kind \in {"vanishing", "assertion"}, d \in {0, 1, -1},
        t \in {Eq(X(0), Const(1)), Eq(X(0), Plus(X(-1), Y(0)))}}
OneModule ==
    {[kind |-> "range", module |-> "m", terms |-> <<X(0), Plus(X(0), Y(0))>>, widths |-> <<1, 2>>],
     [kind |-> "permutation", module |-> "m", targets |-> <<"X", "Y">>, sources |-> <<"Y", "X">>]}
    \union {Sorted(<<X(0), Y(0)>>, <<TRUE, FALSE>>, strict, Nil) : strict \in BOOLEAN}
    \union {Sorted(<<X(1)>>, <<FALSE>>, FALSE, Y(0)), Sorted(<<X(0)>>, <<TRUE>>, TRUE, Cast(X(0)))}
TwoModules ==
    {Lookup(<<Vector("n", Nil, <<A, Const(1)>>)>>, <<Vector("m", Nil, <<X(0), Y(0)>>)>>),
     Lookup(<<Vector("n", A, <<Plus(A, Const(1))>>), Vector("m", Y(0), <<X(-1)>>)>>, <<Vector("m", Y(0), <<X(0)>>)>>),
     Lookup(<<Vector("n", Nil, <<A>>)>>, <<Vector("m", Y(0), <<Cast(X(0))>>), Vector("m", Cast(X(0)), <<Y(1)>>)>>),
     [kind |-> "interleaving", module |-> "m", source |-> "n", target |-> X(0),
      terms |-> <<A, Term("sub", <<Const(2), A>>)>>]}

Table(height, cols) == [height |-> height, cols |-> cols]
BitsOf(h) == IF h < 4 THEN [1..h -> 0..1] ELSE {<<0, 1, 1, 0>>, <<1, 1, 0, 1>>}
TablesM == UNION {{Table(h, Columns(x, y)) : x \in [1..h -> 0..2], y \in BitsOf(h)} : h \in Heights}
TablesN == UNION {{Table(h, [A |-> ColumnOf(a)]) : a \in [1..h -> 0..2]} : h \in 0..2}
SomeN == {Table(2, [A |-> ColumnOf(<<0, 1>>)])}

Checks(cs, ns) == {[constraint |-> c, trace |-> [m |-> m, n |-> n]] : c \in cs, m \in TablesM, n \in ns}

AConstraint == Checks(GlobalConstraints \union LocalConstraints \union OneModule, SomeN)
               \union Checks(TwoModules, TablesN)
-----------------------------------------------------------------------------
(* Files.                                                                  *)

R0 == RawRegisterAccess(0, 8, 0)
R3 == RawRegisterAccess(3, 14, -1)
R9 == Mask(RawRegisterAccess(9, 14, 2), 5)

Arith ==
  {R0, R3, R9, Const(0), Const(7), Const(12), LabelledConstant("K", 9), Term("add", <<R0, R3, Const(3)>>),
   Term("sub", <<Const(0), R0>>), Term("mul", <<Term("add", <<R0, R9>>), R3>>), Term("norm", <<R3>>),
   WithNumber("cast", R9, 3), WithNumber("exp", R0, 70), Term("vec", <<R0, R3, R9>>),
   Term("if", <<Eq(R0, Const(0)), R3, Term("sub", <<R0, R3>>)>>)}

Logic ==
  LET C == Eq(R0, R3)
      D == Term("ne", <<R9, Const(1)>>)
  IN  {C, D, Truth, Falsehood, Term("and", <<C, D, C>>), Term("or", <<D, Term("and", <<C, C>>)>>),
       Term("not", <<Term("or", <<C, D>>)>>), Term("ite", <<C, D, Nil>>), Term("ite", <<C, Nil, D>>),
       Term("ite", <<D, C, Term("not", <<C>>)>>)}

Kinds(t) ==
  {[kind |-> "range", handle |-> "r", module |-> 1, bitwidths |-> <<8, 5>>, sources |-> <<t, R0>>],
   [kind |-> "interleaving", handle |-> "i", module |-> 1, target |-> t, source |-> 2, sources |-> <<R0, t>>],
   [kind |-> "lookup", handle |-> "l", targets |-> <<Vector(1, Nil, <<t, R0>>), Vector(1, t, <<R0, R0>>)>>,
    sources |-> <<Vector(1, R0, <<t, R0>>)>>],
   [kind |-> "sorted", handle |-> "s", module |-> 1, bitwidth |-> 8, signs |-> <<TRUE>>, strict |-> TRUE,
    selector |-> Nil, sources |-> <<t>>],
   [kind |-> "sorted", handle |-> "s", module |-> 1, bitwidth |-> 8, signs |-> <<FALSE, TRUE>>, strict |-> FALSE,
    selector |-> R0, sources |-> <<t, R3>>],
   [kind |-> "call", handle |-> "c", caller |-> 1, callee |-> 2, returns |-> <<R0>>, arguments |-> <<t, R3>>,
    selector |-> Nil]}

LogicKinds(t) ==
  {[kind |-> "vanishing", handle |-> "v", module |-> 1, domain |-> None, term |-> t],
   [kind |-> "assertion", handle |-> "a", module |-> 1, domain |-> -1, term |-> t],
   [kind |-> "call", handle |-> "c", caller |-> 1, callee |-> 2, returns |-> <<R0>>, arguments |-> <<>>,
    selector |-> t]}

AllConstraints ==
  UNION {Kinds(t) : t \in Arith} \cup UNION {LogicKinds(t) : t \in Logic}
    \cup {[kind |-> "permutation", handle |-> "p", module |-> 1, targets |-> <<3, 4>>, sources |-> <<0, 1>>]}

Registers ==
  <<[kind |-> 0, width |-> 8, name |-> "X", len |-> 1, pad |-> 0],
    [kind |-> 1, width |-> FieldWidth, name |-> "INV", len |-> 3, pad |-> 9]>>

Function == [name |-> "f", registers |-> Registers, buses |-> <<>>, code |-> <<"add", "ret">>,
             inputs |-> 1, outputs |-> 1, public |-> TRUE]

ModuleOf(cs) ==
  [name |-> "m", multiplier |-> 2, padding |-> TRUE, native |-> FALSE, static |-> TRUE, contents |-> <<<<1>>, <<2>>>>,
   registers |-> Registers, constraints |-> cs, assignments |-> <<"assign">>, public |-> TRUE,
   synthetic |-> FALSE, keys |-> 0]

FileOf(ms) ==
  [id |-> ZKBINARY, major |-> MAJOR_VERSION, minor |-> MINOR_VERSION, metalen |-> 2, meta |-> "{}",
   attributes |-> <<"source map">>, functions |-> <<Function>>, modules |-> ms]

LongName == [ModuleOf(<<>>) EXCEPT !.registers[1].len = 8]

MCFiles ==
  {FileOf(<<ModuleOf(<<c>>)>>) : c \in AllConstraints}
    \cup {FileOf(<<>>), FileOf(<<LongName>>), [FileOf(<<>>) EXCEPT !.id = "lt"],
          [FileOf(<<ModuleOf(<<>>), ModuleOf(<<>>)>>) EXCEPT !.metalen = 0, !.meta = ""]}

MCVersions == {<<11, 0>>, <<11, 2>>, <<10, 1>>, <<12, 1>>}
-----------------------------------------------------------------------------
NoFile == file = Idle /\ items = <<>> /\ stage = "saving" /\ whole = TRUE /\ outcome = NotLoaded

MCInit ==
    \/ part = "term" /\ input \in ATerm /\ result = Pending /\ NoFile
    \/ part = "constraint" /\ input \in AConstraint /\ result = Pending /\ NoFile
    \/ part = "file" /\ input = Idle /\ result = Idle /\ Init

(* What the compiler does with every term before it is lowered.            *)
SimplifyTerm ==
    /\ part = "term"
    /\ result = Pending
    /\ result' = Simplify(input.term, FALSE)
    /\ UNCHANGED <<part, input, vars>>

CheckConstraint ==
    /\ part = "constraint"
    /\ result = Pending
    /\ result' = AcceptsConstraint(input.constraint, input.trace)
    /\ UNCHANGED <<part, input, vars>>

SaveAndLoad == part = "file" /\ Next /\ UNCHANGED <<part, input, result>>

MCNext == SimplifyTerm \/ CheckConstraint \/ SaveAndLoad

MCSpec == MCInit /\ [][MCNext]_allVars
-----------------------------------------------------------------------------
Rows == 1..2
At(t, k) == Attrs(t, k, input.cols)
Simplified == part = "term" /\ result # Pending
IsFormula(t) == t.op \in {"eq", "ne", "and", "or", "not", "ite"}

(* No access leaves out set bits of its register.                          *)
MasksHold == IsUnsafe(input.term) => \A i \in Rows : input.cols.X.data[i] < 2

Preserves(old, new) ==
    \A k \in Rows : ~At(old, k).err => ~At(new, k).err /\ At(new, k).val = At(old, k).val

NegationComplements ==
    IsFormula(input.term) =>
        \A k \in Rows : LET a == At(input.term, k)
                            n == At(Negate(input.term), k)
                        IN  n.err = a.err /\ (~a.err => n.val = ~a.val)

ShiftMovesRow ==
    \A k \in Rows, s \in -1..1 :
        LET a == At(ApplyShift(input.term, s), k)
            b == At(input.term, k + s)
        IN  a.err = b.err /\ a.val = b.val /\ a.cells = b.cells

LimbsOfXY == [X |-> <<[reg |-> "XL", width |-> 1], [reg |-> "XH", width |-> 1]>>,
              Y |-> <<[reg |-> "Y", width |-> 1]>>]
LimbTrace ==
    [XL |-> ColumnOf([i \in Rows |-> input.cols.X.data[i] % 2]),
     XH |-> ColumnOf([i \in Rows |-> input.cols.X.data[i] \div 2]), Y |-> input.cols.Y]

SubdivisionPreserves ==
    MasksHold => \A k \in Rows :
        ~At(input.term, k).err => LET a == Attrs(Subdivide(input.term, LimbsOfXY), k, LimbTrace)
                                  IN  ~a.err /\ a.val = At(input.term, k).val

(* Simplified with and without casts, and with new values for its labelled *)
(* constants before or after, a term keeps its value on every row on which *)
(* its evaluation succeeds: constants are folded, sums and products        *)
(* flattened, and a - b - c viewed as a - (b + c) (ir/term/sub.go:126).    *)
SimplificationPreserves ==
    Simplified /\ result # Panic =>
        /\ Preserves(input.term, result)
        /\ Preserves(input.term, Simplify(input.term, TRUE))
        /\ \A v \in {0, 2} : Preserves(Substitute(input.term, [K |-> v]), Substitute(result, [K |-> v]))

(* A constant minus a sum in which flattening has left several constants:  *)
(* only the first is subtracted, and all are dropped (sub.go:148-153).     *)
LosesConstant(t) ==
    /\ t.op = "sub"
    /\ LET ts == [i \in DOMAIN t.args |-> Simplify(t.args[i], FALSE)]
           sum == SimplifySum(Tail(ts))
           constants == {i \in DOMAIN sum.args : IsConst(sum.args[i])}
       IN  /\ IsConst(ts[1]) /\ sum.op = "add" /\ Cardinality(constants) > 1
           /\ sum.args[Min(constants)].val <= ts[1].val

(* The other rewritings of a term keep its value likewise: negated down to *)
(* its equations, shifted, turned into the computation that fills a        *)
(* register, or written over limbs (ir/term).                              *)
RewritingPreserves ==
    Simplified =>
        /\ NegationComplements
        /\ ShiftMovesRow
        /\ Preserves(input.term, NewComputation(input.term))
        /\ SubdivisionPreserves

(* Cells the term does not require cannot change its value: the report of  *)
(* a failing constraint shows all that matters.                            *)
CellsSuffice(k) ==
    LET a == At(input.term, k)
    IN  \A other \in TwoRows :
            (\A c \in a.cells : Get(input.cols[c[1]], c[2]) = Get(other[c[1]], c[2])) =>
                LET b == Attrs(input.term, k, other) IN a.err = b.err /\ a.val = b.val

(* What is known of a term without evaluating it is true of every          *)
(* evaluation: inside its bounds it never leaves the trace, its shifts and *)
(* registers cover the cells it reads and those decide its value, its      *)
(* value range (which sizes casts, lookups and limbs) contains its value,  *)
(* and only a term reported as unsafe fails (ir/term, util/math/interval). *)
AttributesSound ==
    Simplified => \A k \in Rows :
        LET a == At(input.term, k)
        IN  /\ \A c \in a.cells : /\ k - a.start >= 1 /\ k + a.end <= 2 => c[2] \in Rows
                                  /\ c[2] - k \in a.lo..a.hi /\ c[1] \in a.regs
            /\ CellsSuffice(k)
            /\ ~IsFormula(input.term) /\ ~a.err /\ MasksHold => IntervalContains(a.range, a.int)
            /\ a.err => IsUnsafe(input.term)

(* Terms: what rewriting and what is known without evaluating promise,     *)
(* with one exception: of a constant minus a sum with several constants    *)
(* the simplified term is not claimed to keep the value (sub.go:148-153).  *)
TermsSound ==
    /\ Simplified /\ ~LosesConstant(input.term) => SimplificationPreserves
    /\ RewritingPreserves
    /\ AttributesSound
-----------------------------------------------------------------------------
constraint == input.constraint
trace == input.trace
Accepts == result.fail = "none"
Inside(m, cells) == \A c \in cells : c[2] \in 1..trace[m].height

(* On every row from which the constraint reaches rows of the table only.  *)
VanishingHolds ==
    constraint.domain = None =>
        (Accepts <=> \A k \in 0..(trace.m.height - 1) :
                        LET a == EvalAt(constraint.term, k, trace.m)
                        IN  Inside("m", a.cells) => ~a.err /\ a.val)

(* As a constraint or as an assertion, on a row that the module has.       *)
KindsAgree ==
    (constraint.domain = None \/ constraint.domain \in (-trace.m.height)..(trace.m.height - 1)) =>
        \A other \in {"vanishing", "assertion"} :
            AcceptsConstraint([constraint EXCEPT !.kind = other], trace) = result

Tuple(v, k) == [i \in DOMAIN v.terms |-> EvalAt(v.terms[i], k, trace[v.module]).val]
Tuples(vs) ==
    UNION {{Tuple(vs[i], k) : k \in {k \in 0..(trace[vs[i].module].height - 1) : Selected(vs[i], k, trace[vs[i].module])}}
           : i \in DOMAIN vs}
EvaluationFails(vs) ==
    \E i \in DOMAIN vs : LET mod == trace[vs[i].module]
                         IN  \E k \in 0..(mod.height - 1) :
                                \/ SelectorFails(vs[i], k, mod)
                                \/ /\ Selected(vs[i], k, mod)
                                   /\ \E j \in DOMAIN vs[i].terms : EvalAt(vs[i].terms[j], k, mod).err

(* Every term fits its width on every row.                                 *)
RangeHolds ==
    Accepts <=> \A k \in 0..(trace.m.height - 1), i \in DOMAIN constraint.terms :
                    LET a == EvalAt(constraint.terms[i], k, trace.m)
                    IN  Inside("m", a.cells) => ~a.err /\ a.val < 2^constraint.widths[i]

(* Every selected source row is a selected target row, and nothing fails.  *)
LookupHolds ==
    Accepts <=> /\ ~EvaluationFails(constraint.targets) /\ ~EvaluationFails(constraint.sources)
                /\ Tuples(constraint.sources) \subseteq Tuples(constraint.targets)

(* The targets have every row as often as the sources have it.             *)
PermutationHolds ==
    LET times(regs, r) == Cardinality({k \in 0..(trace.m.height - 1) : RowOf(regs, k, trace.m) = r})
    IN  Accepts <=> \A r \in (0..2) \X (0..2) : times(constraint.targets, r) = times(constraint.sources, r)

(* Comparing neighbours orders all the rows.                               *)
SortedHolds ==
    constraint.selector = Nil =>
        LET row(k) == [i \in DOMAIN constraint.terms |-> EvalAt(constraint.terms[i], k, trace.m).val]
            before(a, b) == \E i \in DOMAIN a : /\ \A j \in 1..(i - 1) : a[j] = b[j]
                                                /\ IF constraint.signs[i] THEN a[i] < b[i] ELSE a[i] > b[i]
        IN  Accepts <=> \A k, l \in 0..(trace.m.height - 1) :
                            k < l => before(row(k), row(l)) \/ (~constraint.strict /\ row(k) = row(l))

(* A target as high as its sources together alternates between them.       *)
InterleavingHolds ==
    trace.m.height = 2 * trace.n.height =>
        (Accepts <=> \A k \in 1..trace.n.height : /\ trace.m.cols.X.data[2 * k - 1] = trace.n.cols.A.data[k]
                                                  /\ trace.m.cols.X.data[2 * k] = (2 - trace.n.cols.A.data[k]) % P)

(* A constraint is accepted exactly by the traces on which it holds, read  *)
(* mathematically: the bounds of the rows that are visited, the one buffer *)
(* that lookup rows are evaluated into, the sorting of both sides of a     *)
(* permutation and the comparison of neighbours change no verdict          *)
(* (ir/mir, schema/constraint).                                            *)
AcceptedExactly ==
    part = "constraint" /\ result # Pending =>
        CASE constraint.kind \in {"vanishing", "assertion"} -> VanishingHolds /\ KindsAgree
          [] constraint.kind = "lookup" -> LookupHolds
          [] constraint.kind = "permutation" -> PermutationHolds
          [] constraint.kind = "sorted" -> SortedHolds
          [] constraint.kind = "interleaving" -> InterleavingHolds
          [] constraint.kind = "range" -> RangeHolds
-----------------------------------------------------------------------------
(* A file of a version this program reads loads back as it was saved, one  *)
(* that lost its end is never taken for a schema with fewer constraints,   *)
(* and one of another version is refused for that before anything after    *)
(* its header is decoded (binfile.go, encoding.go).                        *)
LoadsBack == part = "file" => RoundTrip /\ TruncationDetected /\ VersionsKeptApart
=============================================================================
