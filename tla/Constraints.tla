---------------------------- MODULE Constraints -----------------------------
(***************************************************************************)
(* Terms of the intermediate representations: arithmetic terms, evaluated  *)
(* on a row of a module's trace to a field element, and logical terms,     *)
(* tested there.                                                           *)
(*                                                                         *)
(* A term is a record whose op is its kind.  What the methods of a kind    *)
(* compute is an attribute record, synthesised from the attributes of the  *)
(* arguments:                                                              *)
(*     val, err    value (or truth) on the row, and whether evaluation     *)
(*                 ends in an error; int is the value without reduction    *)
(*     regs, cells what the term needs to know of the trace                *)
(*     start, end  rows before and after the row that evaluation reaches   *)
(*     lo, hi      the least and the greatest shift of an access           *)
(*     range       the interval of values                                  *)
(*                                                                         *)
(* A trace maps every register to a record [data, pad].                    *)
(***************************************************************************)
EXTENDS Intervals, Sequences, SequencesExt, FiniteSetsExt

CONSTANTS P,           \* the field's prime
          FieldWidth   \* math.MaxUint: the width of a register of field type

ASSUME FieldAssumption == P \in Nat /\ P > 2 /\ FieldWidth \in Nat

NoShift == 1000        \* math.MaxInt: a term without an access has no shift

Const(v) == [op |-> "const", val |-> v]
LabelledConstant(label, v) == [op |-> "lconst", label |-> label, val |-> v]
Term(op, args) == [op |-> op, args |-> args]
WithNumber(op, arg, n) == [op |-> op, args |-> <<arg>>, n |-> n]
RawRegisterAccess(r, width, shift) ==
    [op |-> "reg", reg |-> r, width |-> width, mask |-> width, shift |-> shift]
Mask(r, width) == [r EXCEPT !.mask = width]
Nil == [op |-> "nil"]                 \* an absent branch of a conditional
Panic == [op |-> "panic"]             \* a cast that cannot succeed, met by the compiler
Truth == Term("and", <<>>)
Falsehood == Term("or", <<>>)

IsConst(t) == t.op = "const"
IsZero(t) == IsConst(t) /\ t.val = 0
IsOne(t) == IsConst(t) /\ t.val = 1
IsLeaf(t) == t.op \in {"const", "lconst", "reg", "nil", "panic"}
-----------------------------------------------------------------------------
(* Attributes of the kinds of term.                                        *)

Get(column, row) ==
    IF row \in DOMAIN column.data THEN column.data[row] ELSE column.pad

Leaf == [regs |-> {}, cells |-> {}, start |-> 0, end |-> 0,
         lo |-> NoShift, hi |-> -NoShift, err |-> FALSE]

(* What a term inherits from all of its arguments as.                      *)
Shape(as) ==
    LET args == Range(as)
    IN  [regs |-> UNION {a.regs : a \in args}, cells |-> UNION {a.cells : a \in args},
         start |-> Max({0} \union {a.start : a \in args}),
         end |-> Max({0} \union {a.end : a \in args}),
         lo |-> Min({NoShift} \union {a.lo : a \in args}),
         hi |-> Max({-NoShift} \union {a.hi : a \in args})]

Failed(as) == \E i \in DOMAIN as : as[i].err

(* The first argument that satisfies a test, or 0.                         *)
First(as, Test(_)) ==
    IF \E i \in DOMAIN as : Test(as[i])
    THEN Min({i \in DOMAIN as : Test(as[i])})
    ELSE 0

Total(as, Val(_)) == FoldLeft(LAMBDA sum, a : sum + Val(a), 0, as)

ConstAttrs(v) == [int |-> v, val |-> v, range |-> NewInterval(v, v)] @@ Leaf

(* A labelled constant is not known to be constant: its value may be       *)
(* replaced in the binary.                                                 *)
LabelledAttrs(v) == ConstAttrs(v)

(* A faulty access whose bounds ignore the direction of the shift.         *)
RegAttrsForward(t, k, tr) ==
    [val |-> Get(tr[t.reg], k + t.shift), int |-> Get(tr[t.reg], k + t.shift),
     regs |-> {t.reg}, cells |-> {<<t.reg, k + t.shift>>},
     start |-> 0, end |-> IF t.shift >= 0 THEN t.shift ELSE -t.shift,
     lo |-> t.shift, hi |-> t.shift, err |-> FALSE,
     range |-> IF t.width = FieldWidth THEN INFINITY ELSE ValueRangeOfBits(t.mask)]

RegAttrs(t, k, tr) ==
    [val |-> Get(tr[t.reg], k + t.shift), int |-> Get(tr[t.reg], k + t.shift),
     regs |-> {t.reg}, cells |-> {<<t.reg, k + t.shift>>},
     start |-> IF t.shift < 0 THEN -t.shift ELSE 0,
     end |-> IF t.shift >= 0 THEN t.shift ELSE 0,
     lo |-> t.shift, hi |-> t.shift, err |-> FALSE,
     range |-> IF t.width = FieldWidth THEN INFINITY ELSE ValueRangeOfBits(t.mask)]

(* The accesses of a vector, the least significant first.                  *)
VecAttrs(vars, as) ==
    LET below(i) == Total(SubSeq(vars, 1, i - 1), LAMBDA v : v.mask)
        whole == Total([i \in DOMAIN as |-> [v |-> as[i].val * 2^below(i)]], LAMBDA a : a.v)
    IN  [val |-> whole % P, int |-> whole, err |-> Failed(as),
         range |-> ValueRangeOfBits(Total(vars, LAMBDA v : v.mask))] @@ Shape(as)

RangeOver(as, Op(_, _)) == FoldLeft(LAMBDA r, a : Op(r, a.range), as[1].range, Tail(as))

AddAttrs(as) ==
    [val |-> Total(as, LAMBDA a : a.val) % P, int |-> Total(as, LAMBDA a : a.int),
     err |-> Failed(as), range |-> RangeOver(as, IntervalAdd)] @@ Shape(as)

SubAttrs(as) ==
    [val |-> (as[1].val - Total(Tail(as), LAMBDA a : a.val)) % P,
     int |-> as[1].int - Total(Tail(as), LAMBDA a : a.int),
     err |-> Failed(as), range |-> RangeOver(as, IntervalSub)] @@ Shape(as)

(* Evaluation stops at the first zero: what follows cannot fail.           *)
MulAttrs(as) ==
    LET stop == First(as, LAMBDA a : a.err \/ a.val = 0)
    IN  [val |-> FoldLeft(LAMBDA x, a : (x * a.val) % P, 1, as),
         int |-> FoldLeft(LAMBDA x, a : x * a.int, 1, as),
         err |-> stop # 0 /\ as[stop].err,
         range |-> RangeOver(as, IntervalMul)] @@ Shape(as)

(* The power by repeated squaring.                                         *)
Pow(v, n) ==
    LET pow[m \in 0..n] == IF m = 0 THEN 1
                           ELSE IF m = 1 THEN v
                           ELSE IF m % 2 = 1 THEN (pow[m \div 2] * pow[m \div 2] * v) % P
                           ELSE (pow[m \div 2] * pow[m \div 2]) % P
    IN  pow[n]

ExpAttrs(a, n) ==
    [val |-> Pow(a.val, n), int |-> IF n = 0 THEN 1 ELSE a.int^n, err |-> a.err,
     range |-> IntervalExp(a.range, n)] @@ Shape(<<a>>)

NormOf(v) == IF v = 0 THEN 0 ELSE 1

NormAttrs(a) ==
    [val |-> NormOf(a.val), int |-> NormOf(a.val), err |-> a.err,
     range |-> NewInterval(0, 1)] @@ Shape(<<a>>)

(* A cast fails at runtime on a value of more than n bits.                 *)
CastAttrs(a, n) ==
    [val |-> a.val, int |-> a.val, err |-> a.err \/ a.val >= 2^n,
     range |-> IF Within(a.range, ValueRangeOfBits(n)) THEN a.range
               ELSE ValueRangeOfBits(n)] @@ Shape(<<a>>)

IfZeroAttrs(c, t, f) ==
    LET taken == IF c.val THEN t ELSE f
    IN  [val |-> taken.val, int |-> taken.int, err |-> c.err \/ taken.err,
         range |-> Union(t.range, f.range)] @@ Shape(<<c, t, f>>)

EqualAttrs(l, r) == [val |-> l.val = r.val, err |-> l.err \/ r.err] @@ Shape(<<l, r>>)

NotEqualAttrs(l, r) == [val |-> l.val # r.val, err |-> l.err \/ r.err] @@ Shape(<<l, r>>)

(* Tested from left to right, up to the first argument that decides.       *)
ConjunctAttrs(as) ==
    LET stop == First(as, LAMBDA a : a.err \/ ~a.val)
    IN  [val |-> stop = 0, err |-> stop # 0 /\ as[stop].err] @@ Shape(as)

DisjunctAttrs(as) ==
    LET stop == First(as, LAMBDA a : a.err \/ a.val)
    IN  [val |-> stop # 0, err |-> stop # 0 /\ as[stop].err] @@ Shape(as)

NegateAttrs(a) == [val |-> ~a.val, err |-> a.err] @@ Shape(<<a>>)

NilAttrs == [val |-> TRUE] @@ Leaf

(* An absent branch holds.                                                 *)
IteAttrs(c, t, f) ==
    LET taken == IF c.val THEN t ELSE f
    IN  [val |-> taken.val, err |-> c.err \/ taken.err] @@ Shape(<<c, t, f>>)

RECURSIVE Attrs(_, _, _)
Attrs(t, k, tr) ==
    LET as == IF IsLeaf(t) THEN <<>> ELSE [i \in DOMAIN t.args |-> Attrs(t.args[i], k, tr)]
    IN  CASE t.op = "const" -> ConstAttrs(t.val)
          [] t.op = "lconst" -> LabelledAttrs(t.val)
          [] t.op = "reg" -> RegAttrs(t, k, tr)
          [] t.op = "vec" -> VecAttrs(t.args, as)
          [] t.op = "add" -> AddAttrs(as)
          [] t.op = "sub" -> SubAttrs(as)
          [] t.op = "mul" -> MulAttrs(as)
          [] t.op = "exp" -> ExpAttrs(as[1], t.n)
          [] t.op = "norm" -> NormAttrs(as[1])
          [] t.op = "cast" -> CastAttrs(as[1], t.n)
          [] t.op = "if" -> IfZeroAttrs(as[1], as[2], as[3])
          [] t.op = "eq" -> EqualAttrs(as[1], as[2])
          [] t.op = "ne" -> NotEqualAttrs(as[1], as[2])
          [] t.op = "and" -> ConjunctAttrs(as)
          [] t.op = "or" -> DisjunctAttrs(as)
          [] t.op = "not" -> NegateAttrs(as[1])
          [] t.op = "nil" -> NilAttrs
          [] t.op = "ite" -> IteAttrs(as[1], as[2], as[3])

UnsafeAccess(r) == r.width # r.mask

(* Whether evaluation could fail at runtime: on a cast, or an access that  *)
(* uses only some bits of its register.                                    *)
RECURSIVE IsUnsafe(_)
IsUnsafe(t) ==
    CASE t.op = "cast" -> TRUE
      [] t.op = "reg" -> UnsafeAccess(t)
      [] t.op # "reg" /\ IsLeaf(t) -> FALSE
      [] OTHER -> \E i \in DOMAIN t.args : IsUnsafe(t.args[i])
-----------------------------------------------------------------------------
(* Transformations.                                                        *)

RECURSIVE ApplyShift(_, _)
ApplyShift(t, s) ==
    CASE t.op = "reg" -> [t EXCEPT !.shift = t.shift + s]
      [] t.op # "reg" /\ IsLeaf(t) -> t
      [] OTHER -> [t EXCEPT !.args = [i \in DOMAIN t.args |-> ApplyShift(t.args[i], s)]]

(* The labelled constants of the mapping get new values.                   *)
RECURSIVE Substitute(_, _)
Substitute(t, mapping) ==
    CASE t.op = "lconst" /\ t.label \in DOMAIN mapping -> [t EXCEPT !.val = mapping[t.label]]
      [] t.op = "lconst" /\ t.label \notin DOMAIN mapping -> t
      [] t.op # "lconst" /\ IsLeaf(t) -> t
      [] OTHER -> [t EXCEPT !.args = [i \in DOMAIN t.args |-> Substitute(t.args[i], mapping)]]

(* An absent branch holds, so its negation is false.                       *)
NegateBranch(b, negated) == IF b = Nil THEN Falsehood ELSE negated

Group(op, ts) == IF Len(ts) = 1 THEN ts[1] ELSE Term(op, ts)

RECURSIVE Negate(_)
Negate(t) ==
    CASE t.op = "eq" -> [t EXCEPT !.op = "ne"]
      [] t.op = "ne" -> [t EXCEPT !.op = "eq"]
      [] t.op = "and" -> Group("or", [i \in DOMAIN t.args |-> Negate(t.args[i])])
      [] t.op = "or" -> Group("and", [i \in DOMAIN t.args |-> Negate(t.args[i])])
      [] t.op = "not" -> t.args[1]
      [] t.op = "ite" -> Term("ite", <<t.args[1],
                                       NegateBranch(t.args[2], Negate(t.args[2])),
                                       NegateBranch(t.args[3], Negate(t.args[3]))>>)
      [] t.op = "nil" -> Nil

(* Nested terms of kind op become arguments of the term around them.       *)
FlattenOp(op, ts) ==
    FlattenSeq([i \in DOMAIN ts |-> IF ts[i].op = op THEN ts[i].args ELSE <<ts[i]>>])

Without(ts, Test(_)) == SelectSeq(ts, LAMBDA t : ~Test(t))

Some(ts, Test(_)) == \E i \in DOMAIN ts : Test(ts[i])

(* The value takes the place of the first constant, the others go.         *)
MergeConstants(v, ts) ==
    LET first == First(ts, IsConst)
    IN  FlattenSeq([i \in DOMAIN ts |->
            IF ~IsConst(ts[i]) THEN <<ts[i]>> ELSE IF i = first THEN <<Const(v)>> ELSE <<>>])

(* Constants among simplified terms are combined into one.                 *)
SimplifyTerms(ts, Op(_, _), unit) ==
    MergeConstants(FoldLeft(LAMBDA v, t : IF IsConst(t) THEN Op(v, t.val) ELSE v, unit, ts), ts)

Collapse(op, ts, unit) ==
    CASE Len(ts) = 0 -> Const(unit)
      [] Len(ts) = 1 -> ts[1]
      [] OTHER -> Term(op, ts)

SimplifySum(ts) ==
    Collapse("add", Without(FlattenOp("add", SimplifyTerms(ts, LAMBDA x, y : (x + y) % P, 0)),
                            IsZero), 0)

(* A faulty difference: constants are subtracted whatever their order.     *)
SimplifySubAlways(ts) ==
    LET l == ts[1]
        r == SimplifySum(Tail(ts))
    IN  CASE IsZero(r) -> l
          [] ~IsZero(r) /\ IsConst(l) /\ IsConst(r) -> Const(IF l.val >= r.val THEN l.val - r.val ELSE 0)
          [] ~IsZero(r) /\ r.op = "add" -> Term("sub", <<l>> \o r.args)
          [] OTHER -> Term("sub", <<l, r>>)

(* a - b - c is taken as a - (b + c).                                      *)
SimplifySub(ts) ==
    LET l == ts[1]
        r == SimplifySum(Tail(ts))
        c == IF r.op = "add" THEN First(r.args, IsConst) ELSE 0
        all == <<l>> \o r.args
    IN  CASE IsZero(r) -> l
          [] ~IsZero(r) /\ IsConst(l) /\ IsConst(r) /\ l.val >= r.val -> Const(l.val - r.val)
          [] IsConst(l) /\ r.op = "add" ->
               Term("sub", IF c # 0 /\ l.val >= r.args[c].val
                           THEN MergeConstants(l.val - r.args[c].val, all) ELSE all)
          [] ~IsConst(l) /\ r.op = "add" -> Term("sub", all)
          [] OTHER -> Term("sub", <<l, r>>)

SimplifyMul(ts) ==
    LET flat == FlattenOp("mul", SimplifyTerms(ts, LAMBDA x, y : (x * y) % P, 1))
    IN  IF Some(flat, IsZero) THEN Const(0) ELSE Collapse("mul", Without(flat, IsOne), 1)

SimplifyExp(a, n) == IF IsConst(a) THEN Const(Pow(a.val, n)) ELSE WithNumber("exp", a, n)

SimplifyNorm(a) == IF IsConst(a) THEN Const(NormOf(a.val)) ELSE Term("norm", <<a>>)

SimplifyCast(a, n, casts) ==
    CASE IsConst(a) -> IF a.val < 2^n THEN a ELSE Panic
      [] ~IsConst(a) /\ casts -> WithNumber("cast", a, n)
      [] OTHER -> a

SimplifyIf(c, t, f) ==
    CASE c = Truth -> t
      [] c = Falsehood -> f
      [] OTHER -> Term("if", <<c, t, f>>)

SimplifyEqual(l, r) ==
    IF IsConst(l) /\ IsConst(r) THEN (IF l.val = r.val THEN Truth ELSE Falsehood)
    ELSE Term("eq", <<l, r>>)

SimplifyNotEqual(l, r) ==
    IF IsConst(l) /\ IsConst(r) THEN (IF l.val = r.val THEN Falsehood ELSE Truth)
    ELSE Term("ne", <<l, r>>)

SimplifyConjunct(ts) ==
    LET flat == FlattenOp("and", ts)
    IN  IF Some(flat, LAMBDA t : t = Falsehood) THEN Falsehood
        ELSE Group("and", Without(flat, LAMBDA t : t = Truth))

SimplifyDisjunct(ts) ==
    LET flat == FlattenOp("or", ts)
    IN  IF Some(flat, LAMBDA t : t = Truth) THEN Truth
        ELSE Group("or", Without(flat, LAMBDA t : t = Falsehood))

(* A branch that always holds is dropped.                                  *)
Droppable(b) == IF b = Truth THEN Nil ELSE b

(* The condition of a conditional is simplified first: a branch that is    *)
(* never taken is not looked at.                                           *)
RECURSIVE Simplify(_, _)
SimplifyIte(c, t, f, casts) ==
    LET taken(b) == IF b = Nil THEN Truth ELSE Simplify(b, casts)
        tb == IF t = Nil THEN Nil ELSE Droppable(Simplify(t, casts))
        fb == IF f = Nil THEN Nil ELSE Droppable(Simplify(f, casts))
    IN  CASE c = Panic -> Panic
          [] c = Truth -> taken(t)
          [] c = Falsehood -> taken(f)
          [] OTHER ->
               CASE Panic \in {tb, fb} -> Panic
                 [] tb = Nil /\ fb = Nil -> Truth
                 [] tb = Nil /\ fb = Falsehood -> c
                 [] fb = Nil /\ tb = Falsehood -> Simplify(Negate(c), casts)
                 [] OTHER -> Term("ite", <<c, tb, fb>>)

Simplify(t, casts) ==
    CASE IsLeaf(t) \/ t.op = "vec" -> t
      [] t.op = "not" -> Simplify(Negate(t.args[1]), casts)
      [] t.op = "ite" -> SimplifyIte(Simplify(t.args[1], casts), t.args[2], t.args[3], casts)
      [] OTHER ->
           LET ts == [i \in DOMAIN t.args |-> Simplify(t.args[i], casts)]
           IN  CASE Some(ts, LAMBDA x : x = Panic) -> Panic
                 [] OTHER ->
                      CASE t.op = "add" -> SimplifySum(ts)
                        [] t.op = "sub" -> SimplifySub(ts)
                        [] t.op = "mul" -> SimplifyMul(ts)
                        [] t.op = "exp" -> SimplifyExp(ts[1], t.n)
                        [] t.op = "norm" -> SimplifyNorm(ts[1])
                        [] t.op = "cast" -> SimplifyCast(ts[1], t.n, casts)
                        [] t.op = "if" -> SimplifyIf(ts[1], ts[2], ts[3])
                        [] t.op = "eq" -> SimplifyEqual(ts[1], ts[2])
                        [] t.op = "ne" -> SimplifyNotEqual(ts[1], ts[2])
                        [] t.op = "and" -> SimplifyConjunct(ts)
                        [] t.op = "or" -> SimplifyDisjunct(ts)
-----------------------------------------------------------------------------
(* Constructors, which normalise what they build, and the translations     *)
(* that rebuild a term with them.                                          *)

Sum(ts) == Collapse("add", Without(FlattenOp("add", ts), IsZero), 0)

Subtract(ts) ==
    Collapse("sub", <<ts[1]>> \o Without(Tail(ts), IsZero), 0)

Product(ts) ==
    LET flat == Without(FlattenOp("mul", ts), IsOne)
    IN  IF Some(flat, IsZero) THEN Const(0) ELSE Collapse("mul", flat, 1)

Rebuild(t, ts) ==
    CASE t.op = "add" -> Sum(ts)
      [] t.op = "sub" -> Subtract(ts)
      [] t.op = "mul" -> Product(ts)
      [] t.op \in {"and", "or"} -> Group(t.op, ts)
      [] OTHER -> [t EXCEPT !.args = ts]

(* A term of a constraint as a computation that fills a register.          *)
RECURSIVE NewComputation(_)
NewComputation(t) ==
    IF IsLeaf(t) \/ t.op = "vec" THEN t
    ELSE Rebuild(t, [i \in DOMAIN t.args |-> NewComputation(t.args[i])])

(* The limbs (the least significant first) that hold the bits an access    *)
(* uses, each masked to the bits it still has to provide.                  *)
SubdivideAccess(r, limbs) ==
    LET below(i) == Total(SubSeq(limbs, 1, i - 1), LAMBDA l : l.width)
        wanted(i) == IF r.mask > below(i) THEN Min({limbs[i].width, r.mask - below(i)}) ELSE 0
        used == SelectSeq([i \in DOMAIN limbs |-> i], LAMBDA i : wanted(i) > 0)
    IN  [j \in DOMAIN used |->
            Mask(RawRegisterAccess(limbs[used[j]].reg, limbs[used[j]].width, r.shift), wanted(used[j]))]

SubdivideRegAccesses(rs, mapping) == 
    Group("vec", FlattenSeq([i \in DOMAIN rs |-> SubdivideAccess(rs[i], mapping[rs[i].reg])]))

(* A term over registers as one over their limbs.                          *)
RECURSIVE Subdivide(_, _)
Subdivide(t, mapping) ==
    CASE t.op = "reg" -> SubdivideRegAccesses(<<t>>, mapping)
      [] t.op = "vec" -> SubdivideRegAccesses(t.args, mapping)
      [] t.op # "reg" /\ IsLeaf(t) -> t
      [] OTHER -> Rebuild(t, [i \in DOMAIN t.args |-> Subdivide(t.args[i], mapping)])
-----------------------------------------------------------------------------
(* What the constraints of a schema accept.  A trace maps every module to  *)
(* a record [height, cols], cols a trace of its registers as above;        *)
(* rows are counted from 0.  A constraint is a record whose kind is one of *)
(* "vanishing", "assertion", "range", "lookup", "permutation", "sorted"    *)
(* and "interleaving".                                                     *)
(*                                                                         *)
(* The outcome of checking a constraint is [fail, module, row, terms]:     *)
(* fail is "none", "fails" or "error" (an evaluation that failed), and the *)
(* rest says where, with the terms that are evaluated there.               *)

None == -1000          \* an empty option

Accepted == [fail |-> "none", module |-> "", row |-> 0, terms |-> <<>>]
Rejected(kind, m, k, ts) == [fail |-> kind, module |-> m, row |-> k, terms |-> ts]

EvalAt(t, k, mod) == Attrs(t, k + 1, mod.cols)

(* The outcome at the first row of a range that is not accepted.           *)
FirstRejected(rows, Check(_)) ==
    LET bad == {k \in rows : Check(k).fail # "none"}
    IN  IF bad = {} THEN Accepted ELSE Check(Min(bad))

BoundsOf(ts, mod) ==
    LET Covering(as) == [start |-> Max({0} \union {a.start : a \in as}), end |-> Max({0} \union {a.end : a \in as})]
    IN  Covering({EvalAt(ts[i], 0, mod) : i \in DOMAIN ts})

(* Rows between the bounds, none when the trace is too short.              *)
InBounds(b, height) == {k \in 0..(height - 1) : b.end < height /\ b.start <= k /\ k < height - b.end}
-----------------------------------------------------------------------------
(* A formula tested on a row.                                              *)
HoldsLocally(t, k, m, mod) ==
    LET Outcome(a) == CASE a.err -> Rejected("error", m, k, <<t>>)
                        [] ~a.err /\ ~a.val -> Rejected("fails", m, k, <<t>>)
                        [] OTHER -> Accepted
    IN  Outcome(EvalAt(t, k, mod))

(* A faulty range of rows: the last rows in bounds are left out.           *)
HoldsGloballyShort(t, m, mod) ==
    LET b == BoundsOf(<<t>>, mod)
    IN  FirstRejected(InBounds([b EXCEPT !.end = Max({b.start, b.end})], mod.height),
                      LAMBDA k : HoldsLocally(t, k, m, mod))

HoldsGlobally(t, m, mod) ==
    FirstRejected(InBounds(BoundsOf(<<t>>, mod), mod.height), LAMBDA k : HoldsLocally(t, k, m, mod))

(* A local constraint is tested on its row, counted from the end when it   *)
(* is negative, whether or not the module has it.                          *)
VanishingAccepts(c, tr) ==
    LET mod == tr[c.module]
        row == IF c.domain < 0 THEN mod.height + c.domain ELSE c.domain
    IN  IF c.domain = None THEN HoldsGlobally(c.term, c.module, mod)
        ELSE HoldsLocally(c.term, row, c.module, mod)

(* The row of an assertion is converted to an unsigned integer: a negative *)
(* one starts an empty range.                                              *)
AssertionAccepts(c, tr) ==
    LET mod == tr[c.module]
        row == IF c.domain < 0 THEN mod.height + c.domain ELSE c.domain
    IN  CASE c.domain = None -> HoldsGlobally(c.term, c.module, mod)
          [] c.domain # None /\ row < 0 -> Accepted
          [] OTHER -> HoldsLocally(c.term, row, c.module, mod)

(* Every row, whatever the bounds.                                         *)
RangeAccepts(c, tr) ==
    LET mod == tr[c.module]
        check(i, k, a) == CASE a.err -> Rejected("error", c.module, k, <<c.terms[i]>>)
                            [] ~a.err /\ a.val >= 2^c.widths[i] -> Rejected("fails", c.module, k, <<c.terms[i]>>)
                            [] OTHER -> Accepted
    IN  FirstRejected(DOMAIN c.terms,
            LAMBDA i : FirstRejected(0..(mod.height - 1), LAMBDA k : check(i, k, EvalAt(c.terms[i], k, mod))))
-----------------------------------------------------------------------------
(* Lookups.  A vector is a record [module, selector, terms].  The rows of  *)
(* the targets go into a hash set of arrays; a single buffer is evaluated  *)
(* into, and given to the set when it is inserted.  The state of a check   *)
(* is [mem, buffer, rows, out]: the arrays in memory, the index of the     *)
(* buffer, the indices in the set and the outcome so far.                  *)

(* All rows of some vectors, in the order they are visited.                *)
RowsOf(vectors, tr) ==
    FlattenSeq([i \in DOMAIN vectors |->
        [k \in 1..tr[vectors[i].module].height |-> [vec |-> vectors[i], row |-> k - 1]]])

Selected(v, k, mod) == v.selector = Nil \/ EvalAt(v.selector, k, mod).val # 0

SelectorFails(v, k, mod) == v.selector # Nil /\ EvalAt(v.selector, k, mod).err

(* The buffer takes the values up to the first that fails.                 *)
EvalExprsArray(st, v, k, mod) ==
    LET old == st.mem[st.buffer]
        Written(as, stop) ==
            [st EXCEPT !.mem[st.buffer] =
                           [i \in DOMAIN v.terms |-> IF stop = 0 \/ i <= stop THEN as[i].val ELSE old[i]],
                       !.out = IF stop = 0 THEN Accepted
                               ELSE Rejected("error", v.module, k, <<v.terms[stop]>>)]
        Evaluated(as) == Written(as, First(as, LAMBDA a : a.err))
    IN  Evaluated([i \in DOMAIN v.terms |-> EvalAt(v.terms[i], k, mod)])

Contained(st) == \E i \in st.rows : st.mem[i] = st.mem[st.buffer]

(* Once the set has taken the buffer, a copy of it becomes the buffer.     *)
InsertTargetVector(st, v, k, mod) ==
    LET Insert(ev) ==
            IF ev.out.fail # "none" \/ Contained(ev) THEN ev
            ELSE [ev EXCEPT !.rows = ev.rows \union {ev.buffer},
                            !.mem = Append(ev.mem, ev.mem[ev.buffer]),
                            !.buffer = Len(ev.mem) + 1]
    IN  Insert(EvalExprsArray(st, v, k, mod))

CheckSourceVector(st, v, k, mod) ==
    LET Check(ev) ==
            IF ev.out.fail # "none" \/ Contained(ev) THEN ev
            ELSE [ev EXCEPT !.out = Rejected("fails", v.module, k, v.terms)]
    IN  Check(EvalExprsArray(st, v, k, mod))

Filtered(st, v, k, mod, Visit(_, _, _, _)) ==
    CASE st.out.fail # "none" -> st
      [] st.out.fail = "none" /\ SelectorFails(v, k, mod) ->
           [st EXCEPT !.out = Rejected("error", v.module, k, <<v.selector>>)]
      [] OTHER -> IF Selected(v, k, mod) THEN Visit(st, v, k, mod) ELSE st

VisitRows(st, vectors, tr, Visit(_, _, _, _)) ==
    FoldLeft(LAMBDA s, r : Filtered(s, r.vec, r.row, tr[r.vec.module], Visit), st, RowsOf(vectors, tr))

LookupAccepts(c, tr) ==
    LET width == Len(c.sources[1].terms)
        start == [mem |-> <<[i \in 1..width |-> 0]>>, buffer |-> 1, rows |-> {}, out |-> Accepted]
    IN  VisitRows(VisitRows(start, c.targets, tr, InsertTargetVector), c.sources, tr, CheckSourceVector).out
-----------------------------------------------------------------------------
(* Permutations: the rows of both sides, sorted, are compared column by    *)
(* column.                                                                 *)
RowOf(regs, k, mod) == [i \in DOMAIN regs |-> mod.cols[regs[i]].data[k + 1]]

LexLess(a, b) ==
    \E i \in DOMAIN a : a[i] < b[i] /\ \A j \in 1..(i - 1) : a[j] = b[j]

SortRows(regs, mod) ==
    SortSeq([k \in 1..mod.height |-> RowOf(regs, k - 1, mod)], LexLess)

PermutationAccepts(c, tr) ==
    LET mod == tr[c.module]
    IN  IF SortRows(c.targets, mod) = SortRows(c.sources, mod) THEN Accepted
        ELSE Rejected("fails", c.module, 0, <<>>)
-----------------------------------------------------------------------------
(* Two rows are in order by the first column in which they differ; the     *)
(* difference there is bounded.  Equal rows are, unless the order is       *)
(* strict.                                                                 *)
SortedRows(c, a, b) ==
    LET differs == {i \in DOMAIN c.signs : a[i].val # b[i].val}
        i == Min(differs)
        delta == IF a[i].val > b[i].val THEN a[i].val - b[i].val ELSE b[i].val - a[i].val
    IN  IF differs = {} THEN ~c.strict ELSE delta < 2^c.width /\ c.signs[i] = (a[i].val < b[i].val)

(* A row and the one before it, a and b their values and s the selector's. *)
CheckNeighbours(c, k, s, a, b) ==
    CASE c.selector # Nil /\ s.err -> Rejected("error", c.module, k, <<c.selector>>)
      [] c.selector # Nil /\ ~s.err /\ s.val = 0 -> Accepted
      [] OTHER -> IF Failed(a) \/ Failed(b) THEN Rejected("error", c.module, k, <<>>)
                  ELSE IF SortedRows(c, a, b) THEN Accepted
                  ELSE Rejected("fails", c.module, k, <<>>)

ValuesAt(ts, k, mod) == [i \in DOMAIN ts |-> EvalAt(ts[i], k, mod)]

(* The bounds are those of the sources; the selector decides per row.      *)
SortedAccepts(c, tr) ==
    LET mod == tr[c.module]
        AfterFirst(b) == InBounds([b EXCEPT !.start = b.start + 1], mod.height)
    IN  FirstRejected(AfterFirst(BoundsOf(c.terms, mod)),
            LAMBDA k : CheckNeighbours(c, k, EvalAt(c.selector, k, mod), ValuesAt(c.terms, k - 1, mod), ValuesAt(c.terms, k, mod)))
-----------------------------------------------------------------------------
(* The source row that a target row repeats.                               *)
SourceOf(c, k, tr) ==
    [term |-> c.terms[(k % Len(c.terms)) + 1], row |-> k \div Len(c.terms)]

InterleavingAccepts(c, tr) ==
    LET check(k, src, t, s) ==
            CASE t.err -> Rejected("error", c.module, k, <<c.target>>)
              [] ~t.err /\ s.err -> Rejected("error", c.source, src.row, <<src.term>>)
              [] ~t.err /\ ~s.err /\ t.val # s.val -> Rejected("fails", c.module, k, <<c.target>>)
              [] OTHER -> Accepted
    IN  FirstRejected(0..(tr[c.module].height - 1),
            LAMBDA k : check(k, SourceOf(c, k, tr), EvalAt(c.target, k, tr[c.module]),
                             EvalAt(SourceOf(c, k, tr).term, SourceOf(c, k, tr).row, tr[c.source])))
-----------------------------------------------------------------------------
AcceptsConstraint(c, tr) ==
    CASE c.kind = "vanishing" -> VanishingAccepts(c, tr)
      [] c.kind = "assertion" -> AssertionAccepts(c, tr)
      [] c.kind = "range" -> RangeAccepts(c, tr)
      [] c.kind = "lookup" -> LookupAccepts(c, tr)
      [] c.kind = "permutation" -> PermutationAccepts(c, tr)
      [] c.kind = "sorted" -> SortedAccepts(c, tr)
      [] c.kind = "interleaving" -> InterleavingAccepts(c, tr)

(* The cells that a report of the failure shows.                           *)
FailureCells(f, tr) ==
    UNION {EvalAt(f.terms[i], f.row, tr[f.module]).cells : i \in DOMAIN f.terms}
=============================================================================
