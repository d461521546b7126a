---------------------------- MODULE Polynomials ----------------------------
(***************************************************************************)
(* Polynomials with integer coefficients over registers (pkg/util/poly and *)
(* pkg/schema/agnostic/polynomial.go).  A monomial's variables are a bag   *)
(* of registers, the sorted array of the code; a polynomial maps the       *)
(* variables of each of its terms to a coefficient that is not zero.  A    *)
(* variable is any value; w gives the width in bits of each.               *)
(***************************************************************************)
EXTENDS Integers, Sequences, Bags, TLC, FiniteSetsExt, Intervals

ZeroPoly == <<>>

Coefficient(p, v) == IF v \in DOMAIN p THEN p[v] ELSE 0

(* Term(c, vars): the polynomial of one monomial; none when c is zero.     *)
Term(c, vars) == IF c = 0 THEN ZeroPoly ELSE vars :> c
Const(c) == Term(c, EmptyBag)
Variable(x) == Term(1, x :> 1)

AddTerm(p, v, c) ==
    LET sum == Coefficient(p, v) + c
    IN  IF sum = 0 THEN [u \in DOMAIN p \ {v} |-> p[u]] @@ ZeroPoly ELSE (v :> sum) @@ p

SubTerm(p, v, c) == AddTerm(p, v, -c)

PolyAdd(p, q) == FoldSet(LAMBDA v, acc : AddTerm(acc, v, q[v]), p, DOMAIN q)
PolySub(p, q) == FoldSet(LAMBDA v, acc : SubTerm(acc, v, q[v]), p, DOMAIN q)
Negate(p) == [v \in DOMAIN p |-> -p[v]] @@ ZeroPoly

(* Every term of one with every term of the other.                         *)
PolyMul(p, q) ==
    FoldSet(LAMBDA uv, acc : AddTerm(acc, uv[1] (+) uv[2], p[uv[1]] * q[uv[2]]),
            ZeroPoly, (DOMAIN p) \X (DOMAIN q))

(* The terms of p as they are, by their variables, with coefficient c(v).  *)
Terms(p, c) == [v \in {u \in DOMAIN p : c[u] # 0} |-> c[v]] @@ ZeroPoly

Signed(p) == \E v \in DOMAIN p : p[v] < 0

AbsVal(n) == IF n < 0 THEN -n ELSE n

(* Divides by 2^n, coefficient by coefficient and by magnitude: quotient   *)
(* and remainder keep the sign of the coefficient.                         *)
Shr(p, n) ==
    LET sign == [v \in DOMAIN p |-> IF p[v] < 0 THEN -1 ELSE 1]
    IN  [quot |-> Terms(p, [v \in DOMAIN p |-> sign[v] * (AbsVal(p[v]) \div 2^n)]),
         rem |-> Terms(p, [v \in DOMAIN p |-> sign[v] * (AbsVal(p[v]) % 2^n)])]

EvalTerm(v, c, env) == FoldSet(LAMBDA x, acc : acc * env[x]^v[x], c, DOMAIN v)
Eval(p, env) == FoldSet(LAMBDA v, acc : acc + EvalTerm(v, p[v], env), 0, DOMAIN p)

RegistersRead(p) == UNION {DOMAIN v : v \in DOMAIN p}
-----------------------------------------------------------------------------
(* Substitution.  sub maps some of the variables to a polynomial.          *)

SubstituteMonomial(v, c, sub) ==
    FoldSet(LAMBDA x, acc :
                LET q == IF x \in DOMAIN sub THEN sub[x] ELSE Variable(x)
                IN  FoldSet(LAMBDA k, a : PolyMul(a, q), acc, 1..v[x]),
            Const(c), DOMAIN v)

Substitute(p, sub) ==
    FoldSet(LAMBDA v, acc : PolyAdd(acc, SubstituteMonomial(v, p[v], sub)), ZeroPoly, DOMAIN p)

(* The bits of each limb that the low bits of a register use.              *)
LimbMasks(bitwidth, widths) ==
    [i \in DOMAIN widths |->
        Max({0, Min({widths[i], bitwidth - SumFunctionOnSet(widths, 1..(i - 1))})})]

(* The value that limbs make up, the least significant first; a limb of    *)
(* which no bit is used takes no part.                                     *)
LimbPolynomial(limbs, masks) ==
    FoldSet(LAMBDA i, acc :
                IF masks[i] = 0 THEN acc
                ELSE PolyAdd(acc, Term(2^SumFunctionOnSet(masks, 1..(i - 1)), limbs[i] :> 1)),
            ZeroPoly, DOMAIN limbs)
-----------------------------------------------------------------------------
(* The range of a polynomial, and the bits that hold it.                   *)

BitLen(n) == CHOOSE k \in 0..30 : AbsVal(n) < 2^k /\ (k = 0 \/ AbsVal(n) >= 2^(k - 1))

IntegerRangeOfRegister(x, w) == NewInterval(0, 2^w[x] - 1)

IntegerRangeOfMonomial(v, c, w) ==
    FoldSet(LAMBDA x, acc :
                FoldSet(LAMBDA k, a : IntervalMul(a, IntegerRangeOfRegister(x, w)), acc, 1..v[x]),
            NewInterval(c, c), DOMAIN v)

IntegerRangeOfPolynomial(p, w) ==
    FoldSet(LAMBDA v, acc : IntervalAdd(acc, IntegerRangeOfMonomial(v, p[v], w)),
            NewInterval(0, 0), DOMAIN p)

(* One more value fits below zero than above.                              *)
BitsOfRange(r) ==
    LET signed == r.min.val < 0
        upper == BitLen(r.max.val)
    IN  [bits |-> IF signed THEN Max({BitLen(r.min.val + 1), upper}) ELSE upper,
         signed |-> signed]

RawWidthOfPolynomial(p, w) == BitsOfRange(IntegerRangeOfPolynomial(p, w))
WidthOfMonomial(v, c, w) == BitsOfRange(IntegerRangeOfMonomial(v, c, w))

WidthOfPolynomial(p, w) ==
    LET raw == RawWidthOfPolynomial(p, w)
    IN  [raw EXCEPT !.bits = raw.bits + (IF raw.signed THEN 1 ELSE 0)]
=============================================================================
