------------------------------ MODULE Intervals ------------------------------
(***************************************************************************)
(* Intervals of integers whose bounds may be infinite, as used to infer    *)
(* the range of values of a term.  A bound is a record [sign, val]: sign 0 *)
(* for the integer val, 1 for minus, 2 for plus infinity and 3 for an      *)
(* infinity of unknown sign.                                               *)
(***************************************************************************)
EXTENDS Integers

Finite(v) == [sign |-> 0, val |-> v]
NegInfinity == [sign |-> 1, val |-> 0]
PosInfinity == [sign |-> 2, val |-> 0]
AnyInfinity == [sign |-> 3, val |-> 0]

BothFinite(p, o) == p.sign = 0 /\ o.sign = 0

InfAdd(p, o) ==
    CASE BothFinite(p, o) -> Finite(p.val + o.val)
      [] ~BothFinite(p, o) /\ p.sign = o.sign -> p
      [] OTHER -> AnyInfinity

InfNegate(p) ==
    CASE p.sign = 2 -> NegInfinity
      [] p.sign = 1 -> PosInfinity
      [] p.sign = 3 -> AnyInfinity
      [] p.sign = 0 -> Finite(-p.val)

InfMul(p, o) ==
    CASE 3 \in {p.sign, o.sign} -> AnyInfinity
      [] p.sign = 1 /\ o.sign = 1 -> PosInfinity
      [] {p.sign, o.sign} \in {{0, 1}, {1, 2}} -> NegInfinity
      [] {p.sign, o.sign} \in {{0, 2}, {2}} -> PosInfinity
      [] BothFinite(p, o) -> Finite(p.val * o.val)

InfMin(p, o) ==
    CASE BothFinite(p, o) -> IF p.val <= o.val THEN p ELSE o
      [] p.sign = 2 /\ o.sign = 2 -> PosInfinity
      [] OTHER -> NegInfinity

InfMax(p, o) ==
    CASE BothFinite(p, o) -> IF p.val >= o.val THEN p ELSE o
      [] p.sign = 1 /\ o.sign = 1 -> NegInfinity
      [] OTHER -> PosInfinity

InfLessEq(p, o) ==
    \/ BothFinite(p, o) /\ p.val <= o.val
    \/ p.sign = 1 \/ o.sign = 2

INFINITY == [min |-> NegInfinity, max |-> PosInfinity]

NewInterval(a, b) == [min |-> Finite(a), max |-> Finite(b)]

IntervalContains(p, v) == InfLessEq(p.min, Finite(v)) /\ InfLessEq(Finite(v), p.max)

Within(p, q) == InfLessEq(q.min, p.min) /\ InfLessEq(p.max, q.max)

Union(p, q) == [min |-> InfMin(p.min, q.min), max |-> InfMax(p.max, q.max)]

(* A bound of unknown sign becomes the widest one.                         *)
Normalise(p) == [min |-> IF p.min.sign = 3 THEN NegInfinity ELSE p.min,
                 max |-> IF p.max.sign = 3 THEN PosInfinity ELSE p.max]

IntervalAdd(p, q) == Normalise([min |-> InfAdd(p.min, q.min), max |-> InfAdd(p.max, q.max)])

IntervalSub(p, q) ==
    Normalise([min |-> InfAdd(p.min, InfNegate(q.max)), max |-> InfAdd(p.max, InfNegate(q.min))])

IntervalMul(p, q) ==
    LET x1 == InfMul(p.min, q.min)
        x2 == InfMul(p.min, q.max)
        x3 == InfMul(p.max, q.min)
        x4 == InfMul(p.max, q.max)
    IN  [min |-> InfMin(InfMin(x1, x2), InfMin(x3, x4)),
         max |-> InfMax(InfMax(x1, x2), InfMax(x3, x4))]

(* The interval is multiplied by itself pow - 1 times, and left as it is   *)
(* when pow is zero.                                                       *)
IntervalExp(p, pow) ==
    LET power[i \in 0..pow] == IF i <= 1 THEN p ELSE IntervalMul(power[i - 1], p)
    IN  power[pow]

(* What b bits hold.                                                       *)
ValueRangeOfBits(b) == NewInterval(0, 2^b - 1)
=============================================================================
